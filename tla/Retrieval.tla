----------------------------- MODULE Retrieval ------------------------------
(***************************************************************************)
(* The SQL of one data query and the assembly of its results:              *)
(* engine/retriever.py and engine/transformer.py.                          *)
(*                                                                         *)
(* A fact is a record [domain, scn, month, cc, acc, amt, commit].  A query *)
(* is one of ReportPlan's.  Results are keyed by the values of the         *)
(* dimensions, with RolledUp for one that is aggregated away.  A quantity  *)
(* is a fraction <<n, d>>; a denominator of zero is SQL's NULL and         *)
(* Python's None, which arithmetic on fractions carries along.             *)
(***************************************************************************)
EXTENDS ReportPlan

CONSTANTS
  \* The master table of cost centres: member -> its division.
  DivisionOf,
  \* Commits in the order they were made.
  CommitOrder,
  RolledUp

Null  == <<0, 0>>
Whole(n) == <<n, 1>>

Size(n) == IF n < 0 THEN -n ELSE n

gcd[a \in Nat, b \in Nat] == IF b = 0 THEN a ELSE gcd[b, a % b]

\* In lowest terms, so that equal quantities are equal values.
Fraction(n, d) ==
  IF d = 0 THEN Null
  ELSE LET by == gcd[Size(n), Size(d)]
       IN  <<(IF d < 0 THEN -n ELSE n) \div by, Size(d) \div by>>

Minus(x, y) == Fraction(x[1] * y[2] - y[1] * x[2], x[2] * y[2])
Plus(x, y)  == Fraction(x[1] * y[2] + y[1] * x[2], x[2] * y[2])
Magnitude(x) == <<Size(x[1]), x[2]>>
Percent(x)   == Fraction(100 * x[1], x[2])
Over(x, y) ==
  IF y[1] = 0 THEN Null ELSE Fraction(x[1] * y[2], x[2] * y[1])

-----------------------------------------------------------------------------
(* WHERE *)

\* A filter holds the leaves of a column; no leaves match no row.
Passes(fact, filters) ==
  "cost_centre" \in DOMAIN filters => fact.cc \in filters["cost_centre"]

UpToCommit(commit) ==
  {CommitOrder[i] : i \in {j \in DOMAIN CommitOrder :
                             \E k \in DOMAIN CommitOrder : CommitOrder[k] = commit /\ j <= k}}

\* The first of these modifiers decides; without one, what is committed.
Precedence == <<"uncommitted_delta", "uncommitted", "commit_delta", "commit">>

CommitAllowed(fact, mods) ==
  LET given == {i \in DOMAIN Precedence : Precedence[i] \in DOMAIN mods}
      first == Precedence[CHOOSE i \in given : \A j \in given : i <= j]
  IN  IF given = {} THEN fact.commit # "uncommitted"
      ELSE CASE first = "uncommitted_delta" -> fact.commit = "uncommitted"
             [] first = "uncommitted"       -> TRUE
             [] first = "commit_delta"      -> fact.commit = mods["commit_delta"]
             [] first = "commit"            -> fact.commit \in UpToCommit(mods["commit"])

InSpan(q, month) == q.from <= month /\ month <= q.to

\* The conditions every group of metrics has, but for the months.
Source(facts, q, domain, filters) ==
  {f \in facts : /\ f.domain = domain
                 /\ f.scn = q.scn
                 /\ Passes(f, filters)
                 /\ Domains[domain].versioned => CommitAllowed(f, q.mods)}

-----------------------------------------------------------------------------
(* GROUP BY *)

Axis(fact, dim) ==
  CASE dim = "period"      -> fact.month
    [] dim = "quarter"     -> fact.month \div 3
    [] dim = "fiscal_year" -> fact.month \div 12
    [] dim = "cost_centre" -> fact.cc
    [] dim = "division"    -> DivisionOf[fact.cc]

TimeDims == {"period", "quarter", "fiscal_year"}

\* The lengths of the prefixes of the dimensions that are asked for.
GroupingSets(dims, grains) ==
  (IF grains.detail \/ dims = << >> THEN {Len(dims)} ELSE {})
    \cup (IF grains.subtotals THEN 1 .. Len(dims) - 1 ELSE {})
    \cup (IF grains.grand_total THEN {0} ELSE {})

Key(fact, dims, live) ==
  [i \in DOMAIN dims |-> IF i <= live THEN Axis(fact, dims[i]) ELSE RolledUp]

\* SUM, COUNT and SUM / COUNT(DISTINCT period) over the facts of a row.
Signed(m, amount) ==
  CASE Metrics[m].sign = "raw"    -> amount
    [] Metrics[m].sign = "abs"    -> Size(amount)
    [] Metrics[m].sign = "negate" -> -amount

Total(m, facts) ==
  MapThenSumSet(LAMBDA f : Signed(m, f.amt), {f \in facts : f.acc \in Metrics[m].accounts})

Measure(m, facts) ==
  IF Metrics[m].rollup = "avg"
  THEN Over(Whole(Total(m, facts)), Whole(Cardinality({f.month : f \in facts})))
  ELSE Whole(Total(m, facts))

-----------------------------------------------------------------------------
(* The statements of one query.  Each is a set of facts, the metrics that   *)
(* it selects and the prefixes it groups by.                                *)

SelectOf(metrics, facts, sets) ==
  [metrics |-> metrics, facts |-> facts, sets |-> sets]

GroupMetrics(base, rollup) == {m \in base : Metrics[m].rollup = rollup}

\* The last month with a fact of the scenario in each group of the time
\* dimensions; neither the filters nor the commits bear on it.
LastInGroup(facts, q, domain, dims, fact) ==
  LET group(f) == [i \in {j \in DOMAIN dims : dims[j] \in {"quarter", "fiscal_year"}} |->
                     Axis(f, dims[i])]
      months   == {f.month : f \in {g \in facts : /\ g.domain = domain /\ g.scn = q.scn
                                                  /\ InSpan(q, g.month)
                                                  /\ group(g) = group(fact)}}
  IN  \A month \in months : month <= fact.month

\* The last month of the span, whatever the rows are grouped by.
ClosingFactsAtEnd(facts, q, domain, filters, dims) ==
  {f \in Source(facts, q, domain, filters) : f.month = q.to}

ClosingFacts(facts, q, domain, filters, dims) ==
  LET rows == {f \in Source(facts, q, domain, filters) : InSpan(q, f.month)}
  IN  CASE "period" \in Range(dims) -> rows
        [] "period" \notin Range(dims) /\ Range(dims) \cap TimeDims # {} ->
             {f \in rows : LastInGroup(facts, q, domain, dims, f)}
        [] OTHER -> {f \in rows : f.month = q.to}

\* The statement that rebuilds the totals of a closing balance takes the last
\* month of the whole span, and groups by what is left of each prefix when the
\* time dimensions are gone.
AtSpanEnd(facts, q, domain, filters) ==
  {f \in Source(facts, q, domain, filters) : f.month = q.to}

KeepsTime(dims, live) == \A i \in DOMAIN dims : dims[i] \in TimeDims => i <= live

Statements(facts, q, plan, filters, request) ==
  LET dims   == request.dims
      sets   == GroupingSets(dims, request.grains)
      spread == {f \in Source(facts, q, plan.domain, filters) : InSpan(q, f.month)}
      live   == {n \in sets : KeepsTime(dims, n)}
      balance == GroupMetrics(plan.base, "closing")
      simple(rollup) ==
        IF GroupMetrics(plan.base, rollup) = {} THEN << >>
        ELSE <<SelectOf(GroupMetrics(plan.base, rollup), spread, sets)>>
  IN  simple("sum") \o simple("avg")
        \o (IF balance = {} \/ live = {} THEN << >>
            ELSE <<SelectOf(balance, ClosingFacts(facts, q, plan.domain, filters, dims), live)>>)
        \o (IF balance = {} \/ live = sets THEN << >>
            ELSE <<SelectOf(balance, AtSpanEnd(facts, q, plan.domain, filters), sets \ live)>>)

\* The key of a row of the totals: a time dimension is always rolled up.
KeyWithoutTime(fact, dims, live) ==
  [i \in DOMAIN dims |-> IF i <= live /\ dims[i] \notin TimeDims
                         THEN Axis(fact, dims[i]) ELSE RolledUp]

RowKey(fact, dims, live) ==
  IF KeepsTime(dims, live) THEN Key(fact, dims, live)
  ELSE KeyWithoutTime(fact, dims, live)
-----------------------------------------------------------------------------
(* Assembly *)

\* Without a column to group by there is one row, even when no fact matches.
OneRow(st, dims) ==
  \/ dims = << >>
  \/ \A n \in st.sets : ~KeepsTime(dims, n) /\ \A i \in 1 .. n : dims[i] \in TimeDims

\* The rows of one statement join those with the same key.
Merged(results, st, dims) ==
  LET keys    == IF OneRow(st, dims) THEN {[i \in DOMAIN dims |-> RolledUp]}
                 ELSE {RowKey(f, dims, n) : f \in st.facts, n \in st.sets}
      under(k) == {f \in st.facts : OneRow(st, dims) \/ \E n \in st.sets : RowKey(f, dims, n) = k}
      row(k)  == [m \in st.metrics |-> Measure(m, under(k))]
  IN  [k \in DOMAIN results \cup keys |->
         IF k \notin keys THEN results[k]
         ELSE IF k \notin DOMAIN results THEN row(k)
         ELSE row(k) @@ results[k]]

\* The months of a shifted scenario are named as the months they stand for.
ShiftTime(value, dim, by) ==
  CASE value = RolledUp    -> RolledUp
    [] dim = "period"      -> value + by
    [] dim = "quarter"     -> (value * 3 + by) \div 3
    [] dim = "fiscal_year" -> (value * 12 + by) \div 12
    [] OTHER               -> value

ShiftKey(key, dims, by) == [i \in DOMAIN key |-> ShiftTime(key[i], dims[i], by)]

Realigned(results, q, dims) ==
  LET keys == {ShiftKey(k, dims, -q.shift) : k \in DOMAIN results}
  IN  [k \in keys |-> results[CHOOSE old \in DOMAIN results : ShiftKey(old, dims, -q.shift) = k]]

Evaluate(m, values) ==
  LET x == values[Metrics[m].args[1]]
      y == values[Metrics[m].args[2]]
  IN  CASE Metrics[m].op = "plus"  -> Plus(x, y)
        [] Metrics[m].op = "minus" -> Minus(x, y)
        [] Metrics[m].op = "over"  -> Over(x, y)

\* compute_derived_metrics; a name without a value is an ExpressionError.
Unbound(results, plan) ==
  \E k \in DOMAIN results : \E m \in Range(plan.derived) :
    BaseOf(Operands(m)) \ DOMAIN results[k] # {}

WithDerived(values, derived) ==
  FoldLeft(LAMBDA v, m : (m :> Evaluate(m, v)) @@ v, values, derived)

\* The value of a cell, or None.
Cell(all, ref, key, m) ==
  IF ref \in DOMAIN all /\ key \in DOMAIN all[ref] /\ m \in DOMAIN all[ref][key]
  THEN all[ref][key][m] ELSE Null

\* compute_scenario: the difference at every key that any scenario has.
Compared(all, node, metrics) ==
  LET keys == UNION {DOMAIN all[ref] : ref \in DOMAIN all}
      left(k, m)  == Cell(all, Plain(node.left), k, m)
      right(k, m) == Cell(all, Plain(node.right), k, m)
      gap(k, m)   == Minus(left(k, m), right(k, m))
  IN  [k \in keys |-> [m \in metrics |->
         IF node.node = "variance" THEN gap(k, m)
         ELSE Percent(Over(gap(k, m), Magnitude(right(k, m))))]]

Transformed(raw, rows, plan) ==
  LET derived == [ref \in DOMAIN raw |->
                    [k \in DOMAIN raw[ref] |-> WithDerived(raw[ref][k], plan.derived)]]
      metrics == plan.base \cup Range(plan.derived)
  IN  [ref \in plan.computed |-> Compared(derived, ResolveKey(rows, ref.key), metrics)] @@ derived

-----------------------------------------------------------------------------
(* The rows of the answer (engine/formatter.py) *)

GrainOf(key) ==
  LET live == {i \in DOMAIN key : key[i] # RolledUp}
  IN  IF live = DOMAIN key THEN "detail" ELSE IF live = {} THEN "grand_total" ELSE "subtotal"

\* One row for each key and item; a line that hides when it is empty is left
\* out where every column is.  The columns are the blocks.
AnswerRows(all, blocks) ==
  LET keys  == UNION {DOMAIN all[ref] : ref \in {blocks[i].ref : i \in DOMAIN blocks} \cap DOMAIN all}
      shown == ItemsOf(blocks[1])
      row(k, m) == [key |-> k, item |-> m, grain |-> GrainOf(k),
                    values |-> [i \in DOMAIN blocks |-> Cell(all, blocks[i].ref, k, m)]]
      empty(r)  == \A i \in DOMAIN r.values : r.values[i][1] = 0
  IN  {r \in {row(k, m) : k \in keys, m \in shown} :
         ~(Metrics[r.item].hide_if_zero /\ empty(r))}
=============================================================================
