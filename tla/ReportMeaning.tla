--------------------------- MODULE ReportMeaning ----------------------------
(***************************************************************************)
(* What a report means, cell by cell, and that the stages of Reporting     *)
(* together give it.  A reference is read as the scenarios stood at the    *)
(* start: nothing that is added changes them.                              *)
(***************************************************************************)
EXTENDS Reporting

MeantId(ref, id) ==
  LET target == Modifiers(ref)["fork"]
  IN  IF ~Forks(ref) THEN id
      ELSE IF target # NoKey THEN target
      ELSE CHOOSE p \in Parents(Scenarios, {id}) \cup {id} :
             Parents(Scenarios, {id}) # {} => p \in Parents(Scenarios, {id})

\* A member that the caller asked for, in a report that has such members.
ReportDomain == DomainOf(Needed(Asked(request)))

AskedFor(member) ==
  "cost_centre" \in Domains[ReportDomain].dims =>
    \A dim \in DOMAIN request.filter :
      LeafOf(dim) = "cost_centre" => member \in Leaves(dim, request.filter[dim])

-----------------------------------------------------------------------------
(* The facts a reference stands for, each at the month that it stands for,  *)
(* and those of them that the caller is shown.                              *)

StandsFor(fact, shift) == [fact EXCEPT !.month = fact.month - shift]

Inside(table, id, shift) ==
  {f \in {StandsFor(g, shift) : g \in {h \in FactTables[table] : h.scn = id}} :
     request.from <= f.month /\ f.month <= request.to}

Shown(facts0, id, mods) ==
  {f \in facts0 : /\ Domains[f.domain].versioned => CommitAllowed(f, mods)
                  /\ AskedFor(f.cc) /\ MaySee(id, f.cc)}

Column(inside, id, ref) == [inside |-> inside, shown |-> Shown(inside, id, Modifiers(ref))]

ColumnOf(table, node, ref) ==
  UNION {{Column(Inside(table, id, node.shift), id, ref) : id \in {MeantId(ref, base)}} : base \in node.ids}

Columns(table) ==
  [ref \in ReadRefs(Scenarios, Refs(request)) |->
     CHOOSE c \in ColumnOf(table, ResolveKey(Scenarios, ref.key), ref) : TRUE]

-----------------------------------------------------------------------------
(* The facts of a cell, and its value                                       *)

At(fact, key, dims) ==
  \A i \in DOMAIN key : key[i] # RolledUp /\ request.dims[i] \in dims
                          => Axis(fact, request.dims[i]) = key[i]

Pinned(key) == \E i \in DOMAIN key : key[i] # RolledUp /\ request.dims[i] \in TimeDims

Latest(months) == {m \in months : \A n \in months : n <= m}

ClosingMonths(inside, key, domain) ==
  IF Pinned(key) THEN Latest({f.month : f \in {g \in inside : g.domain = domain /\ At(g, key, TimeDims)}})
  ELSE {request.to}

CellFacts(column, key, m) ==
  {f \in column.shown :
     /\ f.domain = Metrics[m].domain
     /\ At(f, key, TimeDims \cup {"cost_centre", "division"})
     /\ Metrics[m].rollup = "closing" => f.month \in ClosingMonths(column.inside, key, f.domain)}

\* No facts are no value, but zero where the answer has the one line anyway.
ZeroWhenEmpty(m, key) ==
  \/ request.dims = << >> /\ Metrics[m].rollup # "avg"
  \/ Metrics[m].rollup = "closing" /\ Range(request.dims) \subseteq TimeDims
       /\ \A i \in DOMAIN key : key[i] = RolledUp

Quantity(facts0, m, key) ==
  IF facts0 = {} /\ ~ZeroWhenEmpty(m, key) THEN Null ELSE Measure(m, facts0)

Apply(op, x, y) ==
  CASE op = "plus"  -> Plus(x, y)
    [] op = "minus" -> Minus(x, y)
    [] op = "over"  -> Over(x, y)

MeantValue(column, key, m) ==
  LET value[x \in Needed({m})] ==
        IF Metrics[x].base THEN Quantity(CellFacts(column, key, x), x, key)
        ELSE Apply(Metrics[x].op, value[Metrics[x].args[1]], value[Metrics[x].args[2]])
  IN  value[m]

Difference(kind, left, right) ==
  IF kind = "variance" THEN Minus(left, right)
  ELSE Percent(Over(Minus(left, right), Magnitude(right)))

Meant(columns, node, ref, key, m) ==
  IF Computed(node)
  THEN Difference(node.node, MeantValue(columns[Plain(node.left)], key, m),
                             MeantValue(columns[Plain(node.right)], key, m))
  ELSE MeantValue(columns[ref], key, m)

\* The keys that the facts of a column have.
MeantKeys(columns) ==
  LET metrics == BaseOf(Needed(Asked(request)))
      keys    == {Key(f, request.dims, n) : f \in UNION {columns[ref].shown : ref \in DOMAIN columns},
                                            n \in GroupingSets(request.dims, request.grains)}
  IN  {k \in keys : \E ref \in DOMAIN columns : \E m \in metrics : CellFacts(columns[ref], k, m) # {}}

-----------------------------------------------------------------------------
\* What the statements of a reference are to count: of the scenario it stands
\* for, or of the one it forks to, the months that it stands for, what its
\* modifiers let through, under the filter of the call, and all of it that the
\* scope of that scenario lets the caller read.
MeantFacts(ref, node) ==
  LET scenarios == {MeantId(ref, id) : id \in node.ids}
      mods      == Modifiers(ref)
      kept      == KeptFilter
  IN  {f \in FactTables[facts] :
         /\ f.domain = plan.domain /\ f.scn \in scenarios
         /\ request.from <= f.month - node.shift /\ f.month - node.shift <= request.to
         /\ Domains[f.domain].versioned => CommitAllowed(f, mods)
         /\ \A dim \in DOMAIN kept :
              LeafOf(dim) = "cost_centre" => f.cc \in Leaves(dim, kept[dim])
         /\ MayRead(f)}

\* The statements of closing balances pick a month from that.
CountsWhatIsMeant(st, meant) ==
  /\ st.facts \subseteq meant
  /\ (\A m \in st.metrics : Metrics[m].rollup # "closing") => st.facts = meant

StatementsCountWhatIsMeant ==
  LET q     == Head(todo)
      node  == ResolveKey(Scenarios, q.ref.key)
      meant == MeantFacts(q.ref, node)
      all   == Reads(q)
  IN  Stage("read") /\ todo # << >> => \A i \in DOMAIN all : CountsWhatIsMeant(all[i], meant)

\* Only scenarios that the gate allowed are read, though the gate, the tool
\* and the engine each look the reference up anew, and a fork is substituted
\* after the gate (dispatch._expand_scenario_ref_for_permissions).  And each
\* statement counts just the facts its reference means, as the scenarios stood
\* at the start, neither more than the scope of their own scenario permits nor
\* less, though one filter serves them all
\* (scope_enforcer.enforce_cross_scenario_scope).
ReadsWhatWasGated == TypeOK /\ read \subseteq ids /\ StatementsCountWhatIsMeant

Answered == at.stage = "answered" /\ "rows" \in DOMAIN answer

Nodes == [i \in DOMAIN RawRefs |-> ResolveKey(Scenarios, RawRefs[i].key)]

GivesReport(columns, nodes) ==
  /\ \A r \in answer.rows : \A i \in DOMAIN blocks :
       r.values[i] = Meant(columns, nodes[i], RawRefs[i], r.key, r.item)
  /\ \A k \in MeantKeys(columns) : \A m \in ItemsOf(request.blocks[1]) :
       \/ \E r \in answer.rows : r.key = k /\ r.item = m
       \/ /\ Metrics[m].hide_if_zero
          /\ \A i \in DOMAIN blocks : Meant(columns, nodes[i], RawRefs[i], k, m)[1] = 0

\* Each reference is read by a query of its own.  Of two that read the same rows
\* the resolver drops one, and the column of that reference is empty.
EachIsRead ==
  \A ref \in ReadRefs(plan.registry, {blocks[i].ref : i \in DOMAIN blocks}) :
    \E q \in plan.queries : q.ref = ref

\* The answer is the report: each number is the total, the average or the
\* closing balance of the facts it names, of the months it names, under the
\* caller's filter and within the caller's scope; a comparison is that of
\* its sides; and no key is missing.  So say the twelve stages together,
\* whatever scenario is created between them (engine/__init__.py).
AnswerIsTheReport ==
  Answered /\ swapped = 0 /\ EachIsRead =>
    \A columns \in {Columns(facts)}, nodes \in {Nodes} : GivesReport(columns, nodes)

\* A load may swap its table between two statements of a report, and columns
\* or lines may be of different loads; a number that is read by one statement
\* is of one (retriever.execute_queries).
NumbersAreOfOneTable ==
  Answered /\ swapped > 0 /\ EachIsRead =>
    \A columns \in {[table \in tables |-> Columns(table)]}, nodes \in {Nodes} :
      \A r \in answer.rows : \A i \in DOMAIN blocks :
        Metrics[r.item].base /\ ~Computed(nodes[i]) =>
          \E table \in tables : r.values[i] = Meant(columns[table], nodes[i], RawRefs[i], r.key, r.item)

\* What the request needs is the caller's, and is seen alike.
Permitted ==
  LET needed == GatedIds(Scenarios, Refs(request))
      seen(id) == {x \in Universe["cost_centre"] : AskedFor(x) /\ MaySee(id, x)}
  IN  /\ \A id \in needed : id \in DOMAIN permissions /\ "read" \in DOMAIN permissions[id]
      /\ \A id \in needed : permissions[id]["read"] # Unrestricted =>
           ReportDomain \in permissions[id]["read"].domains
      /\ \A i, j \in needed : seen(i) = seen(j)

\* Two blocks that are not named are told apart by the registry's own keys.
Normalised(block) == [block EXCEPT !.ref = Normalise(Scenarios, block.ref)]

\* A request that is well formed, permitted and of one scope is answered when
\* no read fails and the registry still loads (no stage refuses it for what
\* another has accepted).
GoodRequestsAreAnswered ==
  at.stage = "answered" /\ faults = 0 /\ Loads(rows)
    /\ Accepted(Scenarios, request) /\ ~FilterRefused(request.filter)
    /\ Range(request.dims) \subseteq GroupableIn(ReportDomain)
    /\ (\A i, j \in DOMAIN request.blocks : i # j =>
         NameOf(Normalised(request.blocks[i])) # NameOf(Normalised(request.blocks[j])))
    => (Answered <=> Permitted)
=============================================================================
