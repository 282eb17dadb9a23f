----------------------------- MODULE ReportPlan -----------------------------
(***************************************************************************)
(* What engine/resolver.py makes of a report request: the metrics it needs *)
(* in the order of their dependencies, one query for each scenario that is *)
(* read, and the comparisons that are computed from those.                 *)
(*                                                                         *)
(* A month is counted from a fixed January (twelve to the year).  A        *)
(* request is a record [from, to, dims, blocks, strict, grains]; a block   *)
(* is [items, ref] with the metrics or the statement it shows, and its      *)
(* scenario.                                                               *)
(***************************************************************************)
EXTENDS ScenarioKeys, Folds

CONSTANTS
  \* key -> [base, domain, rollup, sign, accounts] or [base, op, args].
  Metrics,
  \* domain -> [dims, versioned]: the dimensions it is bound to.
  Domains,
  \* dimension -> the dimensions directly above it.
  Above,
  \* statement -> its lines, or the statements that it joins; no statement has
  \* the name of a metric here, and none joins itself.
  StatementLines

Error == [error |-> TRUE]

Shift(month, by) == month + by

-----------------------------------------------------------------------------
(* Metrics *)

Operands(m) == IF Metrics[m].base THEN {} ELSE Range(Metrics[m].args)

\* Everything a set of keys is computed from, the keys included.
Needed(keys) ==
  LET grown[i \in 0 .. Cardinality(DOMAIN Metrics)] ==
        IF i = 0 THEN keys
        ELSE grown[i - 1] \cup UNION {Operands(m) : m \in grown[i - 1] \cap DOMAIN Metrics}
  IN  grown[Cardinality(DOMAIN Metrics)]

BaseOf(keys)    == {m \in keys : Metrics[m].base}
DerivedOf(keys) == keys \ BaseOf(keys)

\* The derived keys, each after its operands.
InOrder(keys) ==
  CHOOSE order \in SetToSeqs(DerivedOf(keys)) :
    \A i, j \in DOMAIN order : order[i] \in Operands(order[j]) => i < j

\* All the metrics of a request are read in the domain of the first one.
DomainOf(keys) ==
  IF BaseOf(keys) = {} THEN "pnl"
  ELSE Metrics[CHOOSE m \in BaseOf(keys) : TRUE].domain

-----------------------------------------------------------------------------
(* Requests *)

\* What is left of some entries when every statement is replaced by its lines.
Opened(entries) ==
  LET open[i \in 0 .. Cardinality(DOMAIN StatementLines)] ==
        IF i = 0 THEN entries
        ELSE UNION {IF e \in DOMAIN StatementLines THEN Range(StatementLines[e]) ELSE {e} : e \in open[i - 1]}
  IN  open[Cardinality(DOMAIN StatementLines)]

ItemsOf(block) == Opened(Range(block.items)) \ {"separator"}

Asked(request) == UNION {ItemsOf(request.blocks[i]) : i \in DOMAIN request.blocks}

Refs(request) == {request.blocks[i].ref : i \in DOMAIN request.blocks}

\* The dimensions at or above some others.
Upwards(dims) ==
  LET grown[i \in 0 .. Cardinality(DOMAIN Above)] ==
        IF i = 0 THEN dims
        ELSE grown[i - 1] \cup UNION {Above[d] : d \in grown[i - 1] \cap DOMAIN Above}
  IN  grown[Cardinality(DOMAIN Above)]

\* A domain may be grouped by its own dimensions and by all those above them.
GroupableIn(domain) == Upwards(Domains[domain].dims)

DimensionsFit(request) ==
  LET domain == DomainOf(Needed(Asked(request)))
      bound  == UNION {Domains[d].dims : d \in DOMAIN Domains}
  IN  \A i \in DOMAIN request.dims :
        \/ request.dims[i] \in GroupableIn(domain)
        \/ ~request.strict /\ request.dims[i] \in bound

Accepted(rows, request) ==
  /\ request.from <= request.to
  /\ request.blocks # << >>
  /\ \A i \in DOMAIN request.blocks :
       LET block == request.blocks[i]
       IN  /\ ItemsOf(block) # {}
           /\ ItemsOf(block) \subseteq DOMAIN Metrics
           /\ WellFormed(block.ref)
           /\ ResolveKey(rows, block.ref.key) # Unknown
           /\ Computed(ResolveKey(rows, block.ref.key)) => block.ref.mods = << >>
  /\ Needed(Asked(request)) \subseteq DOMAIN Metrics
  /\ DimensionsFit(request)

-----------------------------------------------------------------------------
(* Queries *)

Plain(key) == [key |-> key, mods |-> << >>]

\* The references that are read: a comparison stands for its two sides, a
\* shifted scenario for itself alone.
ReadRefs(rows, refs) ==
  UNION {LET node == ResolveKey(rows, ref.key)
         IN  IF Computed(node) THEN {Plain(node.left), Plain(node.right)} ELSE {ref}
         : ref \in refs}

\* The comparisons; none is a side of another, so their order does not matter.
ComputedRefs(rows, refs) == {ref \in refs : Computed(ResolveKey(rows, ref.key))}

DataQuery(rows, request, ref) ==
  LET node == ResolveKey(rows, ref.key)
  IN  [ref |-> ref, scn |-> CHOOSE id \in node.ids : TRUE,
       from |-> Shift(request.from, node.shift), to |-> Shift(request.to, node.shift),
       mods |-> Modifiers(ref), shift |-> node.shift]

\* Of the queries that read the same rows only one stays, and its results are
\* found under its own reference alone.
SameData(q, r) == q.scn = r.scn /\ q.from = r.from /\ q.to = r.to /\ q.mods = r.mods

Deduplicated(queries) ==
  {CHOOSE r \in queries : SameData(q, r) : q \in queries}

Plan(rows, request) ==
  IF ~Accepted(rows, request) THEN Error
  ELSE LET keys == Needed(Asked(request))
       IN  [error    |-> FALSE,
            queries  |-> Deduplicated({DataQuery(rows, request, ref)
                                       : ref \in ReadRefs(rows, Refs(request))}),
            computed |-> ComputedRefs(rows, Refs(request)),
            base     |-> BaseOf(keys),
            derived  |-> InOrder(keys),
            domain   |-> DomainOf(keys)]
=============================================================================
