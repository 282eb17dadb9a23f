----------------------------- MODULE Reporting ------------------------------
(***************************************************************************)
(* One report from the gate to its answer: dispatch._permission_gate, the  *)
(* report tools (tools/read_tools.py) and engine.execute_report.  The      *)
(* registry of scenarios is read from the database at each stage anew, and *)
(* each statement is a query of its own: meanwhile a scenario may be       *)
(* created, a load may swap its table, and a read may fail.                *)
(***************************************************************************)
EXTENDS Retrieval, Access

CONSTANTS
  \* The rows of semantic.scenarios at the start, and those that may be added.
  Scenarios, Additions,
  \* The states of the fact tables, as loads leave them.
  FactTables,
  \* What is asked: [from, to, dims, blocks, strict, grains, filter, profile].
  \* A block is [items, ref, name]; NoName takes the reference for its name, and
  \* the one block of a call that names no scenario has NoRef.
  Requests, NoName,
  \* How many reads of the database fail, scenarios are created, loads swap.
  MaxFaults, MaxAdditions, MaxSwaps

\* An id, an alias and a key are sequences of words; a call has two months and a
\* list of blocks.
ASSUME ScenariosAssumption ==
  \A s \in Scenarios \cup Additions : s.id \in Seq(STRING) /\ s.alias \in Seq(STRING)

ASSUME RequestsAssumption ==
  \A r \in Requests :
    /\ {"from", "to", "blocks"} \subseteq DOMAIN r /\ r.from \in Int /\ r.to \in Int
    /\ Len(r.blocks) \in Nat /\ DOMAIN r.blocks = 1 .. Len(r.blocks)
    /\ \A i \in DOMAIN r.blocks :
         /\ {"items", "ref", "name"} \subseteq DOMAIN r.blocks[i]
         /\ DOMAIN r.blocks[i].ref = {"key", "mods"}
         /\ r.blocks[i].ref.key \in Seq(STRING)

\* A fact is booked in a month, on a cost centre of the master table.
ASSUME FactTablesAssumption ==
  \A table \in DOMAIN FactTables : \A f \in FactTables[table] :
    f \in [domain : DOMAIN Domains, scn : Seq(STRING), month : Int,
          cc : Universe["cost_centre"], acc : STRING, amt : Int, commit : STRING]

VARIABLES
  rows, facts,          \* the database
  request, permissions, \* the call, and what its user may use
  at,                   \* the stage, and the block or reference it is at
  ids,                  \* the scenarios the gate has allowed
  blocks,               \* the blocks under the registry's own keys
  plan, filter,
  todo, raw,            \* the statements that are left, the results so far
  answer,
  read,                 \* history: the scenarios that were read
  tables,               \* history: the tables there were since the start
  faults, added, swapped

db     == <<rows, facts, added, swapped, tables>>
call   == <<request, permissions>>
engine == <<ids, blocks, plan, filter, todo, raw, read>>
vars   == <<db, call, engine, at, answer, faults>>

Pending == [error |-> "pending"]
NoPlan  == [none |-> TRUE]

\* A registry that does not load: no key of it resolves.
Unreadable == {[id |-> NoKey, alias |-> NoKey, parent |-> NoKey, kind |-> "ACTUAL"]}

\* A call that names no scenario is about the actuals, before the gate.
NoRef == [key |-> NoKey, mods |-> << >>]

Defaulted(r) ==
  IF Refs(r) = {NoRef} THEN [r EXCEPT !.blocks[1].ref.key = <<"actuals">>] ELSE r

RawRefs == [i \in DOMAIN request.blocks |-> request.blocks[i].ref]

TypeOK ==
  /\ facts \in DOMAIN FactTables /\ Scenarios \subseteq rows /\ rows \subseteq Scenarios \cup Additions
  /\ at.stage \in {"gate", "normalise", "resolve", "filter", "fork", "read", "answered", "shown"}
  /\ ids \subseteq {s.id : s \in rows}
  /\ at.stage \in {"filter", "fork", "read"} => plan # NoPlan /\ answer = Pending
  /\ read \subseteq {s.id : s \in rows}

Init ==
  /\ rows = Scenarios /\ facts \in DOMAIN FactTables
  /\ request \in {Defaulted(r) : r \in Requests}
  /\ permissions = Permissions(request.profile, Scenarios)
  /\ at = [stage |-> "gate", i |-> 1]
  /\ ids = {} /\ blocks = << >> /\ plan = NoPlan /\ filter = NoFilter
  /\ todo = << >> /\ raw = << >> /\ answer = Pending
  /\ read = {} /\ tables = {facts}
  /\ faults = 0 /\ added = 0 /\ swapped = 0

Stage(stage) == at.stage = stage
To(stage) == at' = [stage |-> stage, i |-> 1]
Step == at' = [at EXCEPT !.i = @ + 1]

Fails(kind) ==
  /\ answer' = [error |-> kind]
  /\ To("answered")
  /\ UNCHANGED <<db, call, engine>>

\* A read of the registry: what is there, or nothing when it fails.
RegistryRead(registry) ==
  \/ registry = rows /\ faults' = faults
  \/ registry = Unreadable /\ faults < MaxFaults /\ faults' = faults + 1

-----------------------------------------------------------------------------
(* The gate takes the references one by one, and reads for each. *)

Gate ==
  \E registry \in {rows, Unreadable} :
    LET needed == GatedIds(registry, {RawRefs[at.i]})
    IN  /\ Stage("gate") /\ at.i \in DOMAIN RawRefs
        /\ RegistryRead(registry)
        /\ IF Denied(permissions, "read", needed) THEN Fails("denied")
           ELSE /\ ids' = ids \cup needed
                /\ Step
                /\ UNCHANGED <<db, call, blocks, plan, filter, todo, raw, read, answer>>

\* What may be filtered and grouped by in a report of some domains.
Filterable(domains) ==
  LET bound == UNION {Domains[d].dims : d \in domains} \ Inline
  IN  Upwards(bound) \cup {dim \in Ragged : LeafOf(dim) \in bound}

Groupable(domains) ==
  LET bound == UNION {Domains[d].dims : d \in domains}
  IN  bound \cup Upwards(bound \ Inline)

\* The domains of all the lines that are asked for.
AskedDomains ==
  {DomainOf(Needed({m})) : m \in {x \in Asked(request) \cap DOMAIN Metrics : BaseOf(Needed({x}) \cap DOMAIN Metrics) # {}}}

\* A filter that no domain of the report has is dropped.
KeptFilter ==
  Restrict(request.filter, DOMAIN request.filter \cap Filterable(AskedDomains))

DimensionsKnown == Range(request.dims) \subseteq Groupable(DOMAIN Domains)

\* Once the gate is passed, the filters and the dimensions are looked up.
Validate ==
  /\ Stage("gate") /\ at.i \notin DOMAIN RawRefs
  /\ IF DOMAIN request.filter \subseteq DOMAIN Dimensions /\ DimensionsKnown
     THEN /\ filter' = KeptFilter
          /\ To("normalise")
          /\ UNCHANGED <<db, call, ids, blocks, plan, todo, raw, read, answer>>
     ELSE Fails("validation")
  /\ UNCHANGED faults

NormaliseBlock ==
  \E registry \in {rows, Unreadable} :
    LET block == request.blocks[at.i]
        ref   == Normalise(registry, block.ref)
    IN  /\ Stage("normalise") /\ at.i \in DOMAIN request.blocks
        /\ RegistryRead(registry)
        /\ blocks' = Append(blocks, [block EXCEPT !.ref = ref])
        /\ Step
        /\ UNCHANGED <<db, call, ids, plan, filter, todo, raw, read, answer>>

NameOf(block) == IF block.name = NoName THEN <<block.ref.key, block.ref.mods>> ELSE <<block.name>>

\* Values are keyed by the name of their column.
CheckNames ==
  /\ Stage("normalise") /\ at.i \notin DOMAIN request.blocks
  /\ IF \E i, j \in DOMAIN blocks : i # j /\ NameOf(blocks[i]) = NameOf(blocks[j])
     THEN Fails("validation")
     ELSE To("resolve") /\ UNCHANGED <<db, call, engine, answer>>
  /\ UNCHANGED faults

ResolveRequest ==
  \E registry \in {rows, Unreadable} :
    LET new == Plan(registry, [request EXCEPT !.blocks = blocks])
    IN  /\ Stage("resolve")
        /\ RegistryRead(registry)
        /\ IF new.error THEN Fails("validation")
           ELSE /\ plan' = [queries |-> new.queries, computed |-> new.computed, base |-> new.base,
                            derived |-> new.derived, domain |-> new.domain, registry |-> registry]
                /\ To("filter")
                /\ UNCHANGED <<db, call, ids, blocks, filter, todo, raw, read, answer>>

-----------------------------------------------------------------------------
(* Filters, scopes and forks *)

Filter ==
  LET user   == Resolved(filter)
      scopes == CallScope(permissions, "read", ids)
  IN  /\ Stage("filter")
      /\ IF FilterRefused(filter) THEN Fails("validation")
         ELSE IF DOMAIN scopes # {} /\ Violated(scopes, plan.domain, user) THEN Fails("scope")
         ELSE /\ filter' = IF DOMAIN scopes = {} THEN user ELSE Enforced(scopes, user)
              /\ To("fork")
              /\ UNCHANGED <<db, call, ids, blocks, plan, todo, raw, read, answer>>
      /\ UNCHANGED faults

\* An explicit target is read as it is given; else the parent, where there is one.
Forked(q) ==
  LET parents == Parents(rows, {q.scn})
  IN  IF "fork" \notin DOMAIN q.mods THEN q
      ELSE IF q.mods["fork"] # NoKey THEN [q EXCEPT !.scn = q.mods["fork"]]
      ELSE IF parents # {} THEN [q EXCEPT !.scn = CHOOSE p \in parents : TRUE]
      ELSE q

Fork ==
  LET queries == SetToSeq({Forked(q) : q \in plan.queries})
      forks   == \E q \in plan.queries : "fork" \in DOMAIN q.mods
  IN  /\ Stage("fork")
      /\ \/ /\ todo' = queries
            /\ raw' = [ref \in {q.ref : q \in plan.queries} |-> << >>]
            /\ To("read")
            /\ UNCHANGED <<db, call, ids, blocks, plan, filter, read, answer, faults>>
         \/ /\ forks /\ faults < MaxFaults /\ faults' = faults + 1
            /\ Fails("execution")

-----------------------------------------------------------------------------
(* One statement at a time, then the answer.                                *)

Reads(q) == Statements(FactTables[facts], q, plan, filter, request)

\* An axis that the domain of the query has no column for.
CannotGroup ==
  /\ Stage("read") /\ todo # << >>
  /\ ~(Range(request.dims) \subseteq GroupableIn(plan.domain))
  /\ Fails("execution")
  /\ UNCHANGED faults

\* Mutant: totals are read in two statements, the first month and the rest, and
\* added up.
ReadStatementInHalves ==
  LET q      == Head(todo)
      all    == Reads(q)
      summed == \A m \in all[1].metrics : Metrics[m].rollup = "sum"
      n      == IF summed /\ at.i > 1 THEN at.i - 1 ELSE at.i
      part   == IF summed /\ n = 1
                THEN [all[1] EXCEPT !.facts = {f \in @ : (f.month <= q.from) <=> at.i = 1}]
                ELSE all[n]
      fresh  == Merged(<< >>, part, request.dims)
      both   == DOMAIN fresh \cap DOMAIN raw[q.ref]
      sofar  == IF summed /\ at.i = 2
                THEN [k \in both |-> [m \in part.metrics |-> Plus(raw[q.ref][k][m], fresh[k][m])]]
                       @@ fresh @@ raw[q.ref]
                ELSE Merged(raw[q.ref], part, request.dims)
      last   == n = Len(all) /\ (summed => at.i > 1)
  IN  /\ Stage("read") /\ todo # << >>
      /\ Range(request.dims) \subseteq GroupableIn(plan.domain)
      /\ raw'  = [raw EXCEPT ![q.ref] = IF last THEN Realigned(sofar, q, request.dims) ELSE sofar]
      /\ read' = read \cup {q.scn : f \in {g \in FactTables[facts] : g.scn = q.scn}}
      /\ IF last THEN todo' = Tail(todo) /\ To("read") ELSE todo' = todo /\ Step
      /\ UNCHANGED <<db, call, ids, blocks, plan, filter, answer, faults>>

ReadStatement ==
  LET q     == Head(todo)
      all   == Reads(q)
      sofar == Merged(raw[q.ref], all[at.i], request.dims)
      last  == at.i = Len(all)
  IN  /\ Stage("read") /\ todo # << >>
      /\ Range(request.dims) \subseteq GroupableIn(plan.domain)
      /\ raw'  = [raw EXCEPT ![q.ref] = IF last THEN Realigned(sofar, q, request.dims) ELSE sofar]
      /\ read' = read \cup {q.scn : f \in {g \in FactTables[facts] : g.scn = q.scn}}
      /\ IF last THEN todo' = Tail(todo) /\ To("read") ELSE todo' = todo /\ Step
      /\ UNCHANGED <<db, call, ids, blocks, plan, filter, answer, faults>>

ReadFails ==
  /\ Stage("read") /\ todo # << >>
  /\ faults < MaxFaults /\ faults' = faults + 1
  /\ Fails("execution")

Answer ==
  /\ Stage("read") /\ todo = << >>
  /\ IF \E ref \in DOMAIN raw : Unbound(raw[ref], plan) THEN Fails("execution")
     ELSE /\ answer' = [rows |-> AnswerRows(Transformed(raw, plan.registry, plan), blocks)]
          /\ To("answered")
          /\ UNCHANGED <<db, call, engine>>
  /\ UNCHANGED faults

-----------------------------------------------------------------------------
(* Meanwhile *)

\* Another client creates a scenario; nothing keeps it from taking the alias
\* of one that is there.
CreateScenario ==
  /\ added < MaxAdditions /\ added' = added + 1
  /\ \E s \in Additions \ rows : rows' = rows \cup {s}
  /\ UNCHANGED <<facts, swapped, tables, call, engine, at, answer, faults>>

SwapTable ==
  /\ swapped < MaxSwaps /\ swapped' = swapped + 1
  /\ facts' \in DOMAIN FactTables \ {facts}
  /\ tables' = tables \cup {facts'}
  /\ UNCHANGED <<rows, added, call, engine, at, answer, faults>>

Pipeline ==
  \/ Gate \/ Validate \/ NormaliseBlock \/ CheckNames \/ ResolveRequest
  \/ Filter \/ Fork \/ CannotGroup \/ ReadStatement \/ ReadFails \/ Answer

Meanwhile == answer = Pending /\ (CreateScenario \/ SwapTable)

Next == Pipeline \/ Meanwhile

Spec == Init /\ [][Next]_vars

-----------------------------------------------------------------------------
\* A member that the scope of a scenario lets the caller see, and a fact that
\* the caller may read.
MaySee(id, member) == ShowsMember(permissions[id]["read"], "cost_centre", member)

MayRead(f) ==
  /\ f.scn \in DOMAIN permissions /\ "read" \in DOMAIN permissions[f.scn]
  /\ permissions[f.scn]["read"] # Unrestricted => f.domain \in permissions[f.scn]["read"].domains
  /\ MaySee(f.scn, f.cc)
=============================================================================
