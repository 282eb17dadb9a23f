----------------------------- MODULE Discovery ------------------------------
(***************************************************************************)
(* What a caller may find out beside a report: search_hierarchy,           *)
(* list_scenarios, list_variants and inspect_rows (tools/read_tools.py).   *)
(* A session's call is a report or one of these.                           *)
(***************************************************************************)
EXTENDS ReportMeaning

CONSTANTS
  AnyDimension,
  \* The domains whose rows may be inspected.
  Inspectable

Arrived == Stage("gate") /\ at.i = 1

Shows(found) ==
  /\ answer' = found
  /\ To("shown")
  /\ UNCHANGED <<db, call, engine>>

Readable == {id \in DOMAIN permissions : "read" \in DOMAIN permissions[id]}

-----------------------------------------------------------------------------
(* search_hierarchy *)

IsLeaf(dim) == LeafOf(dim) = dim

\* The dimensions a search looks at: the one that is named with the trees over
\* it, or all; what lies between a leaf and its trees is not searched.
SearchedDims(dimension) ==
  LET wanted == IF dimension \notin DOMAIN Dimensions THEN DOMAIN Dimensions
                ELSE {dimension} \cup {d \in Ragged : LeafOf(d) = dimension}
  IN  IF Readable = {} THEN {} ELSE {d \in wanted : IsLeaf(d) \/ d \in Ragged}

\* Without a permitted set for its leaf a dimension is shown whole.
MembersShown(dim, permitted) ==
  IF dim \in DOMAIN permitted THEN Universe[dim] \cap permitted[dim] ELSE Universe[dim]

NodesShown(dim, permitted) ==
  {node \in DOMAIN Dimensions[dim].under :
     LeafOf(dim) \in DOMAIN permitted => Leaves(dim, node) \cap permitted[LeafOf(dim)] # {}}

\* A dimension whose query fails is left out of the answer.
SearchHierarchy ==
  LET permitted == VisibleSomewhere({permissions[id]["read"] : id \in Readable})
  IN  /\ Arrived
      /\ \E dimension \in DOMAIN Dimensions \cup {AnyDimension} :
         \E lost \in {{}} \cup {{d} : d \in SearchedDims(dimension)} :
           LET dims == SearchedDims(dimension) \ lost
           IN  /\ faults + Cardinality(lost) <= MaxFaults
               /\ faults' = faults + Cardinality(lost)
               /\ Shows([members |-> [d \in {x \in dims : IsLeaf(x)} |-> MembersShown(d, permitted)],
                         nodes   |-> [d \in dims \cap Ragged |-> NodesShown(d, permitted)]])

\* Nothing can be resolved when the members of a scope cannot be read.
SearchFails ==
  /\ Arrived
  /\ \A id \in Readable : ~OpenScope(permissions[id]["read"])
  /\ Readable # {}
  /\ faults < MaxFaults /\ faults' = faults + 1
  /\ Shows([error |-> "execution"])

-----------------------------------------------------------------------------
(* list_scenarios and list_variants *)

\* An entry is shown to those who may read all the scenarios it rests on.  An
\* old name would be shown with the real scenario that it stands for, but
\* stands for a shifted one.
ListScenarios ==
  \E registry \in {rows, Unreadable} :
    LET named == IF Loads(registry) THEN {s.alias : s \in registry} \cup {s.id : s \in registry} ELSE {}
        keys  == {key \in Vocabulary(registry) : ResolveKey(registry, key).ids \subseteq Readable}
    IN  /\ Arrived
        /\ RegistryRead(registry)
        /\ Shows([keys |-> keys,
                  old  |-> {key \in OldNames : Canonical(key) \in named \cap keys}])

\* The scenario that is asked about passes the gate, then each that is found is
\* shown to those who may read it.
ListVariants ==
  \E gate, store \in {rows, Unreadable} :
    \E key \in {s.alias : s \in Scenarios} \cup {s.id : s \in Scenarios} :
      LET misses == Cardinality({r \in {gate, store} : r = Unreadable})
          parent == ResolveKey(store, key)
          found  == {s \in store : s.parent \in parent.ids}
      IN  /\ Arrived
          /\ faults + misses <= MaxFaults /\ faults' = faults + misses
          /\ CASE Denied(permissions, "read", GatedIds(gate, {Plain(key)})) -> Shows([error |-> "denied"])
               [] ~Denied(permissions, "read", GatedIds(gate, {Plain(key)})) /\ parent = Unknown -> Shows([error |-> "validation"])
               [] OTHER -> Shows([variants |-> {s.id : s \in found} \cap Readable])

-----------------------------------------------------------------------------
(* inspect_rows: the facts behind a number.  It takes one scenario, and a   *)
(* key that is not a real scenario's is read as it is given.                *)

\* A storage id, which is not looked up.
LooksLikeId(key) == key \in {s.id : s \in Scenarios \cup Additions}

InspectedScenario(registry, key) ==
  LET node == ResolveKey(registry, key)
  IN  IF LooksLikeId(key) \/ node.node # "real" THEN key ELSE CHOOSE id \in node.ids : TRUE

InspectFilter(scopes, user) ==
  IF DOMAIN scopes = {} THEN user ELSE Enforced(scopes, user)

\* Modifiers have no say here: what is not committed is left out.  That a
\* filter cannot be resolved or a scope refuses it is told like a bad request.
InspectedFacts(domain, id, filters) ==
  {f \in FactTables[facts] :
     /\ f.domain = domain /\ f.scn = id
     /\ request.from <= f.month /\ f.month <= request.to
     /\ Passes(f, filters)
     /\ Domains[domain].versioned => f.commit # "uncommitted"}

Inspected(key, domain, id, scopes) ==
  LET user == Resolved(request.filter)
  IN  IF FilterRefused(request.filter) THEN [error |-> "validation"]
      ELSE IF DOMAIN scopes # {} /\ Violated(scopes, domain, user) THEN [error |-> "scope"]
      ELSE [key |-> key, domain |-> domain,
            facts |-> InspectedFacts(domain, id, InspectFilter(scopes, user))]

InspectRows ==
  \E gate, store \in {rows, Unreadable}, domain \in Inspectable :
    LET key    == request.blocks[1].ref.key
        needed == GatedIds(gate, {Plain(key)})
        misses == Cardinality({r \in {gate, store} : r = Unreadable})
    IN  /\ Arrived /\ 1 \in DOMAIN request.blocks
        /\ faults + misses <= MaxFaults /\ faults' = faults + misses
        /\ IF Denied(permissions, "read", needed) THEN Shows([error |-> "denied"])
           ELSE IF ~LooksLikeId(key) /\ ~Loads(store) THEN Shows([error |-> "execution"])
           ELSE Shows(Inspected(key, domain, InspectedScenario(store, key),
                                CallScope(permissions, "read", needed)))

Discover == SearchHierarchy \/ SearchFails \/ ListScenarios \/ ListVariants \/ InspectRows

DNext == Next \/ Discover

DSpec == Init /\ [][DNext]_vars

-----------------------------------------------------------------------------
\* Some scenario of the caller's shows the member.
ShownIn(leaf, member) ==
  \E id \in Readable : ShowsMember(permissions[id]["read"], leaf, member)

\* A node is found by a member under it that is shown.
SearchAgrees ==
  /\ \A dim \in DOMAIN answer.members :
       answer.members[dim] = {x \in Universe[dim] : ShownIn(dim, x)}
  /\ \A dim \in DOMAIN answer.nodes : \A node \in DOMAIN Dimensions[dim].under :
       Leaves(dim, node) # {} =>
         (node \in answer.nodes[dim] <=> \E x \in Leaves(dim, node) : ShownIn(LeafOf(dim), x))

\* Of the vocabulary, what passes the gate is listed.
ListingAgrees ==
  \A s, t \in rows : \A key \in {s.alias, s.alias \o <<"py">>, s.alias \o <<"vs">> \o t.alias} :
    ResolveKey(rows, key) # Unknown /\ (s # t \/ ~Computed(ResolveKey(rows, key))) =>
      (key \in answer.keys <=> ~Denied(permissions, "read", GatedIds(rows, {Plain(key)})))

\* A request whose lines are of the inspected domain counts the same facts.
InspectionAgrees ==
  Asked(request) \subseteq DOMAIN Metrics /\ answer.domain = ReportDomain
    /\ "cost_centre" \in Domains[answer.domain].dims =>
    \A s \in {t \in Scenarios : answer.key \in {t.id, t.alias}} :
      answer.facts = {f \in Column(Inside(facts, s.id, 0), s.id, Plain(answer.key)).shown :
                        f.domain = answer.domain}

\* What a caller is shown is what a report would give: a member, or a node
\* with a member under it, that some scenario of the caller's shows; and a
\* scenario, shifted or compared, that passes the gate.  Search resolves
\* scopes by itself (scope_enforcer.union_read_member_sets), and so does the
\* listing (read_tools.list_scenarios) what the gate looks up by key.  The rows
\* that are inspected are those a report of the scenario counts
\* (engine/inspect.py has its own conditions).  All of it holds below the caps
\* on rows and members (the LIMITs of inspect.py:301 and of
\* read_tools.py:1428 on), which cut an answer short and are left out.
DiscoveryAgreesWithReports ==
  /\ "members" \in DOMAIN answer => SearchAgrees
  /\ "keys" \in DOMAIN answer /\ faults = 0 => ListingAgrees
  /\ "facts" \in DOMAIN answer => InspectionAgrees /\ \A f \in answer.facts : MayRead(f)
  /\ "variants" \in DOMAIN answer => answer.variants \subseteq Readable
=============================================================================
