---------------------------- MODULE ScopeFilters ----------------------------
(***************************************************************************)
(* How a filter and a scope become the leaves of a column                  *)
(* (engine/filter_resolver.py, engine/scope_enforcer.py).                  *)
(*                                                                         *)
(* A dimension is a leaf, derived from the attribute of a leaf, or a       *)
(* ragged tree over a leaf.  A user filter maps dimensions to one value    *)
(* each.  A scope is [allow, deny, domains]: allow and deny map dimensions *)
(* to sets of values, domains is the set of domains that are permitted.    *)
(***************************************************************************)
EXTENDS FiniteSets, Functions

CONSTANTS
  \* dimension -> [leaf, under]: the leaf it resolves to, and for each of its
  \* values the members of that leaf.
  Dimensions,
  \* The dimensions that are ragged trees.
  Ragged,
  \* leaf -> all its members, the rows of its master table.
  Universe,
  \* The dimensions of federated sources, which may not be filtered.
  Inline

\* A value of a dimension stands for rows of the master table of its leaf.
ASSUME DimensionsAssumption ==
  /\ Ragged \subseteq DOMAIN Dimensions
  /\ \A dim \in DOMAIN Dimensions :
       /\ Dimensions[dim].leaf \in DOMAIN Universe
       /\ \A v \in DOMAIN Dimensions[dim].under :
            Dimensions[dim].under[v] \subseteq Universe[Dimensions[dim].leaf]

\* The leaves of a value; a value that no table holds has none.
Leaves(dim, value) ==
  IF value \in DOMAIN Dimensions[dim].under THEN Dimensions[dim].under[value] ELSE {}

LeafOf(dim) == Dimensions[dim].leaf

NoFilter == [leaf \in {} |-> {}]

-----------------------------------------------------------------------------
(* The caller's filter: the keys of one leaf are intersected. *)

FilterRefused(filter) ==
  \E dim \in DOMAIN filter :
    \/ dim \in Inline
    \/ dim \notin DOMAIN Dimensions
    \/ Leaves(dim, filter[dim]) = {}

Resolved(filter) ==
  [leaf \in {LeafOf(dim) : dim \in DOMAIN filter} |->
     {x \in Universe[leaf] : \A dim \in DOMAIN filter :
                               LeafOf(dim) = leaf => x \in Leaves(dim, filter[dim])}]

-----------------------------------------------------------------------------
(* A scope: the keys of one leaf are united, and what is denied is taken   *)
(* away.  A leaf that neither side names is not restricted.                *)

Members(values) ==
  [leaf \in {LeafOf(dim) : dim \in {d \in DOMAIN values : values[d] # {}}} |->
     UNION {UNION {Leaves(dim, v) : v \in values[dim]}
            : dim \in {d \in DOMAIN values : LeafOf(d) = leaf}}]

ScopeRefused(scope) == (DOMAIN scope.allow \cup DOMAIN scope.deny) \cap Inline # {}

ScopeFilter(scope) ==
  LET allow == Members(scope.allow)
      deny  == Members(scope.deny)
  IN  [leaf \in DOMAIN allow \cup DOMAIN deny |->
         (IF leaf \in DOMAIN allow THEN allow[leaf] ELSE Universe[leaf])
           \ (IF leaf \in DOMAIN deny THEN deny[leaf] ELSE {})]

\* merge_dimension_filters: the caller narrows the scope, never widens it.
Narrowed(user, scope) ==
  [leaf \in DOMAIN user \cup DOMAIN scope |->
     IF leaf \notin DOMAIN user THEN scope[leaf]
     ELSE IF leaf \notin DOMAIN scope THEN user[leaf]
     ELSE user[leaf] \cap scope[leaf]]

-----------------------------------------------------------------------------
(* All scenarios of a report                                                *)

\* A scope that restricts nothing, and no scope.
Unrestricted == [none |-> TRUE]

\* The filter of one scenario: the caller's, within its scope.
EffectiveFor(scope, user) ==
  IF scope = Unrestricted THEN user ELSE Narrowed(user, ScopeFilter(scope))

\* The scopes compared before the caller's filter has narrowed them.
ViolatedUnnarrowed(scopes, domain, user) ==
  \/ \E id \in DOMAIN scopes :
       scopes[id] # Unrestricted
         /\ (domain \notin scopes[id].domains \/ ScopeRefused(scopes[id]))
  \/ \E i, j \in DOMAIN scopes : scopes[i] # scopes[j]

Violated(scopes, domain, user) ==
  \/ \E id \in DOMAIN scopes :
       scopes[id] # Unrestricted
         /\ (domain \notin scopes[id].domains \/ ScopeRefused(scopes[id]))
  \/ \E i, j \in DOMAIN scopes : EffectiveFor(scopes[i], user) # EffectiveFor(scopes[j], user)

\* The one filter that all the scenarios agree on.
Enforced(scopes, user) ==
  EffectiveFor(scopes[CHOOSE id \in DOMAIN scopes : TRUE], user)

-----------------------------------------------------------------------------
(* Where no scenario is named (search_hierarchy), a member is shown that    *)
(* some scenario of the caller shows; a leaf that one of them leaves open   *)
(* is open.                                                                 *)

OpenScope(scope) ==
  \/ scope = Unrestricted
  \/ DOMAIN scope.allow = {} /\ DOMAIN scope.deny = {}
  \/ DOMAIN ScopeFilter(scope) = {}

\* Members that all scenarios show.
VisibleEverywhere(scopes) ==
  IF scopes = {} \/ \E s \in scopes : OpenScope(s) THEN NoFilter
  ELSE [leaf \in {l \in DOMAIN Universe : \A s \in scopes : l \in DOMAIN ScopeFilter(s)} |->
          {x \in Universe[leaf] : \A s \in scopes : x \in ScopeFilter(s)[leaf]}]

VisibleSomewhere(scopes) ==
  IF scopes = {} \/ \E s \in scopes : OpenScope(s) THEN NoFilter
  ELSE [leaf \in {l \in DOMAIN Universe : \A s \in scopes : l \in DOMAIN ScopeFilter(s)} |->
          UNION {ScopeFilter(s)[leaf] : s \in scopes}]

-----------------------------------------------------------------------------
(* What a scope means, member by member: it shows a member that it allows,  *)
(* where it allows any of the leaf, and does not deny.                      *)

Restricts(values, leaf) ==
  \E dim \in DOMAIN values : LeafOf(dim) = leaf /\ values[dim] # {}

NamesMember(values, leaf, member) ==
  \E dim \in DOMAIN values : LeafOf(dim) = leaf /\ \E v \in values[dim] : member \in Leaves(dim, v)

ShowsMember(scope, leaf, member) ==
  scope # Unrestricted =>
    /\ Restricts(scope.allow, leaf) => NamesMember(scope.allow, leaf, member)
    /\ ~NamesMember(scope.deny, leaf, member)
=============================================================================
