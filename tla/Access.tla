------------------------------- MODULE Access -------------------------------
(***************************************************************************)
(* What a user may use (auth.py) and the gate of a tool call (dispatch.py).*)
(*                                                                         *)
(* A profile maps scenario patterns to blocks, and a block maps roles to   *)
(* scopes (Unrestricted where the block is empty).  The permissions of a   *)
(* user map scenarios to tool types, and those to scopes.                  *)
(***************************************************************************)
EXTENDS ScenarioKeys, ScopeFilters

Roles     == <<"analyst", "planner", "manager">>
Rank(role) == CHOOSE i \in DOMAIN Roles : Roles[i] = role
ToolTypes == <<"read", "write", "plan_manager">>

Categories ==
  [ACTUAL |-> {"ACTUAL"}, BUDGET |-> {"BUDGET"}, FORECAST |-> {"FORECAST"},
   PLAN |-> {"BUDGET", "FORECAST"}]

\* How specific a pattern is for a scenario; zero where it does not match.  A
\* pattern is the id of a scenario or a sequence of one word.
PatternRank(pattern, id, kind) ==
  CASE pattern = id -> 4
    [] pattern # id /\ pattern = <<"*">> -> 1
    [] pattern # id /\ pattern # <<"*">> /\ \E c \in DOMAIN Categories :
         pattern = <<c>> /\ kind \in Categories[c] -> IF pattern = <<"PLAN">> THEN 2 ELSE 3
    [] OTHER -> 0

\* The block of the most specific pattern; blocks are never merged.
NoBlock == [role \in {} |-> Unrestricted]

BlockFor(profile, id, kind) ==
  LET ranked == {p \in DOMAIN profile : PatternRank(p, id, kind) > 0}
      best   == CHOOSE p \in ranked : \A q \in ranked :
                  PatternRank(q, id, kind) <= PatternRank(p, id, kind)
  IN  IF ranked = {} THEN NoBlock ELSE profile[best]

\* For each tool type the lowest role of the block that may use it.
ToolScopes(block) ==
  LET may(i)    == {r \in DOMAIN block : Rank(r) >= i}
      chosen(i) == CHOOSE r \in may(i) : \A s \in may(i) : Rank(r) <= Rank(s)
  IN  [type \in {ToolTypes[i] : i \in {j \in DOMAIN ToolTypes : may(j) # {}}} |->
         block[chosen(CHOOSE i \in DOMAIN ToolTypes : ToolTypes[i] = type)]]

\* load_permissions, from the rows of semantic.scenarios.
Permissions(profile, rows) ==
  LET blocks == [s \in rows |-> BlockFor(profile, s.id, s.kind)]
  IN  [id \in {s.id : s \in {r \in rows : DOMAIN blocks[r] # {}}} |->
         ToolScopes(blocks[CHOOSE s \in rows : s.id = id])]

-----------------------------------------------------------------------------
(* The gate *)

\* All the scenarios that the references of a call rest on.
GatedIds(rows, refs) == UNION {Expand(rows, ref) : ref \in refs}

Denied(permissions, access, ids) ==
  \E id \in ids : id \notin DOMAIN permissions \/ access \notin DOMAIN permissions[id]

\* The scopes published for the call: none where no scenario restricts it.
CallScope(permissions, access, ids) ==
  LET scopes == [id \in ids |-> permissions[id][access]]
  IN  IF \A id \in ids : scopes[id] = Unrestricted THEN NoFilter ELSE scopes
=============================================================================
