---------------------------- MODULE ScenarioKeys ----------------------------
(***************************************************************************)
(* How the engine names scenarios (engine/scenario_registry.py) and what   *)
(* the permission gate makes of a reference (dispatch.py).                 *)
(*                                                                         *)
(* A key is the sequence of the words its underscores separate:            *)
(* actuals_vs_budget_pct is <<"actuals", "vs", "budget", "pct">>.  A row   *)
(* of semantic.scenarios keeps its id, its alias and the scenario it is a  *)
(* variant of.  A reference is a key with the modifiers that follow it, in *)
(* their order.                                                            *)
(***************************************************************************)
EXTENDS Integers, FiniteSets, Sequences, SequencesExt

NoKey == << >>

\* The two old names that stand for a shifted scenario.
Canonical(key) ==
  CASE key = <<"prior", "year">>   -> <<"actuals", "py">>
    [] key = <<"prior", "period">> -> <<"actuals", "pp">>
    [] OTHER                       -> key

ValidAlias(alias) ==
  /\ alias # NoKey
  /\ \A i \in 2 .. Len(alias) - 1 : alias[i] # "vs"
  /\ Len(alias) > 1 => Last(alias) \notin {"py", "pp", "pct"}
  /\ Canonical(alias) = alias

\* ScenarioRegistry.__init__ raises on anything else: no scenario resolves.
Loads(rows) ==
  /\ \A s \in rows : ValidAlias(s.alias)
  /\ \A s, t \in rows : s # t => s.alias # t.alias /\ s.id # t.id

-----------------------------------------------------------------------------
(* Resolution *)

\* What a reference resolves to: the key of the registry, the real scenarios
\* it rests on, the months it is shifted by, and the two sides of a comparison.
Unknown == [node |-> "unknown", key |-> NoKey, ids |-> {}, shift |-> 0,
            left |-> NoKey, right |-> NoKey]

RealNode(s) ==
  [Unknown EXCEPT !.node = "real", !.key = s.alias, !.ids = {s.id}]

ShiftedNode(s, suffix) ==
  [Unknown EXCEPT !.node = "shifted", !.key = Append(s.alias, suffix),
                  !.ids = {s.id}, !.shift = IF suffix = "py" THEN -12 ELSE -1]

\* The rows a key names: by alias, and by id only when no alias is the key.
Named(rows, key) ==
  LET aliased == {s \in rows : s.alias = key}
  IN  IF aliased # {} THEN aliased ELSE {s \in rows : s.id = key}

\* A real or a shifted scenario: what a comparison may have on either side.
Single(rows, value) ==
  LET key  == Canonical(value)
      base == {s \in rows : Len(key) > 1 /\ Last(key) \in {"py", "pp"}
                            /\ s.alias = Front(key)}
  IN  IF Named(rows, key) # {} THEN RealNode(CHOOSE s \in Named(rows, key) : TRUE)
      ELSE IF base # {} THEN ShiftedNode(CHOOSE s \in base : TRUE, Last(key))
      ELSE Unknown

\* A key that ends in _pct without a _vs_ before it names nothing.
Comparison(rows, key) ==
  LET pct   == Len(key) > 1 /\ Last(key) = "pct"
      body  == IF pct THEN Front(key) ELSE key
      at    == {i \in 2 .. Len(body) - 1 : body[i] = "vs"}
      i     == CHOOSE x \in at : \A y \in at : x <= y
      left  == Single(rows, SubSeq(body, 1, i - 1))
      right == Single(rows, SubSeq(body, i + 1, Len(body)))
  IN  IF at = {} \/ left = Unknown \/ right = Unknown THEN Unknown
      ELSE [Unknown EXCEPT
             !.node  = IF pct THEN "variance_pct" ELSE "variance",
             !.key   = left.key \o <<"vs">> \o right.key
                         \o (IF pct THEN <<"pct">> ELSE << >>),
             !.ids   = left.ids \cup right.ids,
             !.left  = left.key, !.right = right.key]

ResolveKey(rows, value) ==
  IF value = NoKey \/ ~Loads(rows) THEN Unknown
  ELSE LET single == Single(rows, value)
       IN  IF single # Unknown THEN single ELSE Comparison(rows, Canonical(value))

Computed(node) == node.node \in {"variance", "variance_pct"}

\* What is listed of the endless vocabulary: each scenario, its two shifts, each
\* against each other, and each against its own prior year.
OldNames == {<<"prior", "year">>, <<"prior", "period">>}

Vocabulary(rows) ==
  LET real    == {s.alias : s \in rows}
      shifted == UNION {{Append(a, "py"), Append(a, "pp")} : a \in real}
      against == UNION {{a \o <<"vs">> \o b : b \in real \ {a}} : a \in real}
      own     == {a \o <<"vs">> \o a \o <<"py">> : a \in real}
  IN  IF ~Loads(rows) THEN {}
      ELSE real \cup shifted \cup against \cup own
             \cup {Append(key, "pct") : key \in against \cup own}

-----------------------------------------------------------------------------
(* References with modifiers *)

ModifierNames == {"uncommitted", "uncommitted_delta", "commit", "commit_delta", "fork"}

\* parse_scenario_modifiers: a modifier given twice keeps its last value.
WellFormed(ref) == \A i \in DOMAIN ref.mods : ref.mods[i].name \in ModifierNames

Modifiers(ref) ==
  [n \in {ref.mods[i].name : i \in DOMAIN ref.mods} |->
     LET at == {i \in DOMAIN ref.mods : ref.mods[i].name = n}
     IN  ref.mods[CHOOSE i \in at : \A j \in at : j <= i].value]

Forks(ref) == WellFormed(ref) /\ "fork" \in DOMAIN Modifiers(ref)

\* What expand_dependencies gives, or the key itself where it names nothing.
Dependencies(rows, key) ==
  IF ResolveKey(rows, key) = Unknown THEN {key} ELSE ResolveKey(rows, key).ids

Parents(rows, ids) == {s.parent : s \in {r \in rows : r.id \in ids}} \ {NoKey}

\* The key that no map of permissions holds: the gate denies.
NobodyHolds == <<"&fork">>

\* A gate that forgets what a fork will read.
ExpandBaseOnly(rows, ref) == Dependencies(rows, ref.key)

\* The scenarios a caller must hold to use a reference, as the gate sees them.
Expand(rows, ref) ==
  LET base   == Dependencies(rows, ref.key)
      target == Modifiers(ref)["fork"]
  IN  base \cup
      (IF ~Forks(ref) THEN {}
       ELSE IF target # NoKey THEN Dependencies(rows, target)
       ELSE IF Loads(rows) THEN Parents(rows, base)
       ELSE {NobodyHolds})

\* _resolve_scenario of the report tools: the registry's own key, the modifiers
\* kept; a reference that names nothing is left as it is.
Normalise(rows, ref) ==
  LET node == ResolveKey(rows, ref.key)
  IN  IF node = Unknown THEN ref ELSE [ref EXCEPT !.key = node.key]
=============================================================================
