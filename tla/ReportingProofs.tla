-------------------------- MODULE ReportingProofs ---------------------------
(***************************************************************************)
(* Proofs about reports: what a reference names does not change between    *)
(* the gate and the statements, whatever scenarios are created meanwhile   *)
(* and whichever reads of the registry fail.                               *)
(***************************************************************************)
EXTENDS Discovery, SequenceTheorems, FiniteSetTheorems, WellFoundedInduction, TLAPS

AllRows == Scenarios \cup Additions
OwnIds  == {s.id : s \in Scenarios}

\* What storage ids and aliases look like by convention (upper-case words
\* joined by hyphens, and lower-case ones): an id would do for an alias, is
\* nobody else's alias, and no two rows have one id; an alias does not end in
\* the word that separates the sides of a comparison.  The code checks
\* aliases among themselves only (scenario_registry._validate_alias).
NamesApart ==
  /\ \A s \in AllRows : ValidAlias(s.id) /\ s.id # NobodyHolds
  /\ \A s, t \in AllRows : s.id = t.id \/ s.alias = t.id => s = t
  /\ \A s \in AllRows : Len(s.alias) > 1 => s.alias[Len(s.alias)] # "vs"

\* Every fact is of a scenario.
FactsOfScenarios ==
  \A table \in DOMAIN FactTables : \A f \in FactTables[table] :
    \E s \in AllRows : f.scn = s.id

\* Strings, and some that the backends do not know for strings.
Words == STRING \cup {"actuals", "py", "pp", "vs", "pct"}

LEMMA WiderSequences ==
  ASSUME NEW S, NEW T, S \subseteq T, NEW v \in Seq(S)
  PROVE  v \in Seq(T)
<1>1. \A i \in 1 .. Len(v) : v[i] \in T
  OBVIOUS
<1> QED
  BY <1>1

LEMMA WordSequences ==
  ASSUME NEW v \in Seq(STRING)
  PROVE  v \in Seq(Words)
<1>1. STRING \subseteq Words
  BY DEF Words
<1> QED
  BY <1>1, WiderSequences, Zenon

-----------------------------------------------------------------------------
(* One scenario, by its alias, its id or the alias with a suffix.           *)

\* A registry that loads, with some of the scenarios there ever are.
Loaded(R) == R \subseteq AllRows /\ Loads(R)

LEMMA NodesOfARow ==
  ASSUME NEW s, NEW suffix
  PROVE  /\ RealNode(s).node = "real" /\ RealNode(s).key = s.alias
         /\ RealNode(s).ids = {s.id} /\ RealNode(s) # Unknown
         /\ ShiftedNode(s, suffix).node = "shifted"
         /\ ShiftedNode(s, suffix).key = Append(s.alias, suffix)
         /\ ShiftedNode(s, suffix).ids = {s.id} /\ ShiftedNode(s, suffix) # Unknown
  BY DEF RealNode, ShiftedNode, Unknown

LEMMA RowsAreNamed ==
  ASSUME NEW s \in AllRows
  PROVE  s.id \in Seq(Words) /\ s.alias \in Seq(Words)
  BY ScenariosAssumption, WordSequences DEF AllRows

\* A key that is a row's alias or its id is the row.
LEMMA NamesItsRow ==
  ASSUME NamesApart, NEW R, Loaded(R), NEW v, NEW s \in R,
         Canonical(v) = s.alias \/ Canonical(v) = s.id
  PROVE  Single(R, v) = RealNode(s)
<1> DEFINE key == Canonical(v)
           aliased == {t \in R : t.alias = key}
<1>1. \A t \in R : t.alias = key => t = s
  BY DEF NamesApart, Loaded, Loads
<1>2. \A t \in R : t.id = key => t = s \/ s.alias = key
  BY DEF NamesApart, Loaded
<1>3. Named(R, key) = {s}
  <2>1. CASE aliased # {}
    <3>1. aliased = {s}
      BY <1>1, <2>1
    <3> QED
      BY <3>1 DEF Named
  <2>2. CASE aliased = {}
    <3>1. {t \in R : t.id = key} = {s}
      BY <1>2, <2>2
    <3> QED
      BY <3>1, <2>2 DEF Named
  <2> QED
    BY <2>1, <2>2
<1>4. (CHOOSE t \in Named(R, key) : TRUE) = s
  BY <1>3
<1> QED
  BY <1>3, <1>4 DEF Single

\* A key that is a row's alias with a suffix is the row, shifted.
LEMMA NamesItsShift ==
  ASSUME NamesApart, NEW R, Loaded(R), NEW v, NEW s \in R, NEW x \in {"py", "pp"},
         Canonical(v) = Append(s.alias, x)
  PROVE  Single(R, v) = ShiftedNode(s, x)
<1> DEFINE key == Canonical(v)
           base == {t \in R : Len(key) > 1 /\ Last(key) \in {"py", "pp"} /\ t.alias = Front(key)}
<1>1. s.alias \in Seq(Words) /\ s.alias # << >>
  BY RowsAreNamed DEF Loaded, Loads, ValidAlias, NoKey
<1>2. Len(key) > 1 /\ Last(key) = x /\ Front(key) = s.alias
  <2>1. Len(key) = Len(s.alias) + 1 /\ Len(s.alias) > 0
    BY <1>1
  <2>2. key[Len(key)] = x
    BY <1>1, <2>1
  <2>3. SubSeq(key, 1, Len(s.alias)) = s.alias
    BY <1>1
  <2> QED
    BY <2>1, <2>2, <2>3, <1>1 DEF Last, Front
<1>3. \A name : ValidAlias(name) => name # key
  BY <1>2 DEF ValidAlias
<1>4. Named(R, key) = {}
  BY <1>3 DEF Named, Loaded, Loads, NamesApart
<1>5. base = {s}
  BY <1>2 DEF Loaded, Loads
<1>6. (CHOOSE t \in base : TRUE) = s
  BY <1>5
<1> QED
  BY <1>2, <1>4, <1>5, <1>6 DEF Single

LEMMA SingleCases ==
  ASSUME NEW R, NEW v, Canonical(v) \in Seq(Words), Single(R, v) # Unknown
  PROVE  \E s \in R :
           \/ Canonical(v) = s.alias \/ Canonical(v) = s.id
           \/ \E x \in {"py", "pp"} : Canonical(v) = Append(s.alias, x)
<1> DEFINE key == Canonical(v)
           base == {t \in R : Len(key) > 1 /\ Last(key) \in {"py", "pp"} /\ t.alias = Front(key)}
<1>1. CASE Named(R, key) # {}
  BY <1>1 DEF Named
<1>2. CASE Named(R, key) = {}
  <2>1. base # {}
    BY <1>2 DEF Single
  <2>2. PICK s \in base : TRUE
    BY <2>1
  <2>3. key = Append(Front(key), Last(key))
    <3>1. Len(key) > 1
      BY <2>2
    <3> QED
      BY <3>1 DEF Front, Last
  <2> QED
    BY <2>2, <2>3
<1> QED
  BY <1>1, <1>2

\* A key with the separating word inside names no single scenario.
HasSides(key) == \E j \in 2 .. Len(key) - 1 : key[j] = "vs"

LEMMA SidesAreNotOne ==
  ASSUME NamesApart, NEW R, Loaded(R), NEW v, Canonical(v) \in Seq(Words),
         HasSides(Canonical(v))
  PROVE  Single(R, v) = Unknown
<1> DEFINE key == Canonical(v)
<1> SUFFICES ASSUME Single(R, v) # Unknown PROVE FALSE
  OBVIOUS
<1>1. PICK j \in 2 .. Len(key) - 1 : key[j] = "vs"
  BY DEF HasSides
<1>2. \A name : ValidAlias(name) => name # key
  BY <1>1 DEF ValidAlias
<1>3. PICK s \in R : \/ key = s.alias \/ key = s.id
                     \/ \E x \in {"py", "pp"} : key = Append(s.alias, x)
  BY SingleCases
<1>4. ValidAlias(s.alias) /\ ValidAlias(s.id)
  BY DEF Loaded, Loads, NamesApart
<1>5. PICK x \in {"py", "pp"} : key = Append(s.alias, x)
  BY <1>2, <1>3, <1>4
<1>6. s.alias \in Seq(Words) /\ Len(key) = Len(s.alias) + 1
  BY <1>5, RowsAreNamed DEF Loaded
<1>7. j \in 2 .. Len(s.alias) /\ s.alias[j] = "vs"
  BY <1>1, <1>5, <1>6
<1>8. j = Len(s.alias)
  BY <1>4, <1>6, <1>7 DEF ValidAlias
<1> QED
  BY <1>6, <1>7, <1>8 DEF NamesApart, Loaded

LEMMA Pairs ==
  ASSUME NEW a, NEW b
  PROVE  /\ \A S : a \in S /\ b \in S => <<a, b>> \in Seq(S)
         /\ Len(<<a, b>>) = 2 /\ <<a, b>>[1] = a /\ <<a, b>>[2] = b
<1>1. \A S : a \in S /\ b \in S => <<a, b>> \in Seq(S)
  OBVIOUS
<1>2. <<a, b>> \in Seq({a, b})
  OBVIOUS
<1> QED
  BY <1>1, <1>2

LEMMA CanonicalKeys ==
  ASSUME NEW v \in Seq(Words)
  PROVE  /\ Canonical(v) \in Seq(Words)
         /\ HasSides(v) => Canonical(v) = v
<1>1. Canonical(v) \in Seq(Words)
  <2>1. Canonical(v) \in {v, <<"actuals", "py">>, <<"actuals", "pp">>}
    BY Zenon DEF Canonical
  <2>2. {"actuals", "py", "pp"} \subseteq Words
    BY DEF Words
  <2>3. <<"actuals", "py">> \in Seq(Words) /\ <<"actuals", "pp">> \in Seq(Words)
    BY <2>2, Pairs
  <2> QED
    BY <2>1, <2>3
<1>2. ASSUME HasSides(v) PROVE Canonical(v) = v
  <2>1. Len(v) > 2
    BY <1>2 DEF HasSides
  <2>2. Len(<<"prior", "year">>) = 2 /\ Len(<<"prior", "period">>) = 2
    BY Pairs
  <2>3. v # <<"prior", "year">> /\ v # <<"prior", "period">>
    <3> DEFINE n == Len(v)
    <3>1. n # 2
      <4>1. n \in Nat
        OBVIOUS
      <4>2. n > 2
        BY <2>1
      <4> HIDE DEF n
      <4> QED
        BY <4>1, <4>2
    <3> HIDE DEF n
    <3> QED
      BY <2>2, <3>1, Zenon DEF n
  <2> QED
    BY <2>3, Zenon DEF Canonical
<1> QED
  BY <1>1, <1>2

\* What the registry's own keys name.
LEMMA OwnKeys ==
  ASSUME NamesApart, NEW R, Loaded(R), NEW s \in R, NEW x \in {"py", "pp"}
  PROVE  /\ Single(R, s.alias) = RealNode(s)
         /\ Single(R, Append(s.alias, x)) = ShiftedNode(s, x)
<1>1. Canonical(s.alias) = s.alias
  BY DEF Loaded, Loads, ValidAlias
<1>2. Canonical(Append(s.alias, x)) = Append(s.alias, x)
  <2>1. s.alias \in Seq(Words)
    BY RowsAreNamed DEF Loaded
  <2>2. Append(s.alias, x)[Len(Append(s.alias, x))] = x
    BY <2>1
  <2> DEFINE y == Append(s.alias, x)
  <2>3. y # <<"prior", "year">> /\ y # <<"prior", "period">>
    <3> HIDE DEF y
    <3>1. y = <<"prior", "year">> => y[Len(y)] = "year"
      BY Pairs
    <3>2. y = <<"prior", "period">> => y[Len(y)] = "period"
      BY Pairs
    <3> QED
      BY <2>2, <3>1, <3>2 DEF y
  <2> QED
    BY <2>3 DEF Canonical
<1> QED
  BY <1>1, <1>2, NamesItsRow, NamesItsShift

\* A single scenario that is found is that of a row, which its own key names.
LEMMA SingleIsARow ==
  ASSUME NamesApart, NEW R, Loaded(R), NEW v, Canonical(v) \in Seq(Words),
         Single(R, v) # Unknown
  PROVE  \E s \in R :
           /\ Single(R, v).ids = {s.id}
           /\ \/ Single(R, v) = RealNode(s) /\ Canonical(v) \in {s.alias, s.id}
              \/ \E x \in {"py", "pp"} :
                   Single(R, v) = ShiftedNode(s, x) /\ Canonical(v) = Append(s.alias, x)
<1>1. PICK s \in R : \/ Canonical(v) = s.alias \/ Canonical(v) = s.id
                     \/ \E x \in {"py", "pp"} : Canonical(v) = Append(s.alias, x)
  BY SingleCases
<1>2. CASE Canonical(v) = s.alias \/ Canonical(v) = s.id
  <2>1. Single(R, v) = RealNode(s)
    BY <1>2, NamesItsRow
  <2>2. RealNode(s).ids = {s.id}
    BY NodesOfARow
  <2> QED
    BY <1>2, <2>1, <2>2
<1>3. CASE \E x \in {"py", "pp"} : Canonical(v) = Append(s.alias, x)
  <2>1. PICK x \in {"py", "pp"} : Canonical(v) = Append(s.alias, x)
    BY <1>3
  <2> QED
    BY <2>1, NamesItsShift, NodesOfARow
<1> QED
  BY <1>1, <1>2, <1>3

-----------------------------------------------------------------------------
(* The registry grows, and a key that names scenarios there were at the    *)
(* start goes on naming them.                                               *)

Registry(R) == Scenarios \subseteq R /\ Loaded(R)

LEMMA OwnRows ==
  ASSUME NamesApart, NEW R, Registry(R), NEW s \in AllRows, s.id \in OwnIds
  PROVE  s \in R
  BY DEF Registry, OwnIds, NamesApart, AllRows

LEMMA SingleStays ==
  ASSUME NamesApart, NEW Q, Registry(Q), NEW R, Registry(R),
         NEW v, Canonical(v) \in Seq(Words),
         Single(Q, v) # Unknown, Single(Q, v).ids \subseteq OwnIds
  PROVE  Single(R, v) = Single(Q, v)
<1>1. PICK s \in Q :
        /\ Single(Q, v).ids = {s.id}
        /\ \/ Single(Q, v) = RealNode(s) /\ Canonical(v) \in {s.alias, s.id}
           \/ \E x \in {"py", "pp"} :
                Single(Q, v) = ShiftedNode(s, x) /\ Canonical(v) = Append(s.alias, x)
  BY SingleIsARow DEF Registry
<1>2. s \in R
  BY <1>1, OwnRows DEF Registry, Loaded
<1> QED
  BY <1>1, <1>2, NamesItsRow, NamesItsShift DEF Registry

-----------------------------------------------------------------------------
(* Comparisons                                                              *)

IsPct(key) == Len(key) > 1 /\ Last(key) = "pct"
Body(key)  == IF IsPct(key) THEN Front(key) ELSE key
Splits(body) == {i \in 2 .. Len(body) - 1 : body[i] = "vs"}
Split(body) == CHOOSE x \in Splits(body) : \A y \in Splits(body) : x <= y
LeftOf(body)  == SubSeq(body, 1, Split(body) - 1)
RightOf(body) == SubSeq(body, Split(body) + 1, Len(body))

\* The node of a comparison of two sides.
KindOf(key) == IF IsPct(key) THEN "variance_pct" ELSE "variance"

Versus(kind, left, right) ==
  [Unknown EXCEPT
     !.node  = kind,
     !.key   = left.key \o <<"vs">> \o right.key
                 \o (IF kind = "variance_pct" THEN <<"pct">> ELSE << >>),
     !.ids   = left.ids \cup right.ids,
     !.left  = left.key, !.right = right.key]

LEMMA ComparisonIs ==
  ASSUME NEW R, NEW key
  PROVE  LET left  == Single(R, LeftOf(Body(key)))
             right == Single(R, RightOf(Body(key)))
         IN  Comparison(R, key) =
               IF Splits(Body(key)) = {} \/ left = Unknown \/ right = Unknown THEN Unknown
               ELSE Versus(KindOf(key), left, right)
<1> DEFINE left  == Single(R, LeftOf(Body(key)))
           right == Single(R, RightOf(Body(key)))
           tail  == IF IsPct(key) THEN <<"pct">> ELSE << >>
<1>1. Comparison(R, key) =
        IF Splits(Body(key)) = {} \/ left = Unknown \/ right = Unknown THEN Unknown
        ELSE [Unknown EXCEPT
                !.node  = IF IsPct(key) THEN "variance_pct" ELSE "variance",
                !.key   = left.key \o <<"vs">> \o right.key \o tail,
                !.ids   = left.ids \cup right.ids,
                !.left  = left.key, !.right = right.key]
  BY Zenon DEF Comparison, IsPct, Body, Splits, Split, LeftOf, RightOf
<1>2. tail = IF KindOf(key) = "variance_pct" THEN <<"pct">> ELSE << >>
  BY DEF KindOf
<1> HIDE DEF left, right, tail
<1> QED
  BY <1>1, <1>2, Zenon DEF Versus, KindOf, left, right

LEMMA VersusFacts ==
  ASSUME NEW kind, NEW left, NEW right
  PROVE  /\ Versus(kind, left, right).node = kind
         /\ Versus(kind, left, right).ids = left.ids \cup right.ids
         /\ Versus(kind, left, right).left = left.key
         /\ Versus(kind, left, right).right = right.key
  BY DEF Versus, Unknown

LEMMA VersusKey ==
  ASSUME NEW kind, NEW left, NEW right
  PROVE  Versus(kind, left, right).key =
           left.key \o <<"vs">> \o right.key
             \o (IF kind = "variance_pct" THEN <<"pct">> ELSE << >>)
  BY DEF Versus, Unknown

LEMMA ComparisonsAreKnown ==
  ASSUME NEW kind \in {"variance", "variance_pct"}, NEW left, NEW right
  PROVE  Versus(kind, left, right) # Unknown /\ Computed(Versus(kind, left, right))
<1>1. Versus(kind, left, right).node = kind /\ Unknown.node = "unknown"
  BY VersusFacts DEF Unknown
<1> QED
  BY <1>1 DEF Computed

LEMMA FirstSplit ==
  ASSUME NEW body \in Seq(Words), Splits(body) # {}
  PROVE  /\ Split(body) \in Splits(body)
         /\ \A j \in Splits(body) : Split(body) <= j
<1>1. \E x \in Splits(body) : \A y \in Splits(body) : x <= y
  <2>1. Splits(body) \subseteq Nat
    BY DEF Splits
  <2>2. PICK x \in Splits(body) : \A y \in Splits(body) : ~(<<y, x>> \in OpToRel(<, Nat))
    BY <2>1, WFMin, NatLessThanWellFounded
  <2>3. \A y \in Splits(body) : x <= y
    <3> SUFFICES ASSUME NEW y \in Splits(body) PROVE x <= y
      OBVIOUS
    <3>1. x \in Nat /\ y \in Nat
      BY <2>1
    <3>2. ~(y < x)
      BY <2>2, <3>1 DEF OpToRel
    <3> QED
      BY <3>1, <3>2
  <2> QED
    BY <2>3
<1> QED
  BY <1>1 DEF Split

LEMMA BodyKeys ==
  ASSUME NEW key \in Seq(Words), Splits(Body(key)) # {}
  PROVE  /\ HasSides(key) /\ Body(key) \in Seq(Words)
         /\ Canonical(LeftOf(Body(key))) \in Seq(Words)
         /\ Canonical(RightOf(Body(key))) \in Seq(Words)
<1> DEFINE body == Body(key)
<1>1. body \in Seq(Words) /\ Len(body) \in {Len(key), Len(key) - 1}
      /\ \A j \in 1 .. Len(body) : body[j] = key[j]
  <2>1. CASE IsPct(key)
    <3>1. body = SubSeq(key, 1, Len(key) - 1) /\ Len(key) > 1
      BY <2>1 DEF Body, Front, IsPct
    <3> QED
      BY <3>1
  <2>2. CASE ~IsPct(key)
    BY <2>2 DEF Body
  <2> QED
    BY <2>1, <2>2
<1> HIDE DEF body
<1>2. PICK j \in 2 .. Len(body) - 1 : body[j] = "vs"
  BY DEF Splits, body
<1>3. j \in 2 .. Len(key) - 1 /\ key[j] = "vs"
  BY <1>1, <1>2
<1>4. Split(body) \in 2 .. Len(body) - 1
  BY <1>1, FirstSplit DEF Splits, body
<1>5. LeftOf(body) \in Seq(Words) /\ RightOf(body) \in Seq(Words)
  BY <1>1, <1>4 DEF LeftOf, RightOf
<1> QED
  BY <1>1, <1>3, <1>5, CanonicalKeys DEF HasSides, body

LEMMA ResolveIs ==
  ASSUME NEW R, Loaded(R), NEW v, v # NoKey
  PROVE  ResolveKey(R, v) = IF Single(R, v) # Unknown THEN Single(R, v)
                            ELSE Comparison(R, Canonical(v))
  BY Zenon DEF ResolveKey, Loaded

\* A key that names scenarios there were at the start names the same in every
\* registry that loads, before and after.
LEMMA NamesStay ==
  ASSUME NamesApart, NEW Q, Registry(Q), NEW R, Registry(R), NEW v \in Seq(Words),
         ResolveKey(Q, v) # Unknown, ResolveKey(Q, v).ids \subseteq OwnIds
  PROVE  ResolveKey(R, v) = ResolveKey(Q, v)
<1> DEFINE key == Canonical(v)
           left(P) == Single(P, LeftOf(Body(key)))
           right(P) == Single(P, RightOf(Body(key)))
<1>1. v # NoKey /\ Loaded(Q) /\ Loaded(R) /\ key \in Seq(Words)
  BY CanonicalKeys DEF ResolveKey, Registry
<1>2. CASE Single(Q, v) # Unknown
  <2>1. ResolveKey(Q, v) = Single(Q, v)
    BY <1>1, <1>2, ResolveIs
  <2>2. Single(R, v) = Single(Q, v)
    BY <1>1, <1>2, <2>1, SingleStays
  <2> QED
    BY <1>1, <1>2, <2>1, <2>2, ResolveIs
<1>3. CASE Single(Q, v) = Unknown
  <2>1. ResolveKey(Q, v) = Comparison(Q, key)
    BY <1>1, <1>3, ResolveIs
  <2>2. /\ Splits(Body(key)) # {} /\ left(Q) # Unknown /\ right(Q) # Unknown
        /\ Comparison(Q, key) = Versus(KindOf(key), left(Q), right(Q))
    BY <2>1, ComparisonIs
  <2>3. left(Q).ids \subseteq OwnIds /\ right(Q).ids \subseteq OwnIds
    <3>1. Comparison(Q, key).ids = left(Q).ids \cup right(Q).ids
      BY <2>2, VersusFacts
    <3> QED
      BY <2>1, <3>1
  <2>4. left(R) = left(Q) /\ right(R) = right(Q)
    BY <1>1, <2>2, <2>3, BodyKeys, SingleStays
  <2>5. Comparison(R, key) = Comparison(Q, key)
    BY <2>2, <2>4, ComparisonIs
  <2>6. Single(R, v) = Unknown
    BY <1>1, <2>2, BodyKeys, SidesAreNotOne
  <2> QED
    BY <1>1, <2>1, <2>5, <2>6, ResolveIs
<1> QED
  BY <1>2, <1>3

-----------------------------------------------------------------------------
(* The registry's own key of a comparison names the same two sides again.   *)

IsSide(R, node) ==
  \E s \in R : node = RealNode(s) \/ \E x \in {"py", "pp"} : node = ShiftedNode(s, x)

\* The key of a side is not split by the separating word.
Undivided(key) ==
  /\ key \in Seq(Words) /\ key # << >>
  /\ \A j \in 2 .. Len(key) : key[j] # "vs"

LEMMA SidesHaveKeys ==
  ASSUME NamesApart, NEW R, Loaded(R), NEW node, IsSide(R, node)
  PROVE  /\ Undivided(node.key) /\ Single(R, node.key) = node
         /\ Len(node.key) > 1 => node.key[Len(node.key)] # "pct"
         /\ node # Unknown /\ ~Computed(node) /\ \E id : node.ids = {id}
<1>1. PICK s \in R : node = RealNode(s) \/ \E x \in {"py", "pp"} : node = ShiftedNode(s, x)
  BY DEF IsSide
<1>2. /\ s.alias \in Seq(Words) /\ s.alias # << >>
      /\ \A j \in 2 .. Len(s.alias) : s.alias[j] # "vs"
      /\ Len(s.alias) > 1 => s.alias[Len(s.alias)] # "pct"
  <2>1. s \in AllRows /\ ValidAlias(s.alias)
    BY DEF Loaded, Loads
  <2>2. s.alias \in Seq(Words) /\ s.alias # << >>
    BY <2>1, RowsAreNamed DEF ValidAlias, NoKey
  <2>3. Len(s.alias) > 1 => s.alias[Len(s.alias)] \notin {"vs", "pct"}
    BY <2>1 DEF NamesApart, ValidAlias, Last
  <2>4. ASSUME NEW j \in 2 .. Len(s.alias) PROVE s.alias[j] # "vs"
    BY <2>1, <2>2, <2>3 DEF ValidAlias
  <2> QED
    BY <2>2, <2>3, <2>4
<1>3. CASE node = RealNode(s)
  <2>1. node.key = s.alias /\ node.node = "real" /\ node.ids = {s.id} /\ node # Unknown
    BY <1>3, NodesOfARow
  <2>2. Single(R, s.alias) = RealNode(s)
    BY OwnKeys
  <2> QED
    BY <1>2, <1>3, <2>1, <2>2 DEF Undivided, Computed
<1>4. CASE \E x \in {"py", "pp"} : node = ShiftedNode(s, x)
  <2>1. PICK x \in {"py", "pp"} : node = ShiftedNode(s, x)
    BY <1>4
  <2>2. node.key = Append(s.alias, x) /\ node.node = "shifted" /\ node.ids = {s.id} /\ node # Unknown
    BY <2>1, NodesOfARow
  <2>3. Single(R, Append(s.alias, x)) = ShiftedNode(s, x)
    BY OwnKeys
  <2>4. x \in Words
    BY DEF Words
  <2>5. /\ node.key \in Seq(Words) /\ Len(node.key) = Len(s.alias) + 1
        /\ node.key[Len(node.key)] = x
        /\ \A j \in 1 .. Len(s.alias) : node.key[j] = s.alias[j]
    BY <1>2, <2>2, <2>4
  <2>6. Undivided(node.key)
    BY <1>2, <2>5 DEF Undivided
  <2> QED
    BY <2>1, <2>2, <2>3, <2>5, <2>6 DEF Computed
<1> QED
  BY <1>1, <1>3, <1>4

LEMMA SplitOfVersus ==
  ASSUME NEW L, Undivided(L), NEW K, Undivided(K), NEW body, body = L \o <<"vs">> \o K
  PROVE  /\ body \in Seq(Words) /\ Splits(body) # {}
         /\ LeftOf(body) = L /\ RightOf(body) = K
<1>1. /\ L \in Seq(Words) /\ K \in Seq(Words) /\ Len(L) > 0 /\ Len(K) > 0
      /\ <<"vs">> \in Seq(Words) /\ Len(<<"vs">>) = 1
  BY DEF Undivided, Words
<1>2. /\ body \in Seq(Words) /\ Len(body) = Len(L) + 1 + Len(K)
      /\ \A j \in 1 .. Len(L) : body[j] = L[j]
      /\ body[Len(L) + 1] = "vs"
      /\ \A j \in 1 .. Len(K) : body[Len(L) + 1 + j] = K[j]
  BY <1>1
<1>3. Len(L) + 1 \in Splits(body)
  BY <1>1, <1>2 DEF Splits
<1>4. \A j \in Splits(body) : Len(L) + 1 <= j
  <2> SUFFICES ASSUME NEW j \in Splits(body) PROVE Len(L) + 1 <= j
    OBVIOUS
  <2>1. j \in 2 .. Len(body) - 1 /\ body[j] = "vs"
    BY DEF Splits
  <2>2. ~(j \in 2 .. Len(L))
    BY <1>1, <1>2, <2>1 DEF Undivided
  <2> QED
    BY <1>1, <2>1, <2>2
<1>5. Split(body) = Len(L) + 1
  <2>1. Split(body) \in Splits(body) /\ \A j \in Splits(body) : Split(body) <= j
    BY <1>2, <1>3, FirstSplit
  <2>2. Split(body) \in Int
    BY <1>2, <2>1 DEF Splits
  <2> QED
    BY <1>1, <1>3, <1>4, <2>1, <2>2
<1>6. LeftOf(body) = L
  <2>1. LeftOf(body) = SubSeq(body, 1, Len(L))
    BY <1>1, <1>5 DEF LeftOf
  <2> QED
    BY <1>1, <1>2, <2>1
<1>7. RightOf(body) = K
  <2>1. RightOf(body) = SubSeq(body, Len(L) + 2, Len(body))
    BY <1>1, <1>5 DEF RightOf
  <2>2. Len(L) \in Nat /\ Len(K) \in Nat
    BY <1>1
  <2>3. RightOf(body) \in Seq(Words) /\ Len(RightOf(body)) = Len(K)
    <3>1. \A i \in Len(L) + 2 .. Len(body) : body[i] \in Words
      BY <1>2, <2>2
    <3> DEFINE m == Len(L) + 2
               n == Len(body)
    <3>2. m \in Int /\ n \in Int /\ m <= n /\ n - m + 1 = Len(K)
      BY <1>1, <1>2, <2>2
    <3> HIDE DEF m, n
    <3>3. SubSeq(body, m, n) \in Seq(Words) /\ Len(SubSeq(body, m, n)) = n - m + 1
      BY <3>1, <3>2, SubSeqProperties DEF m, n
    <3> QED
      BY <2>1, <3>2, <3>3 DEF m, n
  <2>4. \A j \in 1 .. Len(K) : RightOf(body)[j] = body[Len(L) + 1 + j]
    BY <1>2, <2>1, <2>2, SubSeqProperties
  <2> QED
    <3> DEFINE M == RightOf(body)
    <3>1. M \in Seq(Words) /\ K \in Seq(Words) /\ Len(M) = Len(K)
      BY <1>1, <2>3
    <3>2. \A j \in 1 .. Len(K) : M[j] = K[j]
      BY <1>2, <2>4
    <3> HIDE DEF M
    <3>3. M = K
      BY <3>1, <3>2
    <3> QED
      BY <3>3 DEF M
<1> QED
  BY <1>2, <1>3, <1>6, <1>7

\* Where the key of a comparison is split again, it is at the same place.
LEMMA VersusAgain ==
  ASSUME NamesApart, NEW R, Loaded(R), NEW left, IsSide(R, left), NEW right, IsSide(R, right),
         NEW kind \in {"variance", "variance_pct"}
  PROVE  ResolveKey(R, Versus(kind, left, right).key).ids \subseteq left.ids \cup right.ids
<1> DEFINE L == left.key
           K == right.key
           inner == L \o <<"vs">> \o K
           key == Versus(kind, left, right).key
<1>1. /\ Undivided(L) /\ Undivided(K) /\ Single(R, L) = left /\ Single(R, K) = right
      /\ left # Unknown /\ right # Unknown
      /\ Len(K) > 1 => K[Len(K)] # "pct"
  BY SidesHaveKeys
<1>2. key = inner \o (IF kind = "variance_pct" THEN <<"pct">> ELSE << >>)
  BY VersusKey
<1>3. /\ inner \in Seq(Words) /\ Splits(inner) # {} /\ LeftOf(inner) = L /\ RightOf(inner) = K
  BY <1>1, SplitOfVersus
<1>4. /\ L \in Seq(Words) /\ K \in Seq(Words) /\ Len(L) > 0 /\ Len(K) > 0
      /\ <<"vs">> \in Seq(Words) /\ <<"pct">> \in Seq(Words) /\ Len(<<"pct">>) = 1
      /\ Len(inner) = Len(L) + 1 + Len(K)
      /\ inner[Len(L) + 1] = "vs" /\ inner[Len(inner)] = K[Len(K)]
      /\ \A j \in 1 .. Len(L) : inner[j] = L[j]
  <2>1. L \in Seq(Words) /\ K \in Seq(Words) /\ Len(L) > 0 /\ Len(K) > 0
    BY <1>1 DEF Undivided
  <2>2. /\ <<"vs">> \in Seq(Words) /\ Len(<<"vs">>) = 1 /\ <<"vs">>[1] = "vs"
        /\ <<"pct">> \in Seq(Words) /\ Len(<<"pct">>) = 1
    BY DEF Words
  <2> HIDE DEF L, K
  <2> QED
    BY <2>1, <2>2
<1> HIDE DEF L, K, inner, key
<1>5. /\ key \in Seq(Words) /\ key # NoKey /\ HasSides(key) /\ Canonical(key) = key
  <2>1. /\ key \in Seq(Words) /\ Len(key) >= Len(inner)
        /\ \A j \in 1 .. Len(inner) : key[j] = inner[j]
    BY <1>2, <1>4, <1>3
  <2>2. HasSides(key)
    <3>1. Len(L) + 1 \in 2 .. Len(key) - 1 /\ key[Len(L) + 1] = "vs"
      BY <1>4, <2>1
    <3> QED
      BY <3>1 DEF HasSides
  <2>3. key # NoKey
    BY <1>4, <2>1 DEF NoKey
  <2> QED
    BY <2>1, <2>2, <2>3, CanonicalKeys
<1>6. ResolveKey(R, key) = Comparison(R, key)
  BY <1>5, SidesAreNotOne, ResolveIs
<1>7. Body(key) = inner \/ Splits(Body(key)) = {}
  <2>1. CASE kind = "variance_pct"
    <3>1. IsPct(key) /\ Front(key) = inner
      BY <1>2, <1>3, <1>4, <2>1 DEF IsPct, Front, Last
    <3> QED
      BY <3>1 DEF Body
  <2>2. CASE kind # "variance_pct"
    <3>1. key = inner
      BY <1>2, <1>3, <2>2
    <3>2. CASE ~IsPct(key)
      BY <3>1, <3>2 DEF Body
    <3>3. CASE IsPct(key)
      <4>1. Len(K) = 1
        <5>1. K[Len(K)] = "pct"
          BY <1>4, <3>1, <3>3, Zenon DEF IsPct, Last
        <5>2. ~(Len(K) > 1)
          BY <1>1, <5>1, Zenon
        <5>3. Len(K) \in Nat /\ Len(K) > 0
          BY <1>4
        <5> QED
          BY <5>2, <5>3
      <4>2. Body(key) = SubSeq(inner, 1, Len(L) + 1)
        BY <1>3, <1>4, <3>1, <3>3, <4>1 DEF Body, Front
      <4>3. /\ Len(Body(key)) = Len(L) + 1
            /\ \A j \in 1 .. Len(L) : Body(key)[j] = L[j]
        BY <1>3, <1>4, <4>2
      <4> QED
        BY <1>1, <1>4, <4>3 DEF Splits, Undivided
    <3> QED
      BY <3>2, <3>3
  <2> QED
    BY <2>1, <2>2
<1>8. CASE Splits(Body(key)) = {}
  <2>1. Comparison(R, key) = Unknown
    BY <1>8, ComparisonIs
  <2> QED
    BY <1>6, <2>1 DEF Unknown, key
<1>9. CASE Body(key) = inner
  <2>1. Comparison(R, key) = Versus(KindOf(key), left, right)
    BY <1>1, <1>3, <1>9, ComparisonIs DEF L, K
  <2>2. Comparison(R, key).ids = left.ids \cup right.ids
    BY <2>1, VersusFacts
  <2> QED
    BY <1>6, <2>2 DEF key
<1> QED
  BY <1>7, <1>8, <1>9

-----------------------------------------------------------------------------
(* What the gate has allowed a reference to read, whatever the registry    *)
(* says later.                                                              *)

\* A read of the registry: the rows there are, or nothing.
Looked(R) == R = Unreadable \/ (Scenarios \subseteq R /\ R \subseteq AllRows)

Target(ref) == Modifiers(ref)["fork"]

\* A target that is no scenario's id reads nothing.
AllowedId(id, S) == \A s \in AllRows : s.id = id => id \in S

GatedRef(ref, S) ==
  /\ \A R \in SUBSET AllRows : Registry(R) =>
       \A id \in ResolveKey(R, ref.key).ids :
         /\ id \in S
         /\ Forks(ref) /\ Target(ref) = NoKey => Parents(Scenarios, {id}) \subseteq S
  /\ Forks(ref) /\ Target(ref) # NoKey => AllowedId(Target(ref), S)

LEMMA KnownMeansLoaded ==
  ASSUME NEW R, Looked(R), NEW v, ResolveKey(R, v) # Unknown
  PROVE  Registry(R) /\ R \in SUBSET AllRows /\ v # NoKey
<1>1. Loads(R) /\ v # NoKey
  BY DEF ResolveKey
<1>2. ~Loads(Unreadable)
  BY DEF Loads, Unreadable, ValidAlias
<1> QED
  BY <1>1, <1>2 DEF Looked, Registry, Loaded

LEMMA NodeParts ==
  ASSUME NamesApart, NEW R, Loaded(R), NEW v \in Seq(Words), ResolveKey(R, v) # Unknown
  PROVE  \/ IsSide(R, ResolveKey(R, v))
         \/ /\ HasSides(Canonical(v))
            /\ \E kind \in {"variance", "variance_pct"} : \E left, right :
                 /\ IsSide(R, left) /\ IsSide(R, right)
                 /\ ResolveKey(R, v) = Versus(kind, left, right)
<1> DEFINE key == Canonical(v)
<1>1. v # NoKey /\ key \in Seq(Words)
  BY CanonicalKeys DEF ResolveKey
<1>2. \A w : Canonical(w) \in Seq(Words) /\ Single(R, w) # Unknown => IsSide(R, Single(R, w))
  BY SingleIsARow DEF IsSide
<1>3. CASE Single(R, v) # Unknown
  BY <1>1, <1>2, <1>3, ResolveIs
<1>4. CASE Single(R, v) = Unknown
  <2> DEFINE left  == Single(R, LeftOf(Body(key)))
             right == Single(R, RightOf(Body(key)))
  <2>1. ResolveKey(R, v) = Comparison(R, key)
    BY <1>1, <1>4, ResolveIs
  <2>2. /\ Splits(Body(key)) # {} /\ left # Unknown /\ right # Unknown
        /\ Comparison(R, key) = Versus(KindOf(key), left, right)
    BY <2>1, ComparisonIs
  <2>3. HasSides(key) /\ IsSide(R, left) /\ IsSide(R, right)
    BY <1>1, <1>2, <2>2, BodyKeys
  <2>4. KindOf(key) \in {"variance", "variance_pct"}
    BY DEF KindOf
  <2> QED
    BY <2>1, <2>2, <2>3, <2>4
<1> QED
  BY <1>3, <1>4

\* The registry's own key of a node names no more than the node.
LEMMA OwnKeyAgain ==
  ASSUME NamesApart, NEW R, Loaded(R), NEW v \in Seq(Words), ResolveKey(R, v) # Unknown
  PROVE  /\ ResolveKey(R, v).key \in Seq(Words)
         /\ ResolveKey(R, ResolveKey(R, v).key).ids \subseteq ResolveKey(R, v).ids
<1> DEFINE node == ResolveKey(R, v)
<1>1. CASE IsSide(R, node)
  <2>1. /\ Undivided(node.key) /\ Single(R, node.key) = node /\ node # Unknown
    BY <1>1, SidesHaveKeys
  <2>2. node.key # NoKey /\ node.key \in Seq(Words)
    BY <2>1 DEF Undivided, NoKey
  <2>3. ResolveKey(R, node.key) = node
    BY <2>1, <2>2, ResolveIs
  <2> QED
    BY <2>2, <2>3
<1>2. ASSUME NEW kind \in {"variance", "variance_pct"}, NEW left, NEW right,
             IsSide(R, left), IsSide(R, right), node = Versus(kind, left, right)
      PROVE  /\ node.key \in Seq(Words)
             /\ ResolveKey(R, node.key).ids \subseteq node.ids
  <2>1. left.key \in Seq(Words) /\ right.key \in Seq(Words)
    BY <1>2, SidesHaveKeys DEF Undivided
  <2>2. "vs" \in Words /\ "pct" \in Words
    BY DEF Words
  <2>3. <<"vs">> \in Seq(Words) /\ <<"pct">> \in Seq(Words) /\ << >> \in Seq(Words)
    BY <2>2
  <2>4. node.key = left.key \o <<"vs">> \o right.key
                     \o (IF kind = "variance_pct" THEN <<"pct">> ELSE << >>)
    <3>1. node.key = Versus(kind, left, right).key
      BY <1>2
    <3>2. Versus(kind, left, right).key =
            left.key \o <<"vs">> \o right.key
              \o (IF kind = "variance_pct" THEN <<"pct">> ELSE << >>)
      BY VersusKey
    <3> QED
      BY <3>1, <3>2, Zenon
  <2>5. node.key \in Seq(Words)
    BY <2>1, <2>3, <2>4
  <2>6. node.ids = left.ids \cup right.ids
    BY <1>2, VersusFacts
  <2>7. ResolveKey(R, Versus(kind, left, right).key).ids \subseteq left.ids \cup right.ids
    BY <1>2, VersusAgain
  <2> QED
    BY <1>2, <2>5, <2>6, <2>7
<1> QED
  BY <1>1, <1>2, NodeParts

LEMMA IdNamesItself ==
  ASSUME NamesApart, NEW R, Registry(R), NEW s \in R
  PROVE  ResolveKey(R, s.id).ids = {s.id}
<1>1. ValidAlias(s.id) /\ Loaded(R)
  BY DEF NamesApart, Registry, Loaded
<1>2. Single(R, s.id) = RealNode(s)
  BY <1>1, NamesItsRow DEF ValidAlias
<1>3. RealNode(s).ids = {s.id} /\ RealNode(s) # Unknown
  BY NodesOfARow
<1>4. s.id # NoKey
  BY <1>1 DEF ValidAlias
<1> QED
  BY <1>1, <1>2, <1>3, <1>4, ResolveIs

\* Whatever a key that is some row's id is taken for, it is that row.
LEMMA IdNamesNoOther ==
  ASSUME NamesApart, NEW R, Registry(R), NEW s \in AllRows, ResolveKey(R, s.id) # Unknown
  PROVE  ResolveKey(R, s.id).ids = {s.id}
<1> DEFINE v == s.id
<1>1. /\ ValidAlias(v) /\ Canonical(v) = v /\ v \in Seq(Words) /\ Loaded(R) /\ v # NoKey
  BY RowsAreNamed DEF NamesApart, ValidAlias, Registry
<1>2. ~HasSides(v)
  BY <1>1 DEF ValidAlias, HasSides
<1>3. Single(R, v) # Unknown
  <2> SUFFICES ASSUME Single(R, v) = Unknown PROVE FALSE
    OBVIOUS
  <2>1. Comparison(R, v) # Unknown
    BY <1>1, ResolveIs
  <2>2. Splits(Body(v)) # {}
    BY <2>1, ComparisonIs
  <2> QED
    BY <1>1, <1>2, <2>2, BodyKeys
<1>4. PICK r \in R :
        /\ Single(R, v).ids = {r.id}
        /\ \/ v \in {r.alias, r.id}
           \/ \E x \in {"py", "pp"} : v = Append(r.alias, x)
  BY <1>1, <1>3, SingleIsARow
<1>5. r \in AllRows
  BY <1>1 DEF Loaded
<1>6. CASE v \in {r.alias, r.id}
  <2>1. r = s
    BY <1>5, <1>6 DEF NamesApart
  <2> QED
    BY <1>1, <1>3, <1>4, <2>1, ResolveIs
<1>7. CASE \E x \in {"py", "pp"} : v = Append(r.alias, x)
  <2>1. PICK x \in {"py", "pp"} : v = Append(r.alias, x)
    BY <1>7
  <2>2. r.alias \in Seq(Words) /\ r.alias # << >>
    BY <1>1, <1>5, RowsAreNamed DEF Loaded, Loads, ValidAlias, NoKey
  <2>3. Len(v) > 1 /\ v[Len(v)] = x
    BY <2>1, <2>2
  <2> QED
    BY <1>1, <2>3 DEF ValidAlias, Last
<1> QED
  BY <1>4, <1>6, <1>7

\* What the gate lets pass is read as it was understood there.
LEMMA GateAllows ==
  ASSUME NamesApart, NEW R, Looked(R), NEW ref, ref.key \in Seq(Words),
         Expand(R, ref) \subseteq OwnIds
  PROVE  GatedRef(ref, Expand(R, ref))
<1> DEFINE S == Expand(R, ref)
           base == Dependencies(R, ref.key)
           target == Target(ref)
<1>1. base \subseteq S
  BY DEF Expand
<1>2. /\ Forks(ref) /\ target # NoKey => Dependencies(R, target) \subseteq S
      /\ Forks(ref) /\ target = NoKey =>
           IF Loads(R) THEN Parents(R, base) \subseteq S ELSE NobodyHolds \in S
  BY Zenon DEF Expand, Target
<1> HIDE DEF S
<1>3. S \subseteq OwnIds
  BY DEF S
<1>4. ASSUME NEW Q \in SUBSET AllRows, Registry(Q), NEW id \in ResolveKey(Q, ref.key).ids
      PROVE  id \in base
  <2>1. CASE ResolveKey(R, ref.key) = Unknown
    <3>1. base = {ref.key}
      BY <2>1 DEF Dependencies
    <3>2. PICK s \in Scenarios : s.id = ref.key
      BY <1>1, <1>3, <3>1 DEF OwnIds
    <3>3. s \in Q
      BY <1>4 DEF Registry
    <3>4. ResolveKey(Q, ref.key).ids = {ref.key}
      BY <1>4, <3>2, <3>3, IdNamesItself
    <3> QED
      BY <1>4, <3>1, <3>4
  <2>2. CASE ResolveKey(R, ref.key) # Unknown
    <3>1. base = ResolveKey(R, ref.key).ids
      BY <2>2 DEF Dependencies
    <3>2. Registry(R)
      BY <2>2, KnownMeansLoaded
    <3>3. ResolveKey(Q, ref.key) = ResolveKey(R, ref.key)
      BY <1>1, <1>3, <1>4, <2>2, <3>1, <3>2, NamesStay
    <3> QED
      BY <1>4, <3>1, <3>3
  <2> QED
    BY <2>1, <2>2
<1>5. ASSUME Forks(ref), target = NoKey, NEW id \in base
      PROVE  Parents(Scenarios, {id}) \subseteq S
  <2>1. NobodyHolds \notin OwnIds
    BY DEF NamesApart, OwnIds, AllRows
  <2>2. Loads(R) /\ Parents(R, base) \subseteq S
    BY <1>2, <1>3, <1>5, <2>1
  <2>3. Scenarios \subseteq R
    <3>1. ~Loads(Unreadable)
      BY DEF Loads, Unreadable, ValidAlias
    <3> QED
      BY <2>2, <3>1 DEF Looked
  <2>4. Parents(Scenarios, {id}) \subseteq Parents(R, base)
    BY <1>5, <2>3 DEF Parents
  <2> QED
    BY <2>2, <2>4
<1>6. ASSUME Forks(ref), target # NoKey PROVE AllowedId(target, S)
  <2> SUFFICES ASSUME NEW s \in AllRows, s.id = target PROVE target \in S
    BY DEF AllowedId
  <2>1. Dependencies(R, target) = {target}
    <3>1. CASE ResolveKey(R, target) = Unknown
      BY <3>1 DEF Dependencies
    <3>2. CASE ResolveKey(R, target) # Unknown
      <4>1. Registry(R)
        BY <3>2, KnownMeansLoaded
      <4>2. ResolveKey(R, target).ids = {target}
        BY <3>2, <4>1, IdNamesNoOther
      <4> QED
        BY <3>2, <4>2 DEF Dependencies
    <3> QED
      BY <3>1, <3>2
  <2> QED
    BY <1>2, <1>6, <2>1
<1> QED
  BY <1>1, <1>4, <1>5, <1>6 DEF GatedRef, S

\* The registry's own key is no wider than what was asked for.
LEMMA NormaliseKeeps ==
  ASSUME NamesApart, NEW R, Looked(R), NEW ref, DOMAIN ref = {"key", "mods"},
         ref.key \in Seq(Words), NEW S \in SUBSET OwnIds, GatedRef(ref, S)
  PROVE  /\ GatedRef(Normalise(R, ref), S)
         /\ Normalise(R, ref).key \in Seq(Words)
<1> DEFINE node == ResolveKey(R, ref.key)
           new == Normalise(R, ref)
<1>1. CASE node = Unknown
  BY <1>1 DEF Normalise
<1>2. CASE node # Unknown
  <2>1. Registry(R) /\ R \in SUBSET AllRows
    BY <1>2, KnownMeansLoaded
  <2>2. node.ids \subseteq S
    BY <2>1 DEF GatedRef
  <2>3. new.key = node.key /\ new.mods = ref.mods
    BY <1>2 DEF Normalise
  <2>4. (Forks(new) <=> Forks(ref)) /\ Target(new) = Target(ref)
    BY <2>3 DEF Forks, WellFormed, Modifiers, Target
  <2>5. ASSUME NEW Q \in SUBSET AllRows, Registry(Q)
        PROVE  ResolveKey(Q, new.key).ids \subseteq ResolveKey(Q, ref.key).ids
    <3>1. ResolveKey(Q, ref.key) = node
      BY <1>2, <2>1, <2>2, <2>5, NamesStay
    <3> QED
      BY <1>2, <2>3, <2>5, <3>1, OwnKeyAgain DEF Registry
  <2>6. new.key \in Seq(Words)
    BY <1>2, <2>1, <2>3, OwnKeyAgain DEF Registry
  <2>7. GatedRef(new, S)
    BY <2>4, <2>5 DEF GatedRef
  <2> QED
    BY <2>6, <2>7
<1> QED
  BY <1>1, <1>2

-----------------------------------------------------------------------------
(* The queries of a plan                                                    *)

GatedQuery(q, S) ==
  /\ "scn" \in DOMAIN q /\ q.scn \in S
  /\ "fork" \in DOMAIN q.mods =>
       IF q.mods["fork"] = NoKey THEN Parents(Scenarios, {q.scn}) \subseteq S
       ELSE AllowedId(q.mods["fork"], S)

LEMMA QueriesAreGated ==
  ASSUME NamesApart, NEW R, Looked(R), NEW req, NEW S,
         \A ref \in Refs(req) :
           /\ ref.key \in Seq(Words) /\ GatedRef(ref, S)
           /\ WellFormed(ref) /\ ResolveKey(R, ref.key) # Unknown,
         NEW r \in ReadRefs(R, Refs(req))
  PROVE  /\ GatedQuery(DataQuery(R, req, r), S)
         /\ WellFormed(r) /\ r.key \in Seq(Words)
         /\ Registry(R) /\ IsSide(R, ResolveKey(R, r.key))
<1> DEFINE q == DataQuery(R, req, r)
           scn == CHOOSE id \in ResolveKey(R, r.key).ids : TRUE
<1>1. q.scn = scn /\ q.mods = Modifiers(r) /\ "scn" \in DOMAIN q
  BY DEF DataQuery
<1>2. PICK ref \in Refs(req) :
        r \in IF Computed(ResolveKey(R, ref.key))
              THEN {Plain(ResolveKey(R, ref.key).left), Plain(ResolveKey(R, ref.key).right)}
              ELSE {ref}
  BY Zenon DEF ReadRefs
<1> DEFINE node == ResolveKey(R, ref.key)
<1>3. /\ Registry(R) /\ Loaded(R) /\ R \in SUBSET AllRows
      /\ \A id \in node.ids :
           /\ id \in S
           /\ Forks(ref) /\ Target(ref) = NoKey => Parents(Scenarios, {id}) \subseteq S
      /\ Forks(ref) /\ Target(ref) # NoKey => AllowedId(Target(ref), S)
  BY KnownMeansLoaded DEF GatedRef, Registry
<1>4. ref.key \in Seq(Words) /\ WellFormed(ref) /\ node # Unknown
  OBVIOUS
<1>5. CASE IsSide(R, node)
  <2>1. ~Computed(node) /\ node.ids # {}
    BY <1>3, <1>5, SidesHaveKeys
  <2>2. r = ref
    BY <1>2, <2>1
  <2>3. scn \in node.ids
    BY <2>1, <2>2
  <2> HIDE DEF scn, q
  <2>4. GatedQuery(q, S)
    BY <1>1, <1>3, <1>4, <2>2, <2>3 DEF GatedQuery, Forks, Target, q
  <2> QED
    BY <1>3, <1>4, <1>5, <2>2, <2>4 DEF q
<1>6. ASSUME NEW kind \in {"variance", "variance_pct"}, NEW left, NEW right,
             IsSide(R, left), IsSide(R, right), node = Versus(kind, left, right)
      PROVE  /\ GatedQuery(q, S)
             /\ WellFormed(r) /\ r.key \in Seq(Words) /\ IsSide(R, ResolveKey(R, r.key))
  <2>1. Computed(node) /\ node.ids = left.ids \cup right.ids
        /\ node.left = left.key /\ node.right = right.key
    BY <1>6, ComparisonsAreKnown, VersusFacts
  <2>2. PICK side \in {left, right} : r = Plain(side.key)
    BY <1>2, <2>1
  <2>3. Undivided(side.key) /\ Single(R, side.key) = side /\ side # Unknown /\ side.ids # {}
    BY <1>3, <1>6, SidesHaveKeys
  <2>4. ResolveKey(R, side.key) = side
    BY <1>3, <2>3, ResolveIs DEF Undivided, NoKey
  <2>5. scn \in node.ids
    BY <2>1, <2>2, <2>3, <2>4 DEF Plain
  <2>6. "fork" \notin DOMAIN q.mods
    <3>1. r.mods = << >>
      BY <2>2 DEF Plain
    <3> QED
      BY <1>1, <3>1 DEF Modifiers
  <2>7. WellFormed(r) /\ r.key = side.key
    BY <2>2 DEF WellFormed, Plain
  <2>8. r.key \in Seq(Words) /\ IsSide(R, ResolveKey(R, r.key))
    BY <1>6, <2>2, <2>3, <2>4, <2>7 DEF Undivided
  <2> HIDE DEF scn, q
  <2>9. GatedQuery(q, S)
    BY <1>1, <1>3, <2>5, <2>6 DEF GatedQuery, q
  <2> QED
    BY <2>7, <2>8, <2>9
<1> QED
  BY <1>3, <1>4, <1>5, <1>6, NodeParts

LEMMA FiniteImages ==
  ASSUME NEW S, IsFiniteSet(S), NEW f, DOMAIN f = S
  PROVE  IsFiniteSet({f[x] : x \in S})
<1> DEFINE T == {f[x] : x \in S}
           g == [x \in S |-> f[x]]
<1>1. g \in Surjection(S, T)
  BY DEF Surjection
<1> QED
  BY <1>1, FS_Surjection

LEMMA FiniteQueries ==
  ASSUME NEW R, NEW req, IsFiniteSet(DOMAIN req.blocks)
  PROVE  IsFiniteSet(Deduplicated({DataQuery(R, req, ref) : ref \in ReadRefs(R, Refs(req))}))
<1> DEFINE refs == Refs(req)
           sides(ref) == LET node == ResolveKey(R, ref.key)
                         IN  IF Computed(node) THEN {Plain(node.left), Plain(node.right)} ELSE {ref}
           reads == ReadRefs(R, refs)
           queries == {DataQuery(R, req, ref) : ref \in reads}
<1>1. IsFiniteSet(refs)
  <2> DEFINE f == [i \in DOMAIN req.blocks |-> req.blocks[i].ref]
  <2>1. refs = {f[i] : i \in DOMAIN req.blocks}
    BY DEF Refs
  <2>2. DOMAIN f = DOMAIN req.blocks
    OBVIOUS
  <2> HIDE DEF f
  <2> QED
    BY <2>1, <2>2, FiniteImages
<1>2. IsFiniteSet(reads)
  <2> DEFINE f == [ref \in refs |-> sides(ref)]
             all == {f[ref] : ref \in refs}
  <2>1. IsFiniteSet(all)
    BY <1>1, FiniteImages
  <2>2. \A T \in all : IsFiniteSet(T)
    <3>1. \A a, b : IsFiniteSet({a}) /\ IsFiniteSet({a, b})
      <4> TAKE a, b
      <4>1. IsFiniteSet({a})
        BY FS_Singleton
      <4>2. {a, b} = {a} \cup {b}
        OBVIOUS
      <4> QED
        BY <4>1, <4>2, FS_AddElement
    <3>2. \A ref \in refs : IsFiniteSet(sides(ref))
      BY <3>1
    <3> QED
      BY <3>2
  <2>3. reads = UNION all
    BY Zenon DEF ReadRefs
  <2> QED
    BY <2>1, <2>2, <2>3, FS_UNION
<1>3. IsFiniteSet(queries)
  <2> DEFINE f == [ref \in reads |-> DataQuery(R, req, ref)]
  <2>1. queries = {f[ref] : ref \in reads} /\ DOMAIN f = reads
    OBVIOUS
  <2> HIDE DEF f, reads, queries
  <2>2. IsFiniteSet({f[ref] : ref \in reads})
    BY <1>2, <2>1, FiniteImages
  <2> QED
    BY <2>1, <2>2
<1>4. Deduplicated(queries) \subseteq queries
  BY DEF Deduplicated, SameData
<1> QED
  BY <1>3, <1>4, FS_Subset

LEMMA ListedQueries ==
  ASSUME NEW S, IsFiniteSet(S)
  PROVE  SetToSeq(S) \in [1 .. Cardinality(S) -> S]
<1>1. PICK f : f \in Bijection(1 .. Cardinality(S), S)
  BY FS_CardinalityType DEF ExistsBijection
<1>2. f \in [1 .. Cardinality(S) -> S] /\ IsInjective(f)
  BY <1>1 DEF Bijection, Injection, IsInjective
<1> QED
  BY <1>2 DEF SetToSeq

-----------------------------------------------------------------------------
(* The stages of a report                                                   *)

IsSeq(s) == \E T : s \in Seq(T)

\* The call is one of the requests, with the actuals for a missing scenario.
WellTyped ==
  /\ at \in [stage : {"gate", "normalise", "resolve", "filter", "fork", "read", "answered", "shown"},
             i : Nat \ {0}]
  /\ "blocks" \in DOMAIN request /\ \E n \in Nat : DOMAIN request.blocks = 1 .. n
  /\ \A i \in DOMAIN request.blocks :
       /\ "ref" \in DOMAIN request.blocks[i]
       /\ DOMAIN request.blocks[i].ref = {"key", "mods"}
       /\ request.blocks[i].ref.key \in Seq(Words)
  /\ IsSeq(blocks)

\* The permissions are those of the scenarios there were when they were loaded.
GateHolds ==
  /\ DOMAIN permissions \subseteq OwnIds /\ ids \subseteq OwnIds
  /\ at.stage \notin {"answered", "shown"} => answer = Pending
  /\ at.stage = "gate" =>
       \A i \in DOMAIN request.blocks : i < at.i => GatedRef(request.blocks[i].ref, ids)
  /\ at.stage = "normalise" =>
       \A i \in DOMAIN request.blocks : GatedRef(request.blocks[i].ref, ids)
  /\ at.stage \in {"gate", "normalise", "resolve"} =>
       \A i \in DOMAIN blocks :
         blocks[i].ref.key \in Seq(Words) /\ GatedRef(blocks[i].ref, ids)

\* What is still to be read was allowed.
ReadsAllowed ==
  /\ at.stage \in {"filter", "fork"} =>
       /\ IsFiniteSet(plan.queries)
       /\ \A q \in plan.queries : GatedQuery(q, ids)
  /\ at.stage = "read" =>
       IsSeq(todo) /\ \A i \in DOMAIN todo : AllowedId(todo[i].scn, ids)
  /\ read \subseteq ids

GateInv == TypeOK /\ WellTyped /\ GateHolds /\ ReadsAllowed

Hypotheses == NamesApart /\ FactsOfScenarios

LEMMA Growing ==
  ASSUME NEW ref, NEW S, NEW T, S \subseteq T, GatedRef(ref, S)
  PROVE  GatedRef(ref, T)
  BY DEF GatedRef, AllowedId

LEMMA RegistriesLooked ==
  ASSUME TypeOK, NEW R \in {rows, Unreadable}
  PROVE  Looked(R)
  BY DEF TypeOK, Looked, AllRows

LEMMA InitHolds ==
  ASSUME Init
  PROVE  GateInv
<1>1. PICK r \in Requests : request = Defaulted(r)
  BY DEF Init
<1>2. /\ "blocks" \in DOMAIN r /\ \E n \in Nat : DOMAIN r.blocks = 1 .. n
      /\ \A i \in DOMAIN r.blocks :
           /\ {"items", "ref", "name"} \subseteq DOMAIN r.blocks[i]
           /\ DOMAIN r.blocks[i].ref = {"key", "mods"}
           /\ r.blocks[i].ref.key \in Seq(Words)
  BY RequestsAssumption, WordSequences
<1>3. <<"actuals">> \in Seq(Words)
  BY DEF Words
<1>4. /\ "blocks" \in DOMAIN request /\ DOMAIN request.blocks = DOMAIN r.blocks
      /\ \A i \in DOMAIN request.blocks :
           /\ "ref" \in DOMAIN request.blocks[i]
           /\ DOMAIN request.blocks[i].ref = {"key", "mods"}
           /\ request.blocks[i].ref.key \in Seq(Words)
  <2>1. CASE Refs(r) = {NoRef}
    <3> DEFINE b == [r.blocks EXCEPT ![1].ref.key = <<"actuals">>]
    <3>1. request = [r EXCEPT !.blocks = b]
      BY <1>1, <2>1 DEF Defaulted
    <3>2. request.blocks = b /\ "blocks" \in DOMAIN request
      BY <1>2, <3>1
    <3>3. /\ DOMAIN b = DOMAIN r.blocks
          /\ \A i \in DOMAIN b : i # 1 => b[i] = r.blocks[i]
          /\ 1 \in DOMAIN b => b[1] = [r.blocks[1] EXCEPT !.ref = [@ EXCEPT !.key = <<"actuals">>]]
      OBVIOUS
    <3>4. 1 \in DOMAIN b => /\ DOMAIN b[1] = DOMAIN r.blocks[1]
                            /\ b[1].ref = [r.blocks[1].ref EXCEPT !.key = <<"actuals">>]
      BY <1>2, <3>3
    <3>5. 1 \in DOMAIN b => DOMAIN b[1].ref = {"key", "mods"} /\ b[1].ref.key = <<"actuals">>
      BY <1>2, <3>3, <3>4
    <3> HIDE DEF b
    <3> QED
      BY <1>2, <1>3, <3>2, <3>3, <3>4, <3>5
  <2>2. CASE Refs(r) # {NoRef}
    <3>1. request = r
      BY <1>1, <2>2 DEF Defaulted
    <3> QED
      BY <1>2, <3>1
  <2> QED
    BY <2>1, <2>2
<1>5. WellTyped
  <2>1. IsSeq(blocks)
    <3>1. << >> \in Seq({})
      OBVIOUS
    <3> QED
      BY <3>1, Zenon DEF Init, IsSeq
  <2>2. at = [stage |-> "gate", i |-> 1]
    BY DEF Init
  <2>3. \E n \in Nat : DOMAIN request.blocks = 1 .. n
    BY <1>2, <1>4
  <2>4. at \in [stage : {"gate", "normalise", "resolve", "filter", "fork", "read", "answered", "shown"},
                i : Nat \ {0}]
    BY <2>2
  <2> QED
    BY <1>4, <2>1, <2>3, <2>4, Zenon DEF WellTyped
<1>6. DOMAIN permissions \subseteq OwnIds
  BY DEF Init, Permissions, OwnIds
<1>7. GateHolds /\ ReadsAllowed
  BY <1>2, <1>4, <1>6 DEF Init, GateHolds, ReadsAllowed
<1>8. TypeOK
  BY DEF Init, TypeOK
<1> QED
  BY <1>5, <1>7, <1>8 DEF GateInv

-----------------------------------------------------------------------------
(* Every step keeps it                                                      *)

\* A call that is over reads no more.
LEMMA OverKeeps ==
  ASSUME GateInv, at' \in [stage : {"answered", "shown"}, i : Nat \ {0}],
         UNCHANGED <<db, call, engine>>
  PROVE  GateInv'
<1> USE DEF db, call, engine
<1>1. TypeOK'
  BY DEF GateInv, TypeOK
<1>2. WellTyped'
  BY DEF GateInv, WellTyped
<1>3. GateHolds' /\ ReadsAllowed'
  BY DEF GateInv, GateHolds, ReadsAllowed
<1> QED
  BY <1>1, <1>2, <1>3 DEF GateInv

LEMMA FailsKeeps ==
  ASSUME GateInv, NEW kind, Fails(kind)
  PROVE  GateInv'
  BY OverKeeps DEF Fails, To

LEMMA GateKeeps ==
  ASSUME NamesApart, GateInv, Gate
  PROVE  GateInv'
<1> USE DEF db, call, engine
<1> DEFINE ref == request.blocks[at.i].ref
<1>1. PICK R \in {rows, Unreadable} :
        /\ Stage("gate") /\ at.i \in DOMAIN RawRefs
        /\ IF Denied(permissions, "read", GatedIds(R, {RawRefs[at.i]})) THEN Fails("denied")
           ELSE /\ ids' = ids \cup GatedIds(R, {RawRefs[at.i]})
                /\ Step
                /\ UNCHANGED <<db, call, blocks, plan, filter, todo, raw, read, answer>>
  BY DEF Gate
<1>2. GatedIds(R, {RawRefs[at.i]}) = Expand(R, ref) /\ at.i \in DOMAIN request.blocks
  BY <1>1 DEF GatedIds, RawRefs
<1>3. CASE Denied(permissions, "read", GatedIds(R, {RawRefs[at.i]}))
  BY <1>1, <1>3, FailsKeeps
<1>4. CASE ~Denied(permissions, "read", GatedIds(R, {RawRefs[at.i]}))
  <2>1. /\ ids' = ids \cup Expand(R, ref) /\ at' = [at EXCEPT !.i = @ + 1]
        /\ UNCHANGED <<db, call, blocks, plan, filter, todo, raw, read, answer>>
    BY <1>1, <1>2, <1>4 DEF Step
  <2>2. Expand(R, ref) \subseteq OwnIds
    BY <1>2, <1>4 DEF Denied, GateInv, GateHolds
  <2>3. GatedRef(ref, Expand(R, ref))
    <3>1. Looked(R)
      BY RegistriesLooked DEF GateInv
    <3>2. ref.key \in Seq(Words)
      BY <1>2 DEF GateInv, WellTyped
    <3> QED
      BY <2>2, <3>1, <3>2, GateAllows
  <2>4. at.stage = "gate" /\ at'.stage = "gate" /\ at'.i = at.i + 1 /\ at.i \in Nat
        /\ at' \in [stage : {"gate"}, i : Nat \ {0}]
    BY <1>1, <2>1 DEF GateInv, WellTyped, Stage
  <2>5. TypeOK'
    BY <2>1, <2>2, <2>4 DEF GateInv, TypeOK, OwnIds
  <2>6. WellTyped'
    BY <2>1, <2>4 DEF GateInv, WellTyped
  <2>7. ids \subseteq ids' /\ Expand(R, ref) \subseteq ids' /\ ids' \subseteq OwnIds
    BY <2>1, <2>2 DEF GateInv, GateHolds
  <2>8. ASSUME NEW i \in DOMAIN request.blocks, i < at.i + 1
        PROVE  GatedRef(request.blocks[i].ref, ids')
    <3>1. CASE i = at.i
      BY <2>3, <2>7, <3>1, Growing
    <3>2. CASE i # at.i
      <4>1. i < at.i
        BY <2>4, <2>8, <3>2 DEF GateInv, WellTyped
      <4>2. GatedRef(request.blocks[i].ref, ids)
        BY <2>4, <4>1 DEF GateInv, GateHolds
      <4> QED
        BY <2>7, <4>2, Growing
    <3> QED
      BY <3>1, <3>2
  <2>9. \A i \in DOMAIN blocks :
          blocks[i].ref.key \in Seq(Words) /\ GatedRef(blocks[i].ref, ids')
    BY <2>4, <2>7, Growing DEF GateInv, GateHolds
  <2>10. GateHolds'
    BY <2>1, <2>4, <2>7, <2>8, <2>9 DEF GateInv, GateHolds
  <2>11. ReadsAllowed'
    BY <2>1, <2>4, <2>7 DEF GateInv, ReadsAllowed
  <2> QED
    BY <2>5, <2>6, <2>10, <2>11 DEF GateInv
<1> QED
  BY <1>3, <1>4

LEMMA ValidateKeeps ==
  ASSUME GateInv, Validate
  PROVE  GateInv'
<1> USE DEF db, call, engine
<1>1. CASE DOMAIN request.filter \subseteq DOMAIN Dimensions /\ DimensionsKnown
  <2>1. /\ at.stage = "gate" /\ at.i \notin DOMAIN request.blocks
        /\ at' = [stage |-> "normalise", i |-> 1]
        /\ UNCHANGED <<db, call, ids, blocks, plan, todo, raw, read, answer>>
    BY <1>1 DEF Validate, Stage, RawRefs, To
  <2>2. \A i \in DOMAIN request.blocks : i < at.i \/ at.i < 1
    BY <2>1 DEF GateInv, WellTyped
  <2>3. \A i \in DOMAIN request.blocks : i < at.i
    BY <2>2 DEF GateInv, WellTyped
  <2>4. TypeOK' /\ WellTyped'
    BY <2>1 DEF GateInv, TypeOK, WellTyped
  <2>5. GateHolds' /\ ReadsAllowed'
    BY <2>1, <2>3 DEF GateInv, GateHolds, ReadsAllowed
  <2> QED
    BY <2>4, <2>5 DEF GateInv
<1> QED
  BY <1>1, FailsKeeps DEF Validate

LEMMA NormaliseBlockKeeps ==
  ASSUME NamesApart, GateInv, NormaliseBlock
  PROVE  GateInv'
<1> USE DEF db, call, engine
<1>1. PICK R \in {rows, Unreadable} :
        /\ at.stage = "normalise" /\ at.i \in DOMAIN request.blocks
        /\ blocks' = Append(blocks, [request.blocks[at.i] EXCEPT !.ref =
                                       Normalise(R, request.blocks[at.i].ref)])
        /\ at' = [at EXCEPT !.i = @ + 1]
        /\ UNCHANGED <<db, call, ids, plan, filter, todo, raw, read, answer>>
  BY DEF NormaliseBlock, Stage, Step
<1> DEFINE block == request.blocks[at.i]
           new == [block EXCEPT !.ref = Normalise(R, block.ref)]
<1>2. new.ref = Normalise(R, block.ref)
  BY <1>1 DEF GateInv, WellTyped
<1>3. new.ref.key \in Seq(Words) /\ GatedRef(new.ref, ids)
  <2>1. Looked(R)
    BY RegistriesLooked DEF GateInv
  <2> DEFINE old == block.ref
  <2>2. /\ DOMAIN old = {"key", "mods"} /\ old.key \in Seq(Words)
        /\ ids \in SUBSET OwnIds /\ GatedRef(old, ids)
    BY <1>1 DEF GateInv, WellTyped, GateHolds
  <2> HIDE DEF old
  <2>3. Normalise(R, old).key \in Seq(Words) /\ GatedRef(Normalise(R, old), ids)
    BY <2>1, <2>2, NormaliseKeeps
  <2> QED
    BY <1>2, <2>3 DEF old
<1> HIDE DEF new
<1>4. PICK T : blocks \in Seq(T)
  BY DEF GateInv, WellTyped, IsSeq
<1>5. blocks' \in Seq(T \cup {new}) /\ blocks' = Append(blocks, new)
  BY <1>1, <1>4 DEF new
<1>6. \A i \in DOMAIN blocks' : (i \in DOMAIN blocks /\ blocks'[i] = blocks[i]) \/ blocks'[i] = new
  BY <1>4, <1>5
<1>7. at' \in [stage : {"normalise"}, i : Nat \ {0}]
  BY <1>1 DEF GateInv, WellTyped
<1>8. TypeOK'
  BY <1>1, <1>7 DEF GateInv, TypeOK
<1>9. WellTyped'
  BY <1>1, <1>5, <1>7 DEF GateInv, WellTyped, IsSeq
<1>10. \A i \in DOMAIN blocks' :
         blocks'[i].ref.key \in Seq(Words) /\ GatedRef(blocks'[i].ref, ids)
  BY <1>1, <1>3, <1>6 DEF GateInv, GateHolds
<1>11. GateHolds' /\ ReadsAllowed'
  BY <1>1, <1>7, <1>10 DEF GateInv, GateHolds, ReadsAllowed
<1> QED
  BY <1>8, <1>9, <1>11 DEF GateInv

LEMMA CheckNamesKeeps ==
  ASSUME GateInv, CheckNames
  PROVE  GateInv'
<1> USE DEF db, call, engine
<1>1. CASE at' = [stage |-> "resolve", i |-> 1] /\ UNCHANGED <<db, call, engine, answer>>
  <2>1. at.stage = "normalise"
    BY DEF CheckNames, Stage
  <2>2. TypeOK' /\ WellTyped'
    BY <1>1 DEF GateInv, TypeOK, WellTyped
  <2>3. GateHolds' /\ ReadsAllowed'
    BY <1>1, <2>1 DEF GateInv, GateHolds, ReadsAllowed
  <2> QED
    BY <2>2, <2>3 DEF GateInv
<1> QED
  BY <1>1, FailsKeeps DEF CheckNames, To

LEMMA ResolveRequestKeeps ==
  ASSUME NamesApart, GateInv, ResolveRequest
  PROVE  GateInv'
<1> USE DEF db, call, engine
<1> DEFINE req == [request EXCEPT !.blocks = blocks]
<1>1. PICK R \in {rows, Unreadable} :
        /\ at.stage = "resolve"
        /\ IF Plan(R, req).error THEN Fails("validation")
           ELSE /\ plan' = [queries |-> Plan(R, req).queries, computed |-> Plan(R, req).computed,
                            base |-> Plan(R, req).base, derived |-> Plan(R, req).derived,
                            domain |-> Plan(R, req).domain, registry |-> R]
                /\ To("filter")
                /\ UNCHANGED <<db, call, ids, blocks, filter, todo, raw, read, answer>>
  BY DEF ResolveRequest, Stage
<1>2. req.blocks = blocks
  BY DEF GateInv, WellTyped
<1> HIDE DEF req
<1>3. CASE ~Plan(R, req).error
  <2> DEFINE queries == Deduplicated({DataQuery(R, req, ref) : ref \in ReadRefs(R, Refs(req))})
  <2>1. Accepted(R, req) /\ Plan(R, req).queries = queries
    BY <1>3 DEF Plan, Error
  <2>2. plan'.queries = queries /\ "registry" \in DOMAIN plan'
    BY <1>1, <1>3, <2>1
  <2>3. plan' # NoPlan
    BY <2>2 DEF NoPlan
  <2>4. IsFiniteSet(queries)
    <3>1. PICK T : blocks \in Seq(T)
      BY DEF GateInv, WellTyped, IsSeq
    <3>2. DOMAIN blocks = 1 .. Len(blocks) /\ Len(blocks) \in Nat
      BY <3>1
    <3>3. IsFiniteSet(DOMAIN req.blocks)
      BY <1>2, <3>2, FS_Interval
    <3> QED
      BY <3>3, FiniteQueries
  <2>5. \A ref \in Refs(req) :
          /\ ref.key \in Seq(Words) /\ GatedRef(ref, ids)
          /\ WellFormed(ref) /\ ResolveKey(R, ref.key) # Unknown
    <3> SUFFICES ASSUME NEW i \in DOMAIN blocks
                 PROVE  /\ blocks[i].ref.key \in Seq(Words) /\ GatedRef(blocks[i].ref, ids)
                        /\ WellFormed(blocks[i].ref) /\ ResolveKey(R, blocks[i].ref.key) # Unknown
      BY <1>2 DEF Refs
    <3>1. blocks[i].ref.key \in Seq(Words) /\ GatedRef(blocks[i].ref, ids)
      BY <1>1 DEF GateInv, GateHolds
    <3>2. WellFormed(blocks[i].ref) /\ ResolveKey(R, blocks[i].ref.key) # Unknown
      BY <1>2, <2>1 DEF Accepted
    <3> QED
      BY <3>1, <3>2
  <2>6. \A q \in queries : GatedQuery(q, ids)
    <3>1. Looked(R)
      BY RegistriesLooked DEF GateInv
    <3>2. \A r \in ReadRefs(R, Refs(req)) : GatedQuery(DataQuery(R, req, r), ids)
      BY <2>5, <3>1, QueriesAreGated
    <3>3. queries \subseteq {DataQuery(R, req, ref) : ref \in ReadRefs(R, Refs(req))}
      BY DEF Deduplicated, SameData
    <3> QED
      BY <3>2, <3>3
  <2> HIDE DEF queries
  <2>7. /\ at' = [stage |-> "filter", i |-> 1]
        /\ UNCHANGED <<db, call, ids, blocks, filter, todo, raw, read, answer>>
    BY <1>1, <1>3 DEF To
  <2>8. TypeOK' /\ WellTyped'
    BY <1>1, <2>3, <2>7 DEF GateInv, TypeOK, WellTyped, GateHolds
  <2>9. GateHolds'
    BY <1>1, <2>7 DEF GateInv, GateHolds
  <2>10. ReadsAllowed'
    BY <2>2, <2>4, <2>6, <2>7 DEF GateInv, ReadsAllowed
  <2> QED
    BY <2>8, <2>9, <2>10 DEF GateInv
<1> QED
  BY <1>1, <1>3, FailsKeeps

LEMMA FilterKeeps ==
  ASSUME GateInv, Filter
  PROVE  GateInv'
<1> USE DEF db, call, engine
<1>1. \/ \E kind : Fails(kind)
      \/ /\ at.stage = "filter" /\ at' = [stage |-> "fork", i |-> 1]
         /\ UNCHANGED <<db, call, ids, blocks, plan, todo, raw, read, answer>>
  BY DEF Filter, Stage, To
<1>2. CASE /\ at.stage = "filter" /\ at' = [stage |-> "fork", i |-> 1]
           /\ UNCHANGED <<db, call, ids, blocks, plan, todo, raw, read, answer>>
  <2>1. TypeOK' /\ WellTyped'
    BY <1>2 DEF GateInv, TypeOK, WellTyped
  <2>2. GateHolds' /\ ReadsAllowed'
    BY <1>2 DEF GateInv, GateHolds, ReadsAllowed
  <2> QED
    BY <2>1, <2>2 DEF GateInv
<1> QED
  BY <1>1, <1>2, FailsKeeps

\* A row that is added is not the row of a scenario there was.
LEMMA ForkedIsAllowed ==
  ASSUME NamesApart, GateInv, NEW q, GatedQuery(q, ids)
  PROVE  AllowedId(Forked(q).scn, ids)
<1>1. q.scn \in ids /\ "scn" \in DOMAIN q /\ q.scn \in OwnIds
  BY DEF GatedQuery, GateInv, GateHolds
<1>2. CASE "fork" \notin DOMAIN q.mods
  BY <1>1, <1>2 DEF Forked, AllowedId
<1>3. CASE "fork" \in DOMAIN q.mods /\ q.mods["fork"] # NoKey
  BY <1>1, <1>3 DEF Forked, GatedQuery
<1>4. CASE "fork" \in DOMAIN q.mods /\ q.mods["fork"] = NoKey
  <2>1. Parents(rows, {q.scn}) \subseteq Parents(Scenarios, {q.scn})
    <3>1. PICK s \in Scenarios : s.id = q.scn
      BY <1>1 DEF OwnIds
    <3>2. \A r \in rows : r.id = q.scn => r = s
      BY <3>1 DEF NamesApart, AllRows, GateInv, TypeOK
    <3> QED
      BY <3>1, <3>2 DEF Parents
  <2>2. Parents(rows, {q.scn}) \subseteq ids
    BY <1>4, <2>1 DEF GatedQuery
  <2>3. CASE Parents(rows, {q.scn}) = {}
    BY <1>1, <1>4, <2>3 DEF Forked, AllowedId
  <2>4. CASE Parents(rows, {q.scn}) # {}
    <3>1. Forked(q).scn = CHOOSE p \in Parents(rows, {q.scn}) : TRUE
      BY <1>1, <1>4, <2>4 DEF Forked
    <3>2. Forked(q).scn \in ids
      BY <2>2, <2>4, <3>1
    <3> QED
      BY <3>2 DEF AllowedId
  <2> QED
    BY <2>3, <2>4
<1> QED
  BY <1>2, <1>3, <1>4

LEMMA ForkKeeps ==
  ASSUME NamesApart, GateInv, Fork
  PROVE  GateInv'
<1> USE DEF db, call, engine
<1> DEFINE forked == {Forked(q) : q \in plan.queries}
<1>1. at.stage = "fork"
  BY DEF Fork, Stage
<1>2. CASE /\ todo' = SetToSeq(forked) /\ at' = [stage |-> "read", i |-> 1]
           /\ UNCHANGED <<db, call, ids, blocks, plan, filter, read, answer>>
  <2>1. IsFiniteSet(plan.queries) /\ \A q \in plan.queries : GatedQuery(q, ids)
    BY <1>1 DEF GateInv, ReadsAllowed
  <2>2. IsFiniteSet(forked)
    <3> DEFINE f == [q \in plan.queries |-> Forked(q)]
    <3>1. forked = {f[q] : q \in plan.queries} /\ DOMAIN f = plan.queries
      OBVIOUS
    <3> HIDE DEF f, forked
    <3>2. IsFiniteSet({f[q] : q \in plan.queries})
      BY <2>1, <3>1, FiniteImages
    <3> QED
      BY <3>1, <3>2
  <2>3. \A q \in forked : AllowedId(q.scn, ids)
    BY <2>1, ForkedIsAllowed
  <2>4. todo' \in [1 .. Cardinality(forked) -> forked] /\ Cardinality(forked) \in Nat
    BY <1>2, <2>2, ListedQueries, FS_CardinalityType
  <2> HIDE DEF forked
  <2>5. IsSeq(todo')
    <3>1. todo' \in Seq(forked)
      BY <2>4
    <3> QED
      BY <3>1 DEF IsSeq
  <2>6. \A i \in DOMAIN todo' : AllowedId(todo'[i].scn, ids)
    BY <2>3, <2>4
  <2>7. TypeOK' /\ WellTyped'
    BY <1>1, <1>2 DEF GateInv, TypeOK, WellTyped
  <2>8. GateHolds' /\ ReadsAllowed'
    BY <1>1, <1>2, <2>5, <2>6 DEF GateInv, GateHolds, ReadsAllowed, IsSeq
  <2> QED
    BY <2>7, <2>8 DEF GateInv
<1> QED
  BY <1>2, FailsKeeps DEF Fork, To

LEMMA ReadStatementKeeps ==
  ASSUME FactsOfScenarios, GateInv, ReadStatement
  PROVE  GateInv'
<1> USE DEF db, call, engine
<1> DEFINE q == Head(todo)
<1>1. /\ at.stage = "read" /\ todo # << >>
      /\ read' = read \cup {q.scn : f \in {g \in FactTables[facts] : g.scn = q.scn}}
      /\ \/ todo' = Tail(todo) /\ at' = [stage |-> "read", i |-> 1]
         \/ todo' = todo /\ at' = [at EXCEPT !.i = @ + 1]
      /\ UNCHANGED <<db, call, ids, blocks, plan, filter, answer, faults>>
  BY DEF ReadStatement, Stage, To, Step
<1>2. /\ IsSeq(todo) /\ q = todo[1] /\ 1 \in DOMAIN todo
      /\ IsSeq(Tail(todo)) /\ \A i \in DOMAIN Tail(todo) : i + 1 \in DOMAIN todo /\ Tail(todo)[i] = todo[i + 1]
  <2>1. PICK T : todo \in Seq(T)
    BY <1>1 DEF GateInv, ReadsAllowed, IsSeq
  <2>2. /\ Tail(todo) \in Seq(T) /\ q = todo[1] /\ 1 \in DOMAIN todo
        /\ \A i \in DOMAIN Tail(todo) : i + 1 \in DOMAIN todo /\ Tail(todo)[i] = todo[i + 1]
    BY <1>1, <2>1
  <2> QED
    BY <2>1, <2>2 DEF IsSeq
<1>3. AllowedId(q.scn, ids)
  BY <1>1, <1>2 DEF GateInv, ReadsAllowed
<1>4. read' \subseteq ids
  <2>1. \A g \in FactTables[facts] : \E s \in AllRows : g.scn = s.id
    BY DEF FactsOfScenarios, GateInv, TypeOK
  <2>2. \A g \in FactTables[facts] : g.scn = q.scn => q.scn \in ids
    BY <1>3, <2>1 DEF AllowedId
  <2> QED
    BY <1>1, <2>2 DEF GateInv, ReadsAllowed
<1>5. at' \in [stage : {"read"}, i : Nat \ {0}]
  BY <1>1 DEF GateInv, WellTyped
<1>6. IsSeq(todo') /\ \A i \in DOMAIN todo' : AllowedId(todo'[i].scn, ids)
  BY <1>1, <1>2 DEF GateInv, ReadsAllowed
<1>7. TypeOK'
  BY <1>1, <1>4, <1>5 DEF GateInv, TypeOK, GateHolds
<1>8. WellTyped'
  BY <1>1, <1>5 DEF GateInv, WellTyped
<1>9. GateHolds'
  BY <1>1, <1>5 DEF GateInv, GateHolds
<1>10. ReadsAllowed'
  BY <1>1, <1>4, <1>5, <1>6 DEF GateInv, ReadsAllowed, IsSeq
<1> QED
  BY <1>7, <1>8, <1>9, <1>10 DEF GateInv

LEMMA AnswerKeeps ==
  ASSUME GateInv, Answer
  PROVE  GateInv'
<1>1. (\E kind : Fails(kind)) \/ (To("answered") /\ UNCHANGED <<db, call, engine>>)
  BY DEF Answer
<1>2. CASE To("answered") /\ UNCHANGED <<db, call, engine>>
  BY <1>2, OverKeeps DEF To
<1> QED
  BY <1>1, <1>2, FailsKeeps

\* What goes on beside the report touches no more than the database.
LEMMA MeanwhileKeeps ==
  ASSUME GateInv, Meanwhile
  PROVE  GateInv'
<1> USE DEF call, engine
<1>1. UNCHANGED <<call, engine, at, answer>>
  BY DEF Meanwhile, CreateScenario, SwapTable
<1>2. WellTyped' /\ GateHolds' /\ ReadsAllowed'
  BY <1>1 DEF GateInv, WellTyped, GateHolds, ReadsAllowed
<1>3. /\ rows \subseteq rows' /\ rows' \subseteq Scenarios \cup Additions
      /\ facts' \in DOMAIN FactTables
  BY DEF Meanwhile, CreateScenario, SwapTable, GateInv, TypeOK
<1>4. TypeOK'
  BY <1>1, <1>3 DEF GateInv, TypeOK
<1> QED
  BY <1>2, <1>4 DEF GateInv

LEMMA DiscoverKeeps ==
  ASSUME GateInv, Discover
  PROVE  GateInv'
<1>1. \E found : Shows(found)
  BY DEF Discover, SearchHierarchy, SearchFails, ListScenarios, ListVariants, InspectRows
<1> QED
  BY <1>1, OverKeeps DEF Shows, To

LEMMA StepKeeps ==
  ASSUME Hypotheses, GateInv, [DNext]_vars
  PROVE  GateInv'
<1> USE DEF Hypotheses
<1>1. CASE Gate
  BY <1>1, GateKeeps
<1>2. CASE Validate
  BY <1>2, ValidateKeeps
<1>3. CASE NormaliseBlock
  BY <1>3, NormaliseBlockKeeps
<1>4. CASE CheckNames
  BY <1>4, CheckNamesKeeps
<1>5. CASE ResolveRequest
  BY <1>5, ResolveRequestKeeps
<1>6. CASE Filter
  BY <1>6, FilterKeeps
<1>7. CASE Fork
  BY <1>7, ForkKeeps
<1>8. CASE CannotGroup \/ ReadFails
  BY <1>8, FailsKeeps DEF CannotGroup, ReadFails
<1>9. CASE ReadStatement
  BY <1>9, ReadStatementKeeps
<1>10. CASE Answer
  BY <1>10, AnswerKeeps
<1>11. CASE Meanwhile
  BY <1>11, MeanwhileKeeps
<1>12. CASE Discover
  BY <1>12, DiscoverKeeps
<1>13. CASE UNCHANGED vars
  <2>1. UNCHANGED <<db, call, engine, at, answer>>
    BY <1>13 DEF vars
  <2> QED
    BY <2>1 DEF db, call, engine, GateInv, TypeOK, WellTyped, GateHolds, ReadsAllowed
<1> QED
  BY <1>1, <1>2, <1>3, <1>4, <1>5, <1>6, <1>7, <1>8, <1>9, <1>10, <1>11, <1>12, <1>13
  DEF DNext, Next, Pipeline

\* The inductive invariant of a call: what its references may read was fixed
\* when the gate let them pass.
THEOREM ReportInvariance ==
  ASSUME Hypotheses
  PROVE  DSpec => []GateInv
<1>1. Init => GateInv
  BY InitHolds
<1>2. GateInv /\ [DNext]_vars => GateInv'
  BY StepKeeps
<1> QED
  BY <1>1, <1>2, PTL DEF DSpec

-----------------------------------------------------------------------------
(* What a scope's filter lets pass is what the scope shows                  *)

LEMMA MembersAre ==
  ASSUME NEW values, NEW leaf, NEW member
  PROVE  /\ leaf \in DOMAIN Members(values) <=> Restricts(values, leaf)
         /\ NamesMember(values, leaf, member) => Restricts(values, leaf)
         /\ Restricts(values, leaf) =>
              (member \in Members(values)[leaf] <=> NamesMember(values, leaf, member))
<1>1. leaf \in DOMAIN Members(values) <=> Restricts(values, leaf)
  BY DEF Members, Restricts
<1>2. NamesMember(values, leaf, member) => Restricts(values, leaf)
  BY DEF NamesMember, Restricts
<1>3. ASSUME Restricts(values, leaf)
      PROVE  member \in Members(values)[leaf] <=> NamesMember(values, leaf, member)
  <2>1. Members(values)[leaf] =
          UNION {UNION {Leaves(dim, v) : v \in values[dim]} : dim \in {d \in DOMAIN values : LeafOf(d) = leaf}}
    BY <1>3 DEF Members, Restricts
  <2> QED
    BY <2>1 DEF NamesMember
<1> QED
  BY <1>1, <1>2, <1>3

LEMMA FilterShows ==
  ASSUME NEW scope, scope # Unrestricted, NEW leaf, NEW member
  PROVE  /\ leaf \notin DOMAIN ScopeFilter(scope) => ShowsMember(scope, leaf, member)
         /\ leaf \in DOMAIN ScopeFilter(scope) =>
              /\ member \in ScopeFilter(scope)[leaf] => ShowsMember(scope, leaf, member)
              /\ ShowsMember(scope, leaf, member) /\ member \in Universe[leaf] =>
                   member \in ScopeFilter(scope)[leaf]
<1> DEFINE allow == Members(scope.allow)
           deny  == Members(scope.deny)
<1>1. /\ leaf \in DOMAIN allow <=> Restricts(scope.allow, leaf)
      /\ Restricts(scope.allow, leaf) => (member \in allow[leaf] <=> NamesMember(scope.allow, leaf, member))
  BY MembersAre
<1>2. /\ leaf \in DOMAIN deny <=> Restricts(scope.deny, leaf)
      /\ NamesMember(scope.deny, leaf, member) => Restricts(scope.deny, leaf)
      /\ Restricts(scope.deny, leaf) => (member \in deny[leaf] <=> NamesMember(scope.deny, leaf, member))
  BY MembersAre
<1>3. ScopeFilter(scope) =
        [l \in DOMAIN allow \cup DOMAIN deny |->
           (IF l \in DOMAIN allow THEN allow[l] ELSE Universe[l])
             \ (IF l \in DOMAIN deny THEN deny[l] ELSE {})]
  BY DEF ScopeFilter
<1> HIDE DEF allow, deny
<1>4. /\ DOMAIN ScopeFilter(scope) = DOMAIN allow \cup DOMAIN deny
      /\ leaf \in DOMAIN ScopeFilter(scope) =>
           ScopeFilter(scope)[leaf] = (IF leaf \in DOMAIN allow THEN allow[leaf] ELSE Universe[leaf])
                                        \ (IF leaf \in DOMAIN deny THEN deny[leaf] ELSE {})
  BY <1>3
<1> QED
  BY <1>1, <1>2, <1>4 DEF ShowsMember

\* The filter of a scenario lets pass what is wanted and its scope shows.
Wanted(wanted, leaf, x) ==
  \A dim \in DOMAIN wanted : LeafOf(dim) = leaf => x \in Leaves(dim, wanted[dim])

LEMMA EffectiveShows ==
  ASSUME NEW scope, NEW wanted, NEW leaf, NEW x \in Universe[leaf],
         NEW filters, filters = EffectiveFor(scope, Resolved(wanted))
  PROVE  (leaf \in DOMAIN filters => x \in filters[leaf]) <=>
           Wanted(wanted, leaf, x) /\ ShowsMember(scope, leaf, x)
<1> DEFINE user == Resolved(wanted)
<1>1. (leaf \in DOMAIN user => x \in user[leaf]) <=> Wanted(wanted, leaf, x)
  BY DEF Resolved, Wanted
<1> HIDE DEF user
<1>2. CASE scope = Unrestricted
  BY <1>1, <1>2 DEF EffectiveFor, ShowsMember, user
<1>3. CASE scope # Unrestricted
  <2> DEFINE bound == ScopeFilter(scope)
  <2>1. filters = Narrowed(user, bound)
    BY <1>3 DEF EffectiveFor, user
  <2>2. (leaf \in DOMAIN bound => x \in bound[leaf]) <=> ShowsMember(scope, leaf, x)
    BY <1>3, FilterShows
  <2> HIDE DEF bound
  <2>3. (leaf \in DOMAIN filters => x \in filters[leaf]) <=>
          /\ leaf \in DOMAIN user => x \in user[leaf]
          /\ leaf \in DOMAIN bound => x \in bound[leaf]
    BY <2>1 DEF Narrowed
  <2> QED
    BY <1>1, <2>2, <2>3
<1> QED
  BY <1>2, <1>3

-----------------------------------------------------------------------------
(* One filter for all the scenarios of a call                               *)

\* The filter of the call is that of the scenario.
Within(id) ==
  LET scope == permissions[id]["read"]
  IN  /\ filter = EffectiveFor(scope, Resolved(KeptFilter))
      /\ scope # Unrestricted => plan.domain \in scope.domains

ScopesHold ==
  /\ \A id \in ids : id \in DOMAIN permissions /\ "read" \in DOMAIN permissions[id]
  /\ at.stage \in {"normalise", "resolve", "filter"} => filter = KeptFilter
  /\ at.stage \in {"fork", "read"} => \A id \in ids : Within(id)

\* A call that no scope refuses has the filter that each of its scenarios has.
LEMMA OneFilter ==
  ASSUME NEW S, NEW id \in S, NEW domain, NEW user, NEW scopes,
         scopes = CallScope(permissions, "read", S),
         ~(DOMAIN scopes # {} /\ Violated(scopes, domain, user))
  PROVE  LET scope == permissions[id]["read"]
         IN  /\ (IF DOMAIN scopes = {} THEN user ELSE Enforced(scopes, user)) = EffectiveFor(scope, user)
             /\ scope # Unrestricted => domain \in scope.domains
<1> DEFINE scope == permissions[id]["read"]
           all == [x \in S |-> permissions[x]["read"]]
<1>1. scopes = IF \A x \in S : all[x] = Unrestricted THEN NoFilter ELSE all
  BY Zenon DEF CallScope
<1>2. all[id] = scope /\ DOMAIN all = S
  OBVIOUS
<1> HIDE DEF all
<1>3. CASE \A x \in S : all[x] = Unrestricted
  <2>1. DOMAIN scopes = {}
    BY <1>1, <1>3 DEF NoFilter
  <2> QED
    BY <1>2, <1>3, <2>1 DEF EffectiveFor
<1>4. CASE ~\A x \in S : all[x] = Unrestricted
  <2>1. DOMAIN scopes = S /\ scopes[id] = scope
    BY <1>1, <1>2, <1>4
  <2>2. /\ scope # Unrestricted => domain \in scope.domains
        /\ \A i, j \in S : EffectiveFor(scopes[i], user) = EffectiveFor(scopes[j], user)
    BY <2>1 DEF Violated
  <2>3. (CHOOSE x \in S : TRUE) \in S
    OBVIOUS
  <2>4. Enforced(scopes, user) = EffectiveFor(scope, user)
    BY <2>1, <2>2, <2>3 DEF Enforced
  <2> QED
    BY <2>1, <2>2, <2>4
<1> QED
  BY <1>3, <1>4

LEMMA CallKept ==
  ASSUME UNCHANGED request
  PROVE  KeptFilter' = KeptFilter
  BY DEF KeptFilter, AskedDomains

LEMMA FilterScopes ==
  ASSUME ScopesHold, Filter
  PROVE  ScopesHold'
<1> USE DEF db, call, engine
<1> DEFINE user   == Resolved(filter)
           scopes == CallScope(permissions, "read", ids)
<1>1. CASE \E kind : Fails(kind)
  BY <1>1 DEF Fails, To, ScopesHold
<1>2. ASSUME /\ ~(DOMAIN scopes # {} /\ Violated(scopes, plan.domain, user))
             /\ filter' = IF DOMAIN scopes = {} THEN user ELSE Enforced(scopes, user)
             /\ To("fork") /\ UNCHANGED <<db, call, ids, blocks, plan, todo, raw, read, answer>>
      PROVE  ScopesHold'
  <2>1. KeptFilter' = KeptFilter
    BY <1>2, CallKept
  <2>2. filter = KeptFilter
    BY DEF Filter, Stage, ScopesHold
  <2> SUFFICES ASSUME NEW id \in ids PROVE Within(id)'
    BY <1>2 DEF ScopesHold, To
  <2> HIDE DEF scopes, user
  <2>3. /\ permissions[id]["read"] # Unrestricted => plan.domain \in permissions[id]["read"].domains
        /\ filter' = EffectiveFor(permissions[id]["read"], user)
    BY <1>2, OneFilter DEF scopes
  <2> QED
    BY <1>2, <2>1, <2>2, <2>3 DEF Within, user
<1> QED
  BY <1>1, <1>2 DEF Filter

\* A step that keeps the call, what was gated and the plan, and does not come
\* out of another stage.
LEMMA SameScopes ==
  ASSUME ScopesHold, UNCHANGED <<request, permissions, ids, plan, filter>>,
         at'.stage \in {"normalise", "resolve", "filter"} =>
           at.stage \in {"normalise", "resolve", "filter"},
         at'.stage \in {"fork", "read"} => at.stage \in {"fork", "read"}
  PROVE  ScopesHold'
<1>1. KeptFilter' = KeptFilter
  BY CallKept
<1> QED
  BY <1>1 DEF ScopesHold, Within

LEMMA ScopesKept ==
  ASSUME GateInv, ScopesHold, [DNext]_vars
  PROVE  ScopesHold'
<1> USE DEF db, call, engine
<1>1. ASSUME NEW kind, Fails(kind) PROVE ScopesHold'
  BY <1>1, SameScopes DEF Fails, To
<1>2. ASSUME NEW found, Shows(found) PROVE ScopesHold'
  BY <1>2, SameScopes DEF Shows, To
<1>3. \A s : at.stage = s /\ at' = [at EXCEPT !.i = @ + 1] => at'.stage = s
  BY DEF GateInv, WellTyped
<1>4. CASE Gate
  <2>1. PICK R \in {rows, Unreadable} :
          LET needed == GatedIds(R, {RawRefs[at.i]})
          IN  /\ at.stage = "gate"
              /\ IF Denied(permissions, "read", needed) THEN Fails("denied")
                 ELSE /\ ids' = ids \cup needed /\ Step
                      /\ UNCHANGED <<db, call, blocks, plan, filter, todo, raw, read, answer>>
    BY <1>4 DEF Gate, Stage
  <2> DEFINE needed == GatedIds(R, {RawRefs[at.i]})
  <2>2. CASE ~Denied(permissions, "read", needed)
    <3>1. ids' = ids \cup needed /\ at'.stage = "gate" /\ permissions' = permissions
      BY <1>3, <2>1, <2>2 DEF Step
    <3>2. \A id \in needed : id \in DOMAIN permissions /\ "read" \in DOMAIN permissions[id]
      BY <2>2 DEF Denied
    <3> HIDE DEF needed
    <3> QED
      BY <3>1, <3>2 DEF ScopesHold
  <2> QED
    BY <1>1, <2>1, <2>2
<1>5. CASE Validate
  <2>1. CASE /\ filter' = KeptFilter /\ To("normalise")
             /\ UNCHANGED <<db, call, ids, blocks, plan, todo, raw, read, answer>>
    <3>1. KeptFilter' = KeptFilter
      BY <2>1, CallKept
    <3> QED
      BY <2>1, <3>1 DEF To, ScopesHold
  <2> QED
    BY <1>1, <1>5, <2>1 DEF Validate
<1>6. CASE NormaliseBlock
  <2>1. at.stage = "normalise" /\ Step /\ UNCHANGED <<request, permissions, ids, plan, filter>>
    BY <1>6 DEF NormaliseBlock, Stage
  <2> QED
    BY <1>3, <2>1, SameScopes DEF Step
<1>7. CASE CheckNames
  <2>1. CASE To("resolve") /\ UNCHANGED <<db, call, engine, answer>>
    BY <1>7, <2>1, SameScopes DEF CheckNames, Stage, To
  <2> QED
    BY <1>1, <1>7, <2>1 DEF CheckNames
<1>8. CASE ResolveRequest
  <2>1. CASE To("filter") /\ UNCHANGED <<db, call, ids, blocks, filter, todo, raw, read, answer>>
    <3>1. KeptFilter' = KeptFilter
      BY <2>1, CallKept
    <3> QED
      BY <1>8, <2>1, <3>1 DEF ResolveRequest, Stage, To, ScopesHold
  <2> QED
    BY <1>1, <1>8, <2>1 DEF ResolveRequest
<1>9. CASE Filter
  BY <1>9, FilterScopes
<1>10. CASE Fork
  <2>1. CASE To("read") /\ UNCHANGED <<db, call, ids, blocks, plan, filter, read, answer>>
    BY <1>10, <2>1, SameScopes DEF Fork, Stage, To
  <2> QED
    BY <1>1, <1>10, <2>1 DEF Fork
<1>11. CASE CannotGroup \/ ReadFails
  BY <1>1, <1>11 DEF CannotGroup, ReadFails
<1>12. CASE ReadStatement
  <2>1. /\ at.stage = "read" /\ at'.stage = "read"
        /\ UNCHANGED <<request, permissions, ids, plan, filter>>
    BY <1>3, <1>12 DEF ReadStatement, Stage, To, Step
  <2> QED
    BY <2>1, SameScopes
<1>13. CASE Answer
  <2>1. CASE To("answered") /\ UNCHANGED <<db, call, engine>>
    BY <2>1, SameScopes DEF To
  <2> QED
    BY <1>1, <1>13, <2>1 DEF Answer
<1>14. CASE Meanwhile
  <2>1. UNCHANGED <<call, engine, at>>
    BY <1>14 DEF Meanwhile, CreateScenario, SwapTable
  <2> QED
    BY <2>1, SameScopes
<1>15. CASE Discover
  BY <1>2, <1>15 DEF Discover, SearchHierarchy, SearchFails, ListScenarios, ListVariants, InspectRows
<1>16. CASE UNCHANGED vars
  <2>1. UNCHANGED <<call, engine, at>>
    BY <1>16 DEF vars
  <2> QED
    BY <2>1, SameScopes
<1> QED
  BY <1>4, <1>5, <1>6, <1>7, <1>8, <1>9, <1>10, <1>11, <1>12, <1>13, <1>14, <1>15, <1>16
  DEF DNext, Next, Pipeline

\* The gate admits only what the caller may read, and the one filter of the
\* call stays within the scope of each scenario that was admitted.
THEOREM ScopeInvariance ==
  ASSUME Hypotheses
  PROVE  DSpec => []ScopesHold
<1>1. Init => ScopesHold
  BY DEF Init, ScopesHold
<1>2. GateInv /\ ScopesHold /\ [DNext]_vars => ScopesHold'
  BY ScopesKept
<1> QED
  BY <1>1, <1>2, ReportInvariance, PTL DEF DSpec

-----------------------------------------------------------------------------
(* The facts of a statement                                                 *)

LEMMA FactsAre ==
  ASSUME TypeOK, NEW f \in FactTables[facts]
  PROVE  /\ f.month \in Int /\ f.cc \in Universe["cost_centre"] /\ StandsFor(f, 0) = f
<1>1. f \in [domain : DOMAIN Domains, scn : Seq(STRING), month : Int,
             cc : Universe["cost_centre"], acc : STRING, amt : Int, commit : STRING]
  BY FactTablesAssumption DEF TypeOK
<1> QED
  BY <1>1 DEF StandsFor

LEMMA Parts ==
  ASSUME NEW X, NEW a \in Seq(X), NEW b \in Seq(X), NEW c \in Seq(X), NEW d \in Seq(X),
         NEW i \in DOMAIN (a \o b \o c \o d)
  PROVE  (a \o b \o c \o d)[i] \in X
<1>1. a \o b \o c \o d \in Seq(X)
  OBVIOUS
<1> QED
  BY <1>1

\* A statement counts of its source what is in the span or in its last month,
\* and all of the span if it has no closing balance.
LEMMA StatementsOfSource ==
  ASSUME NEW F, NEW q, NEW p, NEW filters, NEW req,
         NEW i \in DOMAIN Statements(F, q, p, filters, req)
  PROVE  LET st     == Statements(F, q, p, filters, req)[i]
             source == Source(F, q, p.domain, filters)
         IN  /\ \A f \in st.facts : f \in source /\ (InSpan(q, f.month) \/ f.month = q.to)
             /\ (\A m \in st.metrics : Metrics[m].rollup # "closing") =>
                  st.facts = {f \in source : InSpan(q, f.month)}
<1> DEFINE source == Source(F, q, p.domain, filters)
           dims   == req.dims
           sets   == GroupingSets(dims, req.grains)
           spread == {f \in source : InSpan(q, f.month)}
           live   == {n \in sets : KeepsTime(dims, n)}
           balance == GroupMetrics(p.base, "closing")
           closing == ClosingFacts(F, q, p.domain, filters, dims)
           ending  == AtSpanEnd(F, q, p.domain, filters)
           x1 == SelectOf(GroupMetrics(p.base, "sum"), spread, sets)
           x2 == SelectOf(GroupMetrics(p.base, "avg"), spread, sets)
           x3 == SelectOf(balance, closing, live)
           x4 == SelectOf(balance, ending, sets \ live)
           X  == {x1, x2} \cup {x \in {x3, x4} : balance # {}}
           a == IF GroupMetrics(p.base, "sum") = {} THEN << >> ELSE <<x1>>
           b == IF GroupMetrics(p.base, "avg") = {} THEN << >> ELSE <<x2>>
           c == IF balance = {} \/ live = {} THEN << >> ELSE <<x3>>
           d == IF balance = {} \/ live = sets THEN << >> ELSE <<x4>>
<1>1. Statements(F, q, p, filters, req) = a \o b \o c \o d
  BY Zenon DEF Statements
<1>2. closing \subseteq spread
  BY DEF ClosingFacts
<1>3. ending = {f \in source : f.month = q.to}
  BY DEF AtSpanEnd
<1>4. /\ x1.facts = spread /\ x2.facts = spread /\ x3.facts = closing /\ x4.facts = ending
      /\ x3.metrics = balance /\ x4.metrics = balance
  BY DEF SelectOf
<1>5. \A m \in balance : Metrics[m].rollup = "closing"
  BY DEF GroupMetrics
<1> HIDE DEF x1, x2, x3, x4, source, balance, closing, ending
<1>6. ASSUME NEW x \in X
      PROVE  /\ \A f \in x.facts : f \in source /\ (InSpan(q, f.month) \/ f.month = q.to)
             /\ (\A m \in x.metrics : Metrics[m].rollup # "closing") => x.facts = spread
  BY <1>2, <1>3, <1>4, <1>5
<1>7. a \in Seq(X) /\ b \in Seq(X) /\ c \in Seq(X) /\ d \in Seq(X)
  <2>1. x1 \in X /\ x2 \in X /\ (balance # {} => x3 \in X /\ x4 \in X)
    OBVIOUS
  <2> HIDE DEF X
  <2>2. << >> \in Seq(X) /\ \A x \in X : <<x>> \in Seq(X)
    OBVIOUS
  <2> QED
    BY <2>1, <2>2, Zenon
<1> HIDE DEF a, b, c, d, X
<1>8. (a \o b \o c \o d)[i] \in X
  BY <1>1, <1>7, Parts
<1> QED
  BY <1>1, <1>6, <1>8 DEF source

-----------------------------------------------------------------------------
(* What a query is about                                                    *)

\* A query of the scenario that its reference names, of the months that it
\* stands for and under its modifiers.
About(q, id) ==
  LET node == ResolveKey(Scenarios, q.ref.key)
  IN  /\ DOMAIN q = {"ref", "scn", "from", "to", "mods", "shift"}
      /\ WellFormed(q.ref) /\ q.mods = Modifiers(q.ref)
      /\ id \in OwnIds /\ node.ids = {id} /\ node.shift \in Int
      /\ q.from = request.from + node.shift /\ q.to = request.to + node.shift

\* What is read for it: the scenario itself, or the one that it forks to.
ToRead(q) == \E id \in OwnIds : About(q, id) /\ q.scn = MeantId(q.ref, id)

QueriesMeant ==
  /\ {"from", "to"} \subseteq DOMAIN request /\ request.from \in Int /\ request.to \in Int
  /\ at.stage \in {"filter", "fork", "read"} => request.from <= request.to
  /\ at.stage \in {"filter", "fork"} => \A q \in plan.queries : About(q, q.scn)
  /\ at.stage = "read" => IsSeq(todo) /\ \A i \in DOMAIN todo : ToRead(todo[i])

LEMMA SidesStandFor ==
  ASSUME NEW R, NEW node, IsSide(R, node)
  PROVE  node.shift \in Int /\ \E id : node.ids = {id}
<1>1. PICK s \in R : node = RealNode(s) \/ \E x \in {"py", "pp"} : node = ShiftedNode(s, x)
  BY DEF IsSide
<1>2. RealNode(s).shift \in Int /\ \A x : ShiftedNode(s, x).shift \in Int
  BY DEF RealNode, ShiftedNode, Unknown
<1>3. node.ids = {s.id}
  BY <1>1, NodesOfARow
<1>4. node.shift \in Int
  BY <1>1, <1>2, Zenon
<1> QED
  BY <1>3, <1>4

LEMMA QueriesAreAbout ==
  ASSUME NamesApart, NEW R, Looked(R), NEW S \in SUBSET OwnIds, NEW req,
         "from" \in DOMAIN request, "to" \in DOMAIN request, "blocks" \in DOMAIN request,
         req = [request EXCEPT !.blocks = blocks],
         \A ref \in Refs(req) :
           /\ ref.key \in Seq(Words) /\ GatedRef(ref, S)
           /\ WellFormed(ref) /\ ResolveKey(R, ref.key) # Unknown,
         NEW r \in ReadRefs(R, Refs(req)), NEW q, q = DataQuery(R, req, r)
  PROVE  About(q, q.scn)
<1> DEFINE node == ResolveKey(R, r.key)
<1>1. /\ GatedQuery(q, S) /\ WellFormed(r) /\ r.key \in Seq(Words)
      /\ Registry(R) /\ IsSide(R, node)
  BY QueriesAreGated
<1>2. node.shift \in Int /\ node # Unknown /\ \E id : node.ids = {id}
  BY <1>1, SidesStandFor, SidesHaveKeys DEF Registry
<1>3. /\ DOMAIN q = {"ref", "scn", "from", "to", "mods", "shift"} /\ q.ref = r
      /\ q.scn = CHOOSE id \in node.ids : TRUE
      /\ q.mods = Modifiers(r)
      /\ q.from = req.from + node.shift /\ q.to = req.to + node.shift
  BY DEF DataQuery, Shift
<1>4. req.from = request.from /\ req.to = request.to
  OBVIOUS
<1>5. node.ids = {q.scn}
  BY <1>2, <1>3
<1>6. q.scn \in S
  BY <1>1 DEF GatedQuery
<1>7. Registry(Scenarios)
  BY <1>1 DEF Registry, Loaded, Loads, AllRows
<1>8. ResolveKey(Scenarios, r.key) = node
  BY <1>1, <1>2, <1>5, <1>6, <1>7, NamesStay
<1> QED
  BY <1>1, <1>2, <1>3, <1>4, <1>5, <1>6, <1>8 DEF About

\* The parent that the engine reads for a fork is the one that was meant.
LEMMA ForkedIsMeant ==
  ASSUME NamesApart, GateInv, NEW q, About(q, q.scn)
  PROVE  ToRead(Forked(q))
<1> DEFINE id == q.scn
           new == Forked(q)
<1>1. /\ DOMAIN q = {"ref", "scn", "from", "to", "mods", "shift"}
      /\ WellFormed(q.ref) /\ q.mods = Modifiers(q.ref) /\ id \in OwnIds
  BY DEF About
<1>2. Forks(q.ref) <=> "fork" \in DOMAIN q.mods
  BY <1>1 DEF Forks
<1>3. \A scn : About([q EXCEPT !.scn = scn], id)
  BY <1>1 DEF About
<1>4. PICK s \in Scenarios : s.id = id
  BY <1>1 DEF OwnIds
<1>5. /\ Parents(rows, {id}) = {s.parent} \ {NoKey}
      /\ Parents(Scenarios, {id}) = {s.parent} \ {NoKey}
  <2>1. s \in rows /\ \A r \in rows \cup Scenarios : r.id = id <=> r = s
    BY <1>4 DEF NamesApart, AllRows, GateInv, TypeOK
  <2>2. {r \in rows : r.id \in {id}} = {s} /\ {r \in Scenarios : r.id \in {id}} = {s}
    BY <2>1
  <2> QED
    BY <2>2 DEF Parents
<1>6. CASE "fork" \notin DOMAIN q.mods
  <2>1. new = q /\ MeantId(q.ref, id) = id
    BY <1>2, <1>6 DEF Forked, MeantId
  <2> QED
    BY <1>1, <2>1 DEF ToRead
<1>7. CASE "fork" \in DOMAIN q.mods /\ q.mods["fork"] # NoKey
  <2>1. new = [q EXCEPT !.scn = q.mods["fork"]] /\ MeantId(q.ref, id) = q.mods["fork"]
    BY <1>1, <1>2, <1>7 DEF Forked, MeantId
  <2> QED
    BY <1>1, <1>3, <2>1 DEF ToRead
<1>8. CASE "fork" \in DOMAIN q.mods /\ q.mods["fork"] = NoKey /\ s.parent = NoKey
  <2>1. Parents(rows, {id}) = {} /\ Parents(Scenarios, {id}) = {}
    BY <1>5, <1>8
  <2>2. new = q
    BY <1>8, <2>1 DEF Forked
  <2>3. MeantId(q.ref, id) = id
    BY <1>1, <1>2, <1>8, <2>1 DEF MeantId
  <2> QED
    BY <1>1, <2>2, <2>3 DEF ToRead
<1>9. CASE "fork" \in DOMAIN q.mods /\ q.mods["fork"] = NoKey /\ s.parent # NoKey
  <2>1. Parents(rows, {id}) = {s.parent} /\ Parents(Scenarios, {id}) = {s.parent}
    BY <1>5, <1>9
  <2>2. new = [q EXCEPT !.scn = s.parent]
    BY <1>9, <2>1 DEF Forked
  <2>3. MeantId(q.ref, id) = s.parent
    BY <1>1, <1>2, <1>9, <2>1 DEF MeantId
  <2> QED
    BY <1>1, <1>3, <2>2, <2>3 DEF ToRead
<1> QED
  BY <1>6, <1>7, <1>8, <1>9

\* A step that keeps the call and the plan, and what is left to be read.
LEMMA SameQueries ==
  ASSUME QueriesMeant, UNCHANGED <<request, plan, todo>>,
         at'.stage \in {"filter", "fork", "read"} => at'.stage = at.stage
  PROVE  QueriesMeant'
  BY DEF QueriesMeant, About, ToRead, IsSeq

LEMMA InitMeant ==
  ASSUME Init
  PROVE  QueriesMeant
<1>1. PICK r \in Requests : request = Defaulted(r)
  BY DEF Init
<1>2. {"from", "to"} \subseteq DOMAIN r /\ r.from \in Int /\ r.to \in Int
  BY RequestsAssumption
<1>3. {"from", "to"} \subseteq DOMAIN request /\ request.from = r.from /\ request.to = r.to
  BY <1>1, <1>2 DEF Defaulted
<1> QED
  BY <1>2, <1>3 DEF Init, QueriesMeant

LEMMA ResolveRequestMeans ==
  ASSUME NamesApart, GateInv, QueriesMeant, ResolveRequest
  PROVE  QueriesMeant'
<1> USE DEF db, call, engine
<1> DEFINE req == [request EXCEPT !.blocks = blocks]
<1>1. PICK R \in {rows, Unreadable} :
        /\ at.stage = "resolve"
        /\ IF Plan(R, req).error THEN Fails("validation")
           ELSE /\ plan' = [queries |-> Plan(R, req).queries, computed |-> Plan(R, req).computed,
                            base |-> Plan(R, req).base, derived |-> Plan(R, req).derived,
                            domain |-> Plan(R, req).domain, registry |-> R]
                /\ To("filter")
                /\ UNCHANGED <<db, call, ids, blocks, filter, todo, raw, read, answer>>
  BY DEF ResolveRequest, Stage
<1>2. /\ req.blocks = blocks /\ req.from = request.from /\ req.to = request.to
      /\ "from" \in DOMAIN request /\ "to" \in DOMAIN request /\ "blocks" \in DOMAIN request
  BY DEF GateInv, WellTyped, QueriesMeant
<1>3. CASE Fails("validation")
  BY <1>3, SameQueries DEF Fails, To
<1>4. CASE ~Plan(R, req).error
  <2> DEFINE all == {DataQuery(R, req, ref) : ref \in ReadRefs(R, Refs(req))}
  <2>1. Accepted(R, req) /\ Plan(R, req).queries = Deduplicated(all)
    BY <1>4 DEF Plan, Error
  <2>2. request.from <= request.to
    BY <1>2, <2>1 DEF Accepted
  <2>3. \A ref \in Refs(req) :
          /\ ref.key \in Seq(Words) /\ GatedRef(ref, ids)
          /\ WellFormed(ref) /\ ResolveKey(R, ref.key) # Unknown
    <3> SUFFICES ASSUME NEW i \in DOMAIN blocks
                 PROVE  /\ blocks[i].ref.key \in Seq(Words) /\ GatedRef(blocks[i].ref, ids)
                        /\ WellFormed(blocks[i].ref) /\ ResolveKey(R, blocks[i].ref.key) # Unknown
      BY <1>2 DEF Refs
    <3>1. blocks[i].ref.key \in Seq(Words) /\ GatedRef(blocks[i].ref, ids)
      BY <1>1 DEF GateInv, GateHolds
    <3>2. WellFormed(blocks[i].ref) /\ ResolveKey(R, blocks[i].ref.key) # Unknown
      BY <1>2, <2>1 DEF Accepted
    <3> QED
      BY <3>1, <3>2
  <2>4. \A q \in all : About(q, q.scn)
    <3>1. Looked(R) /\ ids \in SUBSET OwnIds
      BY RegistriesLooked DEF GateInv, GateHolds
    <3> HIDE DEF req
    <3> SUFFICES ASSUME NEW r \in ReadRefs(R, Refs(req)), NEW q, q = DataQuery(R, req, r)
                 PROVE  About(q, q.scn)
      OBVIOUS
    <3> QED
      BY <1>2, <2>3, <3>1, QueriesAreAbout DEF req
  <2>5. Deduplicated(all) \subseteq all
    BY DEF Deduplicated, SameData
  <2> HIDE DEF all
  <2>6. /\ plan'.queries = Deduplicated(all) /\ at' = [stage |-> "filter", i |-> 1]
        /\ request' = request
    BY <1>1, <1>4, <2>1 DEF To
  <2> QED
    BY <2>2, <2>4, <2>5, <2>6 DEF QueriesMeant, About
<1> QED
  BY <1>1, <1>3, <1>4

LEMMA ForkMeans ==
  ASSUME NamesApart, GateInv, QueriesMeant, Fork
  PROVE  QueriesMeant'
<1> USE DEF db, call, engine
<1> DEFINE forked == {Forked(q) : q \in plan.queries}
<1>1. at.stage = "fork"
  BY DEF Fork, Stage
<1>2. CASE /\ todo' = SetToSeq(forked) /\ at' = [stage |-> "read", i |-> 1]
           /\ UNCHANGED <<db, call, ids, blocks, plan, filter, read, answer>>
  <2>1. GateInv'
    BY ForkKeeps
  <2>2. IsSeq(todo')
    BY <1>2, <2>1 DEF GateInv, ReadsAllowed
  <2>3. IsFiniteSet(plan.queries)
    BY <1>1 DEF GateInv, ReadsAllowed
  <2>4. IsFiniteSet(forked)
    <3> DEFINE f == [q \in plan.queries |-> Forked(q)]
    <3>1. forked = {f[q] : q \in plan.queries} /\ DOMAIN f = plan.queries
      OBVIOUS
    <3> HIDE DEF f, forked
    <3>2. IsFiniteSet({f[q] : q \in plan.queries})
      BY <2>3, <3>1, FiniteImages
    <3> QED
      BY <3>1, <3>2
  <2>5. \A q \in forked : ToRead(q)
    BY <1>1, ForkedIsMeant DEF QueriesMeant
  <2>6. todo' \in [1 .. Cardinality(forked) -> forked]
    BY <1>2, <2>4, ListedQueries
  <2> HIDE DEF forked
  <2>7. \A i \in DOMAIN todo' : ToRead(todo'[i])
    BY <2>5, <2>6
  <2> QED
    BY <1>1, <1>2, <2>2, <2>7 DEF QueriesMeant, ToRead, About
<1>3. CASE Fails("execution")
  BY <1>3, SameQueries DEF Fails, To
<1> QED
  BY <1>2, <1>3 DEF Fork, To

LEMMA MeantKept ==
  ASSUME NamesApart, GateInv, QueriesMeant, [DNext]_vars
  PROVE  QueriesMeant'
<1> USE DEF db, call, engine
<1>1. ASSUME NEW kind, Fails(kind) PROVE QueriesMeant'
  BY <1>1, SameQueries DEF Fails, To
<1>2. ASSUME NEW found, Shows(found) PROVE QueriesMeant'
  BY <1>2, SameQueries DEF Shows, To
<1>3. \A s : at.stage = s /\ at' = [at EXCEPT !.i = @ + 1] => at'.stage = s
  BY DEF GateInv, WellTyped
<1>4. CASE Gate
  <2>1. CASE Step /\ UNCHANGED <<db, call, blocks, plan, filter, todo, raw, read, answer>>
    BY <1>3, <1>4, <2>1, SameQueries DEF Gate, Stage, Step
  <2> QED
    BY <1>1, <1>4, <2>1 DEF Gate
<1>5. CASE Validate
  <2>1. CASE To("normalise") /\ UNCHANGED <<db, call, ids, blocks, plan, todo, raw, read, answer>>
    BY <2>1, SameQueries DEF To
  <2> QED
    BY <1>1, <1>5, <2>1 DEF Validate
<1>6. CASE NormaliseBlock
  <2>1. at.stage = "normalise" /\ Step /\ UNCHANGED <<request, plan, todo>>
    BY <1>6 DEF NormaliseBlock, Stage
  <2> QED
    BY <1>3, <2>1, SameQueries DEF Step
<1>7. CASE CheckNames
  <2>1. CASE To("resolve") /\ UNCHANGED <<db, call, engine, answer>>
    BY <2>1, SameQueries DEF To
  <2> QED
    BY <1>1, <1>7, <2>1 DEF CheckNames
<1>8. CASE ResolveRequest
  BY <1>8, ResolveRequestMeans
<1>9. CASE Filter
  <2>1. CASE /\ at.stage = "filter" /\ To("fork")
             /\ UNCHANGED <<db, call, ids, blocks, plan, todo, raw, read, answer>>
    BY <2>1 DEF To, QueriesMeant, About
  <2> QED
    BY <1>1, <1>9, <2>1 DEF Filter, Stage
<1>10. CASE Fork
  BY <1>10, ForkMeans
<1>11. CASE CannotGroup \/ ReadFails
  BY <1>1, <1>11 DEF CannotGroup, ReadFails
<1>12. CASE ReadStatement
  <2>1. /\ at.stage = "read" /\ at'.stage = "read" /\ todo # << >>
        /\ UNCHANGED <<request, plan>> /\ (todo' = todo \/ todo' = Tail(todo))
    BY <1>3, <1>12 DEF ReadStatement, Stage, To, Step
  <2>2. PICK T : todo \in Seq(T)
    BY <2>1 DEF QueriesMeant, IsSeq
  <2>3. /\ Tail(todo) \in Seq(T)
        /\ \A i \in DOMAIN Tail(todo) : i + 1 \in DOMAIN todo /\ Tail(todo)[i] = todo[i + 1]
    BY <2>1, <2>2
  <2>4. IsSeq(todo') /\ \A i \in DOMAIN todo' : ToRead(todo'[i])
    BY <2>1, <2>2, <2>3 DEF QueriesMeant, IsSeq
  <2> QED
    BY <2>1, <2>4 DEF QueriesMeant, ToRead, About
<1>13. CASE Answer
  <2>1. CASE To("answered") /\ UNCHANGED <<db, call, engine>>
    BY <2>1, SameQueries DEF To
  <2> QED
    BY <1>1, <1>13, <2>1 DEF Answer
<1>14. CASE Meanwhile
  <2>1. UNCHANGED <<call, engine, at>>
    BY <1>14 DEF Meanwhile, CreateScenario, SwapTable
  <2> QED
    BY <2>1, SameQueries
<1>15. CASE Discover
  BY <1>2, <1>15 DEF Discover, SearchHierarchy, SearchFails, ListScenarios, ListVariants, InspectRows
<1>16. CASE UNCHANGED vars
  <2>1. UNCHANGED <<call, engine, at>>
    BY <1>16 DEF vars
  <2> QED
    BY <2>1, SameQueries
<1> QED
  BY <1>4, <1>5, <1>6, <1>7, <1>8, <1>9, <1>10, <1>11, <1>12, <1>13, <1>14, <1>15, <1>16
  DEF DNext, Next, Pipeline

\* Each query of a report is about the scenario, the months and the modifiers
\* that its reference names as the scenarios stood at the start, from the
\* resolver to the last statement; a fork without a target reads the parent.
THEOREM QueryInvariance ==
  ASSUME Hypotheses
  PROVE  DSpec => []QueriesMeant
<1>1. Init => QueriesMeant
  BY InitMeant
<1>2. GateInv /\ QueriesMeant /\ [DNext]_vars => QueriesMeant'
  BY MeantKept DEF Hypotheses
<1> QED
  BY <1>1, <1>2, ReportInvariance, PTL DEF DSpec

\* The source of a query in its span is what its reference means.
LEMMA SourceIsMeant ==
  ASSUME Hypotheses, GateInv, ScopesHold, QueriesMeant, Stage("read"),
         NEW q, ToRead(q), AllowedId(q.scn, ids), NEW f \in FactTables[facts],
         NEW node, node = ResolveKey(Scenarios, q.ref.key)
  PROVE  f \in Source(FactTables[facts], q, plan.domain, filter) /\ InSpan(q, f.month)
           <=> f \in MeantFacts(q.ref, node)
<1> DEFINE scope == permissions[f.scn]["read"]
<1>1. PICK id \in OwnIds : About(q, id) /\ q.scn = MeantId(q.ref, id)
  BY DEF ToRead
<1>2. /\ q.mods = Modifiers(q.ref) /\ node.ids = {id} /\ node.shift \in Int
      /\ q.from = request.from + node.shift /\ q.to = request.to + node.shift
  BY <1>1 DEF About
<1>3. {MeantId(q.ref, x) : x \in node.ids} = {q.scn}
  BY <1>1, <1>2
<1>4. /\ request.from \in Int /\ request.to \in Int
      /\ f.month \in Int /\ f.cc \in Universe["cost_centre"]
  BY FactsAre DEF QueriesMeant, GateInv
<1>5. InSpan(q, f.month) <=> request.from <= f.month - node.shift /\ f.month - node.shift <= request.to
  BY <1>2, <1>4 DEF InSpan
<1>6. ASSUME f.scn = q.scn
      PROVE  /\ f.domain = plan.domain => (MayRead(f) <=> ShowsMember(scope, "cost_centre", f.cc))
             /\ Passes(f, filter) <=> /\ Wanted(KeptFilter, "cost_centre", f.cc)
                                     /\ ShowsMember(scope, "cost_centre", f.cc)
  <2>1. f.scn \in ids
    <3>1. \E s \in AllRows : f.scn = s.id
      BY DEF Hypotheses, FactsOfScenarios, GateInv, TypeOK
    <3> QED
      BY <1>6, <3>1 DEF AllowedId
  <2>2. f.scn \in DOMAIN permissions /\ "read" \in DOMAIN permissions[f.scn] /\ Within(f.scn)
    BY <2>1 DEF ScopesHold, Stage
  <2>3. f.domain = plan.domain => (MayRead(f) <=> ShowsMember(scope, "cost_centre", f.cc))
    BY <2>2 DEF Within, MayRead, MaySee
  <2>4. filter = EffectiveFor(scope, Resolved(KeptFilter))
    BY <2>2 DEF Within
  <2> HIDE DEF scope
  <2>5. Passes(f, filter) <=> /\ Wanted(KeptFilter, "cost_centre", f.cc)
                             /\ ShowsMember(scope, "cost_centre", f.cc)
    BY <1>4, <2>4, EffectiveShows DEF Passes
  <2> QED
    BY <2>3, <2>5
<1> HIDE DEF scope
<1>7. f \in MeantFacts(q.ref, node) <=>
        /\ f.domain = plan.domain /\ f.scn = q.scn /\ InSpan(q, f.month)
        /\ Domains[f.domain].versioned => CommitAllowed(f, q.mods)
        /\ Wanted(KeptFilter, "cost_centre", f.cc) /\ MayRead(f)
  BY <1>2, <1>3, <1>5 DEF MeantFacts, Wanted
<1>8. f \in Source(FactTables[facts], q, plan.domain, filter) <=>
        /\ f.domain = plan.domain /\ f.scn = q.scn /\ Passes(f, filter)
        /\ Domains[plan.domain].versioned => CommitAllowed(f, q.mods)
  BY DEF Source
<1> QED
  BY <1>6, <1>7, <1>8

\* The last month of a query is in its span.
LEMMA LastMonthInSpan ==
  ASSUME QueriesMeant, Stage("read"), NEW q, ToRead(q), NEW month, month = q.to
  PROVE  InSpan(q, month)
<1>1. PICK id : About(q, id)
  BY DEF ToRead
<1>2. /\ ResolveKey(Scenarios, q.ref.key).shift \in Int
      /\ q.from = request.from + ResolveKey(Scenarios, q.ref.key).shift
      /\ q.to = request.to + ResolveKey(Scenarios, q.ref.key).shift
  BY <1>1 DEF About
<1>3. request.from \in Int /\ request.to \in Int /\ request.from <= request.to
  BY DEF QueriesMeant, Stage
<1> QED
  BY <1>2, <1>3 DEF InSpan

\* Only scenarios the gate allowed are read, and each statement counts just the
\* facts that its reference meant at the start and that the caller's scope for
\* their scenario permits, whatever is created and whichever lookups fail
\* between the gate and the statements.
THEOREM OnlyGatedIsRead ==
  ASSUME Hypotheses
  PROVE  DSpec => []ReadsWhatWasGated
<1>1. GateInv /\ ScopesHold /\ QueriesMeant => ReadsWhatWasGated
  <2> SUFFICES ASSUME GateInv, ScopesHold, QueriesMeant PROVE ReadsWhatWasGated
    OBVIOUS
  <2>1. TypeOK /\ read \subseteq ids
    BY DEF GateInv, ReadsAllowed
  <2>2. ASSUME Stage("read"), todo # << >>, NEW q, q = Head(todo), NEW i \in DOMAIN Reads(q),
               NEW st, st = Reads(q)[i],
               NEW meant, meant = MeantFacts(q.ref, ResolveKey(Scenarios, q.ref.key))
        PROVE  CountsWhatIsMeant(st, meant)
    <3> DEFINE source == Source(FactTables[facts], q, plan.domain, filter)
    <3>1. q = todo[1] /\ 1 \in DOMAIN todo
      BY <2>2 DEF QueriesMeant, Stage, IsSeq
    <3>2. ToRead(q) /\ AllowedId(q.scn, ids)
      BY <2>2, <3>1 DEF QueriesMeant, GateInv, ReadsAllowed, Stage
    <3>3. meant = {f \in source : InSpan(q, f.month)}
      <4>1. source \subseteq FactTables[facts]
        BY DEF Source
      <4> HIDE DEF source
      <4>2. meant \subseteq FactTables[facts]
        BY <2>2 DEF MeantFacts
      <4>3. \A f \in FactTables[facts] : f \in source /\ InSpan(q, f.month) <=> f \in meant
        BY <2>2, <3>2, SourceIsMeant DEF source
      <4> QED
        BY <4>1, <4>2, <4>3
    <3> HIDE DEF source
    <3>4. /\ \A f \in st.facts : f \in source /\ (InSpan(q, f.month) \/ f.month = q.to)
          /\ (\A m \in st.metrics : Metrics[m].rollup # "closing") =>
               st.facts = {f \in source : InSpan(q, f.month)}
      BY <2>2, StatementsOfSource DEF Reads, source
    <3>5. \A f \in st.facts : InSpan(q, f.month)
      BY <2>2, <3>2, <3>4, LastMonthInSpan
    <3> QED
      BY <3>3, <3>4, <3>5 DEF CountsWhatIsMeant
  <2>3. StatementsCountWhatIsMeant
    BY <2>2 DEF StatementsCountWhatIsMeant
  <2> QED
    BY <2>1, <2>3 DEF ReadsWhatWasGated
<1> QED
  BY <1>1, ReportInvariance, ScopeInvariance, QueryInvariance, PTL

-----------------------------------------------------------------------------
(* Search                                                                   *)

LEMMA OpenShows ==
  ASSUME NEW scope, OpenScope(scope), NEW leaf, NEW member
  PROVE  ShowsMember(scope, leaf, member)
<1>1. CASE scope = Unrestricted
  BY <1>1 DEF ShowsMember
<1>2. CASE DOMAIN scope.allow = {} /\ DOMAIN scope.deny = {}
  BY <1>2 DEF ShowsMember, Restricts, NamesMember
<1>3. CASE scope # Unrestricted /\ DOMAIN ScopeFilter(scope) = {}
  BY <1>3, FilterShows
<1> QED
  BY <1>1, <1>2, <1>3 DEF OpenScope

\* What search_hierarchy permits is what some scenario of the caller's shows.
ReadScopes == {permissions[id]["read"] : id \in Readable}

LEMMA SomewhereShown ==
  ASSUME Readable # {}, NEW leaf \in DOMAIN Universe, NEW member \in Universe[leaf],
         NEW permitted, permitted = VisibleSomewhere(ReadScopes)
  PROVE  (leaf \in DOMAIN permitted => member \in permitted[leaf]) <=> ShownIn(leaf, member)
<1>1. ReadScopes # {} /\ \A s \in ReadScopes : \E id \in Readable : s = permissions[id]["read"]
  BY DEF ReadScopes
<1>2. ShownIn(leaf, member) <=> \E s \in ReadScopes : ShowsMember(s, leaf, member)
  BY DEF ReadScopes, ShownIn
<1>3. CASE \E s \in ReadScopes : OpenScope(s)
  <2>1. DOMAIN permitted = {}
    BY <1>3 DEF VisibleSomewhere, NoFilter
  <2> QED
    BY <1>2, <1>3, <2>1, OpenShows
<1>4. CASE ~\E s \in ReadScopes : OpenScope(s)
  <2>1. \A s \in ReadScopes : s # Unrestricted
    BY <1>4 DEF OpenScope
  <2> DEFINE listed == {l \in DOMAIN Universe : \A s \in ReadScopes : l \in DOMAIN ScopeFilter(s)}
  <2>2. permitted = [l \in listed |-> UNION {ScopeFilter(s)[l] : s \in ReadScopes}]
    BY <1>1, <1>4 DEF VisibleSomewhere
  <2>3. CASE leaf \in listed
    <3>1. leaf \in DOMAIN permitted /\ permitted[leaf] = UNION {ScopeFilter(s)[leaf] : s \in ReadScopes}
      BY <2>2, <2>3
    <3>2. \A s \in ReadScopes : member \in ScopeFilter(s)[leaf] <=> ShowsMember(s, leaf, member)
      BY <2>1, <2>3, FilterShows
    <3> QED
      BY <1>2, <3>1, <3>2
  <2>4. CASE leaf \notin listed
    <3>1. leaf \notin DOMAIN permitted
      BY <2>2, <2>4
    <3>2. PICK s \in ReadScopes : leaf \notin DOMAIN ScopeFilter(s)
      BY <2>4
    <3>3. ShowsMember(s, leaf, member)
      BY <2>1, <3>2, FilterShows
    <3> QED
      BY <1>2, <3>1, <3>3
  <2> QED
    BY <2>3, <2>4
<1> QED
  BY <1>3, <1>4

SearchOf(ans) ==
  /\ \A dim \in DOMAIN ans.members : ans.members[dim] = {x \in Universe[dim] : ShownIn(dim, x)}
  /\ \A dim \in DOMAIN ans.nodes : \A node \in DOMAIN Dimensions[dim].under :
       Leaves(dim, node) # {} =>
         (node \in ans.nodes[dim] <=> \E x \in Leaves(dim, node) : ShownIn(LeafOf(dim), x))

LEMMA SearchIs ==
  ASSUME NEW dimension, NEW dims \in SUBSET SearchedDims(dimension),
         NEW permitted, permitted = VisibleSomewhere(ReadScopes), NEW ans,
         ans = [members |-> [d \in {x \in dims : IsLeaf(x)} |-> MembersShown(d, permitted)],
                nodes   |-> [d \in dims \cap Ragged |-> NodesShown(d, permitted)]]
  PROVE  SearchOf(ans)
<1>1. \A d \in dims : Readable # {} /\ d \in DOMAIN Dimensions
  BY DimensionsAssumption DEF SearchedDims
<1>2. ASSUME NEW dim \in DOMAIN ans.members
      PROVE  ans.members[dim] = {x \in Universe[dim] : ShownIn(dim, x)}
  <2>1. dim \in dims /\ IsLeaf(dim) /\ ans.members[dim] = MembersShown(dim, permitted)
    BY <1>2
  <2>2. dim \in DOMAIN Universe
    BY <1>1, <2>1, DimensionsAssumption DEF IsLeaf, LeafOf
  <2>3. \A x \in Universe[dim] :
          (dim \in DOMAIN permitted => x \in permitted[dim]) <=> ShownIn(dim, x)
    BY <1>1, <2>1, <2>2, SomewhereShown
  <2>4. MembersShown(dim, permitted) =
          {x \in Universe[dim] : dim \in DOMAIN permitted => x \in permitted[dim]}
    BY DEF MembersShown
  <2> QED
    BY <2>1, <2>3, <2>4
<1>3. ASSUME NEW dim \in DOMAIN ans.nodes, NEW node \in DOMAIN Dimensions[dim].under,
             Leaves(dim, node) # {}
      PROVE  node \in ans.nodes[dim] <=> \E x \in Leaves(dim, node) : ShownIn(LeafOf(dim), x)
  <2> DEFINE leaf == LeafOf(dim)
  <2>1. dim \in dims /\ ans.nodes[dim] = NodesShown(dim, permitted)
    BY <1>3
  <2>2. leaf \in DOMAIN Universe /\ Leaves(dim, node) \subseteq Universe[leaf]
    BY <1>1, <1>3, <2>1, DimensionsAssumption DEF LeafOf, Leaves
  <2>3. \A x \in Leaves(dim, node) :
          (leaf \in DOMAIN permitted => x \in permitted[leaf]) <=> ShownIn(leaf, x)
    BY <1>1, <2>1, <2>2, SomewhereShown
  <2>4. node \in ans.nodes[dim] <=>
          (leaf \in DOMAIN permitted => Leaves(dim, node) \cap permitted[leaf] # {})
    BY <1>3, <2>1 DEF NodesShown
  <2> HIDE DEF leaf
  <2>5. (leaf \in DOMAIN permitted => Leaves(dim, node) \cap permitted[leaf] # {})
          <=> \E x \in Leaves(dim, node) : leaf \in DOMAIN permitted => x \in permitted[leaf]
    BY <1>3
  <2> QED
    BY <2>3, <2>4, <2>5 DEF leaf
<1> QED
  BY <1>2, <1>3 DEF SearchOf

-----------------------------------------------------------------------------
(* Listings                                                                 *)

\* A scenario against itself is a comparison.
LEMMA AgainstItself ==
  ASSUME NamesApart, Loads(rows), rows \subseteq AllRows, NEW s \in rows,
         ResolveKey(rows, s.alias \o <<"vs">> \o s.alias) # Unknown
  PROVE  Computed(ResolveKey(rows, s.alias \o <<"vs">> \o s.alias))
<1> DEFINE key == s.alias \o <<"vs">> \o s.alias
<1>1. Loaded(rows)
  BY DEF Loaded
<1>2. Undivided(s.alias)
  <2>1. IsSide(rows, RealNode(s)) /\ RealNode(s).key = s.alias
    BY NodesOfARow DEF IsSide
  <2> QED
    BY <1>1, <2>1, SidesHaveKeys
<1>3. key \in Seq(Words) /\ Splits(key) # {}
  BY <1>2, SplitOfVersus
<1>4. HasSides(key)
  BY <1>3 DEF HasSides, Splits
<1> HIDE DEF key
<1>5. Canonical(key) = key /\ key # NoKey
  BY <1>3, <1>4, CanonicalKeys DEF key, ResolveKey
<1>6. ResolveKey(rows, key) = Comparison(rows, key)
  BY <1>1, <1>3, <1>4, <1>5, SidesAreNotOne, ResolveIs
<1>7. ResolveKey(rows, key) # Unknown
  BY DEF key
<1>8. Computed(Comparison(rows, key))
  <2>1. KindOf(key) \in {"variance", "variance_pct"}
    BY DEF KindOf
  <2> QED
    BY <1>6, <1>7, <2>1, ComparisonIs, ComparisonsAreKnown
<1> QED
  BY <1>6, <1>8 DEF key

\* A key passes the gate when the caller may read all that it rests on.
LEMMA PlainIsGated ==
  ASSUME NEW key, ResolveKey(rows, key) # Unknown
  PROVE  ResolveKey(rows, key).ids \subseteq Readable
           <=> ~Denied(permissions, "read", GatedIds(rows, {Plain(key)}))
<1>1. Plain(key).key = key /\ Plain(key).mods = << >>
  BY DEF Plain
<1>2. ~Forks(Plain(key))
  BY <1>1 DEF Forks, Modifiers
<1>3. Expand(rows, Plain(key)) = ResolveKey(rows, key).ids
  BY <1>1, <1>2 DEF Expand, Dependencies
<1>4. GatedIds(rows, {Plain(key)}) = ResolveKey(rows, key).ids
  BY <1>3 DEF GatedIds
<1> QED
  BY <1>4 DEF Denied, Readable

LEMMA VocabularyHas ==
  ASSUME Loads(rows), NEW s \in rows, NEW t \in rows
  PROVE  /\ s.alias \in Vocabulary(rows) /\ Append(s.alias, "py") \in Vocabulary(rows)
         /\ s # t => s.alias \o <<"vs">> \o t.alias \in Vocabulary(rows)
<1> DEFINE real    == {r.alias : r \in rows}
           shifted == UNION {{Append(a, "py"), Append(a, "pp")} : a \in real}
           against == UNION {{a \o <<"vs">> \o b : b \in real \ {a}} : a \in real}
<1>1. real \cup shifted \cup against \subseteq Vocabulary(rows)
  BY Zenon DEF Vocabulary
<1>2. s.alias \in real /\ t.alias \in real /\ (s # t => t.alias \in real \ {s.alias})
  BY DEF Loads
<1> HIDE DEF real
<1>3. Append(s.alias, "py") \in shifted
  BY <1>2
<1>4. ASSUME s # t PROVE s.alias \o <<"vs">> \o t.alias \in against
  <2>1. s.alias \o <<"vs">> \o t.alias \in {s.alias \o <<"vs">> \o b : b \in real \ {s.alias}}
    BY <1>2, <1>4, Zenon
  <2> QED
    BY <1>2, <2>1, Zenon
<1> QED
  BY <1>1, <1>2, <1>3, <1>4

Lists(R, perms, keys) ==
  \A s, t \in R : \A key \in {s.alias, s.alias \o <<"py">>, s.alias \o <<"vs">> \o t.alias} :
    ResolveKey(R, key) # Unknown /\ (s # t \/ ~Computed(ResolveKey(R, key))) =>
      (key \in keys <=> ~Denied(perms, "read", GatedIds(R, {Plain(key)})))

LEMMA ListingIs ==
  ASSUME NamesApart, rows \subseteq AllRows, NEW keys,
         keys = {key \in Vocabulary(rows) : ResolveKey(rows, key).ids \subseteq Readable}
  PROVE  Lists(rows, permissions, keys)
<1> SUFFICES ASSUME NEW s \in rows, NEW t \in rows,
                    NEW key \in {s.alias, s.alias \o <<"py">>, s.alias \o <<"vs">> \o t.alias},
                    ResolveKey(rows, key) # Unknown, s # t \/ ~Computed(ResolveKey(rows, key))
             PROVE  key \in keys <=> ~Denied(permissions, "read", GatedIds(rows, {Plain(key)}))
  BY Zenon DEF Lists
<1>1. Loads(rows)
  BY DEF ResolveKey
<1>2. key \in Vocabulary(rows)
  <2>1. CASE key = s.alias
    BY <1>1, <2>1, VocabularyHas
  <2>2. CASE key = s.alias \o <<"py">>
    <3>1. s.alias \in Seq(Words)
      BY RowsAreNamed
    <3>2. s.alias \o <<"py">> = Append(s.alias, "py")
      BY <3>1 DEF Words
    <3> QED
      BY <1>1, <2>2, <3>2, VocabularyHas
  <2>3. CASE key = s.alias \o <<"vs">> \o t.alias
    <3>1. s # t
      BY <1>1, <2>3, AgainstItself
    <3> QED
      BY <1>1, <2>3, <3>1, VocabularyHas
  <2> QED
    BY <2>1, <2>2, <2>3
<1> QED
  BY <1>2, PlainIsGated

-----------------------------------------------------------------------------
(* Inspections                                                              *)

\* A scenario that is inspected by its id, or found in the registry, is one
\* that the gate has asked for.
LEMMA InspectedIsGated ==
  ASSUME NamesApart, TypeOK, NEW gate \in {rows, Unreadable}, NEW store \in {rows, Unreadable},
         NEW key \in Seq(Words), NEW needed, needed = GatedIds(gate, {Plain(key)}),
         needed \subseteq OwnIds,
         LooksLikeId(key) \/ ResolveKey(store, key).node = "real"
  PROVE  InspectedScenario(store, key) \in needed
<1> DEFINE ref == Plain(key)
<1>1. ref.key = key /\ ref.mods = << >>
  BY DEF Plain
<1>2. needed = Expand(gate, ref)
  BY DEF GatedIds
<1>3. Looked(gate) /\ Looked(store)
  BY RegistriesLooked
<1>4. CASE LooksLikeId(key)
  <2>1. InspectedScenario(store, key) = key
    BY <1>4 DEF InspectedScenario
  <2>2. PICK s \in AllRows : key = s.id
    BY <1>4 DEF LooksLikeId, AllRows
  <2>3. key \in Dependencies(gate, key)
    <3>1. CASE ResolveKey(gate, key) = Unknown
      BY <3>1 DEF Dependencies
    <3>2. CASE ResolveKey(gate, key) # Unknown
      <4>1. Registry(gate)
        BY <1>3, <3>2, KnownMeansLoaded
      <4>2. ResolveKey(gate, key).ids = {key}
        BY <2>2, <3>2, <4>1, IdNamesNoOther
      <4> QED
        BY <3>2, <4>2 DEF Dependencies
    <3> QED
      BY <3>1, <3>2
  <2> QED
    BY <1>1, <1>2, <2>1, <2>3 DEF Expand
<1>5. CASE ~LooksLikeId(key)
  <2> DEFINE node == ResolveKey(store, key)
  <2>1. node.node = "real" /\ node # Unknown
    BY <1>5 DEF Unknown
  <2>2. InspectedScenario(store, key) = CHOOSE id \in node.ids : TRUE
    BY <1>5, <2>1, Zenon DEF InspectedScenario
  <2>3. Registry(store) /\ store \in SUBSET AllRows
    BY <1>3, <2>1, KnownMeansLoaded
  <2>4. node.ids \subseteq needed
    <3>1. GatedRef(ref, needed)
      BY <1>1, <1>2, <1>3, GateAllows
    <3> QED
      BY <1>1, <2>3, <3>1 DEF GatedRef
  <2>5. node.ids # {}
    <3>1. IsSide(store, node) \/ \E kind \in {"variance", "variance_pct"} : \E left, right : node = Versus(kind, left, right)
      BY <2>1, <2>3, NodeParts DEF Registry
    <3>2. IsSide(store, node)
      BY <2>1, <3>1, VersusFacts
    <3> QED
      BY <2>3, <3>2, SidesHaveKeys DEF Registry
  <2> QED
    BY <2>2, <2>4, <2>5
<1> QED
  BY <1>4, <1>5

\* The filter of an inspection lets pass what the caller asked for and the
\* scope shows.
LEMMA InspectFilterShows ==
  ASSUME NEW S, NEW id \in S, NEW domain, NEW user, user = Resolved(request.filter),
         NEW scopes, scopes = CallScope(permissions, "read", S),
         ~(DOMAIN scopes # {} /\ Violated(scopes, domain, user)),
         NEW leaf, NEW x \in Universe[leaf],
         NEW filters, filters = InspectFilter(scopes, user)
  PROVE  /\ permissions[id]["read"] # Unrestricted => domain \in permissions[id]["read"].domains
         /\ (leaf \in DOMAIN filters => x \in filters[leaf]) <=>
              /\ \A dim \in DOMAIN request.filter :
                   LeafOf(dim) = leaf => x \in Leaves(dim, request.filter[dim])
              /\ ShowsMember(permissions[id]["read"], leaf, x)
<1> DEFINE scope == permissions[id]["read"]
<1>1. /\ filters = EffectiveFor(scope, user)
      /\ scope # Unrestricted => domain \in scope.domains
  BY OneFilter DEF InspectFilter
<1> HIDE DEF scope
<1>2. (leaf \in DOMAIN filters => x \in filters[leaf]) <=>
        Wanted(request.filter, leaf, x) /\ ShowsMember(scope, leaf, x)
  BY <1>1, EffectiveShows
<1> QED
  BY <1>1, <1>2 DEF Wanted, scope

LEMMA PlainColumn ==
  ASSUME TypeOK, NEW id, NEW key, NEW f
  PROVE  f \in Column(Inside(facts, id, 0), id, Plain(key)).shown <=>
           /\ f \in FactTables[facts] /\ f.scn = id
           /\ request.from <= f.month /\ f.month <= request.to
           /\ Domains[f.domain].versioned => f.commit # "uncommitted"
           /\ AskedFor(f.cc) /\ MaySee(id, f.cc)
<1> DEFINE mods == Modifiers(Plain(key))
           own == {h \in FactTables[facts] : h.scn = id}
<1>1. DOMAIN mods = {}
  BY DEF Plain, Modifiers
<1> HIDE DEF mods
<1>2. CommitAllowed(f, mods) <=> f.commit # "uncommitted"
  BY <1>1 DEF CommitAllowed
<1>3. {StandsFor(g, 0) : g \in own} = own
  BY FactsAre
<1>4. Inside(facts, id, 0) = {h \in own : request.from <= h.month /\ h.month <= request.to}
  BY <1>3, Zenon DEF Inside
<1>5. Column(Inside(facts, id, 0), id, Plain(key)).shown = Shown(Inside(facts, id, 0), id, mods)
  BY DEF Column, mods
<1> QED
  BY <1>2, <1>4, <1>5 DEF Shown

InspectionOf(ans) ==
  Asked(request) \subseteq DOMAIN Metrics /\ ans.domain = ReportDomain
    /\ "cost_centre" \in Domains[ans.domain].dims =>
    \A s \in {t \in Scenarios : ans.key \in {t.id, t.alias}} :
      ans.facts = {f \in Column(Inside(facts, s.id, 0), s.id, Plain(ans.key)).shown :
                     f.domain = ans.domain}

\* What is inspected is what the caller may read, and what a report counts.
LEMMA InspectionIs ==
  ASSUME Hypotheses, GateInv, NEW gate \in {rows, Unreadable}, NEW store \in {rows, Unreadable},
         NEW key \in Seq(Words), NEW needed, needed = GatedIds(gate, {Plain(key)}),
         ~Denied(permissions, "read", needed), LooksLikeId(key) \/ Loads(store),
         NEW domain, NEW user, user = Resolved(request.filter),
         NEW scopes, scopes = CallScope(permissions, "read", needed),
         ~(DOMAIN scopes # {} /\ Violated(scopes, domain, user)), NEW ans,
         ans = [key |-> key, domain |-> domain,
                facts |-> InspectedFacts(domain, InspectedScenario(store, key), InspectFilter(scopes, user))]
  PROVE  InspectionOf(ans) /\ \A f \in ans.facts : MayRead(f)
<1> USE DEF Hypotheses
<1> DEFINE id == InspectedScenario(store, key)
           filters == InspectFilter(scopes, user)
<1>1. \A n \in needed : n \in OwnIds /\ n \in DOMAIN permissions /\ "read" \in DOMAIN permissions[n]
  BY DEF Denied, GateInv, GateHolds
<1>2. LooksLikeId(key) \/ ResolveKey(store, key).node = "real" => id \in needed
  BY <1>1, InspectedIsGated DEF GateInv
<1>3. /\ ans.key = key /\ ans.domain = domain
      /\ ans.facts = {f \in FactTables[facts] :
                        /\ f.domain = domain /\ f.scn = id
                        /\ request.from <= f.month /\ f.month <= request.to
                        /\ Passes(f, filters)
                        /\ Domains[domain].versioned => f.commit # "uncommitted"}
  BY DEF InspectedFacts
<1> HIDE DEF filters, id
<1>4. \A f \in FactTables[facts] : f.month \in Int /\ f.cc \in Universe["cost_centre"]
  BY FactsAre DEF GateInv
<1>5. ASSUME id \in needed, NEW f \in FactTables[facts]
      PROVE  /\ permissions[id]["read"] # Unrestricted => domain \in permissions[id]["read"].domains
             /\ Passes(f, filters) <=>
                  /\ \A dim \in DOMAIN request.filter :
                       LeafOf(dim) = "cost_centre" => f.cc \in Leaves(dim, request.filter[dim])
                  /\ MaySee(id, f.cc)
  <2>1. f.cc \in Universe["cost_centre"]
    BY <1>4
  <2> QED
    BY <1>5, <2>1, InspectFilterShows DEF Passes, MaySee, filters
<1>6. ASSUME NEW f \in ans.facts PROVE MayRead(f)
  <2>1. f \in FactTables[facts] /\ f.domain = domain /\ f.scn = id /\ Passes(f, filters)
    BY <1>3
  <2>2. id \in needed
    <3>1. PICK s \in AllRows : f.scn = s.id
      BY <2>1 DEF FactsOfScenarios, GateInv, TypeOK
    <3>2. CASE ~LooksLikeId(key) /\ ResolveKey(store, key).node # "real"
      <4>1. id = key
        BY <3>2 DEF id, InspectedScenario
      <4> QED
        BY <2>1, <3>1, <3>2, <4>1 DEF LooksLikeId, AllRows
    <3> QED
      BY <1>2, <3>2
  <2> QED
    BY <1>1, <1>5, <2>1, <2>2 DEF MayRead
<1>7. InspectionOf(ans)
  <2> SUFFICES ASSUME domain = ReportDomain, "cost_centre" \in Domains[domain].dims,
                      NEW s \in Scenarios, key \in {s.id, s.alias}
               PROVE  ans.facts = {f \in Column(Inside(facts, s.id, 0), s.id, Plain(key)).shown : f.domain = domain}
    BY <1>3 DEF InspectionOf
  <2>1. s \in AllRows
    BY DEF AllRows
  <2>2. id = s.id /\ id \in needed
    <3>1. CASE LooksLikeId(key)
      <4>1. PICK t \in AllRows : key = t.id
        BY <3>1 DEF LooksLikeId, AllRows
      <4>2. key = s.id
        BY <2>1, <4>1 DEF NamesApart
      <4>3. id = key
        BY <3>1 DEF id, InspectedScenario
      <4> QED
        BY <1>2, <3>1, <4>2, <4>3
    <3>2. CASE ~LooksLikeId(key)
      <4>1. key = s.alias
        BY <3>2 DEF LooksLikeId
      <4>2. store = rows /\ Loaded(store) /\ s \in store
        <5>1. ~Loads(Unreadable)
          BY DEF Loads, Unreadable, ValidAlias
        <5> QED
          BY <3>2, <5>1 DEF Loaded, GateInv, TypeOK, AllRows
      <4>3. ResolveKey(store, key) = RealNode(s)
        <5>1. Single(store, key) = RealNode(s) /\ key # NoKey
          BY <4>1, <4>2, OwnKeys DEF Loaded, Loads, ValidAlias
        <5> QED
          BY <4>2, <5>1, NodesOfARow, ResolveIs
      <4>4. ResolveKey(store, key).node = "real" /\ ResolveKey(store, key).ids = {s.id}
        BY <4>3, NodesOfARow
      <4>5. id = s.id
        <5>1. id = CHOOSE x \in ResolveKey(store, key).ids : TRUE
          BY <3>2, <4>4, Zenon DEF id, InspectedScenario
        <5> QED
          BY <4>4, <5>1
      <4> QED
        BY <1>2, <4>4, <4>5
    <3> QED
      BY <3>1, <3>2
  <2>3. ASSUME NEW f \in FactTables[facts]
        PROVE  Passes(f, filters) <=> AskedFor(f.cc) /\ MaySee(id, f.cc)
    BY <1>5, <2>2 DEF AskedFor
  <2> DEFINE column == Column(Inside(facts, s.id, 0), s.id, Plain(key)).shown
  <2>4. \A f : f \in column <=>
           /\ f \in FactTables[facts] /\ f.scn = id
           /\ request.from <= f.month /\ f.month <= request.to
           /\ Domains[f.domain].versioned => f.commit # "uncommitted"
           /\ AskedFor(f.cc) /\ MaySee(id, f.cc)
    BY <2>2, PlainColumn DEF GateInv
  <2> HIDE DEF column
  <2>5. \A f : f \in ans.facts <=> f \in column /\ f.domain = domain
    BY <1>3, <2>3, <2>4
  <2>6. ans.facts = {f \in column : f.domain = domain}
    BY <2>5
  <2> QED
    BY <2>6 DEF column
<1> QED
  BY <1>6, <1>7

-----------------------------------------------------------------------------
(* What is shown is what a report would give                                *)

ListingOf(ans) == Lists(rows, permissions, ans.keys)

DiscoveryOf(ans, n) ==
  /\ "members" \in DOMAIN ans => SearchOf(ans)
  /\ "keys" \in DOMAIN ans /\ n = 0 => ListingOf(ans)
  /\ "facts" \in DOMAIN ans => InspectionOf(ans) /\ \A f \in ans.facts : MayRead(f)
  /\ "variants" \in DOMAIN ans => ans.variants \subseteq Readable

\* The answer is judged by what the database held when it was given.
LEMMA Afterwards ==
  ASSUME UNCHANGED <<rows, facts, request, permissions>>, DiscoveryOf(answer', faults')
  PROVE  DiscoveryAgreesWithReports'
<1>1. SearchOf(answer') => SearchAgrees'
  BY DEF SearchOf, SearchAgrees, ShownIn, Readable
<1>2. ListingOf(answer') => ListingAgrees'
  <2>1. ListingAgrees' <=> Lists(rows', permissions', answer'.keys)
    BY Zenon DEF ListingAgrees, Lists
  <2> QED
    BY <2>1 DEF ListingOf
<1>3. InspectionOf(answer') => InspectionAgrees'
  <2>1. ReportDomain' = ReportDomain
    BY DEF ReportDomain
  <2>2. \A id, key :
          Column(Inside(facts, id, 0), id, Plain(key))' = Column(Inside(facts, id, 0), id, Plain(key))
    BY <2>1 DEF Column, Inside, Shown, AskedFor, MaySee
  <2> QED
    BY <2>1, <2>2 DEF InspectionOf, InspectionAgrees
<1>4. (\A f \in answer'.facts : MayRead(f)) => (\A f \in answer.facts : MayRead(f))'
  BY DEF MayRead, MaySee
<1>5. answer'.variants \subseteq Readable => (answer.variants \subseteq Readable)'
  BY DEF Readable
<1> QED
  BY <1>1, <1>2, <1>3, <1>4, <1>5 DEF DiscoveryOf, DiscoveryAgreesWithReports

LEMMA NothingFound ==
  ASSUME DOMAIN answer' \cap {"members", "keys", "facts", "variants"} = {}
  PROVE  DiscoveryAgreesWithReports'
  BY DEF DiscoveryAgreesWithReports

\* No answer of a report, and none of a refusal, tells anything of the kind.
LEMMA OtherAnswers ==
  ASSUME NEW x
  PROVE  /\ DOMAIN [error |-> x] \cap {"members", "keys", "facts", "variants"} = {}
         /\ DOMAIN [rows |-> x] \cap {"members", "keys", "facts", "variants"} = {}
  OBVIOUS

LEMMA ReportFindsNothing ==
  ASSUME GateInv, Pipeline \/ Meanwhile
  PROVE  DiscoveryAgreesWithReports'
<1>1. ASSUME NEW kind, Fails(kind) PROVE DiscoveryAgreesWithReports'
  BY <1>1, NothingFound, OtherAnswers DEF Fails
<1>2. ASSUME answer = Pending, answer' = answer PROVE DiscoveryAgreesWithReports'
  BY <1>2, NothingFound, OtherAnswers DEF Pending
<1>3. at.stage \notin {"answered", "shown"} => answer = Pending
  BY DEF GateInv, GateHolds
<1>4. CASE Gate
  BY <1>1, <1>2, <1>3, <1>4 DEF Gate, Stage
<1>5. CASE Validate
  BY <1>1, <1>2, <1>3, <1>5 DEF Validate, Stage
<1>6. CASE NormaliseBlock
  BY <1>2, <1>3, <1>6 DEF NormaliseBlock, Stage
<1>7. CASE CheckNames
  BY <1>1, <1>2, <1>3, <1>7 DEF CheckNames, Stage
<1>8. CASE ResolveRequest
  BY <1>1, <1>2, <1>3, <1>8 DEF ResolveRequest, Stage
<1>9. CASE Filter
  BY <1>1, <1>2, <1>3, <1>9 DEF Filter, Stage
<1>10. CASE Fork
  BY <1>1, <1>2, <1>3, <1>10 DEF Fork, Stage
<1>11. CASE CannotGroup \/ ReadFails
  BY <1>1, <1>11 DEF CannotGroup, ReadFails
<1>12. CASE ReadStatement
  BY <1>2, <1>3, <1>12 DEF ReadStatement, Stage
<1>13. CASE Answer
  BY <1>1, <1>13, NothingFound, OtherAnswers DEF Answer
<1>14. CASE Meanwhile
  BY <1>2, <1>14 DEF Meanwhile, CreateScenario, SwapTable
<1> QED
  BY <1>4, <1>5, <1>6, <1>7, <1>8, <1>9, <1>10, <1>11, <1>12, <1>13, <1>14 DEF Pipeline

LEMMA SearchFinds ==
  ASSUME SearchHierarchy
  PROVE  DiscoveryAgreesWithReports'
<1> DEFINE permitted == VisibleSomewhere(ReadScopes)
<1>1. PICK dimension \in DOMAIN Dimensions \cup {AnyDimension} :
        \E lost \in {{}} \cup {{d} : d \in SearchedDims(dimension)} :
          Shows([members |-> [d \in {x \in SearchedDims(dimension) \ lost : IsLeaf(x)} |-> MembersShown(d, permitted)],
                 nodes   |-> [d \in (SearchedDims(dimension) \ lost) \cap Ragged |-> NodesShown(d, permitted)]])
  BY Zenon DEF SearchHierarchy, ReadScopes
<1>2. PICK lost \in {{}} \cup {{d} : d \in SearchedDims(dimension)} :
          Shows([members |-> [d \in {x \in SearchedDims(dimension) \ lost : IsLeaf(x)} |-> MembersShown(d, permitted)],
                 nodes   |-> [d \in (SearchedDims(dimension) \ lost) \cap Ragged |-> NodesShown(d, permitted)]])
  BY <1>1
<1> HIDE DEF permitted
<1> DEFINE dims == SearchedDims(dimension) \ lost
           found == [members |-> [d \in {x \in dims : IsLeaf(x)} |-> MembersShown(d, permitted)],
                     nodes   |-> [d \in dims \cap Ragged |-> NodesShown(d, permitted)]]
<1>3. answer' = found /\ UNCHANGED <<db, call>>
  BY <1>2 DEF Shows
<1>4. SearchOf(found)
  <2>1. dims \in SUBSET SearchedDims(dimension)
    OBVIOUS
  <2> HIDE DEF dims
  <2> QED
    BY <2>1, SearchIs DEF permitted
<1>5. DOMAIN found = {"members", "nodes"}
  OBVIOUS
<1> HIDE DEF found
<1>6. DiscoveryOf(answer', faults')
  BY <1>3, <1>4, <1>5 DEF DiscoveryOf
<1> QED
  BY <1>3, <1>6, Afterwards DEF db, call

LEMMA ListingFinds ==
  ASSUME NamesApart, TypeOK, faults \in Nat, ListScenarios
  PROVE  DiscoveryAgreesWithReports'
<1>1. PICK registry \in {rows, Unreadable} :
        LET named == IF Loads(registry) THEN {s.alias : s \in registry} \cup {s.id : s \in registry} ELSE {}
            keys  == {key \in Vocabulary(registry) : ResolveKey(registry, key).ids \subseteq Readable}
        IN  /\ RegistryRead(registry)
            /\ Shows([keys |-> keys, old |-> {key \in OldNames : Canonical(key) \in named \cap keys}])
  BY DEF ListScenarios
<1> DEFINE keys == {key \in Vocabulary(registry) : ResolveKey(registry, key).ids \subseteq Readable}
<1>2. PICK old : RegistryRead(registry) /\ Shows([keys |-> keys, old |-> old])
  BY <1>1
<1> DEFINE found == [keys |-> keys, old |-> old]
<1>3. answer' = found /\ UNCHANGED <<db, call>>
  BY <1>2 DEF Shows
<1>4. DOMAIN found = {"keys", "old"} /\ found.keys = keys
  OBVIOUS
<1>5. ASSUME faults' = 0 PROVE ListingOf(found)
  <2>1. registry = rows
    BY <1>2, <1>5 DEF RegistryRead
  <2>2. rows \subseteq AllRows
    BY DEF TypeOK, AllRows
  <2>3. keys = {k \in Vocabulary(rows) : ResolveKey(rows, k).ids \subseteq Readable}
    BY <2>1
  <2>4. Lists(rows, permissions, keys)
    BY <2>2, <2>3, ListingIs
  <2> HIDE DEF found, keys
  <2> QED
    BY <1>4, <2>4 DEF ListingOf
<1> HIDE DEF found
<1>6. DiscoveryOf(answer', faults')
  BY <1>3, <1>4, <1>5 DEF DiscoveryOf
<1> QED
  BY <1>3, <1>6, Afterwards DEF db, call

LEMMA VariantsFind ==
  ASSUME ListVariants
  PROVE  DiscoveryAgreesWithReports'
<1>1. \/ \E kind : Shows([error |-> kind])
      \/ \E found : Shows([variants |-> found \cap Readable])
  BY DEF ListVariants
<1>2. ASSUME NEW kind, Shows([error |-> kind]) PROVE DiscoveryAgreesWithReports'
  BY <1>2, NothingFound, OtherAnswers DEF Shows
<1>3. ASSUME NEW found, Shows([variants |-> found \cap Readable]) PROVE DiscoveryAgreesWithReports'
  <2>1. answer' = [variants |-> found \cap Readable] /\ UNCHANGED <<db, call>>
    BY <1>3 DEF Shows
  <2>2. DiscoveryOf(answer', faults')
    BY <2>1 DEF DiscoveryOf
  <2> QED
    BY <2>1, <2>2, Afterwards DEF db, call
<1> QED
  BY <1>1, <1>2, <1>3

LEMMA InspectionFinds ==
  ASSUME Hypotheses, GateInv, InspectRows
  PROVE  DiscoveryAgreesWithReports'
<1> DEFINE key == request.blocks[1].ref.key
<1>1. PICK gate \in {rows, Unreadable}, store \in {rows, Unreadable}, domain \in Inspectable :
        LET needed == GatedIds(gate, {Plain(key)})
        IN  /\ 1 \in DOMAIN request.blocks
            /\ IF Denied(permissions, "read", needed) THEN Shows([error |-> "denied"])
               ELSE IF ~LooksLikeId(key) /\ ~Loads(store) THEN Shows([error |-> "execution"])
               ELSE Shows(Inspected(key, domain, InspectedScenario(store, key),
                                    CallScope(permissions, "read", needed)))
  BY Zenon DEF InspectRows
<1>2. key \in Seq(Words)
  BY <1>1 DEF GateInv, WellTyped
<1> DEFINE needed == GatedIds(gate, {Plain(key)})
           user == Resolved(request.filter)
           scopes == CallScope(permissions, "read", needed)
           found == [key |-> key, domain |-> domain,
                     facts |-> InspectedFacts(domain, InspectedScenario(store, key), InspectFilter(scopes, user))]
<1>3. ASSUME NEW kind, Shows([error |-> kind]) PROVE DiscoveryAgreesWithReports'
  BY <1>3, NothingFound, OtherAnswers DEF Shows
<1>4. ASSUME ~Denied(permissions, "read", needed), LooksLikeId(key) \/ Loads(store),
             ~(DOMAIN scopes # {} /\ Violated(scopes, domain, user)), Shows(found)
      PROVE  DiscoveryAgreesWithReports'
  <2>1. answer' = found /\ UNCHANGED <<db, call>>
    BY <1>4 DEF Shows
  <2>2. DOMAIN found = {"key", "domain", "facts"}
    OBVIOUS
  <2> HIDE DEF key
  <2>3. InspectionOf(found) /\ \A f \in found.facts : MayRead(f)
    BY <1>2, <1>4, InspectionIs
  <2> HIDE DEF found
  <2>4. DiscoveryOf(answer', faults')
    BY <2>1, <2>2, <2>3 DEF DiscoveryOf
  <2> QED
    BY <2>1, <2>4, Afterwards DEF db, call
<1>5. Inspected(key, domain, InspectedScenario(store, key), scopes) =
        IF FilterRefused(request.filter) THEN [error |-> "validation"]
        ELSE IF DOMAIN scopes # {} /\ Violated(scopes, domain, user) THEN [error |-> "scope"]
        ELSE found
  BY Zenon DEF Inspected
<1> QED
  BY <1>1, <1>3, <1>4, <1>5

\* Faults are counted from none.
LEMMA FaultsCounted ==
  ASSUME faults \in Nat, [DNext]_vars
  PROVE  faults' \in Nat
<1>1. \A registry : RegistryRead(registry) => faults' \in Nat
  BY DEF RegistryRead
<1>2. CASE Pipeline
  BY <1>1, <1>2
  DEF Pipeline, Gate, Validate, NormaliseBlock, CheckNames, ResolveRequest, Filter, Fork,
      CannotGroup, ReadStatement, ReadFails, Answer
<1>3. CASE Meanwhile \/ UNCHANGED vars
  BY <1>3 DEF Meanwhile, CreateScenario, SwapTable, vars
<1>4. CASE SearchHierarchy
  <2>1. PICK dimension, lost :
          /\ lost \in {{}} \cup {{d} : d \in SearchedDims(dimension)}
          /\ faults' = faults + Cardinality(lost)
    BY <1>4 DEF SearchHierarchy
  <2>2. lost = {} \/ \E d : lost = {d}
    BY <2>1
  <2>3. Cardinality(lost) \in Nat
    BY <2>2, FS_EmptySet, FS_Singleton
  <2> QED
    BY <2>1, <2>3
<1>5. CASE SearchFails \/ ListScenarios
  BY <1>1, <1>5 DEF SearchFails, ListScenarios
<1>6. CASE ListVariants \/ InspectRows
  <2>1. \A a, b : Cardinality({r \in {a, b} : r = Unreadable}) \in Nat
    <3> SUFFICES ASSUME NEW a, NEW b PROVE Cardinality({r \in {a, b} : r = Unreadable}) \in Nat
      OBVIOUS
    <3>1. {r \in {a, b} : r = Unreadable} \in {{}, {Unreadable}}
      OBVIOUS
    <3> QED
      BY <3>1, FS_EmptySet, FS_Singleton
  <2>2. PICK a, b : faults' = faults + Cardinality({r \in {a, b} : r = Unreadable})
    BY <1>6, Zenon DEF ListVariants, InspectRows
  <2> DEFINE misses == Cardinality({r \in {a, b} : r = Unreadable})
  <2>3. misses \in Nat
    BY <2>1, Zenon
  <2> HIDE DEF misses
  <2> QED
    BY <2>2, <2>3 DEF misses
<1> QED
  BY <1>2, <1>3, <1>4, <1>5, <1>6 DEF DNext, Next, Discover

\* Searching, listing and inspecting show what a report would: the members and
\* nodes that some scenario of the caller's shows, the scenarios that pass the
\* gate, and the rows that a report counts and the caller may read; however
\* the registry grows, and whichever of its reads fail.
THEOREM DiscoveryIsSound ==
  ASSUME Hypotheses
  PROVE  DSpec => []DiscoveryAgreesWithReports
<1> DEFINE Inv == faults \in Nat /\ DiscoveryAgreesWithReports
<1>1. Init => Inv
  <2> SUFFICES ASSUME Init PROVE DiscoveryAgreesWithReports /\ faults \in Nat
    OBVIOUS
  <2>1. DOMAIN answer = {"error"} /\ faults = 0
    BY DEF Init, Pending
  <2> QED
    BY <2>1 DEF DiscoveryAgreesWithReports
<1>2. GateInv /\ Inv /\ [DNext]_vars => Inv'
  <2> SUFFICES ASSUME GateInv, Inv, [DNext]_vars PROVE Inv'
    OBVIOUS
  <2>1. faults' \in Nat
    BY FaultsCounted
  <2>2. CASE Pipeline \/ Meanwhile
    BY <2>1, <2>2, ReportFindsNothing
  <2>3. CASE SearchFails
    BY <2>1, <2>3, NothingFound, OtherAnswers DEF SearchFails, Shows
  <2>4. CASE SearchHierarchy \/ ListScenarios \/ ListVariants \/ InspectRows
    <3>1. NamesApart /\ TypeOK
      BY DEF Hypotheses, GateInv
    <3> QED
      BY <2>1, <2>4, <3>1, SearchFinds, ListingFinds, VariantsFind, InspectionFinds
  <2>5. CASE UNCHANGED vars
    <3>1. UNCHANGED <<rows, facts, request, permissions, answer, faults>>
      BY <2>5 DEF vars, db, call
    <3>2. DiscoveryOf(answer, faults)
      BY Zenon DEF DiscoveryAgreesWithReports, DiscoveryOf, SearchAgrees, SearchOf, ListingAgrees, ListingOf,
                   Lists, InspectionAgrees, InspectionOf
    <3> QED
      BY <2>1, <3>1, <3>2, Afterwards
  <2> QED
    BY <2>2, <2>3, <2>4, <2>5 DEF DNext, Next, Discover
<1> QED
  BY <1>1, <1>2, ReportInvariance, PTL DEF DSpec
=============================================================================
