--------------------------- MODULE DeliveryProofs ---------------------------
(***************************************************************************)
(* Proofs about file delivery: one watcher loads no file twice, and an      *)
(* upload that was acknowledged is whole in the store, or the caller of a   *)
(* write that matters was told of a failure.                                *)
(***************************************************************************)
EXTENDS FileDelivery, SequenceTheorems, WellFoundedInduction, TLAPS

-----------------------------------------------------------------------------
(* The sorted listing.                                                      *)

LEMMA FirstOfListing ==
  ASSUME NEW S \in SUBSET Keys, S # {}
  PROVE  Min(S) \in S
<1>1. S \subseteq Nat
  BY DeliveryAssumption
<1>2. PICK k \in S : \A m \in S : ~(<<m, k>> \in OpToRel(<, Nat))
  BY <1>1, WFMin, NatLessThanWellFounded
<1>3. \A m \in S : k =< m
  <2> SUFFICES ASSUME NEW m \in S PROVE k =< m
    OBVIOUS
  <2>1. m \in Nat /\ k \in Nat
    BY <1>1
  <2>2. ~(m < k)
    BY <1>2, <2>1 DEF OpToRel
  <2> QED
    BY <2>1, <2>2
<1> QED
  BY <1>3 DEF Min

-----------------------------------------------------------------------------
(* What a watcher has in hand.                                              *)

BindingSet == ToSet(Bindings)
Places == {"sleep", "list", "history", "look", "fire", "load"}
Entry(w, k) == <<Head(todo[w]), k>>

\* Every key of the listing is one of the binding, and the processed set knows
\* of each that has a row; at "fire" and "load" the first key is under work.
Watch(w) ==
    /\ pc[w] \in {"history", "look", "fire", "load"} => todo[w] # << >>
    /\ pc[w] \in {"history", "look", "fire", "load"} =>
          \A k \in listing[w] : Entry(w, k) \in Matches
    /\ pc[w] \in {"fire", "load"} => listing[w] # {}
    /\ pc[w] \in {"look", "fire"} =>
          \A k \in listing[w] : rows[Entry(w, k)] > 0 => k \in seen[w]
    /\ pc[w] = "load" =>
          \A k \in listing[w] : k # First(w) /\ rows[Entry(w, k)] > 0 => k \in seen[w]
    /\ pc[w] = "fire" => First(w) \notin seen[w]

KeysSent == {IdemOf[r] : r \in Uploads} \ {NoKey}

Typed ==
    /\ file \in [Keys -> {"absent", "torn", "whole"}]
    /\ remembered \subseteq KeysSent
    /\ answer \in [Uploads -> Statuses]
    /\ rows \in [Matches -> {0, 1}]
    /\ whole \in [Matches -> BOOLEAN]
    /\ pc \in [Watchers -> Places]
    /\ todo \in [Watchers -> Seq(BindingSet)]
    /\ listing \in [Watchers -> SUBSET Keys]
    /\ seen \in [Watchers -> SUBSET Keys]
    /\ stores \in [Watchers -> StoreSets]
    /\ faults \in 0..MaxFaults

\* w is the one watcher.
IInv(w) == Typed /\ Watch(w)

LEMMA FirstIs ==
  ASSUME Typed, NEW w \in Watchers, listing[w] # {}
  PROVE  First(w) \in listing[w] /\ First(w) \in Keys
<1>1. listing[w] \in SUBSET Keys
  BY DEF Typed
<1> QED
  BY <1>1, FirstOfListing DEF First

LEMMA TailOfTodo ==
  ASSUME Typed, NEW w \in Watchers, todo[w] # << >>
  PROVE  Tail(todo[w]) \in Seq(BindingSet)
<1>1. todo[w] \in Seq(BindingSet)
  BY DEF Typed
<1> QED
  BY <1>1, HeadTailProperties

\* The endpoint touches nothing of the watcher's.
LEMMA UploadsKeep ==
  ASSUME NEW w \in Watchers, IInv(w), (\E r \in Uploads : Upload(r)) \/ ServerRestarts
  PROVE  IInv(w)'
<1>1. Typed /\ MaxFaults \in Nat /\ KeyOf \in [Uploads -> Keys]
  BY DeliveryAssumption DEF IInv
<1>2. UNCHANGED wvars
  BY DEF Upload, AnswerDuplicate, BeginWrite, EndWrite, WriteFails, ServerRestarts
<1>3. Watch(w)'
  BY <1>2 DEF IInv, Watch, wvars, Entry, First
<1>4. ASSUME NEW r \in Uploads, Upload(r) PROVE Typed'
  <2>1. faults' \in 0..MaxFaults /\ file' \in [Keys -> {"absent", "torn", "whole"}]
    <3>1. faults' \in 0..MaxFaults
      BY <1>1, <1>4 DEF Upload, AnswerDuplicate, BeginWrite, EndWrite, WriteFails, Fault, Typed
    <3>2. \/ file' = file
          \/ file' = [file EXCEPT ![KeyOf[r]] = "torn"]
          \/ file' = [file EXCEPT ![KeyOf[r]] = "whole"]
      BY <1>4 DEF Upload, AnswerDuplicate, BeginWrite, EndWrite, WriteFails
    <3> QED
      BY <1>1, <3>1, <3>2 DEF Typed
  <2>2. answer' \in [Uploads -> Statuses]
    BY <1>1, <1>4 DEF Upload, AnswerDuplicate, BeginWrite, EndWrite, WriteFails, Typed, Statuses
  <2>3. remembered' \subseteq KeysSent
    BY <1>1, <1>4 DEF Upload, AnswerDuplicate, BeginWrite, EndWrite, WriteFails, Typed, KeysSent
  <2> QED
    BY <1>1, <1>2, <2>1, <2>2, <2>3 DEF Typed, wvars
<1>5. CASE ServerRestarts
  <2>1. answer' \in [Uploads -> Statuses] /\ faults' \in 0..MaxFaults
    BY <1>1, <1>5 DEF ServerRestarts, Fault, Typed, Statuses
  <2>2. remembered' \subseteq KeysSent
    BY <1>5 DEF ServerRestarts
  <2>3. file' \in [Keys -> {"absent", "torn", "whole"}]
    BY <1>1, <1>5 DEF ServerRestarts, Typed
  <2>4. /\ rows' = rows /\ whole' = whole /\ pc' = pc
        /\ todo' = todo /\ listing' = listing /\ seen' = seen /\ stores' = stores
    BY <1>2 DEF wvars
  <2>5. /\ rows' \in [Matches -> {0, 1}] /\ whole' \in [Matches -> BOOLEAN]
        /\ pc' \in [Watchers -> Places] /\ todo' \in [Watchers -> Seq(BindingSet)]
        /\ listing' \in [Watchers -> SUBSET Keys] /\ seen' \in [Watchers -> SUBSET Keys]
        /\ stores' \in [Watchers -> StoreSets]
    BY <1>1, <2>4 DEF Typed
  <2>6. Typed'
    BY <2>1, <2>2, <2>3, <2>5 DEF Typed
  <2> QED
    BY <1>3, <2>6 DEF IInv
<1> QED
  BY <1>3, <1>4, <1>5 DEF IInv

WatcherMove(w) == Step(w) \/ ListFails(w) \/ CallRaises(w) \/ WatcherRestarts(w)

LEMMA MovesKeep ==
  ASSUME NEW w \in Watchers, IInv(w), WatcherMove(w)
  PROVE  IInv(w)'
<1> USE DEF Places
<1>1. /\ Typed /\ Watch(w) /\ pc[w] \in Places /\ listing[w] \in SUBSET Keys
      /\ Bindings \in Seq(BindingSet) /\ MaxFaults \in Nat
      /\ todo[w] # << >> => Tail(todo[w]) \in Seq(BindingSet)
      /\ listing[w] # {} => First(w) \in listing[w] /\ First(w) \in Keys
  BY DeliveryAssumption, TailOfTodo, FirstIs DEF IInv, Typed, BindingSet
<1>2. ASSUME Fault PROVE faults' \in 0..MaxFaults
  BY <1>1, <1>2 DEF Fault, Typed
<1>3. ASSUME pc'[w] \in {"sleep", "list"} PROVE Watch(w)'
  BY <1>3 DEF Watch
<1>4. CASE WakeUp(w)
  <2>1. Typed'
    BY <1>1, <1>4 DEF WakeUp, Goto, Typed, uvars
  <2>2. pc'[w] \in {"sleep", "list"}
    BY <1>1, <1>4 DEF WakeUp, Goto, Typed
  <2> QED
    BY <1>3, <2>1, <2>2 DEF IInv
<1>5. CASE EndTick(w)
  <2>1. Typed'
    BY <1>1, <1>5 DEF EndTick, Goto, Typed, uvars
  <2>2. pc'[w] \in {"sleep", "list"}
    BY <1>1, <1>5 DEF EndTick, Goto, Typed
  <2> QED
    BY <1>3, <2>1, <2>2 DEF IInv
<1>6. CASE List(w)
  <2>1. Typed'
    BY <1>1, <1>6 DEF List, HasStore, Goto, Typed, uvars
  <2>2. /\ pc'[w] = "history" /\ todo' = todo /\ todo[w] # << >>
        /\ \A k \in listing'[w] : Entry(w, k) \in Matches
    BY <1>1, <1>6 DEF List, HasStore, Goto, Typed, Entry
  <2> QED
    BY <2>1, <2>2 DEF IInv, Watch, Entry
<1>7. CASE ListFails(w)
  <2>1. Typed'
    BY <1>1, <1>2, <1>7 DEF ListFails, HasStore, Typed, uvars
  <2>2. pc'[w] \in {"sleep", "list"}
    BY <1>1, <1>7 DEF ListFails, HasStore, Typed
  <2> QED
    BY <1>3, <2>1, <2>2 DEF IInv
<1>17. CASE StoreMissing(w)
  <2>1. Typed'
    BY <1>1, <1>17, EmptySeq DEF StoreMissing, Abandon, Drops, Goto, Typed, uvars
  <2>2. pc'[w] \in {"sleep", "list"}
    BY <1>1, <1>17 DEF StoreMissing, Abandon, Drops, Goto, Typed
  <2> QED
    BY <1>3, <2>1, <2>2 DEF IInv
<1>8. CASE ReadProcessed(w)
  <2>1. Typed'
    BY <1>1, <1>8 DEF ReadProcessed, Goto, Typed, uvars
  <2>2. /\ pc[w] = "history" /\ pc'[w] = "look" /\ UNCHANGED <<rows, todo, listing>>
        /\ seen'[w] = {k \in Keys : Entry(w, k) \in Matches /\ rows[Entry(w, k)] > 0}
    BY <1>1, <1>8 DEF ReadProcessed, Goto, Typed, Entry
  <2>3. \A k \in listing[w] : rows[Entry(w, k)] > 0 => k \in seen'[w]
    BY <1>1, <2>2 DEF Watch
  <2> QED
    BY <1>1, <2>1, <2>2, <2>3 DEF IInv, Watch, Entry
<1>9. CASE NextBinding(w)
  <2>1. Typed'
    BY <1>1, <1>9 DEF NextBinding, Goto, Typed, uvars, Watch
  <2>2. pc'[w] \in {"sleep", "list"}
    BY <1>1, <1>9 DEF NextBinding, Goto, Typed
  <2> QED
    BY <1>3, <2>1, <2>2 DEF IInv
<1>10. CASE SkipFile(w)
  <2>1. Typed'
    BY <1>1, <1>10 DEF SkipFile, Typed, uvars
  <2>2. /\ pc[w] = "look" /\ UNCHANGED <<rows, pc, todo, seen>>
        /\ listing'[w] \subseteq listing[w]
    BY <1>1, <1>10 DEF SkipFile, Typed
  <2> QED
    BY <1>1, <2>1, <2>2 DEF IInv, Watch, Entry
<1>11. CASE TakeFile(w)
  <2>1. Typed'
    BY <1>1, <1>11 DEF TakeFile, Goto, Typed, uvars
  <2>2. /\ pc[w] = "look" /\ pc'[w] = "fire" /\ UNCHANGED <<rows, todo, seen, listing>>
        /\ listing[w] # {} /\ First(w) \notin seen[w]
    BY <1>1, <1>11 DEF TakeFile, Goto, Typed
  <2> QED
    BY <1>1, <2>1, <2>2 DEF IInv, Watch, Entry, First
<1>12. CASE FileUnreadable(w)
  <2>1. Typed'
    BY <1>1, <1>12, EmptySeq DEF FileUnreadable, Abandon, Drops, Goto, Typed, uvars
  <2>2. pc'[w] \in {"sleep", "list"}
    BY <1>1, <1>12 DEF FileUnreadable, Abandon, Drops, Goto, Typed
  <2> QED
    BY <1>3, <2>1, <2>2 DEF IInv
<1>13. CASE FireLoad(w)
  <2> DEFINE m == Entry(w, First(w))
  <2>1. /\ pc[w] = "fire" /\ pc'[w] = "load" /\ UNCHANGED <<todo, listing, seen>>
        /\ rows' = [rows EXCEPT ![m] = @ + 1] /\ listing[w] # {}
    BY <1>1, <1>13 DEF FireLoad, Goto, Typed, Entry, Watch
  <2>2. m \in Matches /\ rows[m] = 0
    BY <1>1, <2>1 DEF Watch, Typed
  <2>3. Typed'
    <3>1. rows' \in [Matches -> {0, 1}]
      <4> HIDE DEF m
      <4> QED
        BY <1>1, <2>1, <2>2 DEF Typed
    <3>2. pc' \in [Watchers -> Places]
      BY <1>1, <1>13 DEF FireLoad, Goto, Typed
    <3> QED
      BY <1>1, <1>13, <3>1, <3>2 DEF FireLoad, Typed, uvars
  <2>4. ASSUME NEW k \in listing[w], k # First(w) PROVE rows'[Entry(w, k)] = rows[Entry(w, k)]
    <3>1. Entry(w, k) \in Matches /\ Entry(w, k) # m
      BY <1>1, <2>1, <2>4 DEF Watch, Entry
    <3> HIDE DEF m
    <3> QED
      BY <1>1, <2>1, <3>1 DEF Typed
  <2>5. First(w)' = First(w) /\ \A k : Entry(w, k)' = Entry(w, k)
    BY <2>1 DEF First, Entry
  <2>6. \A k \in listing[w] : k # First(w) /\ rows'[Entry(w, k)] > 0 => k \in seen[w]
    BY <1>1, <2>1, <2>4 DEF Watch
  <2>7. todo[w] # << >> /\ \A k \in listing[w] : Entry(w, k) \in Matches
    BY <1>1, <2>1 DEF Watch
  <2> HIDE DEF m
  <2>8. Watch(w)'
    BY <2>1, <2>5, <2>6, <2>7 DEF Watch
  <2> QED
    BY <2>3, <2>8 DEF IInv
<1>14. CASE LoadEnds(w)
  <2>1. /\ pc[w] = "load" /\ pc'[w] = "look" /\ UNCHANGED <<rows, todo, seen>>
        /\ listing'[w] = listing[w] \ {First(w)} /\ todo[w] # << >>
    BY <1>1, <1>14 DEF LoadEnds, Goto, Typed, Watch
  <2>2. Typed'
    <3>1. whole' \in [Matches -> BOOLEAN]
      BY <1>1, <1>14 DEF LoadEnds, Typed
    <3>2. pc' \in [Watchers -> Places] /\ listing' \in [Watchers -> SUBSET Keys]
      BY <1>1, <1>14 DEF LoadEnds, Goto, Typed
    <3> QED
      BY <1>1, <1>14, <3>1, <3>2 DEF LoadEnds, Typed, uvars
  <2>3. \A k : Entry(w, k)' = Entry(w, k)
    BY <2>1 DEF Entry
  <2>4. \A k \in listing'[w] : Entry(w, k) \in Matches /\ (rows[Entry(w, k)] > 0 => k \in seen[w])
    BY <1>1, <2>1 DEF Watch
  <2>5. Watch(w)'
    BY <2>1, <2>3, <2>4 DEF Watch
  <2> QED
    BY <2>2, <2>5 DEF IInv
<1>15. CASE CallRaises(w)
  <2>1. Typed'
    BY <1>1, <1>2, <1>15, EmptySeq DEF CallRaises, Abandon, Drops, Goto, Typed, uvars
  <2>2. pc'[w] \in {"sleep", "list"}
    BY <1>1, <1>15 DEF CallRaises, Abandon, Drops, Goto, Typed
  <2> QED
    BY <1>3, <2>1, <2>2 DEF IInv
<1>16. CASE WatcherRestarts(w)
  <2>1. Typed'
    BY <1>1, <1>2, <1>16, EmptySeq DEF WatcherRestarts, BuildStores, Drops, Goto, Typed, uvars
  <2>2. pc'[w] \in {"sleep", "list"}
    BY <1>1, <1>16 DEF WatcherRestarts, BuildStores, Drops, Goto, Typed
  <2> QED
    BY <1>3, <2>1, <2>2 DEF IInv
<1> QED
  BY <1>4, <1>5, <1>6, <1>7, <1>8, <1>9, <1>10, <1>11, <1>12, <1>13, <1>14, <1>15, <1>16, <1>17
     DEF WatcherMove, Step

LEMMA InitialIInv ==
  ASSUME NEW w \in Watchers
  PROVE  Init => IInv(w)
<1> SUFFICES ASSUME Init PROVE IInv(w)
  OBVIOUS
<1>1. Typed
  BY DeliveryAssumption, EmptySeq DEF Init, Typed, Statuses, Places
<1>2. Watch(w)
  BY DEF Init, Watch
<1> QED
  BY <1>1, <1>2 DEF IInv

Lone(w) == Watchers = {w}

LEMMA StepsKeep ==
  ASSUME NEW w, Lone(w)
  PROVE  IInv(w) /\ [Next]_vars => IInv(w)'
<1> SUFFICES ASSUME IInv(w), [Next]_vars PROVE IInv(w)'
  OBVIOUS
<1>1. w \in Watchers /\ \A v \in Watchers : v = w
  BY DEF Lone
<1>2. CASE (\E r \in Uploads : Upload(r)) \/ ServerRestarts
  BY <1>1, <1>2, UploadsKeep
<1>3. CASE \E v \in Watchers : WatcherMove(v)
  BY <1>1, <1>3, MovesKeep
<1>4. CASE UNCHANGED vars
  BY <1>4 DEF vars, uvars, wvars, IInv, Typed, Watch, Entry, First
<1> QED
  BY <1>2, <1>3, <1>4 DEF Next, WatcherMove

LEMMA TypesOfLone ==
  ASSUME NEW w, Lone(w), IInv(w)
  PROVE  TypeOK
<1>1. Typed /\ Watch(w) /\ MaxRows \in Nat \ {0} /\ \A v \in Watchers : v = w
  BY DeliveryAssumption DEF IInv, Lone
<1>2. rows \in [Matches -> 0..MaxRows]
  <2>1. {0, 1} \subseteq 0..MaxRows
    BY <1>1
  <2> QED
    BY <1>1, <2>1 DEF Typed
<1>3. ASSUME NEW v \in Watchers PROVE ToSet(todo[v]) \subseteq ToSet(Bindings)
  <2>1. todo[v] \in Seq(BindingSet)
    BY <1>1 DEF Typed
  <2>2. \A i \in DOMAIN todo[v] : todo[v][i] \in BindingSet
    BY <2>1, ElementOfSeq, LenProperties
  <2> QED
    BY <2>2 DEF ToSet, BindingSet
<1>4. \A v \in Watchers : /\ pc[v] \in {"history", "look", "fire", "load"} => todo[v] # << >>
                          /\ pc[v] \in {"fire", "load"} => listing[v] # {}
  BY <1>1 DEF Watch
<1> QED
  BY <1>1, <1>2, <1>3, <1>4 DEF Typed, TypeOK, Places, KeysSent

\* One watcher loads no file twice for one binding, whatever restarts and
\* failing calls there are: each attempt leaves its row before anything else,
\* and the processed set of a listing is read after the listing.
THEOREM FilesLoadOnce ==
  ASSUME NEW w, Lone(w)
  PROVE  Spec => []LoadedOnce
<1>1. w \in Watchers
  BY DEF Lone
<1>2. Init => IInv(w)
  BY <1>1, InitialIInv
<1>3. IInv(w) /\ [Next]_vars => IInv(w)'
  BY StepsKeep
<1>4. IInv(w) => LoadedOnce
  <2> SUFFICES ASSUME IInv(w) PROVE LoadedOnce
    OBVIOUS
  <2>1. TypeOK
    BY TypesOfLone
  <2>2. \A m \in Matches : rows[m] <= 1
    BY DEF IInv, Typed
  <2> QED
    BY <2>1, <2>2 DEF LoadedOnce
<1> QED
  BY <1>2, <1>3, <1>4, PTL DEF Spec

-----------------------------------------------------------------------------
(* Acknowledged uploads.                                                    *)

\* The file of an object key is whole, or an upload of it is under way or was
\* answered with an error.
WholeOrCut(k) ==
    file[k] = "whole" \/ \E p \in Uploads : KeyOf[p] = k /\ answer[p] \in {"writing", "error"}

\* What an acknowledgement is worth when writes fail and the server restarts:
\* the upload, or the one it repeats, is stored and whole, but for an upload of
\* the same idempotency key or of the same object that is under way or whose
\* caller was told that it failed.
AcknowledgedUnlessTold ==
    \A r \in Uploads : answer[r] \in {"accepted", "deduplicated"} =>
        \E q \in Uploads :
            /\ IdemOf[q] = IdemOf[r]
            /\ answer[q] = "error" \/ (answer[q] = "accepted" /\ WholeOrCut(KeyOf[q]))

\* Each key the server remembers is one of an upload it began.
UInv ==
    /\ answer \in [Uploads -> Statuses] /\ file \in [Keys -> {"absent", "torn", "whole"}]
    /\ \A r \in Uploads : IdemOf[r] \in remembered =>
          \E q \in Uploads : IdemOf[q] = IdemOf[r] /\ answer[q] \in {"writing", "accepted", "error"}
    /\ \A r \in Uploads : answer[r] = "deduplicated" =>
          \E q \in Uploads : IdemOf[q] = IdemOf[r] /\ answer[q] \in {"accepted", "error"}
    /\ \A r \in Uploads : answer[r] = "accepted" => WholeOrCut(KeyOf[r])

\* Each of the answers that an upload can still get, and what is left of the
\* others: an upload that has ended stays as it is.
LEMMA OneAnswer ==
  ASSUME UInv, NEW r \in Uploads, NEW a \in Statuses, answer' = [answer EXCEPT ![r] = a]
  PROVE  /\ answer' \in [Uploads -> Statuses] /\ answer'[r] = a
         /\ \A q \in Uploads : q # r => answer'[q] = answer[q]
  BY DEF UInv

LEMMA DuplicateKeeps ==
  ASSUME UInv, NEW r \in Uploads, AnswerDuplicate(r)
  PROVE  UInv'
<1>1. /\ answer[r] = "none" /\ IdemOf[r] \in remembered
      /\ \A q \in Uploads : answer[q] # "writing"
      /\ answer' = [answer EXCEPT ![r] = "deduplicated"] /\ UNCHANGED <<file, remembered>>
  BY DEF AnswerDuplicate, Writing
<1>2. /\ answer' \in [Uploads -> Statuses] /\ answer'[r] = "deduplicated"
      /\ \A q \in Uploads : q # r => answer'[q] = answer[q]
  BY <1>1, OneAnswer DEF Statuses
<1>3. ASSUME NEW u \in Uploads, IdemOf[u] \in remembered
      PROVE  \E q \in Uploads : IdemOf[q] = IdemOf[u] /\ answer'[q] \in {"accepted", "error"}
  BY <1>1, <1>2, <1>3 DEF UInv
<1>4. ASSUME NEW u \in Uploads, u # r, answer'[u] = "deduplicated"
      PROVE  \E q \in Uploads : IdemOf[q] = IdemOf[u] /\ answer'[q] \in {"accepted", "error"}
  BY <1>1, <1>2, <1>4 DEF UInv
<1>5. ASSUME NEW u \in Uploads, answer'[u] = "accepted" PROVE WholeOrCut(KeyOf[u])'
  <2>1. u # r /\ answer[u] = "accepted" /\ WholeOrCut(KeyOf[u])
    BY <1>2, <1>5 DEF UInv
  <2> QED
    BY <1>1, <1>2, <2>1 DEF WholeOrCut
<1> QED
  BY <1>1, <1>2, <1>3, <1>4, <1>5 DEF UInv

LEMMA BeginKeeps ==
  ASSUME UInv, NEW r \in Uploads, BeginWrite(r)
  PROVE  UInv'
<1>1. /\ answer[r] = "none" /\ remembered' = remembered \cup ({IdemOf[r]} \ {NoKey})
      /\ answer' = [answer EXCEPT ![r] = "writing"]
      /\ file' = [file EXCEPT ![KeyOf[r]] = "torn"]
  BY DEF BeginWrite
<1>2. /\ answer' \in [Uploads -> Statuses] /\ answer'[r] = "writing"
      /\ \A q \in Uploads : q # r => answer'[q] = answer[q]
  BY <1>1, OneAnswer DEF Statuses
<1>3. ASSUME NEW u \in Uploads, IdemOf[u] \in remembered'
      PROVE  \E q \in Uploads : IdemOf[q] = IdemOf[u] /\ answer'[q] \in {"writing", "accepted", "error"}
  BY <1>1, <1>2, <1>3 DEF UInv
<1>4. ASSUME NEW u \in Uploads, answer'[u] = "deduplicated"
      PROVE  \E q \in Uploads : IdemOf[q] = IdemOf[u] /\ answer'[q] \in {"accepted", "error"}
  BY <1>1, <1>2, <1>4 DEF UInv
<1>5. ASSUME NEW u \in Uploads, answer'[u] = "accepted" PROVE WholeOrCut(KeyOf[u])'
  <2>1. u # r /\ answer[u] = "accepted" /\ WholeOrCut(KeyOf[u]) /\ KeyOf[u] \in Keys
    BY <1>2, <1>5, DeliveryAssumption DEF UInv
  <2>2. CASE KeyOf[u] = KeyOf[r]
    BY <1>2, <2>2 DEF WholeOrCut
  <2>3. CASE KeyOf[u] # KeyOf[r]
    <3>1. file'[KeyOf[u]] = file[KeyOf[u]]
      BY <1>1, <2>1, <2>3 DEF UInv
    <3> QED
      BY <1>1, <1>2, <2>1, <3>1 DEF WholeOrCut
  <2> QED
    BY <2>2, <2>3
<1>6. file' \in [Keys -> {"absent", "torn", "whole"}]
  BY <1>1, DeliveryAssumption DEF UInv
<1> QED
  BY <1>2, <1>3, <1>4, <1>5, <1>6 DEF UInv

\* A write ends, whole and accepted, or cut and with an error.
LEMMA EndKeeps ==
  ASSUME UInv, NEW r \in Uploads, EndWrite(r) \/ WriteFails(r)
  PROVE  UInv'
<1>1. /\ answer[r] = "writing" /\ remembered' = remembered
      /\ \/ /\ answer' = [answer EXCEPT ![r] = "accepted"]
            /\ file' = [file EXCEPT ![KeyOf[r]] = "whole"]
         \/ answer' = [answer EXCEPT ![r] = "error"] /\ file' = file
  BY DEF EndWrite, WriteFails
<1>2. /\ answer' \in [Uploads -> Statuses] /\ answer'[r] \in {"accepted", "error"}
      /\ \A q \in Uploads : q # r => answer'[q] = answer[q]
  BY <1>1, OneAnswer DEF Statuses
<1>3. ASSUME NEW u \in Uploads, IdemOf[u] \in remembered'
      PROVE  \E q \in Uploads : IdemOf[q] = IdemOf[u] /\ answer'[q] \in {"writing", "accepted", "error"}
  BY <1>1, <1>2, <1>3 DEF UInv
<1>4. ASSUME NEW u \in Uploads, answer'[u] = "deduplicated"
      PROVE  \E q \in Uploads : IdemOf[q] = IdemOf[u] /\ answer'[q] \in {"accepted", "error"}
  BY <1>1, <1>2, <1>4 DEF UInv
<1>5. ASSUME NEW u \in Uploads, answer'[u] = "accepted" PROVE WholeOrCut(KeyOf[u])'
  <2>1. KeyOf[u] \in Keys /\ KeyOf[r] \in Keys
    BY DeliveryAssumption
  <2>2. CASE answer'[r] = "accepted"
    <3>1. file' = [file EXCEPT ![KeyOf[r]] = "whole"]
      BY <1>1, <1>2, <2>2 DEF UInv
    <3>2. CASE KeyOf[u] = KeyOf[r]
      BY <2>1, <3>1, <3>2 DEF WholeOrCut, UInv
    <3>3. CASE KeyOf[u] # KeyOf[r]
      <4>1. answer[u] = "accepted" /\ WholeOrCut(KeyOf[u]) /\ file'[KeyOf[u]] = file[KeyOf[u]]
        BY <1>2, <1>5, <2>1, <3>1, <3>3 DEF UInv
      <4> QED
        BY <1>2, <3>3, <4>1 DEF WholeOrCut
    <3> QED
      BY <3>2, <3>3
  <2>3. CASE answer'[r] = "error"
    <3>1. u # r /\ answer[u] = "accepted" /\ WholeOrCut(KeyOf[u])
      BY <1>2, <1>5, <2>3 DEF UInv
    <3>2. file' = file
      BY <1>1, <1>2, <2>3 DEF UInv
    <3> QED
      BY <1>2, <2>3, <3>1, <3>2 DEF WholeOrCut
  <2> QED
    BY <1>2, <2>2, <2>3
<1>6. file' \in [Keys -> {"absent", "torn", "whole"}]
  BY <1>1, DeliveryAssumption DEF UInv
<1> QED
  BY <1>2, <1>3, <1>4, <1>5, <1>6 DEF UInv

LEMMA RestartKeeps == UInv /\ ServerRestarts => UInv'
<1> SUFFICES ASSUME UInv, ServerRestarts PROVE UInv'
  OBVIOUS
<1>1. /\ remembered' = {} /\ file' = file /\ answer' \in [Uploads -> Statuses]
      /\ \A q \in Uploads : answer'[q] = IF answer[q] = "writing" THEN "error" ELSE answer[q]
  BY DEF ServerRestarts, UInv, Statuses
<1>2. ASSUME NEW u \in Uploads, answer'[u] = "deduplicated"
      PROVE  \E q \in Uploads : IdemOf[q] = IdemOf[u] /\ answer'[q] \in {"accepted", "error"}
  BY <1>1, <1>2 DEF UInv
<1>3. ASSUME NEW u \in Uploads, answer'[u] = "accepted" PROVE WholeOrCut(KeyOf[u])'
  <2>1. WholeOrCut(KeyOf[u])
    BY <1>1, <1>3 DEF UInv
  <2> QED
    BY <1>1, <2>1 DEF WholeOrCut
<1> QED
  BY <1>1, <1>2, <1>3 DEF UInv

\* An upload that was answered with 202 is whole in the store, or the caller of
\* an upload with its idempotency key, or of one that wrote the same object, has
\* been or will be told otherwise: with failing writes and restarts at any step,
\* for any uploads.  The violation of AcknowledgedIsStored is the first of the
\* two exceptions.
THEOREM StoredUnlessTold == Spec => []AcknowledgedUnlessTold
<1>1. Init => UInv
  BY DEF Init, UInv, Statuses
<1>2. UInv /\ [Next]_vars => UInv'
  <2> SUFFICES ASSUME UInv, [Next]_vars PROVE UInv'
    OBVIOUS
  <2>1. ASSUME UNCHANGED uvars PROVE UInv'
    BY <2>1 DEF UInv, WholeOrCut, uvars
  <2>2. CASE \E w \in Watchers : WatcherMove(w)
    <3>1. UNCHANGED uvars
      BY <2>2 DEF WatcherMove, Step, WakeUp, EndTick, List, StoreMissing, ReadProcessed,
                  NextBinding, SkipFile, TakeFile, FileUnreadable, Abandon, FireLoad, LoadEnds,
                  ListFails, CallRaises, WatcherRestarts
    <3> QED
      BY <2>1, <3>1
  <2>3. CASE UNCHANGED vars
    BY <2>1, <2>3 DEF vars
  <2> QED
    BY <2>2, <2>3, DuplicateKeeps, BeginKeeps, EndKeeps, RestartKeeps
       DEF Next, Upload, WatcherMove
<1>3. UInv => AcknowledgedUnlessTold
  BY DEF UInv, AcknowledgedUnlessTold
<1> QED
  BY <1>1, <1>2, <1>3, PTL DEF Spec
=============================================================================
