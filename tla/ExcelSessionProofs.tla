------------------------- MODULE ExcelSessionProofs -------------------------
(***************************************************************************)
(* The gate of the add-in (acquireSlot, releaseSlot) counts its calls      *)
(* right, whatever the bursts, failures and refreshes.                     *)
(***************************************************************************)
EXTENDS ExcelSession, SequenceTheorems, FiniteSetTheorems, TLAPS

Queued == {c \in Calls : pc[c] = "waiting"}

\* No call waits twice: a duplicate would be woken a second time, with a slot
\* that is nobody's.
NoneTwice == \A k, l \in 1..Len(waiters) : waiters[k] = waiters[l] => k = l

\* The queue and the calls agree.
QueueIsWaiting ==
    /\ \A k \in 1..Len(waiters) : waiters[k] \in Queued
    /\ \A c \in Queued : \E k \in 1..Len(waiters) : waiters[k] = c

IInv ==
    /\ TypeOK
    /\ inflight = Cardinality(Holders)
    /\ waiters # <<>> => inflight = MaxInflight
    /\ QueueIsWaiting
    /\ NoneTwice

-----------------------------------------------------------------------------
LEMMA HoldersFinite == IsFiniteSet(Holders) /\ Cardinality(Holders) \in Nat
<1>1. Holders \in SUBSET Calls
  BY DEF Holders
<1> QED
  BY <1>1, ExcelAssumption, FS_Subset, FS_CardinalityType

\* What the first waiter is, and what is left when it goes.
LEMMA HeadWaits ==
  ASSUME IInv, waiters # <<>>
  PROVE  /\ Head(waiters) \in Queued
         /\ Tail(waiters) \in Seq(Calls)
         /\ Len(Tail(waiters)) = Len(waiters) - 1
         /\ Len(waiters) \in Nat \ {0}
         /\ Head(waiters) = waiters[1]
         /\ \A k \in 1..Len(Tail(waiters)) : Tail(waiters)[k] = waiters[k + 1]
<1>1. waiters \in Seq(Calls) /\ Len(waiters) \in Nat \ {0}
  BY EmptySeq DEF IInv, TypeOK
<1>2. /\ Tail(waiters) \in Seq(Calls) /\ Len(Tail(waiters)) = Len(waiters) - 1
      /\ \A k \in 1..Len(Tail(waiters)) : Tail(waiters)[k] = waiters[k + 1]
  BY <1>1, HeadTailProperties
<1>3. Head(waiters) = waiters[1]
  BY <1>1
<1>4. waiters[1] \in Queued
  BY <1>1 DEF IInv, QueueIsWaiting
<1> QED
  BY <1>1, <1>2, <1>3, <1>4

\* The gate takes no notice of a step inside a slot.
LEMMA InsideTheSlot ==
  ASSUME IInv, TypeOK', UNCHANGED gate, Holders' = Holders, Queued' = Queued
  PROVE  IInv'
  BY DEF IInv, gate, QueueIsWaiting, NoneTwice

LEMMA MoveInside ==
  ASSUME TypeOK, NEW c \in Calls, pc[c] \in InSlot,
         NEW next \in InSlot, pc' = [pc EXCEPT ![c] = next]
  PROVE  Holders' = Holders /\ Queued' = Queued
<1>1. \A d \in Calls : pc'[d] = IF d = c THEN next ELSE pc[d]
  BY DEF TypeOK
<1>2. "waiting" \notin InSlot
  BY DEF InSlot
<1> QED
  BY <1>1, <1>2 DEF Holders, Queued

LEMMA BeginStep ==
  ASSUME IInv, NEW c \in Calls, Begin(c)
  PROVE  IInv'
<1>1. TypeOK /\ pc[c] = "idle" /\ c \notin Holders /\ c \notin Queued
  BY DEF IInv, Begin, Holders, Queued, InSlot
<1>2. inflight \in Nat /\ MaxInflight \in Nat \ {0} /\ inflight <= MaxInflight
  BY <1>1, ExcelAssumption DEF TypeOK
<1>3. CASE inflight < MaxInflight
  <2>1. inflight' = inflight + 1 /\ waiters' = waiters /\ pc' = [pc EXCEPT ![c] = "post"]
    BY <1>3 DEF Begin
  <2>2. TypeOK'
    BY <1>1, <1>2, <1>3, <2>1 DEF TypeOK, Begin, shared, idp, InSlot, Waiting, Results
  <2>3. \A d \in Calls : pc'[d] = IF d = c THEN "post" ELSE pc[d]
    BY <1>1, <2>1 DEF TypeOK
  <2>4. Holders' = Holders \cup {c} /\ Queued' = Queued
    BY <1>1, <2>3 DEF Holders, Queued, InSlot
  <2>5. inflight' = Cardinality(Holders')
    BY <1>1, <2>1, <2>4, HoldersFinite, FS_AddElement DEF IInv
  <2>6. waiters = <<>>
    BY <1>2, <1>3 DEF IInv
  <2>7. QueueIsWaiting' /\ NoneTwice'
    BY <2>1, <2>4 DEF IInv, QueueIsWaiting, NoneTwice
  <2> QED
    BY <2>1, <2>2, <2>5, <2>6, <2>7 DEF IInv
<1>4. CASE ~(inflight < MaxInflight)
  <2>1. inflight' = inflight /\ waiters' = Append(waiters, c) /\ pc' = [pc EXCEPT ![c] = "waiting"]
    BY <1>4 DEF Begin
  <2>2. waiters \in Seq(Calls) /\ Len(waiters) \in Nat
    BY <1>1 DEF TypeOK
  <2>3. /\ waiters' \in Seq(Calls) /\ Len(waiters') = Len(waiters) + 1
        /\ \A k \in 1..Len(waiters') :
              waiters'[k] = IF k = Len(waiters) + 1 THEN c ELSE waiters[k]
    BY <2>1, <2>2
  <2>4. TypeOK'
    BY <1>1, <1>2, <2>1, <2>3 DEF TypeOK, Begin, shared, idp, InSlot, Waiting, Results
  <2>5. \A d \in Calls : pc'[d] = IF d = c THEN "waiting" ELSE pc[d]
    BY <1>1, <2>1 DEF TypeOK
  <2>6. Holders' = Holders /\ Queued' = Queued \cup {c}
    BY <1>1, <2>5 DEF Holders, Queued, InSlot
  <2>7. inflight' = Cardinality(Holders') /\ inflight' = MaxInflight
    BY <1>2, <1>4, <2>1, <2>6 DEF IInv
  <2>8. QueueIsWaiting'
    BY <2>2, <2>3, <2>6 DEF IInv, QueueIsWaiting
  <2>9. NoneTwice'
    BY <1>1, <2>2, <2>3 DEF IInv, QueueIsWaiting, NoneTwice
  <2> QED
    BY <2>4, <2>7, <2>8, <2>9 DEF IInv
<1> QED
  BY <1>3, <1>4

\* The slot goes to the first waiter, or becomes free.
LEMMA ReleaseStep ==
  ASSUME IInv, NEW c \in Calls, pc[c] \in InSlot, NEW how \in Results, End(c, how),
         UNCHANGED idp,
         token' \in Tokens \cup {NoToken}, refresh' \in Tokens \cup {NoToken},
         endpoints' \in BOOLEAN
  PROVE  IInv'
<1>1. TypeOK /\ c \in Holders /\ c \notin Queued
  BY DEF IInv, Holders, Queued, InSlot
<1>2. inflight \in Nat /\ MaxInflight \in Nat \ {0} /\ inflight <= MaxInflight
  BY <1>1, ExcelAssumption DEF TypeOK
<1>3. inflight = Cardinality(Holders) /\ inflight # 0
  BY <1>1, HoldersFinite, FS_EmptySet DEF IInv
<1>4. /\ result' \in [Calls -> Results] /\ bearer' \in [Calls -> Tokens \cup {NoToken}]
      /\ retried' \in [Calls -> BOOLEAN]
  BY <1>1 DEF TypeOK, End
<1>5. CASE waiters = <<>>
  <2>1. inflight' = inflight - 1 /\ waiters' = waiters /\ pc' = [pc EXCEPT ![c] = "done"]
    BY <1>5 DEF End, Release
  <2>2. \A d \in Calls : pc'[d] = IF d = c THEN "done" ELSE pc[d]
    BY <1>1, <2>1 DEF TypeOK
  <2>3. TypeOK'
    BY <1>1, <1>2, <1>3, <1>4, <2>1 DEF TypeOK, idp
  <2>4. Holders' = Holders \ {c} /\ Queued' = Queued
    BY <1>1, <2>2 DEF Holders, Queued, InSlot
  <2>5. inflight' = Cardinality(Holders')
    BY <1>1, <1>3, <2>1, <2>4, HoldersFinite, FS_RemoveElement
  <2>6. QueueIsWaiting' /\ NoneTwice'
    BY <2>1, <2>4 DEF IInv, QueueIsWaiting, NoneTwice
  <2> QED
    BY <1>5, <2>1, <2>3, <2>5, <2>6 DEF IInv
<1>6. CASE waiters # <<>>
  <2> DEFINE h == Head(waiters)
  <2>1. /\ h \in Queued /\ h \in Calls /\ h # c /\ h = waiters[1]
        /\ Tail(waiters) \in Seq(Calls) /\ Len(Tail(waiters)) = Len(waiters) - 1
        /\ Len(waiters) \in Nat \ {0}
        /\ \A k \in 1..Len(Tail(waiters)) : Tail(waiters)[k] = waiters[k + 1]
    BY <1>1, <1>6, HeadWaits DEF Queued
  <2> HIDE DEF h
  <2>2. /\ inflight' = inflight /\ waiters' = Tail(waiters)
        /\ pc' = [pc EXCEPT ![c] = "done", ![h] = "post"]
    BY <1>6 DEF End, Release, h
  <2>3. \A d \in Calls : pc'[d] = IF d = h THEN "post" ELSE IF d = c THEN "done" ELSE pc[d]
    BY <1>1, <2>1, <2>2 DEF TypeOK
  <2>4. TypeOK'
    BY <1>1, <1>4, <2>1, <2>2 DEF TypeOK, idp, InSlot
  <2>5. Holders' = (Holders \ {c}) \cup {h} /\ Queued' = Queued \ {h}
    BY <1>1, <2>1, <2>3 DEF Holders, Queued, InSlot
  <2>6. h \notin Holders
    BY <2>1 DEF Holders, Queued, InSlot
  <2>7. inflight' = Cardinality(Holders')
    <3>1. IsFiniteSet(Holders \ {c}) /\ Cardinality(Holders \ {c}) = Cardinality(Holders) - 1
      BY <1>1, HoldersFinite, FS_RemoveElement
    <3>2. Cardinality((Holders \ {c}) \cup {h}) = Cardinality(Holders \ {c}) + 1
      BY <2>6, <3>1, FS_AddElement
    <3> QED
      BY <1>2, <1>3, <2>2, <2>5, <3>1, <3>2
  <2>8. NoneTwice'
    BY <2>1, <2>2 DEF IInv, NoneTwice
  <2>9. QueueIsWaiting'
    <3>1. ASSUME NEW k \in 1..Len(Tail(waiters)) PROVE Tail(waiters)[k] \in Queued \ {h}
      <4>1. k + 1 \in 1..Len(waiters) /\ 1 \in 1..Len(waiters) /\ k + 1 # 1
        BY <2>1
      <4> QED
        BY <2>1, <4>1 DEF IInv, QueueIsWaiting, NoneTwice
    <3>2. ASSUME NEW d \in Queued \ {h} PROVE \E k \in 1..Len(Tail(waiters)) : Tail(waiters)[k] = d
      <4>1. PICK k \in 1..Len(waiters) : waiters[k] = d
        BY DEF IInv, QueueIsWaiting
      <4>2. k # 1 /\ k - 1 \in 1..Len(Tail(waiters)) /\ (k - 1) + 1 = k
        BY <2>1, <4>1
      <4> QED
        BY <2>1, <4>1, <4>2
    <3> QED
      BY <2>2, <2>5, <3>1, <3>2 DEF QueueIsWaiting
  <2> QED
    BY <1>6, <2>2, <2>4, <2>7, <2>8, <2>9 DEF IInv
<1> QED
  BY <1>5, <1>6

LEMMA ProgressStep ==
  ASSUME IInv, NEW c \in Calls, Progress(c)
  PROVE  IInv'
<1>1. TypeOK
  BY DEF IInv
<1> DEFINE Inside(next) == pc[c] \in InSlot /\ next \in InSlot /\ pc' = [pc EXCEPT ![c] = next]
<1>2. ASSUME NEW next, Inside(next), UNCHANGED gate, TypeOK' PROVE IInv'
  BY <1>1, <1>2, MoveInside, InsideTheSlot
<1>3. CASE ServerAnswers(c)
  <2>1. Inside("ok") \/ Inside("unauthorized")
    BY <1>3 DEF ServerAnswers, To, InSlot
  <2>2. TypeOK'
    BY <1>1, <1>3, <2>1 DEF TypeOK, ServerAnswers, shared, gate, idp
  <2> QED
    BY <1>2, <1>3, <2>1, <2>2 DEF ServerAnswers
<1>4. CASE Grant(c)
  <2>1. Inside("granted") /\ issued + 1 \in Tokens
    BY <1>1, <1>4, ExcelAssumption DEF TypeOK, Grant, To, InSlot, Tokens
  <2>2. issued' \in 0..MaxToken
    BY <1>1, <1>4, ExcelAssumption DEF TypeOK, Grant
  <2>3. TypeOK'
    BY <1>1, <1>4, <2>1, <2>2 DEF TypeOK, Grant, shared, gate
  <2> QED
    BY <1>2, <1>4, <2>1, <2>3 DEF Grant
<1>5. CASE Deny(c)
  <2>1. Inside("denied")
    BY <1>5 DEF Deny, To, InSlot
  <2>2. TypeOK'
    BY <1>1, <1>5, <2>1 DEF TypeOK, Deny, shared, gate, idp
  <2> QED
    BY <1>2, <1>5, <2>1, <2>2 DEF Deny
<1>6. CASE NetworkFails(c)
  <2>1. (Inside("denied") \/ Inside("unreachable")) /\ usable' \subseteq Tokens
    BY <1>1, <1>6 DEF NetworkFails, To, InSlot, TypeOK
  <2>2. TypeOK'
    BY <1>1, <1>6, <2>1 DEF TypeOK, NetworkFails, shared, gate
  <2> QED
    BY <1>2, <1>6, <2>1, <2>2 DEF NetworkFails
<1>7. CASE StartRefresh(c)
  <2>1. Inside("refresh")
    BY <1>7 DEF StartRefresh, To, InSlot
  <2>2. TypeOK'
    BY <1>1, <1>7, <2>1 DEF TypeOK, StartRefresh, shared, gate, idp
  <2> QED
    BY <1>2, <1>7, <2>1, <2>2 DEF StartRefresh
<1>8. CASE Refreshed(c)
  <2>1. Inside("post")
    BY <1>8 DEF Refreshed, To, InSlot
  <2>2. TypeOK'
    BY <1>1, <1>8, <2>1 DEF TypeOK, Refreshed, gate, idp
  <2> QED
    BY <1>2, <1>8, <2>1, <2>2 DEF Refreshed
<1>9. CASE Answered(c)
  BY <1>1, <1>9, ReleaseStep DEF Answered, TypeOK, shared, InSlot, Results
<1>10. CASE Unreachable(c)
  BY <1>1, <1>10, ReleaseStep DEF Unreachable, TypeOK, shared, InSlot, Results
<1>11. CASE SignedOut(c)
  <2>1. pc[c] \in InSlot
    BY <1>11 DEF SignedOut, GivesUp, InSlot
  <2> QED
    BY <1>11, <2>1, ReleaseStep DEF SignedOut, Results
<1> QED
  BY <1>3, <1>4, <1>5, <1>6, <1>7, <1>8, <1>9, <1>10, <1>11 DEF Progress

\* What happens outside the calls does not touch the gate.
LEMMA OutsideStep ==
  ASSUME IInv, Expire \/ EndSession \/ Disconnect \/ SignIn
  PROVE  IInv'
<1>1. TypeOK
  BY DEF IInv
<1>2. TypeOK' /\ UNCHANGED <<gate, pc>>
  <2>1. CASE Expire
    BY <1>1, <2>1 DEF TypeOK, Expire, shared, gate, call
  <2>2. CASE EndSession
    BY <1>1, <2>2 DEF TypeOK, EndSession, shared, gate, call
  <2>3. CASE Disconnect
    BY <1>1, <2>3 DEF TypeOK, Disconnect, idp, gate, call
  <2>4. CASE SignIn
    <3>1. IsFiniteSet(Calls) /\ Cardinality(Calls) \in Nat
      BY ExcelAssumption, FS_CardinalityType
    <3>2. issued + 1 \in Tokens /\ issued' = issued + 1 /\ issued' \in 0..MaxToken
      BY <1>1, <2>4, <3>1, ExcelAssumption DEF TypeOK, SignIn, Tokens
    <3> QED
      BY <1>1, <2>4, <3>2 DEF TypeOK, SignIn, gate, call
  <2> QED
    BY <2>1, <2>2, <2>3, <2>4
<1>3. Holders' = Holders /\ Queued' = Queued
  BY <1>2 DEF Holders, Queued
<1> QED
  BY <1>2, <1>3, InsideTheSlot

LEMMA Initially == Init => IInv
<1> SUFFICES ASSUME Init PROVE IInv
  OBVIOUS
<1>1. Holders = {} /\ Queued = {} /\ waiters = <<>> /\ Len(waiters) = 0 /\ inflight = 0
  BY DEF Init, Holders, Queued, InSlot
<1>2. TypeOK
  BY ExcelAssumption DEF Init, TypeOK, Tokens, NoToken, Results, InSlot
<1> QED
  BY <1>1, <1>2, FS_EmptySet DEF IInv, QueueIsWaiting, NoneTwice

LEMMA Steps == IInv /\ [Next]_vars => IInv'
<1> SUFFICES ASSUME IInv, [Next]_vars PROVE IInv'
  OBVIOUS
<1>1. CASE UNCHANGED vars
  BY <1>1 DEF vars, shared, gate, call, idp, IInv, TypeOK, Holders, QueueIsWaiting, Queued, NoneTwice
<1> QED
  BY <1>1, BeginStep, ProgressStep, OutsideStep DEF Next

\* The gate's bookkeeping holds for every burst: any number of calls, slots and
\* tokens, with or without rotation, failures and disconnects.
THEOREM GateInvariance == Spec => []IInv
  BY Initially, Steps, PTL DEF Spec

\* The count is what is in flight, never above MAX_INFLIGHT, and a call waits
\* only while every slot is taken (acquireSlot and releaseSlot of mcp.ts).
THEOREM SlotsAreAccounted == Spec => []SlotsAccounted
<1>1. IInv => SlotsAccounted
  <2> SUFFICES ASSUME IInv PROVE SlotsAccounted
    OBVIOUS
  <2>1. {waiters[k] : k \in 1..Len(waiters)} = {c \in Calls : pc[c] = "waiting"}
    BY DEF IInv, QueueIsWaiting, Queued
  <2> QED
    BY <2>1 DEF IInv, SlotsAccounted
<1> QED
  BY <1>1, GateInvariance, PTL
-----------------------------------------------------------------------------
(***************************************************************************)
(* Where the realm does not rotate refresh tokens and nothing fails.       *)
(***************************************************************************)

Undisturbed == ~Rotates /\ Faults = {}

\* The store always holds a refresh token that is accepted, a call that has
\* refreshed holds an access token that is, and nobody is refused.
SignedIn ==
    /\ session
    /\ token # NoToken /\ refresh # NoToken /\ endpoints
    /\ refresh \in usable
    /\ \A c \in Calls :
         /\ pc[c] \notin {"denied", "unreachable"}
         /\ pc[c] \in {"refresh", "granted"} => bearer[c] \in usable
         /\ pc[c] \in {"refresh", "granted"} => retried[c]
         /\ retried[c] /\ pc[c] \in {"granted", "post"} => bearer[c] \in fresh
         /\ retried[c] => pc[c] # "unauthorized"
         /\ pc[c] \in {"idle", "waiting", "done"} => ~retried[c]

LEMMA NobodyGivesUp ==
  ASSUME SignedIn, NEW c \in Calls
  PROVE  ~GivesUp(c)
  BY DEF SignedIn, GivesUp, CanRefresh

\* A call that ends leaves the others as they are, but for the one it wakes.
LEMMA EndKeepsSignedIn ==
  ASSUME IInv, SignedIn, NEW c \in Calls, pc[c] \in InSlot, NEW how \in Results, End(c, how),
         UNCHANGED <<shared, idp>>
  PROVE  SignedIn'
<1>1. TypeOK
  BY DEF IInv
<1>2. ASSUME NEW d \in Calls
      PROVE  /\ d # c => bearer'[d] = bearer[d] /\ retried'[d] = retried[d]
             /\ d = c => pc'[d] = "done" /\ retried'[d] = FALSE
             /\ d # c => pc'[d] = pc[d] \/ (pc'[d] = "post" /\ pc[d] = "waiting")
  <2>1. CASE waiters = <<>>
    BY <1>1, <2>1 DEF End, Release, TypeOK
  <2>2. CASE waiters # <<>>
    <3>1. Head(waiters) \in Calls /\ pc[Head(waiters)] = "waiting" /\ Head(waiters) # c
      BY <2>2, HeadWaits DEF Queued, InSlot
    <3> QED
      BY <1>1, <2>2, <3>1 DEF End, Release, TypeOK
  <2> QED
    BY <2>1, <2>2
<1>3. ASSUME NEW d \in Calls, d # c, pc'[d] = "post", pc[d] = "waiting" PROVE ~retried'[d]
  BY <1>2, <1>3 DEF SignedIn
<1> QED
  BY <1>2, <1>3 DEF SignedIn, shared, idp

LEMMA SignedInProgress ==
  ASSUME Undisturbed, IInv, SignedIn, NEW c \in Calls, Progress(c)
  PROVE  SignedIn' /\ ~SignedOut(c)
<1>1. TypeOK /\ ~SignedOut(c)
  BY NobodyGivesUp DEF IInv, SignedOut
<1>2. CASE ServerAnswers(c)
  BY <1>1, <1>2 DEF ServerAnswers, To, SignedIn, TypeOK, shared, idp, gate
<1>3. CASE Grant(c)
  <2>1. usable' = usable \cup {issued + 1} /\ fresh' = fresh \cup {issued + 1}
    BY <1>3 DEF Grant, Undisturbed
  <2>2. ASSUME NEW d \in Calls
        PROVE  /\ pc'[d] = IF d = c THEN "granted" ELSE pc[d]
               /\ bearer'[d] = IF d = c THEN issued + 1 ELSE bearer[d]
               /\ retried'[d] = retried[d]
    BY <1>1, <1>3 DEF Grant, To, TypeOK
  <2>3. retried[c]
    BY <1>3 DEF Grant, To, SignedIn
  <2>4. UNCHANGED <<token, refresh, endpoints, session>>
    BY <1>3 DEF Grant, shared
  <2>5. ASSUME NEW d \in Calls
        PROVE  /\ pc'[d] \notin {"denied", "unreachable"}
               /\ pc'[d] \in {"refresh", "granted"} => bearer'[d] \in usable' /\ retried'[d]
    BY <2>1, <2>2, <2>3 DEF SignedIn
  <2>6. ASSUME NEW d \in Calls
        PROVE  /\ retried'[d] /\ pc'[d] \in {"granted", "post"} => bearer'[d] \in fresh'
               /\ retried'[d] => pc'[d] # "unauthorized"
               /\ pc'[d] \in {"idle", "waiting", "done"} => ~retried'[d]
    BY <2>1, <2>2 DEF SignedIn
  <2>7. /\ session' /\ endpoints' /\ refresh' \in usable'
        /\ token' # NoToken /\ refresh' # NoToken
    BY <2>1, <2>4 DEF SignedIn, NoToken
  <2> QED
    BY <1>1, <2>5, <2>6, <2>7 DEF SignedIn, NoToken
<1>4. ~Deny(c) /\ ~NetworkFails(c) /\ ~Unreachable(c)
  BY DEF Undisturbed, Deny, NetworkFails, Unreachable, To, SignedIn
<1>5. CASE Answered(c)
  <2>1. pc[c] \in InSlot /\ "answer" \in Results
    BY <1>5 DEF Answered, InSlot, Results
  <2>2. End(c, "answer") /\ UNCHANGED <<shared, idp>>
    BY <1>5 DEF Answered
  <2> QED
    BY <1>1, <2>1, <2>2, EndKeepsSignedIn
<1>6. CASE StartRefresh(c)
  BY <1>1, <1>6 DEF StartRefresh, CanRefresh, To, SignedIn, TypeOK, shared, idp
<1>7. CASE Refreshed(c)
  BY <1>1, <1>7 DEF Refreshed, To, SignedIn, TypeOK, NoToken, Tokens, idp
<1> QED
  BY <1>1, <1>2, <1>3, <1>4, <1>5, <1>6, <1>7 DEF Progress

\* An access token expires only when no call is about to use it.
LEMMA SignedInOutside ==
  ASSUME Undisturbed, IInv, SignedIn, Expire \/ EndSession \/ Disconnect \/ SignIn
  PROVE  SignedIn'
<1>1. CASE Expire
  <2>1. UNCHANGED <<shared, call, session, usable>>
    BY <1>1 DEF Expire
  <2>2. ASSUME NEW c \in Calls, retried[c], pc[c] \in {"granted", "post"}, bearer[c] \in fresh
        PROVE  bearer[c] \in fresh'
    BY <1>1, <2>2 DEF Expire
  <2> QED
    BY <2>1, <2>2 DEF SignedIn, shared, call
<1>2. ~EndSession /\ ~Disconnect /\ ~SignIn
  BY DEF Undisturbed, EndSession, Disconnect, SignIn, SignedIn
<1> QED
  BY <1>1, <1>2

LEMMA SignedInBegin ==
  ASSUME IInv, SignedIn, NEW c \in Calls, Begin(c)
  PROVE  SignedIn'
<1>1. TypeOK
  BY DEF IInv
<1>2. ASSUME NEW d \in Calls
      PROVE  /\ d # c => bearer'[d] = bearer[d] /\ pc'[d] = pc[d]
             /\ d = c => pc'[d] \in {"post", "waiting"}
  <2>1. bearer' = [bearer EXCEPT ![c] = token]
    BY DEF Begin
  <2>2. pc' = [pc EXCEPT ![c] = "post"] \/ pc' = [pc EXCEPT ![c] = "waiting"]
    BY DEF Begin
  <2> QED
    BY <1>1, <2>1, <2>2 DEF TypeOK
<1>3. ~retried[c] /\ UNCHANGED <<shared, retried, idp>>
  BY DEF Begin, SignedIn
<1> QED
  BY <1>2, <1>3 DEF SignedIn, shared, idp

\* Where the realm keeps refresh tokens valid on use and nothing goes wrong, the
\* add-in never signs itself out, however many cells refresh at once: the
\* rotation alone makes the sign-outs that ExcelSession_rotate.cfg shows.
THEOREM NoRotationNoSignOut ==
  ASSUME Undisturbed
  PROVE  Spec => OnlyGenuineSignOut
<1>1. Init => SignedIn
  BY DEF Init, SignedIn, NoToken
<1>2. IInv /\ SignedIn /\ [Next]_vars => SignedIn'
  <2> SUFFICES ASSUME IInv, SignedIn, [Next]_vars PROVE SignedIn'
    OBVIOUS
  <2>1. CASE UNCHANGED vars
    BY <2>1 DEF vars, shared, gate, call, idp, SignedIn
  <2> QED
    BY <2>1, SignedInBegin, SignedInProgress, SignedInOutside DEF Next
<1>3. IInv /\ SignedIn /\ [Next]_vars
        => [\A c \in Calls : result'[c] = "signed_out" /\ result[c] # "signed_out" => ~session]_vars
  <2> SUFFICES ASSUME IInv, SignedIn, Next, NEW c \in Calls, result'[c] = "signed_out"
               PROVE  result[c] = "signed_out"
    OBVIOUS
  <2>1. TypeOK
    BY DEF IInv
  <2>2. CASE Expire \/ EndSession \/ Disconnect \/ SignIn
    BY <2>2 DEF Expire, EndSession, Disconnect, SignIn, call
  <2>3. ASSUME NEW d \in Calls, Begin(d) PROVE result[c] = "signed_out"
    BY <2>3 DEF Begin
  <2>4. ASSUME NEW d \in Calls, Progress(d) PROVE result[c] = "signed_out"
    <3>1. ~SignedOut(d)
      BY <2>4, SignedInProgress
    <3>2. CASE Answered(d) \/ Unreachable(d)
      BY <2>1, <3>2 DEF Answered, Unreachable, End, TypeOK
    <3>3. CASE \/ ServerAnswers(d) \/ Grant(d) \/ Deny(d) \/ NetworkFails(d)
               \/ StartRefresh(d) \/ Refreshed(d)
      BY <3>3 DEF ServerAnswers, Grant, Deny, NetworkFails, StartRefresh, Refreshed
    <3> QED
      BY <2>4, <3>1, <3>2, <3>3 DEF Progress
  <2> QED
    BY <2>2, <2>3, <2>4 DEF Next
<1> QED
  BY <1>1, <1>2, <1>3, GateInvariance, PTL DEF Spec, OnlyGenuineSignOut
=============================================================================
