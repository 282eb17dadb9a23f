---------------------------- MODULE ExcelSession ----------------------------
(***************************************************************************)
(* The Excel add-in's session: callTool (mcp.ts), tryRefresh (oauth.ts)    *)
(* and the shared token store (config.ts).  A workbook refresh calls it    *)
(* once per cell; JavaScript runs one continuation at a time, so a step is *)
(* what happens between two awaits, and the server and the identity        *)
(* provider answer in any order.                                           *)
(*                                                                         *)
(* Tokens are numbered in the order they are issued: access and refresh    *)
(* token n come in one response.                                           *)
(***************************************************************************)
EXTENDS Naturals, Sequences, FiniteSets

CONSTANTS
  Calls,        \* calls of callTool
  MaxInflight,  \* MAX_INFLIGHT
  Rotates,      \* the realm revokes a refresh token on use (revokeRefreshToken)
  Faults,       \* what may go wrong
  MaxToken      \* bound on the tokens issued

NoToken == 0
Tokens  == 1..MaxToken
\* A fetch that fails, the end of the session at the identity provider, and
\* a click on Disconnect.
FaultClasses == {"network", "session", "disconnect"}

ASSUME ExcelAssumption ==
  /\ IsFiniteSet(Calls)
  /\ MaxInflight \in Nat \ {0}
  /\ Rotates \in BOOLEAN
  /\ Faults \subseteq FaultClasses
  /\ MaxToken \in Nat \ {0}

VARIABLES
  token,     \* store().token
  refresh,   \* store().refreshToken
  endpoints, \* store() holds the discovered token endpoint and client id
  inflight,  \* _inflight
  waiters,   \* _waiters
  pc,        \* where each call stands
  bearer,    \* the access token the call sends, then the refresh token it sends
  retried,   \* the call has refreshed once
  result,    \* how the call ended
  issued,    \* tokens issued so far
  session,   \* the user's session at the identity provider is alive
  usable,    \* refresh tokens the identity provider accepts
  fresh      \* access tokens not expired

shared == <<token, refresh, endpoints>>
gate   == <<inflight, waiters>>
call   == <<pc, bearer, retried, result>>
idp    == <<issued, session, usable, fresh>>
vars   == <<shared, gate, call, idp>>

Waiting  == {"waiting"}
InSlot   == {"post", "ok", "unauthorized", "refresh", "granted", "denied", "unreachable"}
Results  == {"none", "answer", "unreachable", "signed_out"}

TypeOK ==
  /\ token \in Tokens \cup {NoToken} /\ refresh \in Tokens \cup {NoToken}
  /\ endpoints \in BOOLEAN
  /\ inflight \in 0..MaxInflight
  /\ waiters \in Seq(Calls)
  /\ pc \in [Calls -> InSlot \cup Waiting \cup {"idle", "done"}]
  /\ bearer \in [Calls -> Tokens \cup {NoToken}]
  /\ retried \in [Calls -> BOOLEAN]
  /\ result \in [Calls -> Results]
  /\ issued \in 0..MaxToken
  /\ session \in BOOLEAN
  /\ usable \subseteq Tokens /\ fresh \subseteq Tokens

\* Signed in, with the first pair of tokens.
Init ==
  /\ token = 1 /\ refresh = 1 /\ endpoints = TRUE
  /\ inflight = 0 /\ waiters = <<>>
  /\ pc = [c \in Calls |-> "idle"]
  /\ bearer = [c \in Calls |-> NoToken]
  /\ retried = [c \in Calls |-> FALSE]
  /\ result = [c \in Calls |-> "none"]
  /\ issued = 1 /\ session = TRUE
  /\ usable = {1} /\ fresh = {1}

(***************************************************************************)
(* The gate: acquireSlot and releaseSlot.                                  *)
(***************************************************************************)

\* A cell is calculated with the token of that moment.
Begin(c) ==
  /\ pc[c] = "idle" /\ token # NoToken
  /\ bearer' = [bearer EXCEPT ![c] = token]
  /\ IF inflight < MaxInflight
     THEN /\ inflight' = inflight + 1
          /\ pc' = [pc EXCEPT ![c] = "post"]
          /\ UNCHANGED waiters
     ELSE /\ waiters' = Append(waiters, c)
          /\ pc' = [pc EXCEPT ![c] = "waiting"]
          /\ UNCHANGED inflight
  /\ UNCHANGED <<shared, retried, result, idp>>

\* Mutants of Release: the count goes down although the slot is handed on; the
\* waiter is woken only by a call that got an answer.
ReleaseTwice(c) ==
  /\ inflight' = inflight - 1
  /\ waiters' = IF waiters = <<>> THEN waiters ELSE Tail(waiters)
  /\ pc' = [x \in Calls |-> IF x = c THEN "done"
                            ELSE IF waiters # <<>> /\ x = Head(waiters) THEN "post" ELSE pc[x]]
ReleaseOnly(c) ==
  /\ inflight' = inflight - 1
  /\ pc' = [pc EXCEPT ![c] = "done"]
  /\ UNCHANGED waiters

\* The finally clause: the slot goes to the first waiter, or is given up.
Release(c) ==
  IF waiters = <<>>
  THEN /\ inflight' = inflight - 1
       /\ pc' = [pc EXCEPT ![c] = "done"]
       /\ UNCHANGED waiters
  ELSE /\ waiters' = Tail(waiters)
       /\ pc' = [pc EXCEPT ![c] = "done", ![Head(waiters)] = "post"]
       /\ UNCHANGED inflight

\* callTool returns or throws: its locals are gone.
End(c, how) ==
  /\ Release(c)
  /\ result' = [result EXCEPT ![c] = how]
  /\ bearer' = [bearer EXCEPT ![c] = NoToken]
  /\ retried' = [retried EXCEPT ![c] = FALSE]

(***************************************************************************)
(* The far ends: /mcp, and the identity provider's token endpoint.         *)
(***************************************************************************)

To(c, from, next) ==
  /\ pc[c] = from
  /\ pc' = [pc EXCEPT ![c] = next]

\* /mcp answers 401 to an expired bearer.
ServerAnswers(c) ==
  /\ To(c, "post", IF bearer[c] \in fresh THEN "ok" ELSE "unauthorized")
  /\ UNCHANGED <<shared, gate, bearer, retried, result, idp>>

\* A usable refresh token buys a new pair; with rotation it is then spent.
Grant(c) ==
  /\ To(c, "refresh", "granted")
  /\ session /\ bearer[c] \in usable
  /\ issued < MaxToken
  /\ issued' = issued + 1
  /\ bearer' = [bearer EXCEPT ![c] = issued + 1]
  /\ fresh' = fresh \cup {issued + 1}
  /\ usable' = (IF Rotates THEN usable \ {bearer[c]} ELSE usable) \cup {issued + 1}
  /\ UNCHANGED <<shared, gate, retried, result, session>>

Deny(c) ==
  /\ To(c, "refresh", "denied")
  /\ ~session \/ bearer[c] \notin usable
  /\ UNCHANGED <<shared, gate, bearer, retried, result, idp>>

\* A fetch throws.  In tryRefresh that is a refresh refused; the identity
\* provider may have spent the token before the answer was lost.
NetworkFails(c) ==
  /\ "network" \in Faults
  /\ \/ To(c, "post", "unreachable") /\ UNCHANGED usable
     \/ /\ To(c, "refresh", "denied")
        /\ usable' \in {usable, IF Rotates THEN usable \ {bearer[c]} ELSE usable}
  /\ UNCHANGED <<shared, gate, bearer, retried, result, issued, session, fresh>>

\* Access tokens expire, but not between being minted and used for the retry
\* they were minted for (minutes against a round trip).
Expire ==
  /\ fresh' = fresh \cap {bearer[c] : c \in {x \in Calls :
                 retried[x] /\ pc[x] \in {"granted", "post"}}}
  /\ fresh' # fresh
  /\ UNCHANGED <<shared, gate, call, issued, session, usable>>

EndSession ==
  /\ "session" \in Faults /\ session
  /\ session' = FALSE /\ usable' = {}
  /\ UNCHANGED <<shared, gate, call, issued, fresh>>

(***************************************************************************)
(* callTool after its awaits, tryRefresh, and the task pane.               *)
(***************************************************************************)

Answered(c) ==
  /\ pc[c] = "ok"
  /\ End(c, "answer")
  /\ UNCHANGED <<shared, idp>>

Unreachable(c) ==
  /\ pc[c] = "unreachable"
  /\ End(c, "unreachable")
  /\ UNCHANGED <<shared, idp>>

\* tryRefresh has what it needs.
CanRefresh == refresh # NoToken /\ endpoints

\* The first 401 with a refresh token at hand: tryRefresh sends it.
StartRefresh(c) ==
  /\ To(c, "unauthorized", "refresh")
  /\ ~retried[c] /\ CanRefresh
  /\ bearer' = [bearer EXCEPT ![c] = refresh]
  /\ retried' = [retried EXCEPT ![c] = TRUE]
  /\ UNCHANGED <<shared, gate, result, idp>>

\* setToken, setRefreshToken, and the second post with getToken().
Refreshed(c) ==
  /\ To(c, "granted", "post")
  /\ token' = bearer[c] /\ refresh' = bearer[c]
  /\ UNCHANGED <<endpoints, gate, bearer, retried, result, idp>>

\* A 401 that stands: nothing to refresh with, refresh refused, or refreshed already.
GivesUp(c) ==
  \/ pc[c] = "denied"
  \/ pc[c] = "unauthorized" /\ (retried[c] \/ ~CanRefresh)

\* disconnect() clears whatever the store now holds, the endpoints included.
SignedOut(c) ==
  /\ GivesUp(c)
  /\ token' = NoToken /\ refresh' = NoToken /\ endpoints' = FALSE
  /\ End(c, "signed_out")
  /\ UNCHANGED idp

\* The Disconnect button of the task pane.
Disconnect ==
  /\ "disconnect" \in Faults /\ token # NoToken
  /\ token' = NoToken /\ refresh' = NoToken /\ endpoints' = FALSE
  /\ UNCHANGED <<gate, call, idp>>

\* The sign-in dialog: a new session and a new pair of tokens.
SignIn ==
  /\ token = NoToken
  /\ issued + Cardinality(Calls) < MaxToken  \* bound: leave one token per call
  /\ issued' = issued + 1
  /\ token' = issued + 1 /\ refresh' = issued + 1 /\ endpoints' = TRUE
  /\ session' = TRUE
  /\ usable' = usable \cup {issued + 1} /\ fresh' = fresh \cup {issued + 1}
  /\ UNCHANGED <<gate, call>>

Progress(c) ==
  \/ ServerAnswers(c) \/ Grant(c) \/ Deny(c) \/ NetworkFails(c)
  \/ Answered(c) \/ Unreachable(c) \/ StartRefresh(c) \/ Refreshed(c) \/ SignedOut(c)

Next == \/ Expire \/ EndSession \/ Disconnect \/ SignIn
        \/ \E c \in Calls : Begin(c) \/ Progress(c)

Spec == Init /\ [][Next]_vars

\* Every fetch is answered or fails, and a continuation that is ready runs.
FairSpec == Spec /\ \A c \in Calls : WF_vars(Progress(c))
-----------------------------------------------------------------------------
(***************************************************************************)
(* What must hold.                                                         *)
(***************************************************************************)

Holders == {c \in Calls : pc[c] \in InSlot}

\* The gate bounds a burst and loses no slot: the count is what is in flight,
\* and a call waits only while every slot is taken, also across refreshes and
\* failures (the direct hand-over of releaseSlot).
SlotsAccounted ==
  /\ TypeOK
  /\ inflight = Cardinality(Holders)
  /\ waiters # <<>> => inflight = MaxInflight
  /\ {waiters[k] : k \in 1..Len(waiters)} = {c \in Calls : pc[c] = "waiting"}

\* Every cell of a burst ends with a value or an error, the queued ones too: a
\* call refreshes at most once and every way out of it hands its slot on.
EveryCallEnds == \A c \in Calls : pc[c] \in InSlot \cup Waiting ~> pc[c] = "done"

\* While the session lives and nobody disconnects, an expired token is replaced
\* "silently in the background" (docs/excel/index.md): the add-in signs itself
\* out only if the session is over.
OnlyGenuineSignOut ==
  [][\A c \in Calls : result'[c] = "signed_out" /\ result[c] # "signed_out"
       => ~session]_vars
=============================================================================
