------------------------------- MODULE Serving -------------------------------
(***************************************************************************)
(* POST /mcp (mcp_external/server.py) with the read limiter                *)
(* (concurrency.py), beside the commands of Provisioning.                  *)
(*                                                                         *)
(* A request carries a batch of JSON-RPC messages.  It is authenticated    *)
(* once, and its messages are handled in turn under the permissions loaded *)
(* then.  A tool call that passes its gate takes a slot of its user and a  *)
(* slot of the box, each within a bounded wait, and hands the tool to the  *)
(* default thread pool of asyncio, whose queue has no bound and no         *)
(* timeout.  Handlers run on one event loop: what a handler does between   *)
(* two awaits is one step.                                                 *)
(*                                                                         *)
(* The gate of Access and the tools themselves (Reporting) are reduced to  *)
(* the set of scenarios a profile grants.  Nothing cancels a handler: the  *)
(* route has no middleware that would.                                     *)
(***************************************************************************)
EXTENDS Provisioning

CONSTANTS
    Requests,
    Tools,      \* name -> [mcp_read, access, scoped, default]: the descriptors
    UserCap, BoxCap,
    Standard,   \* the profile that exists from the start, all users' or nobody's
    Box,        \* the key of the global semaphore
    Loads       \* what may happen: [jobs, requests, threads], one of them from the start

\* A message of a batch; a method that is not a tool call needs no more.
Messages ==
    [method : STRING]
    \cup [method : STRING, tool : STRING, scenario : STRING, valid : BOOLEAN]

ASSUME ServingAssumption ==
    /\ Box \notin Ids /\ Standard \in Profiles
    /\ UserCap \in Nat \ {0} /\ BoxCap \in Nat \ {0}
    /\ IsFiniteSet(Requests)
    /\ \A load \in Loads :
         /\ load.jobs \in [Jobs -> Commands \cup {Idle}]
         /\ load.requests \in [Requests -> [user : Ids, batch : Seq(Messages)]]
         /\ load.threads \in Nat \ {0}

VARIABLES
    req,        \* Requests -> the state of its handler
    sem,        \* Ids and Box -> [free, waiters, woken]: the semaphores
    pool        \* [size, queue]: the threads of the host, and the calls that wait for one

svars == <<req, sem, pool>>
allvars == <<pvars, svars>>

NoScenario == "none"

Pcs     == {"new", "users", "profile", "next", "waiting", "queued", "engine", "end"}
Statuses == {"none", "rejected", "answered", "accepted"}

STypeOK ==
    /\ PTypeOK
    /\ \A r \in Requests :
         /\ req[r].pc \in Pcs /\ req[r].status \in Statuses
         /\ req[r].user \in Ids /\ req[r].late \in BOOLEAN
         /\ req[r].got \in 0..2
         /\ req[r].done <= Len(req[r].batch) /\ req[r].replied \in BOOLEAN
         /\ req[r].pc = "end" <=> req[r].status # "none"
    /\ \A k \in Ids \cup {Box} : sem[k].free \in Nat /\ sem[k].woken \subseteq Requests
    /\ pool.size \in Nat \ {0} /\ pool.queue \in Seq(Requests)

Request(user, batch) ==
    [user |-> user, batch |-> batch, pc |-> "new", late |-> FALSE, granted |-> {}, got |-> 0,
     done |-> 0, replied |-> FALSE, status |-> "none"]

CapOf(k) == IF k = Box THEN BoxCap ELSE UserCap

Init ==
    /\ users    \in {[id \in Ids |-> [admin |-> FALSE, disabled |-> FALSE]],
                     [id \in Ids |-> NoRow]}
    /\ accounts = [id \in Ids |-> IF users[id] = NoRow THEN "none" ELSE "enabled"]
    /\ \E def \in Definitions :
         profiles = [p \in Profiles |-> IF p = Standard THEN def ELSE NoRow]
    /\ \E p \in {Standard, NoRow} :
         assigned = [id \in Ids |-> IF users[id] = NoRow THEN NoRow ELSE p]
    /\ history = [p \in Profiles |-> << >>]
    /\ \E load \in Loads :
         /\ job = [j \in Jobs |-> Job(load.jobs[j])]
         /\ req = [r \in Requests |-> Request(load.requests[r].user, load.requests[r].batch)]
         /\ pool = [size |-> load.threads, queue |-> << >>]
    /\ sem = [k \in Ids \cup {Box} |-> [free |-> CapOf(k), waiters |-> << >>, woken |-> {}]]

-----------------------------------------------------------------------------
(* Authentication *)

\* 400, 401 or 403 for the request as a whole.
Rejected(r) == req' = [req EXCEPT ![r].pc = "end", ![r].status = "rejected"]

\* The disabling of a user has been answered with success.
DisableAcknowledged(id) ==
    \E j \in Jobs : job[j].cmd.op = "disable_user" /\ job[j].cmd.id = id /\ job[j].result = "ok"

\* The token of a request is good, or fails its check or that of its audience,
\* or names nobody.
Arrives(r) ==
    /\ req[r].pc = "new" /\ Len(req[r].batch) > 0
    /\ \/ req' = [req EXCEPT ![r].pc = "users", ![r].late = DisableAcknowledged(req[r].user)]
       \/ Rejected(r)
    /\ UNCHANGED <<pvars, sem, pool>>

ReadsUser(r) ==
    /\ req[r].pc = "users"
    /\ IF users[req[r].user] = NoRow \/ users[req[r].user].disabled THEN Rejected(r)
       ELSE req' = [req EXCEPT ![r].pc = "profile"]
    /\ UNCHANGED <<pvars, sem, pool>>

\* One query joins the assignment and its profile; a body that is no JSON is
\* found out after it.
GrantedBy(id) == IF assigned[id] = NoRow THEN {} ELSE profiles[assigned[id]]

ReadsProfile(r) ==
    /\ req[r].pc = "profile"
    /\ \/ req' = [req EXCEPT ![r].pc = "next", ![r].granted = GrantedBy(req[r].user)]
       \/ Rejected(r)
    /\ UNCHANGED <<pvars, sem, pool>>

-----------------------------------------------------------------------------
(* The messages of a request *)

Message(r) == req[r].batch[req[r].done + 1]
HasMessage(r) == req[r].pc = "next" /\ req[r].done < Len(req[r].batch)
Calls(r) == HasMessage(r) /\ Message(r).method = "tools/call"
Tool(r)  == Tools[Message(r).tool]

\* The handling of a message ends, with a reply or, for a notification, none.
Handled(state, replied) ==
    [state EXCEPT !.done = @ + 1, !.replied = @ \/ replied, !.pc = "next", !.got = 0]

\* A message that needs no tool.
Replies(r) ==
    /\ HasMessage(r) /\ Message(r).method # "tools/call"
    /\ req' = [req EXCEPT ![r] = Handled(@, Message(r).method # "notification")]
    /\ UNCHANGED <<pvars, sem, pool>>

\* The refusals of a call, in the order of the code.
Exposed(t) == Tools[t].mcp_read /\ Tools[t].access \in {"read", "general"}

Scenario(r) ==
    IF ~Tool(r).scoped THEN NoScenario
    ELSE IF Message(r).scenario # NoScenario THEN Message(r).scenario ELSE Tool(r).default

\* The gate, and the validation of the arguments behind it.
Passes(r) ==
    /\ \/ Tool(r).access = "general"
       \/ Scenario(r) = NoScenario
       \/ Scenario(r) \in req[r].granted
    /\ Message(r).valid

\* No name, the orientation text, an unknown tool, one that is not exposed, or
\* a denial: each is answered in the result and audited with its outcome.
AnswersCall(r) ==
    /\ Calls(r)
    /\ Message(r).tool \in DOMAIN Tools => ~Exposed(Message(r).tool) \/ ~Passes(r)
    /\ req' = [req EXCEPT ![r] = Handled(@, TRUE)]
    /\ UNCHANGED <<pvars, sem, pool>>

\* A batch of notifications is accepted without a body.
Ends(r) ==
    /\ req[r].pc = "next" /\ ~HasMessage(r)
    /\ req' = [req EXCEPT ![r].pc = "end",
                          ![r].status = IF req[r].replied THEN "answered" ELSE "accepted"]
    /\ UNCHANGED <<pvars, sem, pool>>

-----------------------------------------------------------------------------
(* The read limiter.  A semaphore hands a released slot to its first waiter, *)
(* which is woken and resumes later.                                         *)

\* The order in which a call takes its slots.
BoxFirst(r)  == <<Box, req[r].user>>
SlotOrder(r) == <<req[r].user, Box>>

Acquired(s) == [s EXCEPT !.free = @ - 1]
Queued(s, r) == [s EXCEPT !.waiters = Append(@, r)]

Released(s) ==
    IF s.waiters = << >> THEN [s EXCEPT !.free = @ + 1]
    ELSE [s EXCEPT !.waiters = Tail(@), !.woken = @ \cup {Head(s.waiters)}]

\* Cancelled, a waiter leaves its place in the queue.
Left(waiters, r) ==
    LET i == CHOOSE i \in 1..Len(waiters) : waiters[i] = r
    IN  SubSeq(waiters, 1, i - 1) \o SubSeq(waiters, i + 1, Len(waiters))

Withdrawn(s, r) ==
    IF r \in s.woken THEN Released([s EXCEPT !.woken = @ \ {r}])
    ELSE [s EXCEPT !.waiters = Left(@, r)]

\* Takes the slots from the i-th on until one has to be waited for; with both,
\* the call is submitted to the thread pool and keeps them.
Taking(r, i, sems) ==
    LET order == SlotOrder(r)
        ready(s) == s.free > 0 /\ s.waiters = << >>
        first == sems[order[i]]
        sems1 == [sems EXCEPT ![order[i]] = Acquired(@)]
        waits(n, in) == /\ sem' = [in EXCEPT ![order[n + 1]] = Queued(@, r)]
                        /\ req' = [req EXCEPT ![r].got = n, ![r].pc = "waiting"]
                        /\ pool' = pool
        runs(in) == /\ sem' = in /\ req' = [req EXCEPT ![r].got = 2, ![r].pc = "queued"]
                    /\ pool' = [pool EXCEPT !.queue = Append(@, r)]
    IN  IF i = 3 THEN runs(sems)
        ELSE IF ~ready(first) THEN waits(i - 1, sems)
        ELSE IF i = 2 THEN runs(sems1)
        ELSE IF ready(sems1[order[2]]) THEN runs([sems1 EXCEPT ![order[2]] = Acquired(@)])
        ELSE waits(1, sems1)

StartsCall(r) ==
    /\ Calls(r) /\ Message(r).tool \in DOMAIN Tools
    /\ Exposed(Message(r).tool) /\ Passes(r)
    /\ Taking(r, 1, sem)
    /\ UNCHANGED pvars

Awaited(r) == SlotOrder(r)[req[r].got + 1]

Resumes(r) ==
    /\ req[r].pc = "waiting" /\ r \in sem[Awaited(r)].woken
    /\ Taking(r, req[r].got + 2, [sem EXCEPT ![Awaited(r)].woken = @ \ {r}])
    /\ UNCHANGED pvars

\* The slots that were taken are given back, the last one first.
GiveBack(r, sems) ==
    LET order == SlotOrder(r)
        boxed == IF req[r].got = 2 THEN [sems EXCEPT ![order[2]] = Released(@)] ELSE sems
    IN  IF req[r].got >= 1 THEN [boxed EXCEPT ![order[1]] = Released(@)] ELSE boxed

\* Mutant: a call that is turned away keeps the slot it had.
KeepsSlots(r) ==
    /\ req[r].pc = "waiting"
    /\ sem' = [sem EXCEPT ![Awaited(r)] = Withdrawn(@, r)]
    /\ req' = [req EXCEPT ![r] = Handled(@, TRUE)]
    /\ UNCHANGED <<pvars, pool>>

\* Mutant: the wait for the box has no bound.
TimesOutOnce(r) ==
    /\ req[r].pc = "waiting" /\ Awaited(r) # Box
    /\ sem' = GiveBack(r, [sem EXCEPT ![Awaited(r)] = Withdrawn(@, r)])
    /\ req' = [req EXCEPT ![r] = Handled(@, TRUE)]
    /\ UNCHANGED <<pvars, pool>>

\* The bounded wait is over, also where the slot was handed over but not yet
\* taken: it then goes to the next waiter.
TimesOut(r) ==
    /\ req[r].pc = "waiting"
    /\ sem' = GiveBack(r, [sem EXCEPT ![Awaited(r)] = Withdrawn(@, r)])
    /\ req' = [req EXCEPT ![r] = Handled(@, TRUE)]
    /\ UNCHANGED <<pvars, pool>>

Holders(k) == {r \in Requests : \E i \in 1..req[r].got : SlotOrder(r)[i] = k}
Running(k) == {r \in Requests : req[r].pc = "engine" /\ k \in {Box, req[r].user}}

\* The tools that run have every thread of the pool.
PoolFull == Cardinality(Running(Box)) >= pool.size

\* A thread takes the call that has been in the queue longest.
ThreadStarts(r) ==
    /\ req[r].pc = "queued"
    /\ pool.queue # << >> /\ r = Head(pool.queue) /\ ~PoolFull
    /\ req'  = [req EXCEPT ![r].pc = "engine"]
    /\ pool' = [pool EXCEPT !.queue = Tail(@)]
    /\ UNCHANGED <<pvars, sem>>

\* The thread returns or raises, and the slots go back before the result is
\* framed: the answer is the result or an error.
EngineEnds(r) ==
    /\ req[r].pc = "engine"
    /\ sem' = GiveBack(r, sem)
    /\ req' = [req EXCEPT ![r] = Handled(@, TRUE)]
    /\ UNCHANGED <<pvars, pool>>

Handles(r) ==
    \/ Arrives(r) \/ ReadsUser(r) \/ ReadsProfile(r)
    \/ Replies(r) \/ AnswersCall(r) \/ Ends(r)
    \/ StartsCall(r) \/ Resumes(r) \/ TimesOut(r)

Next ==
    \/ \E j \in Jobs : AdminStep(j) /\ UNCHANGED svars
    \/ \E r \in Requests : Handles(r) \/ ThreadStarts(r) \/ EngineEnds(r)

Spec == Init /\ [][Next]_allvars

\* Handlers are scheduled, their timers fire, and an idle thread takes the next
\* call.  Nothing is assumed of the tools: a thread may never return.
FairSpec ==
    Spec /\ \A r \in Requests : WF_allvars(Handles(r)) /\ WF_allvars(ThreadStarts(r))

-----------------------------------------------------------------------------
\* No more tools run for a user, or at all, than the caps allow, and every slot
\* is free, held by a call or handed to a waiter: no refusal, timeout or error
\* loses one (concurrency.py:7).
SlotsAccounted ==
    /\ STypeOK
    /\ \A k \in Ids \cup {Box} :
         /\ Cardinality(Running(k)) <= CapOf(k)
         /\ sem[k].free + Cardinality(Holders(k)) + Cardinality(sem[k].woken) = CapOf(k)

\* A call waits only while the slots are really taken, those of a user by calls
\* of that user and those of the box by no more calls of any one user than the
\* cap allows: a burst of one user takes no slot another one needs
\* (concurrency.py:11).  Of the pool it says nothing: where the host has no more
\* threads than UserCap, the tools of one user can have them all.
OneUserCannotStarve ==
    \A r \in Requests : req[r].pc = "waiting" /\ r \notin sem[Awaited(r)].woken =>
        LET k == Awaited(r)
            taken == Holders(k) \cup sem[k].woken
        IN  /\ Cardinality(taken) = CapOf(k)
            /\ \A id \in Ids : Cardinality({q \in taken : req[q].user = id}) <= UserCap

\* A request that is not inside a tool goes on to a tool or to its answer, even
\* while the tools of other requests never return (concurrency.py:86), unless
\* such tools have every thread of the pool for good: then a call that has its
\* slots waits in the queue without end, which only a pool of BoxCap threads or
\* more rules out.  Before the queue every wait is bounded, whatever the pool.
NeverHangs ==
    \A r \in Requests :
        req[r].pc \notin {"new", "engine"} ~>
            \/ req[r].pc \in {"engine", "end"}
            \/ req[r].pc = "queued" /\ pool.size < BoxCap /\ []PoolFull

\* A request that arrives after the disabling of its user was reported done is
\* answered nothing, whether or not Keycloak took part (admin_ops.py:428).
DisabledStaysOut ==
    \A r \in Requests : req[r].late => ~req[r].replied /\ req[r].status \in {"none", "rejected"}
=============================================================================
