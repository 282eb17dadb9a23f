----------------------------- MODULE PushTrigger -----------------------------
(***************************************************************************)
(* POST /api/ingest/run and POST /api/admin/trigger_load, composed with    *)
(* the scheduler of CronScheduler: both load through run_binding into the  *)
(* same load_history, whose periods are the scheduler's watermark.         *)
(*                                                                         *)
(* run_binding is called synchronously inside the request handler, so a    *)
(* worker process serves nothing else until the load has ended.  The cache *)
(* of idempotency keys is in the memory of that process.                   *)
(***************************************************************************)
EXTENDS CronScheduler

CONSTANTS
    Requests,   \* requests, retries among them, each sent once
    Asks,       \* what a request asks for: [route, binding, period, key, override]
    Caller,     \* its token: [valid, bindings, roles]
    Snapshots,  \* bindings of kind snapshot
    NoKey,
    Workers     \* processes that serve the routes

\* A binding of kind snapshot has no period_selection: its load has no period.
ASSUME PushAssumption ==
    /\ IsFiniteSet(Requests)
    /\ \A q \in Requests : Asks[q].period \in Periods
    /\ \A b \in Names : Strategy[b] \in {"lookback", "watermark", "explicit"} => b \notin Snapshots

VARIABLES
    reply,      \* Requests -> "none", "running" or the answer
    names,      \* Requests -> the load its answer names
    worker,     \* Requests -> the process that runs its load
    cache,      \* Workers -> entries [key, load, body] of the idempotency cache
    load,       \* loads run by requests, in order: the request that ran each
    forgotten   \* history: requests taken by a process that has died since

pvars == <<reply, names, worker, cache, load, forgotten>>
allvars == <<cvars, pvars>>

Body(q) == <<Asks[q].binding, Asks[q].period>>
Answers == {"none", "running", "lost", "unauthenticated", "forbidden", "unprocessable",
            "conflict", "deduplicated", "ended", "error"}
NoLoad == 0
Entries == [key : {Asks[q].key : q \in Requests}, load : 1..Cardinality(Requests),
            body : {Body(q) : q \in Requests}]

TypeOK ==
    /\ CTypeOK
    /\ reply \in [Requests -> Answers]
    /\ names \in [Requests -> 0..Cardinality(Requests)]
    /\ worker \in [Requests -> Workers]
    /\ cache \in [Workers -> SUBSET Entries]
    /\ \A w \in Workers : \A e, f \in cache[w] : e.key = f.key => e = f
    /\ forgotten \subseteq Requests
    /\ \A w \in Workers : Cardinality({q \in Requests : reply[q] = "running" /\ worker[q] = w}) <= 1

Init ==
    /\ CInit
    /\ reply = [q \in Requests |-> "none"]
    /\ names = [q \in Requests |-> NoLoad]
    /\ worker \in [Requests -> Workers]
    /\ cache = [w \in Workers |-> {}]
    /\ load = <<>>
    /\ forgotten = {}

-----------------------------------------------------------------------------
(* The gates, in the order of the code.                                     *)

\* A period binding needs a period, a snapshot binding has none.
WrongKind(q) ==
    LET a == Asks[q]
    IN  \/ a.binding \notin Names
        \/ a.binding \in Snapshots /\ a.period # NoPeriod
        \/ a.binding \notin Snapshots /\ a.period = NoPeriod

MayRun(q) ==
    /\ Caller[q].roles \cap {"admin", "plan_manager"} # {}
    /\ Asks[q].override => "admin" \in Caller[q].roles

PushVerdict(q) ==
    IF ~Caller[q].valid THEN "unauthenticated"
    ELSE IF Asks[q].binding \notin Caller[q].bindings THEN "forbidden"
    ELSE IF WrongKind(q) THEN "unprocessable"
    ELSE IF ~MayRun(q) THEN "forbidden"
    ELSE "pass"

AdminVerdict(q) ==
    IF "admin" \notin Caller[q].roles THEN "forbidden"
    ELSE IF WrongKind(q) THEN "unprocessable"
    ELSE "pass"

Gate(q) == IF Asks[q].route = "push" THEN PushVerdict(q) ELSE AdminVerdict(q)

Turn(q) ==
    /\ reply[q] = "none"
    /\ \A r \in Requests : reply[r] = "running" => worker[r] # worker[q]

Reject(q) ==
    /\ Turn(q)
    /\ Gate(q) # "pass"
    /\ reply' = [reply EXCEPT ![q] = Gate(q)]
    /\ UNCHANGED <<cvars, names, worker, cache, load, forgotten>>

-----------------------------------------------------------------------------
(* Idempotency: the admin route has none.                                   *)

Keyed(q) == Asks[q].route = "push" /\ Asks[q].key # NoKey
Entry(q) == {e \in cache[worker[q]] : Keyed(q) /\ e.key = Asks[q].key}

\* Mutant: the entry of a key is believed whatever the body.
DeduplicateAnyBody(q) ==
    /\ Turn(q) /\ Gate(q) = "pass"
    /\ \E e \in Entry(q) : names' = [names EXCEPT ![q] = e.load]
    /\ reply' = [reply EXCEPT ![q] = "deduplicated"]
    /\ UNCHANGED <<cvars, worker, cache, load, forgotten>>

Deduplicate(q) ==
    /\ Turn(q) /\ Gate(q) = "pass"
    /\ \E e \in Entry(q) : e.body = Body(q) /\ names' = [names EXCEPT ![q] = e.load]
    /\ reply' = [reply EXCEPT ![q] = "deduplicated"]
    /\ UNCHANGED <<cvars, worker, cache, load, forgotten>>

KeyReused(q) ==
    /\ Turn(q) /\ Gate(q) = "pass"
    /\ \E e \in Entry(q) : e.body # Body(q) /\ names' = [names EXCEPT ![q] = e.load]
    /\ reply' = [reply EXCEPT ![q] = "conflict"]
    /\ UNCHANGED <<cvars, worker, cache, load, forgotten>>

\* run_binding inserts its row, triggered_by push:<caller> or admin:<caller>.
BeginPush(q) ==
    /\ Turn(q) /\ Gate(q) = "pass" /\ Entry(q) = {}
    /\ load' = Append(load, q)
    /\ names' = [names EXCEPT ![q] = Len(load) + 1]
    /\ reply' = [reply EXCEPT ![q] = "running"]
    /\ attempted' = [attempted EXCEPT ![Asks[q].binding] = @ \cup {Asks[q].period}]
    /\ UNCHANGED <<now, last, loaded, started, daemon, faults, worker, cache, forgotten>>

Remember(q) ==
    cache' = IF ~Keyed(q) THEN cache
             ELSE [cache EXCEPT ![worker[q]] =
                      @ \cup {[key |-> Asks[q].key, load |-> names[q], body |-> Body(q)]}]

\* Mutant: a load that fails leaves its key free.
PushEndsForgotten(q) ==
    /\ reply[q] = "running"
    /\ reply' = [reply EXCEPT ![q] = "ended"]
    /\ Fault
    /\ UNCHANGED <<now, table, daemon, names, worker, cache, load, forgotten>>

\* The load ended in a status that is not success: still answered with 200.
PushEndsOtherwise(q) ==
    /\ reply[q] = "running"
    /\ Remember(q)
    /\ reply' = [reply EXCEPT ![q] = "ended"]
    /\ Fault
    /\ UNCHANGED <<now, table, daemon, names, worker, load, forgotten>>

PushSucceeds(q) ==
    /\ reply[q] = "running"
    /\ Remember(q)
    /\ reply' = [reply EXCEPT ![q] = "ended"]
    /\ loaded' = [loaded EXCEPT ![Asks[q].binding] = @ \cup {Asks[q].period}]
    /\ UNCHANGED <<now, last, attempted, started, daemon, faults, names, worker, load, forgotten>>

\* run_binding raises: 500, and the key stays free for a retry.
PushRaises(q) ==
    /\ reply[q] = "running"
    /\ reply' = [reply EXCEPT ![q] = "error"]
    /\ Fault
    /\ UNCHANGED <<now, table, daemon, names, worker, cache, load, forgotten>>

\* A worker dies and is started again with an empty cache.
WorkerRestarts(w) ==
    /\ cache' = [cache EXCEPT ![w] = {}]
    /\ reply' = [q \in Requests |->
          IF reply[q] = "running" /\ worker[q] = w THEN "lost" ELSE reply[q]]
    /\ forgotten' = forgotten \cup {q \in Requests : worker[q] = w /\ reply[q] # "none"}
    /\ Fault
    /\ UNCHANGED <<now, table, daemon, names, worker, load>>

Request(q) ==
    \/ Reject(q) \/ Deduplicate(q) \/ KeyReused(q) \/ BeginPush(q)
    \/ PushSucceeds(q) \/ PushEndsOtherwise(q) \/ PushRaises(q)

Next ==
    \/ CronNext /\ UNCHANGED pvars
    \/ \E q \in Requests : Request(q)
    \/ \E w \in Workers : WorkerRestarts(w)

Spec == Init /\ [][Next]_allvars

\* The daemon's loop goes on for ever, and its calls answer or raise.
FairSpec == Spec /\ \A d \in Daemons : WF_allvars(TickStep(d) /\ UNCHANGED pvars)

-----------------------------------------------------------------------------
Named == {"ended", "deduplicated", "conflict"}

\* An answer names the load of the request's own body: a key that was bound to
\* another body is a conflict and nothing else, also after the worker has
\* forgotten keys and the key was bound anew.
AnswerNamesOwnLoad ==
    \A q \in Requests : reply[q] \in Named =>
        (reply[q] = "conflict" <=> Body(load[names[q]]) # Body(q))

\* The answers a process gives in one life to requests with one key name one
\* load, in whatever order they and their retries arrive: a load that fails
\* binds its key as one that succeeds does, so its retry names it and starts no
\* other, and a load that raised is named by nobody.  A process that is started
\* again has forgotten its keys: its answers are not compared with those before.
OneLoadPerKey ==
    /\ TypeOK
    /\ \A q, r \in Requests \ forgotten :
          /\ Keyed(q) /\ Keyed(r) /\ Asks[q].key = Asks[r].key
          /\ worker[q] = worker[r]
          /\ reply[q] \in Named /\ reply[r] \in Named
          => names[q] = names[r]
=============================================================================
