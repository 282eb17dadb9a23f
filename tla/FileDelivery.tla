---------------------------- MODULE FileDelivery ----------------------------
(***************************************************************************)
(* File delivery: POST /api/ingest/upload stores files in a landing store, *)
(* and the watcher turns every new file there into one call of             *)
(* run_binding.  The endpoint and the watcher are two processes which      *)
(* share the store only; the watcher remembers what it has seen in         *)
(* load_history, where each attempt names the file that triggered it.      *)
(***************************************************************************)
EXTENDS Integers, FiniteSets, Sequences, SequencesExt

CONSTANTS
    Bindings,   \* watch-mode bindings in registry order, a sequence
    StoreSets,  \* the environments of a daemon: the bindings whose kind of source has a store
    Keys,       \* object keys, numbers in the order a listing sorts them
    Matches,    \* <<b, k>>: key k is under the prefix and the glob of b
    Kind,       \* what infer_period makes of a file, by key
    Watchers,   \* watcher daemons
    Uploads,    \* calls of the endpoint
    KeyOf,      \* the object key an upload writes
    IdemOf,     \* its X-Idempotency-Key, or NoKey
    NoKey,
    MaxFaults,  \* bound: crashes and failing calls in a behaviour
    MaxRows     \* bound: load_history rows for one binding and file

ASSUME DeliveryAssumption ==
    /\ Keys \subseteq Nat /\ IsFiniteSet(Keys)
    /\ Bindings \in Seq(ToSet(Bindings)) /\ StoreSets \subseteq SUBSET ToSet(Bindings)
    /\ StoreSets # {}
    /\ Matches \subseteq ToSet(Bindings) \X Keys
    /\ Kind \in [Keys -> {"dated", "undated", "unreadable"}]
    /\ KeyOf \in [Uploads -> Keys]
    /\ DOMAIN IdemOf = Uploads
    /\ MaxFaults \in Nat /\ MaxRows \in Nat \ {0}

VARIABLES
    file,       \* Keys -> "absent", "torn" (a write under way or broken off), "whole"
    remembered, \* idempotency keys in the memory of the server process
    answer,     \* Uploads -> "none", "writing", "accepted", "deduplicated", "error"
    rows,       \* Matches -> rows of load_history with triggered_by = watch:<key>
    whole,      \* Matches -> did a load read the whole file (history variable)
    pc,         \* Watchers -> where the tick stands
    todo,       \* Watchers -> bindings this tick has still to process
    listing,    \* Watchers -> keys of the binding under work still to look at
    seen,       \* Watchers -> already_processed, read once per binding
    stores,     \* Watchers -> the bindings with a store in its process
    faults

uvars == <<file, remembered, answer>>
wvars == <<rows, whole, pc, todo, listing, seen, stores>>
vars  == <<uvars, wvars, faults>>

Statuses == {"none", "writing", "accepted", "deduplicated", "error"}

TypeOK ==
    /\ file \in [Keys -> {"absent", "torn", "whole"}]
    /\ remembered \subseteq {IdemOf[r] : r \in Uploads} \ {NoKey}
    /\ answer \in [Uploads -> Statuses]
    /\ rows \in [Matches -> 0..MaxRows]
    /\ whole \in [Matches -> BOOLEAN]
    /\ pc \in [Watchers -> {"sleep", "list", "history", "look", "fire", "load"}]
    /\ \A w \in Watchers : ToSet(todo[w]) \subseteq ToSet(Bindings)
    /\ listing \in [Watchers -> SUBSET Keys]
    /\ seen \in [Watchers -> SUBSET Keys]
    /\ stores \in [Watchers -> StoreSets]
    /\ \A w \in Watchers : pc[w] \in {"history", "look", "fire", "load"} => todo[w] # <<>>
    /\ \A w \in Watchers : pc[w] \in {"fire", "load"} => listing[w] # {}
    /\ faults \in 0..MaxFaults

Init ==
    /\ file = [k \in Keys |-> "absent"]
    /\ remembered = {}
    /\ answer = [r \in Uploads |-> "none"]
    /\ rows = [m \in Matches |-> 0]
    /\ whole = [m \in Matches |-> FALSE]
    /\ pc = [w \in Watchers |-> "sleep"]
    /\ todo = [w \in Watchers |-> <<>>]
    /\ listing = [w \in Watchers |-> {}]
    /\ seen = [w \in Watchers |-> {}]
    /\ stores \in [Watchers -> StoreSets]
    /\ faults = 0

Fault == faults < MaxFaults /\ faults' = faults + 1

-----------------------------------------------------------------------------
(* The upload endpoint.  Its body has been read when it looks at the key;   *)
(* from there on it does not yield, so one server works on one upload.      *)

Writing == \E r \in Uploads : answer[r] = "writing"

AnswerDuplicate(r) ==
    /\ answer[r] = "none" /\ ~Writing
    /\ IdemOf[r] \in remembered
    /\ answer' = [answer EXCEPT ![r] = "deduplicated"]
    /\ UNCHANGED <<file, remembered, wvars, faults>>

\* cache.remember, then put: the target is truncated and written in place.
BeginWrite(r) ==
    /\ answer[r] = "none" /\ ~Writing
    /\ IdemOf[r] \notin remembered
    /\ remembered' = remembered \cup ({IdemOf[r]} \ {NoKey})
    /\ file' = [file EXCEPT ![KeyOf[r]] = "torn"]
    /\ answer' = [answer EXCEPT ![r] = "writing"]
    /\ UNCHANGED <<wvars, faults>>

EndWrite(r) ==
    /\ answer[r] = "writing"
    /\ file' = [file EXCEPT ![KeyOf[r]] = "whole"]
    /\ answer' = [answer EXCEPT ![r] = "accepted"]
    /\ UNCHANGED <<remembered, wvars, faults>>

\* put raises (a full disk): the caller gets a 500.
WriteFails(r) ==
    /\ answer[r] = "writing"
    /\ answer' = [answer EXCEPT ![r] = "error"]
    /\ Fault
    /\ UNCHANGED <<file, remembered, wvars>>

\* The server process dies and is started again.
ServerRestarts ==
    /\ remembered' = {}
    /\ answer' = [r \in Uploads |-> IF answer[r] = "writing" THEN "error" ELSE answer[r]]
    /\ Fault
    /\ UNCHANGED <<file, wvars>>

-----------------------------------------------------------------------------
(* The watcher.                                                             *)

Goto(w, p) == pc' = [pc EXCEPT ![w] = p]

\* A listing is sorted: the file the tick looks at next.
First(w) == Min(listing[w])

WakeUp(w) ==
    /\ pc[w] = "sleep"
    /\ todo' = [todo EXCEPT ![w] = Bindings]
    /\ Goto(w, "list")
    /\ UNCHANGED <<uvars, stores, rows, whole, listing, seen, faults>>

EndTick(w) ==
    /\ pc[w] = "list" /\ todo[w] = <<>>
    /\ Goto(w, "sleep")
    /\ UNCHANGED <<uvars, stores, rows, whole, todo, listing, seen, faults>>

Stored(k) == file[k] # "absent"

\* The binding of this turn, and a store to list it from.
HasStore(w) == pc[w] = "list" /\ todo[w] # <<>> /\ Head(todo[w]) \in stores[w]

List(w) ==
    /\ HasStore(w)
    /\ listing' = [listing EXCEPT ![w] =
          {k \in Keys : <<Head(todo[w]), k>> \in Matches /\ Stored(k)}]
    /\ Goto(w, "history")
    /\ UNCHANGED <<uvars, stores, rows, whole, todo, seen, faults>>

\* A listing that fails costs this binding its turn, no more.
ListFails(w) ==
    /\ HasStore(w)
    /\ todo' = [todo EXCEPT ![w] = Tail(@)]
    /\ Fault
    /\ UNCHANGED <<uvars, stores, rows, whole, pc, listing, seen>>

\* What a tick has in hand are local variables, which end with it.
Drops(w) ==
    /\ Goto(w, "sleep")
    /\ todo' = [todo EXCEPT ![w] = <<>>]
    /\ listing' = [listing EXCEPT ![w] = {}]
    /\ seen' = [seen EXCEPT ![w] = {}]

\* The exception leaves tick(); the daemon's loop logs it and sleeps.
Abandon(w) == Drops(w) /\ UNCHANGED <<uvars, stores, rows, whole>>

\* The kind of source has no store here: the lookup raises before the listing
\* is tried, and the bindings behind this one get no turn.
StoreMissing(w) ==
    /\ pc[w] = "list" /\ todo[w] # <<>> /\ Head(todo[w]) \notin stores[w]
    /\ Abandon(w)
    /\ UNCHANGED faults

\* Mutant: the processed set is built from successful attempts only.
ReadProcessedSuccessOnly(w) ==
    /\ pc[w] = "history"
    /\ seen' = [seen EXCEPT ![w] =
          {k \in Keys : <<Head(todo[w]), k>> \in Matches /\ whole[<<Head(todo[w]), k>>]}]
    /\ Goto(w, "look")
    /\ UNCHANGED <<uvars, stores, rows, whole, todo, listing, faults>>

ReadProcessed(w) ==
    /\ pc[w] = "history"
    /\ seen' = [seen EXCEPT ![w] =
          {k \in Keys : <<Head(todo[w]), k>> \in Matches /\ rows[<<Head(todo[w]), k>>] > 0}]
    /\ Goto(w, "look")
    /\ UNCHANGED <<uvars, stores, rows, whole, todo, listing, faults>>

NextBinding(w) ==
    /\ pc[w] = "look" /\ listing[w] = {}
    /\ todo' = [todo EXCEPT ![w] = Tail(@)]
    /\ seen' = [seen EXCEPT ![w] = {}]
    /\ Goto(w, "list")
    /\ UNCHANGED <<uvars, stores, rows, whole, listing, faults>>

\* A known file, or one from which no period can be inferred: on to the next.
SkipFile(w) ==
    /\ pc[w] = "look" /\ listing[w] # {}
    /\ First(w) \in seen[w] \/ Kind[First(w)] = "undated"
    /\ listing' = [listing EXCEPT ![w] = @ \ {First(w)}]
    /\ UNCHANGED <<uvars, stores, rows, whole, pc, todo, seen, faults>>

TakeFile(w) ==
    /\ pc[w] = "look" /\ listing[w] # {}
    /\ First(w) \notin seen[w] /\ Kind[First(w)] = "dated"
    /\ Goto(w, "fire")
    /\ UNCHANGED <<uvars, stores, rows, whole, todo, listing, seen, faults>>

\* Mutant: a file without a period ends the tick like any other exception.
FileUnreadableAny(w) ==
    /\ pc[w] = "look" /\ listing[w] # {}
    /\ First(w) \notin seen[w] /\ Kind[First(w)] # "dated"
    /\ Abandon(w)
    /\ UNCHANGED faults

\* The reader raises something that is no PeriodInferenceError.
FileUnreadable(w) ==
    /\ pc[w] = "look" /\ listing[w] # {}
    /\ First(w) \notin seen[w] /\ Kind[First(w)] = "unreadable"
    /\ Abandon(w)
    /\ UNCHANGED faults

\* A history query fails, or run_binding raises: before its row is
\* inserted, or after.
CallRaises(w) ==
    /\ pc[w] \in {"history", "fire", "load"}
    /\ Abandon(w)
    /\ Fault

\* run_binding, first call: insert_attempt with triggered_by = watch:<key>.
FireLoad(w) ==
    LET m == <<Head(todo[w]), First(w)>>
    IN  /\ pc[w] = "fire"
        /\ rows[m] < MaxRows
        /\ rows' = [rows EXCEPT ![m] = @ + 1]
        /\ Goto(w, "load")
        /\ UNCHANGED <<uvars, stores, whole, todo, listing, seen, faults>>

\* run_binding returns, whatever its status.
LoadEnds(w) ==
    LET m == <<Head(todo[w]), First(w)>>
    IN  /\ pc[w] = "load"
        /\ whole' = [whole EXCEPT ![m] = @ \/ file[m[2]] = "whole"]
        /\ listing' = [listing EXCEPT ![w] = @ \ {First(w)}]
        /\ Goto(w, "look")
        /\ UNCHANGED <<uvars, stores, rows, todo, seen, faults>>

\* A store is built for each kind of source whose variables are set.
BuildStores(w) == \E started \in StoreSets : stores' = [stores EXCEPT ![w] = started]

\* The daemon dies and is started again, in whatever environment it has then.
WatcherRestarts(w) ==
    /\ BuildStores(w)
    /\ Drops(w)
    /\ Fault
    /\ UNCHANGED <<uvars, rows, whole>>

-----------------------------------------------------------------------------
Upload(r) == AnswerDuplicate(r) \/ BeginWrite(r) \/ EndWrite(r) \/ WriteFails(r)

Step(w) ==
    \/ WakeUp(w) \/ EndTick(w)
    \/ List(w) \/ StoreMissing(w) \/ ReadProcessed(w) \/ NextBinding(w)
    \/ SkipFile(w) \/ TakeFile(w) \/ FileUnreadable(w)
    \/ FireLoad(w) \/ LoadEnds(w)

Next ==
    \/ \E r \in Uploads : Upload(r)
    \/ ServerRestarts
    \/ \E w \in Watchers : Step(w) \/ ListFails(w) \/ CallRaises(w) \/ WatcherRestarts(w)

Spec == Init /\ [][Next]_vars

\* The daemon's loop goes on for ever, and its calls answer or raise.
FairSpec == Spec /\ \A w \in Watchers : WF_vars(Step(w))

-----------------------------------------------------------------------------
\* No file is loaded twice for one binding, however often the watcher is
\* restarted or a call of it fails: "restarts don't replay files".
LoadedOnce == TypeOK /\ \A m \in Matches : rows[m] <= 1

\* What ends every tick before it comes to this match: the store of its binding
\* or of one before it is not configured, or a file that cannot be read is stored
\* before it, in the listing of its binding or of an earlier one.
Blocked(w, m) ==
    \E i, j \in DOMAIN Bindings :
        /\ i <= j /\ Bindings[j] = m[1]
        /\ \/ Bindings[i] \notin stores[w]
           \/ \E k \in Keys : /\ <<Bindings[i], k>> \in Matches
                             /\ Stored(k) /\ Kind[k] = "unreadable"
                             /\ (i < j \/ k < m[2])

\* Every stored file that carries a period gets its load, through files without
\* a period, listings that fail, ticks that were abandoned and restarts, unless
\* it stays Blocked for good: watcher.py:98 says that the loop goes on, and so
\* it does, but each tick ends where the one before it ended, until the daemon is
\* started again with the store that was missing.
EveryFileFires ==
    \A m \in Matches : (Stored(m[2]) /\ Kind[m[2]] = "dated")
                          ~> (rows[m] > 0 \/ [](\A w \in Watchers : Blocked(w, m)))

\* An upload that was answered with 202, be it the first or a repetition, has
\* been written to the store under its key.  The code does not have this: the
\* idempotency key is remembered before the file is stored.
AcknowledgedIsStored ==
    \A r \in Uploads : answer[r] \in {"accepted", "deduplicated"} =>
        \E q \in Uploads : IdemOf[q] = IdemOf[r] /\ answer[q] = "accepted"

=============================================================================
