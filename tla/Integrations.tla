---------------------------- MODULE Integrations ----------------------------
(***************************************************************************)
(* The integration registry: YAML files for sources and bindings, which    *)
(* every process loads into memory as a whole, and the admin routes of the *)
(* API, which write one file and reload, or put the file back.             *)
(*                                                                         *)
(* A handler of the admin routes does not await, so the API works on one   *)
(* write at a time; the files are shared with the operator's editor and    *)
(* with the other processes that load them (the MCP server, the daemons).  *)
(***************************************************************************)
EXTENDS Naturals, FiniteSets

CONSTANTS
    Sources, Bindings, Targets,
    Hand,       \* files an operator edits by hand
    HandTexts,  \* what the operator may put into one
    Requests,   \* calls of the admin write routes
    Verb,       \* "create", "update", "delete", by request
    Entity,     \* the entity a request writes or deletes
    Others,     \* the other processes that hold a registry
    NoFile,
    MaxFaults   \* bound: crashes, failing writes and edits by hand

Ids == Sources \cup Bindings

VARIABLES
    disk,       \* file -> what it holds; the temporary file of a write bears its request's name
    memory,     \* process -> the entities of its registry
    pc,         \* Requests -> where the handler stands, then its answer
    saved,      \* Requests -> rollback_bytes
    found,      \* Requests -> what the file held when the handler began (history variable)
    up,         \* is the API running
    edited,     \* did a file change by hand since the API loaded (history variable)
    faults

vars == <<disk, memory, pc, saved, found, up, edited, faults>>

SourceEntity(s) == [id |-> s]
BindingEntity(b, s, t) == [id |-> b, source |-> s, target |-> t]
Entities == {SourceEntity(s) : s \in Sources}
            \cup {BindingEntity(b, s, t) : b \in Bindings, s \in Sources, t \in Targets}
Texts == Entities \cup {[id |-> "invalid"], [id |-> "empty"], NoFile}
Invalid == [id |-> "invalid"]
Empty   == [id |-> "empty"]

API       == "api"
Processes == {API} \cup Others
Files     == Ids \cup Hand \cup Requests
File(r)   == Entity[r].id          \* sources/<id>.yml or bindings/<id>.yml

ASSUME RegistryAssumption ==
    /\ Sources \cap Bindings = {} /\ Hand \cap Ids = {} /\ Requests \cap (Ids \cup Hand) = {}
    /\ {"invalid", "empty"} \cap Ids = {} /\ NoFile \notin Entities \cup {Invalid, Empty}
    /\ HandTexts \subseteq Texts /\ Entity \in [Requests -> Entities]
    /\ Verb \in [Requests -> {"create", "update", "delete"}]
    /\ API \notin Others
    /\ MaxFaults \in Nat

Answers == {"created", "updated", "deleted", "refused", "unprocessable", "error", "lost"}
Active  == {"temp", "filled", "reload", "rollback", "reload again"}
Success == {"created", "updated", "deleted"}

-----------------------------------------------------------------------------
(* IntegrationRegistry.load                                                 *)

BindingsOf(es) == {e \in es : e.id \in Bindings}
SourceIds(es)  == {e.id : e \in es} \cap Sources

\* A file that holds nothing yet parses to None and is passed over.
Parsed(d) == {f \in Files : d[f] \notin {NoFile, Empty}}
Read(d)   == {d[f] : f \in Parsed(d)}

CrossReferences(es) ==
    /\ \A b \in BindingsOf(es) : b.source \in SourceIds(es)
    /\ \A b, c \in BindingsOf(es) : b.target = c.target => b = c

Valid(d) ==
    /\ Invalid \notin Read(d)
    /\ \A f, g \in Parsed(d) : d[f].id = d[g].id => f = g
    /\ CrossReferences(Read(d))

-----------------------------------------------------------------------------
TypeOK ==
    /\ disk \in [Files -> Texts]
    /\ memory \in [Processes -> SUBSET Entities]
    /\ pc \in [Requests -> {"new"} \cup Active \cup Answers]
    /\ Cardinality({r \in Requests : pc[r] \in Active}) <= 1
    /\ saved \in [Requests -> Texts] /\ found \in [Requests -> Texts]
    /\ up \in BOOLEAN /\ edited \in BOOLEAN
    /\ faults \in 0..MaxFaults

Init ==
    /\ \E es \in SUBSET Entities :
          /\ CrossReferences(es)
          /\ \A e, f \in es : e.id = f.id => e = f
          /\ disk = [f \in Files |-> IF \E e \in es : e.id = f
                                    THEN CHOOSE e \in es : e.id = f ELSE NoFile]
    /\ memory = [p \in Processes |-> Read(disk)]
    /\ pc = [r \in Requests |-> "new"]
    /\ saved = [r \in Requests |-> NoFile]
    /\ found = [r \in Requests |-> NoFile]
    /\ up = TRUE
    /\ edited = FALSE
    /\ faults = 0

Fault == faults < MaxFaults /\ faults' = faults + 1
Idle  == \A r \in Requests : pc[r] \notin Active
Turn(r, from) == IF from = "new" THEN pc[r] = "new" /\ Idle /\ up ELSE pc[r] = from
To(r, p) == pc' = [pc EXCEPT ![r] = p]
Known(i) == \E e \in memory[API] : e.id = i

\* The checks a handler makes before it touches the disk: 404, 409, 422.
Refused(r) ==
    LET e == Entity[r]
    IN  \/ Verb[r] = "create" /\ Known(e.id)
        \/ Verb[r] # "create" /\ ~Known(e.id)
        \/ Verb[r] # "delete" /\ e.id \in Bindings /\ ~Known(e.source)
        \/ Verb[r] = "delete" /\ \E b \in BindingsOf(memory[API]) : b.source = e.id

Refuse(r) ==
    /\ Turn(r, "new") /\ Refused(r)
    /\ To(r, "refused")
    /\ UNCHANGED <<disk, memory, saved, found, up, edited, faults>>

\* read_bytes for an update; mkstemp in the directory of the target.
MakeTemp(r) ==
    /\ Turn(r, "new") /\ ~Refused(r) /\ Verb[r] # "delete"
    /\ found' = [found EXCEPT ![r] = disk[File(r)]]
    /\ saved' = [saved EXCEPT ![r] = IF Verb[r] = "update" THEN disk[File(r)] ELSE NoFile]
    /\ disk' = [disk EXCEPT ![r] = Empty]
    /\ To(r, "temp")
    /\ UNCHANGED <<memory, up, edited, faults>>

FillTemp(r) ==
    /\ Turn(r, "temp")
    /\ disk' = [disk EXCEPT ![r] = Entity[r]]
    /\ To(r, "filled")
    /\ UNCHANGED <<memory, saved, found, up, edited, faults>>

RenameTemp(r) ==
    /\ Turn(r, "filled")
    /\ disk' = [disk EXCEPT ![r] = NoFile, ![File(r)] = Entity[r]]
    /\ To(r, "reload")
    /\ UNCHANGED <<memory, saved, found, up, edited, faults>>

\* Mutant: nothing removes the temporary file.
WriteFailsLeaving(r) ==
    /\ pc[r] \in {"temp", "filled"}
    /\ To(r, "error")
    /\ Fault
    /\ UNCHANGED <<disk, memory, saved, found, up, edited>>

\* A full disk: the temporary file is removed, the caller gets a 500.
WriteFails(r) ==
    /\ pc[r] \in {"temp", "filled"}
    /\ disk' = [disk EXCEPT ![r] = NoFile]
    /\ To(r, "error")
    /\ Fault
    /\ UNCHANGED <<memory, saved, found, up, edited>>

Unlink(r) ==
    /\ Turn(r, "new") /\ ~Refused(r) /\ Verb[r] = "delete"
    /\ found' = [found EXCEPT ![r] = disk[File(r)]]
    /\ disk' = [disk EXCEPT ![File(r)] = NoFile]
    /\ To(r, "reload")
    /\ UNCHANGED <<memory, saved, up, edited, faults>>

\* Mutant: a reload adds what it read to the registry in memory.
SwapMerged(p) ==
    /\ memory' = [memory EXCEPT ![p] = @ \cup Read(disk)]
    /\ edited' = (edited /\ p # API)

Swap(p) ==
    /\ memory' = [memory EXCEPT ![p] = Read(disk)]
    /\ edited' = (edited /\ p # API)

Done(r) == CASE Verb[r] = "create" -> "created" [] Verb[r] = "update" -> "updated"
             [] Verb[r] = "delete" -> "deleted"

Reload(r) ==
    /\ Turn(r, "reload") /\ Valid(disk)
    /\ Swap(API)
    /\ To(r, Done(r))
    /\ UNCHANGED <<disk, saved, found, up, faults>>

ReloadFails(r) ==
    /\ Turn(r, "reload") /\ ~Valid(disk)
    /\ To(r, "rollback")
    /\ UNCHANGED <<disk, memory, saved, found, up, edited, faults>>

\* Mutant: the rollback of an update removes the file as if it were a create.
RollbackUnlink(r) ==
    /\ Turn(r, "rollback")
    /\ disk' = [disk EXCEPT ![File(r)] = NoFile]
    /\ To(r, "reload again")
    /\ UNCHANGED <<memory, saved, found, up, edited, faults>>

\* The bytes saved for an update; a file is removed for a create, and for a
\* delete, where there is nothing left to remove.
Rollback(r) ==
    /\ Turn(r, "rollback")
    /\ disk' = [disk EXCEPT ![File(r)] = saved[r]]
    /\ To(r, "reload again")
    /\ UNCHANGED <<memory, saved, found, up, edited, faults>>

ReloadAgain(r) ==
    /\ Turn(r, "reload again") /\ Valid(disk)
    /\ Swap(API)
    /\ To(r, "unprocessable")
    /\ UNCHANGED <<disk, saved, found, up, faults>>

RollbackFails(r) ==
    /\ Turn(r, "reload again") /\ ~Valid(disk)
    /\ To(r, "error")
    /\ UNCHANGED <<disk, memory, saved, found, up, edited, faults>>

-----------------------------------------------------------------------------
(* The rest of the deployment.                                              *)

\* reload_integrations, by route (in the API) or by tool, or the start of a
\* process: all files or none.
ReloadElsewhere(p) ==
    /\ p = API => Idle /\ up
    /\ Valid(disk)
    /\ Swap(p)
    /\ UNCHANGED <<disk, pc, saved, found, up, faults>>

HandEdit ==
    /\ \E f \in Hand, t \in HandTexts : disk[f] # t /\ disk' = [disk EXCEPT ![f] = t]
    /\ edited' = TRUE
    /\ Fault
    /\ UNCHANGED <<memory, pc, saved, found, up>>

\* The API dies inside a handler, and comes back when the directory loads.
Crash ==
    /\ ~Idle
    /\ pc' = [r \in Requests |-> IF pc[r] \in Active THEN "lost" ELSE pc[r]]
    /\ up' = FALSE
    /\ Fault
    /\ UNCHANGED <<disk, memory, saved, found, edited>>

Restart ==
    /\ ~up /\ Valid(disk)
    /\ up' = TRUE
    /\ Swap(API)
    /\ UNCHANGED <<disk, pc, saved, found, faults>>

Write(r) ==
    \/ Refuse(r) \/ MakeTemp(r) \/ FillTemp(r) \/ RenameTemp(r) \/ WriteFails(r) \/ Unlink(r)
    \/ Reload(r) \/ ReloadFails(r) \/ Rollback(r) \/ ReloadAgain(r) \/ RollbackFails(r)

Next ==
    \/ \E r \in Requests : Write(r)
    \/ \E p \in Processes : ReloadElsewhere(p)
    \/ HandEdit
    \/ Crash
    \/ Restart

Spec == Init /\ [][Next]_vars

-----------------------------------------------------------------------------
\* "A 422 / 400 means the YAML directory is unchanged; a 2xx means the YAML is
\* updated and the in-memory registry reflects it", whoever else edits or
\* reloads meanwhile; the refusal for a create and an update, and a deleted
\* entity may still be in a file an operator made or in the temporary file of a
\* write the API died in, which the loader reads too.  Of files that can be read:
\* an OSError or UnicodeDecodeError of registry.py:525 is no
\* IntegrationConfigError, so the answer is 500 and nothing is rolled back; it
\* is not modelled.
AtomicityContract ==
    [][\A r \in Requests : pc[r] # pc'[r] =>
          /\ pc'[r] = "unprocessable" /\ Verb[r] # "delete" => disk'[File(r)] = found[r]
          /\ pc'[r] \in {"created", "updated"} =>
                disk'[File(r)] = Entity[r] /\ Entity[r] \in memory'[API]
          /\ pc'[r] = "deleted" =>
                /\ disk'[File(r)] = NoFile
                /\ \A e \in memory'[API] : e.id = File(r) =>
                      \E f \in Hand \cup {q \in Requests : pc[q] = "lost"} : disk[f] = e]_vars

\* Whenever the API is at rest and nobody has edited a file by hand since, its
\* memory is what it would load: no path through rollback, failed write or
\* crash leaves the two apart, unless the directory does not load at all (a file
\* that cannot be read, see above, is left out).
RegistryIsCurrent ==
    TypeOK /\ (Idle /\ up /\ ~edited /\ Valid(disk) => memory[API] = Read(disk))

\* No registry in memory has two bindings for one target, which "would race for
\* the swap", or a binding without its source, whatever was on the disk when
\* it was loaded.
OneWriterPerTarget ==
    \A p \in Processes : \A b, c \in BindingsOf(memory[p]) :
        /\ b.target = c.target => b = c
        /\ b.source \in SourceIds(memory[p])

\* "Existing readers see either the old file or the new one, never a mid-write
\* state": as long as nobody edits by hand and the write under way, once
\* done, leaves a directory that loads, it loads at every moment.  The code does
\* not have this: the temporary file is one of the files the loader reads.
After(r) == [disk EXCEPT ![r] = NoFile, ![File(r)] = Entity[r]]
AlwaysLoadable ==
    /\ ~edited
    /\ \A r \in Requests : pc[r] \in Active => pc[r] \in {"temp", "filled"} /\ Valid(After(r))
    => Valid(disk)
=============================================================================
