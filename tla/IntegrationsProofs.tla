------------------------ MODULE IntegrationsProofs ------------------------
(***************************************************************************)
(* The inductive invariant of the integration registry, and the proofs     *)
(* that every history of writes, failures, crashes, reloads and edits by   *)
(* hand keeps it.                                                          *)
(***************************************************************************)
EXTENDS Integrations, FiniteSetTheorems, TLAPS

Type ==
    /\ disk \in [Files -> Texts]
    /\ memory \in [Processes -> SUBSET Entities]
    /\ pc \in [Requests -> {"new"} \cup Active \cup Answers]
    /\ saved \in [Requests -> Texts] /\ found \in [Requests -> Texts]
    /\ up \in BOOLEAN /\ edited \in BOOLEAN
    /\ faults \in 0..MaxFaults

\* The API works on one write at a time, and only while it runs.
OneAtATime ==
    /\ \A q, r \in Requests : pc[q] \in Active /\ pc[r] \in Active => q = r
    /\ \A r \in Requests : pc[r] \in Active => up

\* The file of an entity holds that entity or is not there; a write has a
\* temporary file between its mkstemp and its rename, or when it died there.
FilesInPlace ==
    /\ \A i \in Ids : disk[i] # NoFile => disk[i] \in Entities /\ disk[i].id = i
    /\ \A r \in Requests : disk[r] # NoFile => pc[r] \in {"temp", "filled", "lost"}

\* The directory without the temporary file of a write.
Without(r) == [disk EXCEPT ![r] = NoFile]

\* Between writes the API would load what it has; while a temporary file
\* stands, it would once that file is gone.
InStep ==
    up /\ ~edited =>
        /\ Idle /\ Valid(disk) => memory[API] = Read(disk)
        /\ \A r \in Requests : pc[r] \in {"temp", "filled"} /\ Valid(Without(r)) =>
              memory[API] = Read(Without(r))

\* An entity with a file of its own is known, unless the write under way has
\* just put the file there.
FilesKnown ==
    up => \A i \in Ids : disk[i] # NoFile =>
              \/ Known(i)
              \/ \E r \in Requests : File(r) = i /\ pc[r] \in {"reload", "rollback"}

\* What a write under way remembers and what it has done to its file.
Progress(r) ==
    /\ pc[r] \in Active /\ Verb[r] = "update" => Known(File(r)) /\ saved[r] = found[r]
    /\ pc[r] \in Active /\ Verb[r] = "create" => saved[r] = NoFile /\ found[r] = NoFile
    /\ pc[r] \in Active /\ Verb[r] = "delete" =>
          saved[r] = NoFile /\ pc[r] \in {"reload", "rollback", "reload again"}
    /\ pc[r] = "new" => saved[r] = NoFile
    /\ pc[r] \in Active /\ saved[r] # NoFile =>
          saved[r] \in Entities /\ saved[r].id = File(r)
    /\ pc[r] = "reload" /\ Verb[r] # "delete" => disk[File(r)] = Entity[r]
    /\ pc[r] = "reload" /\ Verb[r] = "delete" => disk[File(r)] = NoFile
    /\ pc[r] = "reload again" /\ Verb[r] # "delete" => disk[File(r)] = found[r]

WritesProgress == \A r \in Requests : Progress(r)

RegistriesLoaded == \A p \in Processes : CrossReferences(memory[p])

IInv ==
    Type /\ OneAtATime /\ FilesInPlace /\ InStep /\ FilesKnown /\ WritesProgress
    /\ RegistriesLoaded

-----------------------------------------------------------------------------
(* Entities, files and what the loader reads.                               *)

LEMMA EntityShape ==
  ASSUME NEW e \in Entities
  PROVE  e \in Texts /\ e \notin {NoFile, Empty, Invalid} /\ e.id \in Ids
<1>1. e.id \in Ids
  BY DEF Entities, Ids, SourceEntity, BindingEntity
<1> QED
  BY <1>1, RegistryAssumption DEF Texts, Empty, Invalid

LEMMA FileOf ==
  ASSUME NEW r \in Requests
  PROVE  /\ Entity[r] \in Entities /\ File(r) \in Ids /\ File(r) \in Files
         /\ r \in Files /\ r \notin Ids /\ r # File(r)
BY RegistryAssumption, EntityShape DEF File, Files

LEMMA SpecialTexts == {NoFile, Empty, Invalid} \subseteq Texts /\ Entities \subseteq Texts
BY DEF Texts, Empty, Invalid

LEMMA ApiIsProcess == API \in Processes
BY DEF Processes

\* What is loaded passed the checks, so it consists of entities.
LEMMA ValidRead ==
  ASSUME disk \in [Files -> Texts], Valid(disk)
  PROVE  Read(disk) \in SUBSET Entities /\ CrossReferences(Read(disk))
BY DEF Valid, Read, Parsed, Texts, Empty, Invalid

LEMMA SwapEffect ==
  ASSUME Type, Valid(disk), NEW p \in Processes, Swap(p)
  PROVE  /\ memory' \in [Processes -> SUBSET Entities]
         /\ memory'[p] = Read(disk) /\ \A q \in Processes \ {p} : memory'[q] = memory[q]
         /\ edited' \in BOOLEAN /\ (p = API => ~edited') /\ (p # API => edited' = edited)
<1>1. Read(disk) \in SUBSET Entities
  BY ValidRead DEF Type
<1> QED
  BY <1>1 DEF Swap, Type

\* The stages of a write by the points they leave and reach.
Points == {"new"} \cup Active \cup Answers

LEMMA ToEffect ==
  ASSUME Type, NEW r \in Requests, NEW p \in Points, To(r, p)
  PROVE  /\ pc' \in [Requests -> Points]
         /\ pc'[r] = p /\ \A q \in Requests \ {r} : pc'[q] = pc[q]
BY DEF To, Type, Points

LEMMA DoneIsAnswer ==
  ASSUME NEW r \in Requests
  PROVE  Done(r) \in Points /\ Done(r) \in Success /\ Done(r) \notin Active \cup {"new", "lost"}
BY RegistryAssumption DEF Done, Points, Answers, Active, Success

LEMMA FaultEffect ==
  ASSUME Type, Fault
  PROVE  faults' \in 0..MaxFaults
<1>1. faults \in Nat /\ MaxFaults \in Nat /\ faults < MaxFaults /\ faults' = faults + 1
  BY RegistryAssumption DEF Fault, Type
<1> QED
  BY <1>1

LEMMA InitType == Init => Type
<1> SUFFICES ASSUME Init PROVE Type
  OBVIOUS
<1>1. disk \in [Files -> Texts]
  <2>1. PICK es \in SUBSET Entities : 
          disk = [f \in Files |-> IF \E e \in es : e.id = f
                                  THEN CHOOSE e \in es : e.id = f ELSE NoFile]
    BY DEF Init
  <2>2. \A f \in Files : (\E e \in es : e.id = f) => (CHOOSE e \in es : e.id = f) \in Entities
    OBVIOUS
  <2> QED
    BY <2>1, <2>2, SpecialTexts
<1>2. Read(disk) \subseteq Entities
  <2>1. \A f \in Files : disk[f] \in Entities \/ disk[f] = NoFile
    <3>1. PICK es \in SUBSET Entities : 
            disk = [f \in Files |-> IF \E e \in es : e.id = f
                                    THEN CHOOSE e \in es : e.id = f ELSE NoFile]
      BY DEF Init
    <3>2. \A f \in Files : (\E e \in es : e.id = f) => (CHOOSE e \in es : e.id = f) \in Entities
      OBVIOUS
    <3> QED
      BY <3>1, <3>2
  <2> QED
    BY <2>1 DEF Read, Parsed
<1>3. memory \in [Processes -> SUBSET Entities]
  BY <1>2 DEF Init
<1>4. faults \in 0..MaxFaults
  BY RegistryAssumption DEF Init
<1>5. pc \in [Requests -> {"new"} \cup Active \cup Answers]
  BY DEF Init
<1>6. saved \in [Requests -> Texts] /\ found \in [Requests -> Texts]
  BY SpecialTexts DEF Init
<1> QED
  BY <1>1, <1>3, <1>4, <1>5, <1>6 DEF Init, Type

LEMMA TypeStep == Type /\ [Next]_vars => Type'
<1> SUFFICES ASSUME Type, [Next]_vars PROVE Type'
  OBVIOUS
<1> USE DEF Type
<1>1. CASE UNCHANGED vars
  BY <1>1 DEF vars
<1>2. ASSUME NEW r \in Requests, Write(r) PROVE Type'
  <2> USE DEF Points
  <2>1. CASE Refuse(r)
    BY <2>1, ToEffect DEF Refuse, Answers
  <2>2. CASE MakeTemp(r)
    <3>1. pc' \in [Requests -> Points]
      BY <2>2, ToEffect DEF MakeTemp, Active
    <3>2. disk[File(r)] \in Texts /\ NoFile \in Texts /\ Empty \in Texts
      BY FileOf, SpecialTexts
    <3> QED
      BY <2>2, <3>1, <3>2 DEF MakeTemp
  <2>3. CASE FillTemp(r)
    <3>1. pc' \in [Requests -> Points]
      BY <2>3, ToEffect DEF FillTemp, Active
    <3> QED
      BY <2>3, <3>1, FileOf, SpecialTexts DEF FillTemp
  <2>4. CASE RenameTemp(r)
    <3>1. pc' \in [Requests -> Points]
      BY <2>4, ToEffect DEF RenameTemp, Active
    <3> QED
      BY <2>4, <3>1, FileOf, SpecialTexts DEF RenameTemp
  <2>5. CASE WriteFails(r)
    <3>1. pc' \in [Requests -> Points]
      BY <2>5, ToEffect DEF WriteFails, Answers
    <3>2. faults' \in 0..MaxFaults
      BY <2>5, FaultEffect DEF WriteFails
    <3>3. disk' \in [Files -> Texts]
      BY <2>5, SpecialTexts DEF WriteFails
    <3> QED
      BY <2>5, <3>1, <3>2, <3>3 DEF WriteFails
  <2>6. CASE Unlink(r)
    <3>1. pc' \in [Requests -> Points]
      BY <2>6, ToEffect DEF Unlink, Active
    <3> QED
      BY <2>6, <3>1, FileOf, SpecialTexts DEF Unlink
  <2>7. CASE Reload(r)
    <3>1. pc' \in [Requests -> Points]
      BY <2>7, ToEffect, DoneIsAnswer DEF Reload
    <3>2. memory' \in [Processes -> SUBSET Entities] /\ edited' \in BOOLEAN
      BY <2>7, SwapEffect, ApiIsProcess DEF Reload
    <3> QED
      BY <2>7, <3>1, <3>2 DEF Reload
  <2>8. CASE ReloadFails(r)
    BY <2>8, ToEffect DEF ReloadFails, Active
  <2>9. CASE Rollback(r)
    <3>1. pc' \in [Requests -> Points]
      BY <2>9, ToEffect DEF Rollback, Active
    <3> QED
      BY <2>9, <3>1 DEF Rollback
  <2>10. CASE ReloadAgain(r)
    <3>1. pc' \in [Requests -> Points]
      BY <2>10, ToEffect DEF ReloadAgain, Answers
    <3>2. memory' \in [Processes -> SUBSET Entities] /\ edited' \in BOOLEAN
      BY <2>10, SwapEffect, ApiIsProcess DEF ReloadAgain
    <3> QED
      BY <2>10, <3>1, <3>2 DEF ReloadAgain
  <2>11. CASE RollbackFails(r)
    BY <2>11, ToEffect DEF RollbackFails, Answers
  <2> QED
    BY <1>2, <2>1, <2>2, <2>3, <2>4, <2>5, <2>6, <2>7, <2>8, <2>9, <2>10, <2>11 DEF Write
<1>3. ASSUME NEW p \in Processes, ReloadElsewhere(p) PROVE Type'
  BY <1>3, SwapEffect DEF ReloadElsewhere
<1>4. CASE HandEdit
  <2>1. disk' \in [Files -> Texts]
    BY <1>4, RegistryAssumption DEF HandEdit
  <2>2. faults' \in 0..MaxFaults
    BY <1>4, FaultEffect DEF HandEdit
  <2> QED
    BY <1>4, <2>1, <2>2 DEF HandEdit
<1>5. CASE Crash
  <2>1. pc' \in [Requests -> Points]
    BY <1>5 DEF Crash, Points, Answers
  <2>2. faults' \in 0..MaxFaults
    BY <1>5, FaultEffect DEF Crash
  <2> QED
    BY <1>5, <2>1, <2>2 DEF Crash, Points
<1>6. CASE Restart
  BY <1>6, SwapEffect, ApiIsProcess DEF Restart
<1> QED
  BY <1>1, <1>2, <1>3, <1>4, <1>5, <1>6 DEF Next

-----------------------------------------------------------------------------
(* One write at a time.                                                     *)

\* Every stage moves its own request only, which is at work or is taken up
\* while nothing else is.
LEMMA WriteMoves ==
  ASSUME Type, NEW r \in Requests, Write(r)
  PROVE  /\ \A q \in Requests \ {r} : pc'[q] = pc[q]
         /\ up' = up
         /\ pc[r] \in Active \/ (pc[r] = "new" /\ Idle /\ up)
         /\ pc'[r] # "new"
         /\ pc[r] # pc'[r]
<1> USE DEF Type, Active
<1>1. CASE Refuse(r)
  BY <1>1 DEF Refuse, To, Turn
<1>2. CASE MakeTemp(r)
  BY <1>2 DEF MakeTemp, To, Turn
<1>3. CASE FillTemp(r)
  BY <1>3 DEF FillTemp, To, Turn
<1>4. CASE RenameTemp(r)
  BY <1>4 DEF RenameTemp, To, Turn
<1>5. CASE WriteFails(r)
  BY <1>5 DEF WriteFails, To
<1>6. CASE Unlink(r)
  BY <1>6 DEF Unlink, To, Turn
<1>7. CASE Reload(r)
  <2>1. Done(r) \notin Active \cup {"new"}
    BY DoneIsAnswer
  <2> QED
    BY <1>7, <2>1 DEF Reload, To, Turn
<1>8. CASE ReloadFails(r)
  BY <1>8 DEF ReloadFails, To, Turn
<1>9. CASE Rollback(r)
  BY <1>9 DEF Rollback, To, Turn
<1>10. CASE ReloadAgain(r)
  BY <1>10 DEF ReloadAgain, To, Turn
<1>11. CASE RollbackFails(r)
  BY <1>11 DEF RollbackFails, To, Turn
<1> QED
  BY <1>1, <1>2, <1>3, <1>4, <1>5, <1>6, <1>7, <1>8, <1>9, <1>10, <1>11 DEF Write

\* While one request is at work the others are not, before and after its step.
LEMMA Alone ==
  ASSUME Type, OneAtATime, NEW r \in Requests, Write(r)
  PROVE  \A q \in Requests \ {r} : pc[q] \notin Active /\ pc'[q] = pc[q]
BY WriteMoves DEF OneAtATime, Idle

LEMMA CrashEffect ==
  ASSUME Type, Crash
  PROVE  /\ \A r \in Requests : pc'[r] = IF pc[r] \in Active THEN "lost" ELSE pc[r]
         /\ \A r \in Requests : pc'[r] \notin Active
BY DEF Crash, Active

LEMMA OneAtATimeStep == Type /\ OneAtATime /\ [Next]_vars => OneAtATime'
<1> SUFFICES ASSUME Type, OneAtATime, [Next]_vars PROVE OneAtATime'
  OBVIOUS
<1>1. CASE UNCHANGED vars
  BY <1>1 DEF vars, OneAtATime
<1>2. ASSUME NEW r \in Requests, Write(r) PROVE OneAtATime'
  <2>1. \A q \in Requests \ {r} : pc'[q] \notin Active
    BY <1>2, Alone
  <2>2. up
    BY <1>2, WriteMoves DEF OneAtATime
  <2>3. up'
    BY <1>2, <2>2, WriteMoves
  <2> QED
    BY <2>1, <2>3 DEF OneAtATime
<1>3. ASSUME NEW p \in Processes, ReloadElsewhere(p) PROVE OneAtATime'
  BY <1>3 DEF ReloadElsewhere, OneAtATime
<1>4. CASE HandEdit
  BY <1>4 DEF HandEdit, OneAtATime
<1>5. CASE Crash
  BY <1>5, CrashEffect DEF OneAtATime
<1>6. CASE Restart
  BY <1>6 DEF Restart, OneAtATime
<1> QED
  BY <1>1, <1>2, <1>3, <1>4, <1>5, <1>6 DEF Next

-----------------------------------------------------------------------------
(* Which file holds what.                                                   *)

LEMMA FilesInPlaceStep ==
  Type /\ OneAtATime /\ WritesProgress /\ FilesInPlace /\ [Next]_vars => FilesInPlace'
<1> SUFFICES ASSUME Type, OneAtATime, WritesProgress, FilesInPlace, [Next]_vars
             PROVE  FilesInPlace'
  OBVIOUS
<1>1. CASE UNCHANGED vars
  BY <1>1 DEF vars, FilesInPlace
<1>2. ASSUME NEW r \in Requests, Write(r) PROVE FilesInPlace'
  <2> USE FileOf DEF Type, FilesInPlace
  <2>1. \A q \in Requests \ {r} : pc'[q] = pc[q]
    BY <1>2, WriteMoves
  <2>2. disk' = disk /\ disk[r] = NoFile => FilesInPlace'
    BY <2>1
  <2>3. CASE Refuse(r) \/ Reload(r) \/ ReloadFails(r) \/ ReloadAgain(r) \/ RollbackFails(r)
    <3>1. disk' = disk /\ pc[r] \notin {"temp", "filled", "lost"}
      BY <2>3 DEF Refuse, Reload, ReloadFails, ReloadAgain, RollbackFails, Turn
    <3> QED
      BY <2>2, <3>1
  <2>4. CASE MakeTemp(r)
    <3>1. pc'[r] = "temp"
      BY <2>4, ToEffect DEF MakeTemp, Points, Active
    <3>2. \A f \in Files \ {r} : disk'[f] = disk[f]
      BY <2>4 DEF MakeTemp
    <3> QED
      BY <2>1, <3>1, <3>2 DEF Files
  <2>5. CASE FillTemp(r)
    <3>1. pc'[r] = "filled"
      BY <2>5, ToEffect DEF FillTemp, Points, Active
    <3>2. \A f \in Files \ {r} : disk'[f] = disk[f]
      BY <2>5 DEF FillTemp
    <3> QED
      BY <2>1, <3>1, <3>2 DEF Files
  <2>6. CASE RenameTemp(r)
    <3>1. disk'[r] = NoFile /\ disk'[File(r)] = Entity[r]
      BY <2>6 DEF RenameTemp
    <3>2. \A f \in Files \ {r, File(r)} : disk'[f] = disk[f]
      BY <2>6 DEF RenameTemp
    <3>3. Entity[r].id = File(r)
      BY DEF File
    <3>4. Requests \cap Ids = {}
      BY RegistryAssumption
    <3> QED
      BY <2>1, <3>1, <3>2, <3>3, <3>4 DEF Files
  <2>7. CASE WriteFails(r)
    <3>1. disk'[r] = NoFile /\ \A f \in Files \ {r} : disk'[f] = disk[f]
      BY <2>7 DEF WriteFails
    <3> QED
      BY <2>1, <3>1 DEF Files
  <2>8. CASE Unlink(r)
    <3>1. /\ disk'[File(r)] = NoFile /\ \A f \in Files \ {File(r)} : disk'[f] = disk[f]
          /\ pc[r] = "new"
      BY <2>8 DEF Unlink, Turn
    <3>2. Requests \cap Ids = {}
      BY RegistryAssumption
    <3> QED
      BY <2>1, <3>1, <3>2 DEF Files
  <2>9. CASE Rollback(r)
    <3>1. /\ disk'[File(r)] = saved[r] /\ \A f \in Files \ {File(r)} : disk'[f] = disk[f]
          /\ pc[r] = "rollback"
      BY <2>9 DEF Rollback, Turn
    <3>2. Requests \cap Ids = {}
      BY RegistryAssumption
    <3>3. saved[r] # NoFile => saved[r] \in Entities /\ saved[r].id = File(r)
      BY <3>1 DEF WritesProgress, Progress, Active
    <3> QED
      BY <2>1, <3>1, <3>2, <3>3 DEF Files
  <2> QED
    BY <1>2, <2>3, <2>4, <2>5, <2>6, <2>7, <2>8, <2>9 DEF Write
<1>3. ASSUME NEW p \in Processes, ReloadElsewhere(p) PROVE FilesInPlace'
  BY <1>3 DEF ReloadElsewhere, FilesInPlace
<1>4. CASE HandEdit
  <2>1. \A f \in Ids \cup Requests : disk'[f] = disk[f]
    BY <1>4, RegistryAssumption DEF HandEdit, Type, Files
  <2> QED
    BY <1>4, <2>1 DEF HandEdit, FilesInPlace
<1>5. CASE Crash
  BY <1>5, CrashEffect DEF Crash, FilesInPlace, Active
<1>6. CASE Restart
  BY <1>6 DEF Restart, FilesInPlace
<1> QED
  BY <1>1, <1>2, <1>3, <1>4, <1>5, <1>6 DEF Next

-----------------------------------------------------------------------------
(* The API's memory and the directory.                                      *)

LEMMA InStepStep ==
  Type /\ OneAtATime /\ FilesInPlace /\ InStep /\ [Next]_vars => InStep'
<1> SUFFICES ASSUME Type, OneAtATime, FilesInPlace, InStep, [Next]_vars PROVE InStep'
  OBVIOUS
<1>1. CASE UNCHANGED vars
  BY <1>1 DEF vars, InStep, Idle, Without
<1>2. ASSUME NEW r \in Requests, Write(r) PROVE InStep'
  <2>1. /\ \A q \in Requests \ {r} : pc'[q] \notin Active /\ pc[q] \notin Active
        /\ up' = up
    BY <1>2, Alone, WriteMoves
  <2>2. \A q \in Requests : pc'[q] \in {"temp", "filled"} => q = r
    BY <2>1 DEF Active
  <2>3. CASE Refuse(r)
    <3>1. /\ pc'[r] = "refused" /\ Idle
          /\ disk' = disk /\ memory' = memory /\ edited' = edited
      BY <2>3, ToEffect DEF Refuse, Points, Answers, Turn
    <3> QED
      BY <2>1, <2>2, <3>1 DEF InStep
  <2>4. CASE MakeTemp(r)
    <3>1. /\ pc'[r] = "temp" /\ memory' = memory /\ edited' = edited /\ Idle
      BY <2>4, ToEffect DEF MakeTemp, Points, Active, Turn
    <3>2. disk[r] = NoFile
      BY <2>4 DEF MakeTemp, Turn, FilesInPlace
    <3>3. Without(r)' = disk
      BY <2>4, <3>2, FileOf DEF MakeTemp, Without, Type
    <3>4. ~Idle'
      BY <3>1 DEF Idle, Active
    <3> QED
      BY <2>1, <2>2, <3>1, <3>3, <3>4 DEF InStep
  <2>5. CASE FillTemp(r)
    <3>1. pc[r] = "temp" /\ pc'[r] = "filled" /\ memory' = memory /\ edited' = edited
      BY <2>5, ToEffect DEF FillTemp, Points, Active, Turn
    <3>2. Without(r)' = Without(r)
      BY <2>5 DEF FillTemp, Without, Type
    <3>3. ~Idle'
      BY <3>1 DEF Idle, Active
    <3> QED
      BY <2>1, <2>2, <3>1, <3>2, <3>3 DEF InStep
  <2>6. CASE RenameTemp(r) \/ Unlink(r) \/ ReloadFails(r) \/ Rollback(r)
    <3>1. pc'[r] \in {"reload", "rollback", "reload again"}
      BY <2>6, ToEffect DEF RenameTemp, Unlink, ReloadFails, Rollback, Points, Active
    <3>2. ~Idle'
      BY <3>1 DEF Idle, Active
    <3> QED
      BY <2>2, <3>1, <3>2 DEF InStep
  <2>7. CASE WriteFails(r)
    <3>1. /\ pc[r] \in {"temp", "filled"} /\ pc'[r] = "error"
          /\ memory' = memory /\ edited' = edited /\ disk' = Without(r)
      BY <2>7, ToEffect DEF WriteFails, Points, Answers, Without
    <3> QED
      BY <2>1, <2>2, <3>1 DEF InStep
  <2>8. CASE Reload(r) \/ ReloadAgain(r)
    <3>1. memory'[API] = Read(disk) /\ disk' = disk
      BY <2>8, SwapEffect, ApiIsProcess DEF Reload, ReloadAgain
    <3>2. pc'[r] \notin Active
      <4>1. CASE Reload(r)
        BY <4>1, ToEffect, DoneIsAnswer DEF Reload
      <4>2. CASE ReloadAgain(r)
        <5>1. pc'[r] = "unprocessable"
          BY <4>2, ToEffect DEF ReloadAgain, Points, Answers
        <5> QED
          BY <5>1 DEF Active
      <4> QED
        BY <2>8, <4>1, <4>2
    <3> QED
      BY <2>2, <3>1, <3>2 DEF InStep, Active
  <2>9. CASE RollbackFails(r)
    <3>1. ~Valid(disk) /\ disk' = disk /\ pc'[r] = "error"
      BY <2>9, ToEffect DEF RollbackFails, Points, Answers
    <3> QED
      BY <2>2, <3>1 DEF InStep
  <2> QED
    BY <1>2, <2>3, <2>4, <2>5, <2>6, <2>7, <2>8, <2>9 DEF Write
<1>3. ASSUME NEW p \in Processes, ReloadElsewhere(p) PROVE InStep'
  <2>1. disk' = disk /\ pc' = pc /\ up' = up
    BY <1>3 DEF ReloadElsewhere
  <2>2. CASE p = API
    <3>1. memory'[API] = Read(disk) /\ Idle
      BY <1>3, <2>2, SwapEffect DEF ReloadElsewhere
    <3> QED
      BY <2>1, <3>1 DEF InStep, Idle, Active
  <2>3. CASE p # API
    <3>1. memory'[API] = memory[API] /\ edited' = edited
      BY <1>3, <2>3, SwapEffect, ApiIsProcess DEF ReloadElsewhere
    <3> QED
      BY <2>1, <3>1 DEF InStep, Idle, Without
  <2> QED
    BY <2>2, <2>3
<1>4. CASE HandEdit
  BY <1>4 DEF HandEdit, InStep
<1>5. CASE Crash
  BY <1>5 DEF Crash, InStep
<1>6. CASE Restart
  <2>1. memory'[API] = Read(disk) /\ disk' = disk /\ pc' = pc /\ ~up
    BY <1>6, SwapEffect, ApiIsProcess DEF Restart
  <2>2. Idle
    BY <2>1 DEF OneAtATime, Idle
  <2> QED
    BY <2>1, <2>2 DEF InStep, Idle, Active
<1> QED
  BY <1>1, <1>2, <1>3, <1>4, <1>5, <1>6 DEF Next

LEMMA LoadedKnown ==
  ASSUME Type, FilesInPlace, NEW i \in Ids, disk[i] # NoFile
  PROVE  \E e \in Read(disk) : e.id = i
<1>1. disk[i] \in Entities /\ disk[i].id = i /\ i \in Files
  BY DEF FilesInPlace, Files
<1>2. disk[i] \in Read(disk)
  BY <1>1, EntityShape DEF Read, Parsed
<1> QED
  BY <1>1, <1>2

LEMMA FilesKnownStep ==
  ASSUME Type, OneAtATime, FilesInPlace, FilesKnown, WritesProgress, [Next]_vars
  PROVE  FilesKnown'
<1>1. CASE UNCHANGED vars
  BY <1>1 DEF vars, FilesKnown, Known
<1>2. ASSUME memory'[API] = Read(disk), disk' = disk PROVE FilesKnown'
  BY <1>2, LoadedKnown DEF FilesKnown, Known
<1>3. ASSUME NEW r \in Requests, Write(r) PROVE FilesKnown'
  <2>1. /\ \A q \in Requests \ {r} : pc[q] \notin Active /\ pc'[q] = pc[q]
        /\ up
    BY <1>3, Alone, WriteMoves DEF OneAtATime
  <2>2. \A i \in Ids \ {File(r)} : disk[i] # NoFile => Known(i)
    BY <2>1 DEF FilesKnown, Active
  <2>3. pc[r] \notin {"reload", "rollback"} => \A i \in Ids : disk[i] # NoFile => Known(i)
    BY <2>1 DEF FilesKnown, Active
  <2>4. CASE Refuse(r) \/ RollbackFails(r)
    <3>1. disk' = disk /\ memory' = memory /\ pc[r] \notin {"reload", "rollback"}
      BY <2>4 DEF Refuse, RollbackFails, Turn
    <3> QED
      BY <2>3, <3>1 DEF FilesKnown, Known
  <2>5. CASE MakeTemp(r) \/ FillTemp(r) \/ WriteFails(r)
    <3>1. \A f \in Files \ {r} : disk'[f] = disk[f]
      BY <2>5 DEF MakeTemp, FillTemp, WriteFails, Type
    <3>2. memory' = memory /\ pc[r] \notin {"reload", "rollback"}
      BY <2>5 DEF MakeTemp, FillTemp, WriteFails, Turn
    <3>3. r \notin Ids
      BY FileOf
    <3> QED
      BY <2>3, <3>1, <3>2, <3>3 DEF FilesKnown, Known, Files
  <2>6. CASE RenameTemp(r)
    <3>1. \A f \in Files \ {r, File(r)} : disk'[f] = disk[f]
      BY <2>6 DEF RenameTemp, Type
    <3>2. memory' = memory /\ pc'[r] = "reload"
      BY <2>6, ToEffect DEF RenameTemp, Points, Active
    <3>3. r \notin Ids
      BY FileOf
    <3> QED
      BY <2>2, <3>1, <3>2, <3>3 DEF FilesKnown, Known, Files
  <2>7. CASE Unlink(r)
    <3>1. disk'[File(r)] = NoFile /\ \A f \in Files \ {File(r)} : disk'[f] = disk[f]
      BY <2>7, FileOf DEF Unlink, Type
    <3>2. memory' = memory
      BY <2>7 DEF Unlink
    <3> QED
      BY <2>2, <3>1, <3>2 DEF FilesKnown, Known, Files
  <2>8. CASE Reload(r) \/ ReloadAgain(r)
    <3>1. memory'[API] = Read(disk) /\ disk' = disk
      BY <2>8, SwapEffect, ApiIsProcess DEF Reload, ReloadAgain
    <3> QED
      BY <1>2, <3>1
  <2>9. CASE ReloadFails(r)
    <3>1. disk' = disk /\ memory' = memory /\ pc'[r] = "rollback"
      BY <2>9, ToEffect DEF ReloadFails, Points, Active
    <3> QED
      BY <2>2, <3>1 DEF FilesKnown, Known
  <2>10. CASE Rollback(r)
    <3>1. /\ disk'[File(r)] = saved[r] /\ \A f \in Files \ {File(r)} : disk'[f] = disk[f]
          /\ pc[r] = "rollback" /\ memory' = memory
      BY <2>10, FileOf DEF Rollback, Turn, Type
    <3>2. saved[r] # NoFile => Known(File(r))
      BY <3>1, RegistryAssumption DEF WritesProgress, Progress, Active
    <3> QED
      BY <2>2, <3>1, <3>2 DEF FilesKnown, Known, Files
  <2> QED
    BY <1>3, <2>4, <2>5, <2>6, <2>7, <2>8, <2>9, <2>10 DEF Write
<1>4. ASSUME NEW p \in Processes, ReloadElsewhere(p) PROVE FilesKnown'
  <2>1. CASE p = API
    <3>1. memory'[API] = Read(disk) /\ disk' = disk
      BY <1>4, <2>1, SwapEffect DEF ReloadElsewhere
    <3> QED
      BY <1>2, <3>1
  <2>2. CASE p # API
    <3>1. memory'[API] = memory[API] /\ disk' = disk /\ pc' = pc /\ up' = up
      BY <1>4, <2>2, SwapEffect, ApiIsProcess DEF ReloadElsewhere
    <3> QED
      BY <3>1 DEF FilesKnown, Known
  <2> QED
    BY <2>1, <2>2
<1>5. CASE HandEdit
  <2>1. \A f \in Ids : disk'[f] = disk[f]
    BY <1>5, RegistryAssumption DEF HandEdit, Type, Files
  <2> QED
    BY <1>5, <2>1 DEF HandEdit, FilesKnown, Known
<1>6. CASE Crash
  BY <1>6 DEF Crash, FilesKnown
<1>7. CASE Restart
  <2>1. memory'[API] = Read(disk) /\ disk' = disk
    BY <1>7, SwapEffect, ApiIsProcess DEF Restart
  <2> QED
    BY <1>2, <2>1
<1> QED
  BY <1>1, <1>3, <1>4, <1>5, <1>6, <1>7 DEF Next

-----------------------------------------------------------------------------
(* What a write under way has done.                                         *)

\* A request that does not move, while neither its file nor the API's memory
\* changes, stands where it stood.
LEMMA ProgressKept ==
  ASSUME NEW q \in Requests, Progress(q), pc'[q] = pc[q],
         saved'[q] = saved[q], found'[q] = found[q],
         pc[q] \in Active => memory'[API] = memory[API] /\ disk'[File(q)] = disk[File(q)]
  PROVE  Progress(q)'
BY DEF Progress, Known, Active, File

LEMMA ProgressStep ==
  ASSUME Type, OneAtATime, FilesInPlace, FilesKnown, WritesProgress, [Next]_vars
  PROVE  WritesProgress'
<1>1. CASE UNCHANGED vars
  BY <1>1, ProgressKept DEF vars, WritesProgress
<1>2. ASSUME NEW r \in Requests, Write(r) PROVE WritesProgress'
  <2>1. \A q \in Requests \ {r} : pc[q] \notin Active /\ pc'[q] = pc[q]
    BY <1>2, Alone
  <2>2. \A q \in Requests \ {r} : saved'[q] = saved[q] /\ found'[q] = found[q]
    BY <1>2 DEF Write, Refuse, MakeTemp, FillTemp, RenameTemp, WriteFails, Unlink, Reload,
                ReloadFails, Rollback, ReloadAgain, RollbackFails, Type
  <2>3. \A q \in Requests \ {r} : Progress(q)'
    BY <2>1, <2>2, ProgressKept DEF WritesProgress
  <2>4. Progress(r)
    BY DEF WritesProgress
  <2>5. Verb[r] \in {"create", "update", "delete"}
    BY RegistryAssumption
  <2>6. CASE Refuse(r) \/ WriteFails(r) \/ Reload(r) \/ ReloadAgain(r) \/ RollbackFails(r)
    <3>1. pc'[r] \notin Active \cup {"new"}
      <4>1. CASE Reload(r)
        BY <4>1, ToEffect, DoneIsAnswer DEF Reload
      <4>2. CASE Refuse(r) \/ WriteFails(r) \/ ReloadAgain(r) \/ RollbackFails(r)
        <5>1. pc'[r] \in {"refused", "error", "unprocessable"}
          BY <4>2, ToEffect DEF Refuse, WriteFails, ReloadAgain, RollbackFails, Points, Answers
        <5> QED
          BY <5>1 DEF Active
      <4> QED
        BY <2>6, <4>1, <4>2
    <3>2. Progress(r)'
      BY <3>1 DEF Progress, Active
    <3> QED
      BY <2>3, <3>2 DEF WritesProgress
  <2>7. CASE MakeTemp(r)
    <3>1. /\ pc[r] = "new" /\ pc'[r] = "temp" /\ Idle /\ up /\ memory' = memory
          /\ found'[r] = disk[File(r)]
          /\ saved'[r] = (IF Verb[r] = "update" THEN disk[File(r)] ELSE NoFile)
      BY <2>7, ToEffect DEF MakeTemp, Turn, Points, Active, Type
    <3>2. Verb[r] # "delete" /\ ~Refused(r)
      BY <2>7 DEF MakeTemp
    <3>3. Known(File(r)) <=> Verb[r] # "create"
      BY <2>5, <3>2 DEF Refused, File
    <3>4. disk[File(r)] # NoFile => Known(File(r))
      BY <3>1, FileOf DEF FilesKnown, Idle, Active
    <3>5. disk[File(r)] # NoFile => disk[File(r)] \in Entities /\ disk[File(r)].id = File(r)
      BY FileOf DEF FilesInPlace
    <3>6. Progress(r)'
      BY <2>5, <3>1, <3>2, <3>3, <3>4, <3>5 DEF Progress, Known, File
    <3> QED
      BY <2>3, <3>6 DEF WritesProgress
  <2>8. CASE FillTemp(r)
    <3>1. /\ pc[r] = "temp" /\ pc'[r] = "filled" /\ memory' = memory
          /\ saved' = saved /\ found' = found
      BY <2>8, ToEffect DEF FillTemp, Turn, Points, Active
    <3>2. Progress(r)'
      BY <2>4, <3>1 DEF Progress, Known, Active, File
    <3> QED
      BY <2>3, <3>2 DEF WritesProgress
  <2>9. CASE RenameTemp(r)
    <3>1. /\ pc[r] = "filled" /\ pc'[r] = "reload" /\ memory' = memory
          /\ saved' = saved /\ found' = found
      BY <2>9, ToEffect DEF RenameTemp, Turn, Points, Active
    <3>2. disk'[File(r)] = Entity[r]
      BY <2>9, FileOf DEF RenameTemp, Type
    <3>3. Verb[r] # "delete"
      BY <2>4, <3>1 DEF Progress, Active
    <3>4. Progress(r)'
      BY <2>4, <3>1, <3>2, <3>3 DEF Progress, Known, Active, File
    <3> QED
      BY <2>3, <3>4 DEF WritesProgress
  <2>10. CASE Unlink(r)
    <3>1. /\ pc[r] = "new" /\ pc'[r] = "reload" /\ Verb[r] = "delete" /\ saved' = saved
      BY <2>10, ToEffect DEF Unlink, Turn, Points, Active
    <3>2. disk'[File(r)] = NoFile
      BY <2>10, FileOf DEF Unlink, Type
    <3>3. Progress(r)'
      BY <2>4, <3>1, <3>2 DEF Progress, Active, File
    <3> QED
      BY <2>3, <3>3 DEF WritesProgress
  <2>11. CASE ReloadFails(r)
    <3>1. /\ pc[r] = "reload" /\ pc'[r] = "rollback" /\ memory' = memory /\ disk' = disk
          /\ saved' = saved /\ found' = found
      BY <2>11, ToEffect DEF ReloadFails, Turn, Points, Active
    <3>2. Progress(r)'
      BY <2>4, <3>1 DEF Progress, Known, Active, File
    <3> QED
      BY <2>3, <3>2 DEF WritesProgress
  <2>12. CASE Rollback(r)
    <3>1. /\ pc[r] = "rollback" /\ pc'[r] = "reload again" /\ memory' = memory
          /\ saved' = saved /\ found' = found
      BY <2>12, ToEffect DEF Rollback, Turn, Points, Active
    <3>2. disk'[File(r)] = saved[r]
      BY <2>12, FileOf DEF Rollback, Type
    <3>3. Progress(r)'
      BY <2>4, <2>5, <3>1, <3>2 DEF Progress, Known, Active, File
    <3> QED
      BY <2>3, <3>3 DEF WritesProgress
  <2> QED
    BY <1>2, <2>6, <2>7, <2>8, <2>9, <2>10, <2>11, <2>12 DEF Write
<1>3. ASSUME NEW p \in Processes, ReloadElsewhere(p) PROVE WritesProgress'
  <2>1. /\ disk' = disk /\ pc' = pc /\ saved' = saved /\ found' = found
        /\ \A r \in Requests : pc[r] \in Active => p # API
    BY <1>3 DEF ReloadElsewhere, Idle
  <2>2. \A r \in Requests : pc[r] \in Active => memory'[API] = memory[API]
    BY <1>3, <2>1, SwapEffect, ApiIsProcess DEF ReloadElsewhere
  <2> QED
    BY <2>1, <2>2, ProgressKept DEF WritesProgress
<1>4. CASE HandEdit
  <2>1. \A f \in Ids : disk'[f] = disk[f]
    BY <1>4, RegistryAssumption DEF HandEdit, Type, Files
  <2> QED
    BY <1>4, <2>1, ProgressKept, FileOf DEF HandEdit, WritesProgress
<1>5. CASE Crash
  <2>1. \A r \in Requests : Progress(r)'
    <3> TAKE r \in Requests
    <3>1. pc'[r] \notin Active /\ (pc'[r] = "new" => pc[r] = "new") /\ saved' = saved
      BY <1>5, CrashEffect DEF Crash
    <3> QED
      BY <3>1 DEF Progress, Active, WritesProgress
  <2> QED
    BY <2>1 DEF WritesProgress
<1>6. CASE Restart
  <2>1. /\ disk' = disk /\ pc' = pc /\ saved' = saved /\ found' = found
        /\ \A r \in Requests : pc[r] \notin Active
    BY <1>6 DEF Restart, OneAtATime
  <2> QED
    BY <2>1, ProgressKept DEF WritesProgress
<1> QED
  BY <1>1, <1>2, <1>3, <1>4, <1>5, <1>6 DEF Next

-----------------------------------------------------------------------------
(* Every registry was loaded as a whole.                                    *)

LEMMA SwapKeepsReferences ==
  ASSUME Type, RegistriesLoaded, Valid(disk), NEW p \in Processes, Swap(p)
  PROVE  RegistriesLoaded'
<1>1. CrossReferences(Read(disk))
  BY DEF Valid
<1>2. memory'[p] = Read(disk) /\ \A q \in Processes \ {p} : memory'[q] = memory[q]
  BY SwapEffect
<1> QED
  BY <1>1, <1>2 DEF RegistriesLoaded

LEMMA RegistriesStep == Type /\ RegistriesLoaded /\ [Next]_vars => RegistriesLoaded'
<1> SUFFICES ASSUME Type, RegistriesLoaded, [Next]_vars PROVE RegistriesLoaded'
  OBVIOUS
<1>1. memory' = memory => RegistriesLoaded'
  BY DEF RegistriesLoaded
<1>2. ASSUME NEW r \in Requests, Write(r) PROVE RegistriesLoaded'
  <2>1. CASE Reload(r) \/ ReloadAgain(r)
    BY <2>1, SwapKeepsReferences, ApiIsProcess DEF Reload, ReloadAgain
  <2>2. CASE ~(Reload(r) \/ ReloadAgain(r))
    BY <1>1, <1>2, <2>2 DEF Write, Refuse, MakeTemp, FillTemp, RenameTemp, WriteFails, Unlink,
                            ReloadFails, Rollback, RollbackFails
  <2> QED
    BY <2>1, <2>2
<1>3. ASSUME NEW p \in Processes, ReloadElsewhere(p) PROVE RegistriesLoaded'
  BY <1>3, SwapKeepsReferences DEF ReloadElsewhere
<1>4. CASE HandEdit \/ Crash \/ UNCHANGED vars
  BY <1>1, <1>4 DEF HandEdit, Crash, vars
<1>5. CASE Restart
  BY <1>5, SwapKeepsReferences, ApiIsProcess DEF Restart
<1> QED
  BY <1>2, <1>3, <1>4, <1>5 DEF Next

-----------------------------------------------------------------------------
(* The theorems.                                                            *)

LEMMA InitDisk ==
  ASSUME Init
  PROVE  /\ CrossReferences(Read(disk))
         /\ \A i \in Ids : disk[i] # NoFile => disk[i] \in Entities /\ disk[i].id = i
         /\ \A r \in Requests : disk[r] = NoFile
<1>1. PICK es \in SUBSET Entities :
        /\ CrossReferences(es)
        /\ \A e, f \in es : e.id = f.id => e = f
        /\ disk = [f \in Files |-> IF \E e \in es : e.id = f
                                   THEN CHOOSE e \in es : e.id = f ELSE NoFile]
  BY DEF Init
<1>2. \A f \in Files : disk[f] # NoFile => disk[f] \in es /\ disk[f].id = f
  BY <1>1
<1>3. \A e \in es : e.id \in Files /\ disk[e.id] = e
  <2> TAKE e \in es
  <2>1. e.id \in Ids
    BY EntityShape
  <2>2. e.id \in Files
    BY <2>1 DEF Files
  <2>3. (CHOOSE x \in es : x.id = e.id) = e
    BY <1>1
  <2> QED
    BY <1>1, <2>2, <2>3
<1>4. Read(disk) = es
  <2>1. \A e \in es : e \notin {NoFile, Empty}
    BY EntityShape
  <2> QED
    BY <1>2, <1>3, <2>1 DEF Read, Parsed
<1>5. \A r \in Requests : disk[r] = NoFile
  BY <1>2, FileOf, EntityShape
<1> QED
  BY <1>1, <1>2, <1>4, <1>5 DEF Files

LEMMA InitIInv == Init => IInv
<1> SUFFICES ASSUME Init PROVE IInv
  OBVIOUS
<1>1. Type
  BY InitType
<1>2. OneAtATime
  BY DEF Init, OneAtATime, Active
<1>3. FilesInPlace
  BY InitDisk DEF FilesInPlace
<1>4. memory[API] = Read(disk)
  BY ApiIsProcess DEF Init
<1>5. InStep
  BY <1>4 DEF Init, InStep
<1>6. FilesKnown
  BY <1>1, <1>3, <1>4, LoadedKnown DEF FilesKnown, Known
<1>7. WritesProgress
  BY DEF Init, WritesProgress, Progress, Active
<1>8. RegistriesLoaded
  BY InitDisk DEF Init, RegistriesLoaded
<1> QED
  BY <1>1, <1>2, <1>3, <1>5, <1>6, <1>7, <1>8 DEF IInv

LEMMA IInvStep == IInv /\ [Next]_vars => IInv'
BY TypeStep, OneAtATimeStep, FilesInPlaceStep, InStepStep, FilesKnownStep, ProgressStep,
   RegistriesStep
DEF IInv

\* The invariant holds in every reachable state of the registry.
THEOREM Invariance == Spec => []IInv
BY InitIInv, IInvStep, PTL DEF Spec

LEMMA AtMostOneActive ==
  ASSUME OneAtATime
  PROVE  Cardinality({r \in Requests : pc[r] \in Active}) <= 1
<1> DEFINE A == {r \in Requests : pc[r] \in Active}
<1>1. CASE A = {}
  BY <1>1, FS_EmptySet
<1>2. ASSUME NEW r \in A PROVE Cardinality(A) <= 1
  <2>1. A = {r}
    BY <1>2 DEF OneAtATime
  <2> QED
    BY <2>1, FS_Singleton
<1> QED
  BY <1>1, <1>2

\* Whatever writes fail, are rolled back or die half done, an API at rest that
\* nobody edited behind has in memory what the directory says
\* (admin_routes.py:635); in particular at most one write is at work and every
\* file holds what it may.
THEOREM RegistryCurrency == Spec => []RegistryIsCurrent
<1>1. IInv => RegistryIsCurrent
  BY AtMostOneActive DEF IInv, Type, InStep, RegistryIsCurrent, TypeOK
<1> QED
  BY <1>1, Invariance, PTL

\* No process ever holds a registry with two bindings for one target, or a
\* binding without its source: the checks of IntegrationRegistry.load cover
\* every way into memory.
THEOREM NoTwoWriters == Spec => []OneWriterPerTarget
<1>1. IInv => OneWriterPerTarget
  BY DEF IInv, RegistriesLoaded, CrossReferences, OneWriterPerTarget
<1> QED
  BY <1>1, Invariance, PTL

\* A step of a write that answers the caller keeps the contract of the routes.
Contract(r) ==
    pc[r] # pc'[r] =>
          /\ pc'[r] = "unprocessable" /\ Verb[r] # "delete" => disk'[File(r)] = found[r]
          /\ pc'[r] \in {"created", "updated"} =>
                disk'[File(r)] = Entity[r] /\ Entity[r] \in memory'[API]
          /\ pc'[r] = "deleted" =>
                /\ disk'[File(r)] = NoFile
                /\ \A e \in memory'[API] : e.id = File(r) =>
                      \E f \in Hand \cup {q \in Requests : pc[q] = "lost"} : disk[f] = e

LEMMA ReloadKeepsContract ==
  ASSUME IInv, NEW r \in Requests, Reload(r)
  PROVE  Contract(r)
<1> USE DEF IInv
<1>1. memory'[API] = Read(disk) /\ disk' = disk /\ pc[r] = "reload" /\ pc'[r] = Done(r)
  BY SwapEffect, ApiIsProcess, DoneIsAnswer, ToEffect DEF Reload, Turn
<1>2. Progress(r) /\ Verb[r] \in {"create", "update", "delete"}
  BY RegistryAssumption DEF WritesProgress
<1>3. CASE Verb[r] # "delete"
  <2>1. disk[File(r)] = Entity[r]
    BY <1>1, <1>2, <1>3 DEF Progress
  <2>2. Entity[r] \in Read(disk)
    BY <2>1, FileOf, EntityShape DEF Read, Parsed
  <2>3. pc'[r] \in {"created", "updated"}
    BY <1>1, <1>2, <1>3 DEF Done
  <2> QED
    BY <1>1, <2>1, <2>2, <2>3 DEF Contract
<1>4. CASE Verb[r] = "delete"
  <2>1. disk[File(r)] = NoFile
    BY <1>1, <1>2, <1>4 DEF Progress
  <2>2. ASSUME NEW e \in Read(disk), e.id = File(r)
        PROVE  \E f \in Hand \cup {q \in Requests : pc[q] = "lost"} : disk[f] = e
    <3>1. PICK f \in Files : disk[f] = e /\ disk[f] # NoFile
      BY DEF Read, Parsed
    <3>2. f \notin Ids
      BY <2>1, <2>2, <3>1 DEF FilesInPlace
    <3>3. f \in Requests => pc[f] = "lost"
      <4>1. f \in Requests => pc[f] \in {"temp", "filled", "lost"}
        BY <3>1 DEF FilesInPlace
      <4> QED
        BY <1>1, <4>1 DEF OneAtATime, Active
    <3> QED
      BY <3>1, <3>2, <3>3 DEF Files
  <2>3. pc'[r] = "deleted"
    BY <1>1, <1>2, <1>4 DEF Done
  <2> QED
    BY <1>1, <2>1, <2>2, <2>3 DEF Contract
<1> QED
  BY <1>3, <1>4

\* Every answer of the write routes tells the truth about the disk and the
\* memory of the API: a refused reload leaves the file as it was, a success is
\* on the disk and in memory (the docstring of admin_routes.py), whatever is
\* edited, reloaded or crashes meanwhile.
THEOREM WritesAreAtomic == Spec => AtomicityContract
<1>1. ASSUME IInv, [Next]_vars, NEW r \in Requests PROVE Contract(r)
  <2> USE <1>1 DEF IInv
  <2>1. CASE \/ HandEdit \/ Restart \/ UNCHANGED vars
             \/ \E p \in Processes : ReloadElsewhere(p)
    BY <2>1 DEF HandEdit, Restart, ReloadElsewhere, vars, Contract
  <2>2. CASE Crash
    <3>1. pc[r] # pc'[r] => pc'[r] = "lost"
      BY <2>2, CrashEffect
    <3> QED
      BY <3>1 DEF Contract
  <2>3. ASSUME NEW q \in Requests \ {r}, Write(q) PROVE Contract(r)
    BY <2>3, WriteMoves DEF Contract
  <2>4. CASE Write(r)
    <3>1. CASE Reload(r)
      BY <3>1, ReloadKeepsContract
    <3>2. CASE ReloadAgain(r)
      <4>1. pc[r] = "reload again" /\ pc'[r] = "unprocessable" /\ disk' = disk
        BY <3>2, ToEffect DEF ReloadAgain, Turn, Points, Answers
      <4>2. Verb[r] # "delete" => disk[File(r)] = found[r]
        BY <4>1 DEF WritesProgress, Progress
      <4> QED
        BY <4>1, <4>2 DEF Contract
    <3>3. CASE ~(Reload(r) \/ ReloadAgain(r))
      <4>1. pc'[r] \in {"refused", "error"} \cup Active
        BY <2>4, <3>3, ToEffect
           DEF Write, Refuse, MakeTemp, FillTemp, RenameTemp, WriteFails, Unlink, ReloadFails,
               Rollback, RollbackFails, Points, Active, Answers
      <4> QED
        BY <4>1 DEF Contract, Active
    <3> QED
      BY <3>1, <3>2, <3>3
  <2> QED
    BY <2>1, <2>2, <2>3, <2>4 DEF Next
<1>2. IInv /\ [Next]_vars => [\A r \in Requests : Contract(r)]_vars
  BY <1>1
<1>3. [][\A r \in Requests : Contract(r)]_vars => AtomicityContract
  BY PTL DEF Contract, AtomicityContract
<1> QED
  BY <1>2, <1>3, Invariance, PTL DEF Spec
=============================================================================
