--------------------------- MODULE IngestionProofs ---------------------------
EXTENDS IngestionInv, TLAPS

LEMMA InitType == Init => TypeOK /\ Triggered
BY IngestionAssumption
DEF Init, TypeOK, Triggered, Loads, Requests, Terminal, Failures, Verdicts, ProgramPoints, NoLoad

Table == [Bindings -> [Slices -> SUBSET Loads]]

LEMMA Place ==
  ASSUME TypeOK, Triggered, NEW l \in Loads, pc[l] # "new"
  PROVE  B(l) \in Bindings /\ P(l) \in Slices
BY DEF Triggered, Requests, B, P

LEMMA ClearType ==
  ASSUME staging \in Table, NEW l \in Loads, B(l) \in Bindings, P(l) \in Slices
  PROVE  ClearSlice(l) \in Table
BY DEF ClearSlice, Table

LEMMA ClearEffect ==
  ASSUME TypeOK, NEW l \in Loads
  PROVE  \A b \in Bindings, p \in Slices :
           ClearSlice(l)[b][p] = IF b = B(l) /\ p = P(l) THEN {} ELSE staging[b][p]
BY DEF ClearSlice, TypeOK

LEMMA InsertType ==
  ASSUME TypeOK, NEW l \in Loads, B(l) \in Bindings, InsertRows(l)
  PROVE  /\ data' \in [Loads -> {"none", "empty", "clean", "dirty"}]
         /\ staging' \in Table
BY DEF InsertRows, TypeOK, Table

LEMMA PromoteType ==
  ASSUME TypeOK, NEW l \in Loads, B(l) \in Bindings, P(l) \in Slices, Promote(l)
  PROVE  live' \in Table /\ staging' \in Table
BY DEF Promote, TypeOK, Table

LEMMA VerdictType ==
  ASSUME NEW S
  PROVE  VerdictOf(S) \in Verdicts
BY DEF VerdictOf, Verdicts

\* A stage that records an outcome ends at a program point, with a legal status.
LEMMA OutcomeType ==
  ASSUME TypeOK, NEW l \in Loads, NEW from, NEW s \in Terminal, Outcome(l, from, s)
  PROVE  /\ pc[l] = from
         /\ pc' \in [Loads -> ProgramPoints] /\ pc' = [pc EXCEPT ![l] = pc'[l]]
         /\ outcome' \in [Loads -> Terminal \cup {"none"}]
<1>1. pc[l] = from /\ pc' = [pc EXCEPT ![l] = "finalise"]
  BY DEF Outcome, Goto
<1>2. pc' \in [Loads -> ProgramPoints] /\ pc' = [pc EXCEPT ![l] = pc'[l]]
  <2>1. pc \in [Loads -> ProgramPoints] /\ "finalise" \in ProgramPoints
    BY DEF TypeOK, ProgramPoints, Held
  <2> QED
    BY <1>1, <2>1
<1>3. outcome' \in [Loads -> Terminal \cup {"none"}]
  <2>1. outcome' = [outcome EXCEPT ![l] = s]
    BY DEF Outcome
  <2>2. outcome \in [Loads -> Terminal \cup {"none"}]
    BY DEF TypeOK
  <2> QED
    BY <2>1, <2>2
<1> QED
  BY <1>1, <1>2, <1>3

\* A load that was triggered stays so, whatever it does next.
LEMMA TriggeredKept ==
  ASSUME TypeOK, Triggered, NEW l \in Loads, pc[l] # "new",
         pc' = [pc EXCEPT ![l] = pc'[l]], nextLoad' = nextLoad, req' = req
  PROVE  Triggered'
BY DEF TypeOK, Triggered

LEMMA TypeStep == TypeOK /\ Triggered /\ [Next]_vars => TypeOK' /\ Triggered'
<1> SUFFICES ASSUME TypeOK, Triggered, [Next]_vars PROVE TypeOK' /\ Triggered'
  OBVIOUS
<1> USE IngestionAssumption DEF TypeOK, Triggered, Goto, warehouse, history, B, P,
    ProgramPoints, Held, Terminal, Failures, Verdicts
<1>1. CASE UNCHANGED vars
  BY <1>1 DEF vars, process
<1>2. ASSUME NEW l \in Loads, Start(l) PROVE TypeOK' /\ Triggered'
  BY <1>2 DEF Start, Loads, Requests
<1>3. ASSUME NEW l \in Loads, Acquire(l) PROVE TypeOK' /\ Triggered'
  BY <1>3 DEF Acquire
<1>4. ASSUME NEW l \in Loads, GiveUp(l) PROVE TypeOK' /\ Triggered'
  BY <1>4 DEF GiveUp
<1>5. ASSUME NEW l \in Loads, FindRunning(l) PROVE TypeOK' /\ Triggered'
  BY <1>5 DEF FindRunning, RunningFor
<1>6. ASSUME NEW l \in Loads, Refuse(l) PROVE TypeOK' /\ Triggered'
  BY <1>6 DEF Refuse
<1>7. ASSUME NEW l \in Loads, ClearStaging(l) PROVE TypeOK' /\ Triggered'
  BY <1>7 DEF ClearStaging, ClearSlice
<1>8. ASSUME NEW l \in Loads, ExtractRows(l) PROVE TypeOK' /\ Triggered'
  <2>1. pc[l] # "new"
    BY <1>8 DEF ExtractRows
  <2>2. data' \in [Loads -> {"none", "empty", "clean", "dirty"}] /\ staging' \in Table
    BY <1>8, <2>1, Place, InsertType DEF ExtractRows
  <2> QED
    BY <1>8, <2>2 DEF ExtractRows, Table
<1>9. ASSUME NEW l \in Loads, ExtractNothing(l) PROVE TypeOK' /\ Triggered'
  BY <1>9 DEF ExtractNothing
<1>10. ASSUME NEW l \in Loads, ExtractFails(l) PROVE TypeOK' /\ Triggered'
  <2>1. pc[l] # "new"
    BY <1>10 DEF ExtractFails, Outcome
  <2>2. data' \in [Loads -> {"none", "empty", "clean", "dirty"}] /\ staging' \in Table
    BY <1>10, <2>1, Place, InsertType, ClearType DEF ExtractFails, Table
  <2>3. /\ pc' \in [Loads -> ProgramPoints] /\ pc' = [pc EXCEPT ![l] = pc'[l]]
        /\ outcome' \in [Loads -> Terminal \cup {"none"}]
    BY <1>10, OutcomeType DEF ExtractFails
  <2>4. TypeOK'
    BY <1>10, <2>2, <2>3 DEF ExtractFails, Table
  <2>5. Triggered'
    BY <1>10, <2>1, <2>3, TriggeredKept DEF ExtractFails
  <2> QED
    BY <2>4, <2>5
<1>11. ASSUME NEW l \in Loads, RecordExtract(l) PROVE TypeOK' /\ Triggered'
  <2>1. /\ pc' \in [Loads -> ProgramPoints] /\ pc' = [pc EXCEPT ![l] = pc'[l]]
        /\ outcome' \in [Loads -> Terminal \cup {"none"}]
    <3>1. CASE Outcome(l, "record", "success") \/ Outcome(l, "record", "failed_validation")
      BY <3>1, OutcomeType
    <3>2. CASE Goto(l, "record", "validate") /\ outcome' = outcome
      BY <3>2
    <3> QED
      BY <1>11, <3>1, <3>2 DEF RecordExtract
  <2>2. TypeOK'
    BY <1>11, <2>1 DEF RecordExtract
  <2>3. Triggered'
    BY <1>11, <2>1, TriggeredKept DEF RecordExtract
  <2> QED
    BY <2>2, <2>3
<1>12. ASSUME NEW l \in Loads, ValidateShape(l) PROVE TypeOK' /\ Triggered'
  BY <1>12 DEF ValidateShape, PassGate, Outcome
<1>13. ASSUME NEW l \in Loads, ValidateFails(l) PROVE TypeOK' /\ Triggered'
  BY <1>13 DEF ValidateFails, Outcome, Unwind
<1>14. ASSUME NEW l \in Loads, RunChecks(l) PROVE TypeOK' /\ Triggered'
  <2>1. PICK broken \in SUBSET Checks[B(l)] : RunChecksWith(l, broken)
    BY <1>14 DEF RunChecks
  <2>2. verdict' \in [Loads -> Verdicts] /\ erred' \in [Loads -> BOOLEAN]
    BY <2>1, VerdictType DEF RunChecksWith, VerdictWith
  <2>3. PassGate(l, "checks") \/ Outcome(l, "checks", "failed_checks")
    BY <2>1 DEF RunChecksWith
  <2>4. pc' = [pc EXCEPT ![l] = "replace"] \/ pc' = [pc EXCEPT ![l] = "finalise"]
    BY <2>3 DEF PassGate, Outcome
  <2>5. outcome' \in [Loads -> Terminal \cup {"none"}]
    <3>1. outcome' = outcome \/ \E s \in Terminal : Outcome(l, "checks", s)
      BY <2>3 DEF PassGate
    <3> QED
      BY <3>1, OutcomeType
  <2>6. pc' \in [Loads -> ProgramPoints] /\ pc' = [pc EXCEPT ![l] = pc'[l]]
    <3>1. pc \in [Loads -> ProgramPoints] /\ {"replace", "finalise"} \subseteq ProgramPoints
      OBVIOUS
    <3> HIDE DEF ProgramPoints, Held, TypeOK, Triggered
    <3> QED
      BY <2>4, <3>1
  <2>7. TypeOK'
    BY <2>1, <2>2, <2>5, <2>6 DEF RunChecksWith
  <2>8. Triggered'
    BY <1>14, <2>1, <2>6 DEF RunChecks, RunChecksWith
  <2> QED
    BY <2>7, <2>8
<1>15. ASSUME NEW l \in Loads, Replace(l) PROVE TypeOK' /\ Triggered'
  <2>1. live' \in Table /\ staging' \in Table
    BY <1>15, Place, PromoteType DEF Replace, Table
  <2> QED
    BY <1>15, <2>1 DEF Replace, Table
<1>16. ASSUME NEW l \in Loads, DropPromoted(l) PROVE TypeOK' /\ Triggered'
  BY <1>16 DEF DropPromoted, ClearSlice
<1>17. ASSUME NEW l \in Loads, SwapFails(l) PROVE TypeOK' /\ Triggered'
  <2>1. B(l) \in Bindings /\ P(l) \in Slices
    BY <1>17, Place DEF SwapFails, Outcome
  <2>2. staging \in Table /\ live \in Table /\ ClearSlice(l) \in Table
    BY <2>1, ClearType DEF Table
  <2>3. Promote(l) => live' \in Table /\ staging' \in Table
    BY <2>1, PromoteType
  <2>4. live' \in Table /\ staging' \in Table
    BY <1>17, <2>2, <2>3 DEF SwapFails
  <2>5. /\ pc[l] # "new"
        /\ pc' \in [Loads -> ProgramPoints] /\ pc' = [pc EXCEPT ![l] = pc'[l]]
        /\ outcome' \in [Loads -> Terminal \cup {"none"}]
    BY <1>17, OutcomeType DEF SwapFails
  <2>6. TypeOK'
    BY <1>17, <2>4, <2>5 DEF SwapFails, Table
  <2>7. Triggered'
    BY <1>17, <2>5, TriggeredKept DEF SwapFails
  <2> QED
    BY <2>6, <2>7
<1>18. ASSUME NEW l \in Loads, RecordSwap(l) PROVE TypeOK' /\ Triggered'
  BY <1>18 DEF RecordSwap, Outcome
<1>19. ASSUME NEW l \in Loads, Finalise(l) PROVE TypeOK' /\ Triggered'
  BY <1>19 DEF Finalise
<1>20. ASSUME NEW l \in Loads, Release(l) PROVE TypeOK' /\ Triggered'
  BY <1>20 DEF Release, FreeLock
<1>21. ASSUME NEW l \in Loads, HistoryWriteFails(l) PROVE TypeOK' /\ Triggered'
  <2>1. /\ pc[l] # "new"
        /\ pc' = [pc EXCEPT ![l] = "release"] \/ pc' = [pc EXCEPT ![l] = "done"]
    BY <1>21 DEF HistoryWriteFails, Unwind
  <2>2. swapped' \in [Loads -> BOOLEAN]
    BY <1>21 DEF HistoryWriteFails
  <2>3. pc' \in [Loads -> ProgramPoints] /\ pc' = [pc EXCEPT ![l] = pc'[l]]
    <3>1. pc \in [Loads -> ProgramPoints] /\ {"release", "done"} \subseteq ProgramPoints
      OBVIOUS
    <3> HIDE DEF ProgramPoints, Held, TypeOK, Triggered
    <3> QED
      BY <2>1, <3>1
  <2>4. TypeOK'
    BY <1>21, <2>2, <2>3 DEF HistoryWriteFails
  <2>5. Triggered'
    BY <1>21, <2>1, <2>3, TriggeredKept DEF HistoryWriteFails
  <2> QED
    BY <2>4, <2>5
<1>22. ASSUME NEW l \in Loads, Crash(l) PROVE TypeOK' /\ Triggered'
  BY <1>22 DEF Crash, FreeLock
<1>23. ASSUME NEW l \in Loads, LoseLock(l) PROVE TypeOK' /\ Triggered'
  BY <1>23 DEF LoseLock, FreeLock, process
<1> QED
  BY <1>1, <1>2, <1>3, <1>4, <1>5, <1>6, <1>7, <1>8, <1>9, <1>10, <1>11, <1>12, <1>13, <1>14, <1>15, <1>16, <1>17, <1>18, <1>19, <1>20, <1>21, <1>22, <1>23 DEF Next, Step
-----------------------------------------------------------------------------
LEMMA LockStep ==
  ASSUME TypeOK, Triggered, LockInv, "lockconn" \notin Faults, [Next]_vars
  PROVE  LockInv'
<1> USE IngestionAssumption DEF TypeOK, Triggered, LockInv, Goto, B, Held, NoLoad, Loads
<1>1. CASE UNCHANGED vars
  BY <1>1 DEF vars, process
<1>2. ASSUME NEW l \in Loads, Start(l) PROVE LockInv'
  <2>1. pc[l] = "new" /\ pc'[l] = "acquire" /\ lock' = lock
    BY <1>2 DEF Start
  <2>2. \A m \in Loads \ {l} : pc'[m] = pc[m] /\ req'[m] = req[m]
    BY <1>2 DEF Start
  <2> QED
    BY <2>1, <2>2
<1>3. ASSUME NEW l \in Loads, Acquire(l) PROVE LockInv'
  BY <1>3 DEF Acquire
<1>4. ASSUME NEW l \in Loads, GiveUp(l) PROVE LockInv'
  BY <1>4 DEF GiveUp
<1>5. ASSUME NEW l \in Loads, FindRunning(l) PROVE LockInv'
  BY <1>5 DEF FindRunning, RunningFor
<1>6. ASSUME NEW l \in Loads, Refuse(l) PROVE LockInv'
  BY <1>6 DEF Refuse
<1>7. ASSUME NEW l \in Loads, ClearStaging(l) PROVE LockInv'
  BY <1>7 DEF ClearStaging, ClearSlice
<1>8. ASSUME NEW l \in Loads, ExtractRows(l) PROVE LockInv'
  BY <1>8 DEF ExtractRows, InsertRows
<1>9. ASSUME NEW l \in Loads, ExtractNothing(l) PROVE LockInv'
  BY <1>9 DEF ExtractNothing
<1>10. ASSUME NEW l \in Loads, ExtractFails(l) PROVE LockInv'
  BY <1>10 DEF ExtractFails, Outcome, InsertRows, ClearSlice
<1>11. ASSUME NEW l \in Loads, RecordExtract(l) PROVE LockInv'
  BY <1>11 DEF RecordExtract, Outcome
<1>12. ASSUME NEW l \in Loads, ValidateShape(l) PROVE LockInv'
  BY <1>12 DEF ValidateShape, PassGate, Outcome
<1>13. ASSUME NEW l \in Loads, ValidateFails(l) PROVE LockInv'
  BY <1>13 DEF ValidateFails, Outcome, Unwind
<1>14. ASSUME NEW l \in Loads, RunChecks(l) PROVE LockInv'
  BY <1>14 DEF RunChecks, RunChecksWith, PassGate, Outcome
<1>15. ASSUME NEW l \in Loads, Replace(l) PROVE LockInv'
  BY <1>15 DEF Replace, Promote
<1>16. ASSUME NEW l \in Loads, DropPromoted(l) PROVE LockInv'
  BY <1>16 DEF DropPromoted, ClearSlice
<1>17. ASSUME NEW l \in Loads, SwapFails(l) PROVE LockInv'
  BY <1>17 DEF SwapFails, Outcome, Promote, ClearSlice
<1>18. ASSUME NEW l \in Loads, RecordSwap(l) PROVE LockInv'
  BY <1>18 DEF RecordSwap, Outcome
<1>19. ASSUME NEW l \in Loads, Finalise(l) PROVE LockInv'
  BY <1>19 DEF Finalise
<1>20. ASSUME NEW l \in Loads, Release(l) PROVE LockInv'
  BY <1>20 DEF Release, FreeLock
<1>21. ASSUME NEW l \in Loads, HistoryWriteFails(l) PROVE LockInv'
  BY <1>21 DEF HistoryWriteFails, Unwind
<1>22. ASSUME NEW l \in Loads, Crash(l) PROVE LockInv'
  BY <1>22 DEF Crash, FreeLock
<1>23. ASSUME NEW l \in Loads, LoseLock(l) PROVE LockInv'
  BY <1>23 DEF LoseLock, FreeLock, process
<1> QED
  BY <1>1, <1>2, <1>3, <1>4, <1>5, <1>6, <1>7, <1>8, <1>9, <1>10, <1>11, <1>12, <1>13, <1>14, <1>15, <1>16, <1>17, <1>18, <1>19, <1>20, <1>21, <1>22, <1>23 DEF Next, Step

\* A step of l touches the variables of l and the rows of its binding only.
Frame(l) ==
  /\ \A m \in Loads \ {l} :
       /\ pc'[m] = pc[m] /\ data'[m] = data[m] /\ outcome'[m] = outcome[m]
       /\ status'[m] = status[m] /\ req'[m] = req[m]
  /\ pc[l] # "new" => req'[l] = req[l]
  /\ pc[l] \notin Held => UNCHANGED warehouse
  /\ \A b \in Bindings : b # B(l) => staging'[b] = staging[b] /\ live'[b] = live[b]

LEMMA FrameStep ==
  ASSUME TypeOK, Triggered, NEW l \in Loads, Start(l) \/ Step(l) \/ Crash(l)
  PROVE  Frame(l)
<1> USE DEF TypeOK, Triggered, Frame, Goto, warehouse, history, Held
<1>1. CASE Start(l)
  BY <1>1 DEF Start
<1>2. CASE Acquire(l)
  BY <1>2 DEF Acquire
<1>3. CASE GiveUp(l)
  BY <1>3 DEF GiveUp
<1>4. CASE FindRunning(l)
  BY <1>4 DEF FindRunning, RunningFor
<1>5. CASE Refuse(l)
  BY <1>5 DEF Refuse
<1>6. CASE ClearStaging(l)
  BY <1>6 DEF ClearStaging, ClearSlice
<1>7. CASE ExtractRows(l)
  BY <1>7 DEF ExtractRows, InsertRows
<1>8. CASE ExtractNothing(l)
  BY <1>8 DEF ExtractNothing
<1>9. CASE ExtractFails(l)
  BY <1>9 DEF ExtractFails, Outcome, InsertRows, ClearSlice
<1>10. CASE RecordExtract(l)
  BY <1>10 DEF RecordExtract, Outcome
<1>11. CASE ValidateShape(l)
  BY <1>11 DEF ValidateShape, PassGate, Outcome
<1>12. CASE ValidateFails(l)
  BY <1>12 DEF ValidateFails, Outcome, Unwind
<1>13. CASE RunChecks(l)
  BY <1>13 DEF RunChecks, RunChecksWith, PassGate, Outcome
<1>14. CASE Replace(l)
  BY <1>14 DEF Replace, Promote
<1>15. CASE DropPromoted(l)
  BY <1>15 DEF DropPromoted, ClearSlice
<1>16. CASE SwapFails(l)
  BY <1>16 DEF SwapFails, Outcome, Promote, ClearSlice
<1>17. CASE RecordSwap(l)
  BY <1>17 DEF RecordSwap, Outcome
<1>18. CASE Finalise(l)
  BY <1>18 DEF Finalise
<1>19. CASE Release(l)
  BY <1>19 DEF Release, FreeLock
<1>20. CASE HistoryWriteFails(l)
  BY <1>20 DEF HistoryWriteFails, Unwind
<1>21. CASE Crash(l)
  BY <1>21 DEF Crash, FreeLock
<1> QED
  BY <1>1, <1>2, <1>3, <1>4, <1>5, <1>6, <1>7, <1>8, <1>9, <1>10, <1>11, <1>12, <1>13, <1>14, <1>15, <1>16, <1>17, <1>18, <1>19, <1>20, <1>21 DEF Step
\* How rows move in a step of l: its staged slice goes live, rows appear in
\* staging by its insert or by exchange with live, and from nowhere else.
LiveFlow(l) ==
  \A b \in Bindings, p \in Slices :
    \/ live'[b][p] = live[b][p]
    \/ /\ b = B(l) /\ p = P(l)
       /\ pc[l] = "replace"
       /\ live'[b][p] = staging[b][p]
       /\ pc'[l] \in {"stamp", "drop", "finalise"}
       /\ pc'[l] = "finalise" => outcome'[l] = "failed_swap"

StagingFlow(l) ==
  \A b \in Bindings, p \in Slices : \A m \in staging'[b][p] :
    \/ m \in staging[b][p]
    \/ m \in live[b][p]
    \/ m = l /\ b = B(l) /\ pc[l] = "extract" /\ pc'[l] \in {"record", "finalise"}

\* run_binding never goes back.
Forward(l) ==
  /\ pc[l] \notin BeforeInsert => pc'[l] \notin BeforeInsert
  /\ pc[l] \in AfterSwap => pc'[l] \in AfterSwap
  /\ pc[l] # "extract" => data'[l] = data[l]
  /\ pc[l] = "replace" => pc'[l] \in AfterSwap

\* The row of load_history is written at its two ends only.
StatusFlow(l) ==
  /\ pc[l] \notin {"new", "refuse", "finalise"} => status'[l] = status[l]
  /\ pc[l] = "finalise" => status'[l] \in {status[l], outcome[l]}
  /\ pc[l] \in {"refuse", "finalise"} => pc'[l] \in {"release", "done"}
  /\ pc[l] \in {"release", "done"} => pc'[l] = "done"
  /\ pc[l] = "new" => status'[l] = "running"
  /\ pc'[l] # "new"
  /\ pc[l] \in AfterSwap /\ pc'[l] = "finalise"
       => outcome'[l] \in {"success", "failed_swap"}

Flow(l) == LiveFlow(l) /\ StagingFlow(l) /\ Forward(l) /\ StatusFlow(l)

LEMMA FlowStep ==
  ASSUME TypeOK, Triggered, NEW l \in Loads, Start(l) \/ Step(l) \/ Crash(l)
  PROVE  Flow(l)
<1> USE DEF TypeOK, Triggered, Flow, LiveFlow, StagingFlow, Forward, StatusFlow, Goto, warehouse,
    history, Held, BeforeInsert, AfterSwap
<1>1. CASE Start(l)
  BY <1>1 DEF Start
<1>2. CASE Acquire(l)
  BY <1>2 DEF Acquire
<1>3. CASE GiveUp(l)
  BY <1>3 DEF GiveUp
<1>4. CASE FindRunning(l)
  BY <1>4 DEF FindRunning, RunningFor
<1>5. CASE Refuse(l)
  BY <1>5 DEF Refuse
<1>6. CASE ClearStaging(l)
  BY <1>6 DEF ClearStaging, ClearSlice
<1>7. CASE ExtractRows(l)
  BY <1>7 DEF ExtractRows, InsertRows
<1>8. CASE ExtractNothing(l)
  BY <1>8 DEF ExtractNothing
<1>9. CASE ExtractFails(l)
  <2>1. /\ pc'[l] = "finalise" /\ live' = live /\ status' = status
        /\ pc[l] = "clear" => data' = data
    BY <1>9 DEF ExtractFails, Outcome
  <2>2. pc[l] \in {"clear", "extract"}
    BY <1>9 DEF ExtractFails, Outcome
  <2>3. CASE staging' \in {staging, ClearSlice(l)}
    BY <2>1, <2>2, <2>3, ClearEffect
  <2>4. CASE pc[l] = "extract" /\ InsertRows(l)
    BY <2>1, <2>4 DEF InsertRows
  <2> QED
    BY <1>9, <2>3, <2>4 DEF ExtractFails, Outcome
<1>10. CASE RecordExtract(l)
  BY <1>10 DEF RecordExtract, Outcome
<1>11. CASE ValidateShape(l)
  BY <1>11 DEF ValidateShape, PassGate, Outcome
<1>12. CASE ValidateFails(l)
  BY <1>12 DEF ValidateFails, Outcome, Unwind
<1>13. CASE RunChecks(l)
  BY <1>13 DEF RunChecks, RunChecksWith, PassGate, Outcome
<1>14. CASE Replace(l)
  BY <1>14 DEF Replace, Promote
<1>15. CASE DropPromoted(l)
  BY <1>15 DEF DropPromoted, ClearSlice
<1>16. CASE SwapFails(l)
  <2>1. /\ pc'[l] = "finalise" /\ outcome'[l] = "failed_swap"
        /\ status' = status /\ data' = data
    BY <1>16 DEF SwapFails, Outcome
  <2>2. pc[l] \in {"replace", "drop"}
    BY <1>16 DEF SwapFails, Outcome
  <2>3. CASE staging' \in {staging, ClearSlice(l)} /\ live' = live
    BY <2>1, <2>2, <2>3, ClearEffect
  <2>4. CASE pc[l] = "replace" /\ Promote(l)
    BY <2>1, <2>4 DEF Promote
  <2> QED
    BY <1>16, <2>3, <2>4 DEF SwapFails, Outcome
<1>17. CASE RecordSwap(l)
  BY <1>17 DEF RecordSwap, Outcome
<1>18. CASE Finalise(l)
  BY <1>18 DEF Finalise
<1>19. CASE Release(l)
  BY <1>19 DEF Release, FreeLock
<1>20. CASE HistoryWriteFails(l)
  BY <1>20 DEF HistoryWriteFails, Unwind
<1>21. CASE Crash(l)
  BY <1>21 DEF Crash, FreeLock
<1> QED
  BY <1>1, <1>2, <1>3, <1>4, <1>5, <1>6, <1>7, <1>8, <1>9, <1>10, <1>11, <1>12, <1>13, <1>14, <1>15, <1>16, <1>17, <1>18, <1>19, <1>20, <1>21 DEF Step

LEMMA RowsStep ==
  ASSUME TypeOK, Triggered, RowsInv, SliceInv, LiveOnlyGated,
         NEW l \in Loads, Frame(l), Flow(l), TypeOK'
  PROVE  RowsInv'
<1>1. ASSUME NEW b \in Bindings, NEW p \in Slices, NEW m \in staging'[b][p]
      PROVE  pc'[m] \notin BeforeInsert /\ req'[m].b = b
  <2>0. m \in Loads
    BY DEF TypeOK
  <2>1. CASE m \in staging[b][p]
    BY <2>0, <2>1 DEF RowsInv, Frame, Flow, Forward, BeforeInsert
  <2>2. CASE m \in live[b][p]
    <3>0. req[m] = [b |-> b, p |-> p, stop |-> "swap"]
      BY <2>2 DEF LiveOnlyGated
    <3>1. pc[m] \in AfterSwap /\ req[m].b = b
      BY <2>2, <3>0 DEF RowsInv
    <3>2. req'[m] = req[m] /\ pc'[m] \in AfterSwap
      BY <2>0, <3>1 DEF Frame, Flow, Forward, AfterSwap
    <3> QED
      BY <3>1, <3>2 DEF BeforeInsert, AfterSwap
  <2>3. CASE m = l /\ b = B(l) /\ pc[l] = "extract" /\ pc'[l] \in {"record", "finalise"}
    BY <2>3 DEF Frame, BeforeInsert, B
  <2> QED
    BY <2>1, <2>2, <2>3 DEF Flow, StagingFlow
<1>2. ASSUME NEW b \in Bindings, NEW p \in Slices, NEW m \in live'[b][p]
      PROVE  pc'[m] \in AfterSwap
  <2>0. m \in Loads
    BY DEF TypeOK
  <2>1. CASE live'[b][p] = live[b][p]
    BY <2>0, <2>1 DEF RowsInv, Frame, Flow, Forward
  <2>2. CASE live'[b][p] # live[b][p]
    <3>1. m = l /\ pc[l] = "replace"
      BY <2>2 DEF Flow, LiveFlow, SliceInv, Slice, Staged
    <3> QED
      BY <3>1 DEF Flow, Forward
  <2> QED
    BY <2>1, <2>2
<1> QED
  BY <1>1, <1>2 DEF RowsInv

LEMMA LiveStep ==
  ASSUME TypeOK, Triggered, RowsInv, SliceInv, GateInv, StatusInv,
         LiveUnmixed, LiveOnlyGated, FailedIsNotLive,
         NEW l \in Loads, Frame(l), Flow(l), TypeOK'
  PROVE  LiveUnmixed' /\ LiveOnlyGated' /\ FailedIsNotLive' /\ StatusInv'
<1>1. ASSUME NEW b \in Bindings, NEW p \in Slices, live'[b][p] # live[b][p]
      PROVE  /\ live'[b][p] \subseteq {l} /\ b = B(l) /\ p = P(l)
             /\ pc[l] = "replace" /\ live'[b][p] = staging[b][p]
             /\ pc'[l] = "finalise" => outcome'[l] = "failed_swap"
  BY <1>1 DEF Flow, LiveFlow, SliceInv, Slice, Staged
<1>2. LiveUnmixed'
  BY <1>1 DEF LiveUnmixed
<1>3. ASSUME NEW b \in Bindings, NEW p \in Slices, NEW m \in live'[b][p]
      PROVE  /\ req'[m] = [b |-> b, p |-> p, stop |-> "swap"]
             /\ Gated(b) => data'[m] = "clean"
             /\ status'[m] \in {"running", "success", "failed_swap"}
             /\ pc'[m] = "finalise" => outcome'[m] \in {"success", "failed_swap"}
  <2>0. m \in Loads
    BY DEF TypeOK
  <2>1. CASE m \in live[b][p]
    <3>1. pc[m] \in AfterSwap
      BY <2>1 DEF RowsInv
    <3>2. req'[m] = req[m] /\ data'[m] = data[m]
      BY <2>0, <3>1 DEF Frame, Flow, Forward, AfterSwap
    <3>3. status'[m] = status[m] \/ (pc[m] = "finalise" /\ status'[m] = outcome[m])
      BY <2>0, <3>1 DEF Frame, Flow, StatusFlow, AfterSwap
    <3>4. pc'[m] = "finalise" => outcome'[m] \in {"success", "failed_swap"}
      BY <2>0, <2>1, <3>1 DEF Frame, Flow, StatusFlow, StatusInv
    <3> QED
      BY <2>1, <3>2, <3>3, <3>4 DEF LiveOnlyGated, FailedIsNotLive, StatusInv
  <2>2. CASE m \notin live[b][p]
    <3>1. m = l /\ b = B(l) /\ p = P(l) /\ pc[l] = "replace" /\ l \in staging[b][p]
      BY <1>1, <2>2
    <3>2. req[l] = [b |-> b, p |-> p, stop |-> "swap"] /\ req'[l] = req[l]
      BY <3>1 DEF Triggered, Requests, GateInv, Gate, B, P, Frame
    <3>3. Gated(b) => data'[l] = "clean"
      BY <3>1 DEF GateInv, Gate, Flow, Forward
    <3>4. status'[l] = "running"
      BY <3>1 DEF Flow, StatusFlow, StatusInv
    <3> QED
      BY <1>1, <2>2, <3>1, <3>2, <3>3, <3>4
  <2> QED
    BY <2>1, <2>2
<1>4. LiveOnlyGated' /\ FailedIsNotLive'
  BY <1>3 DEF LiveOnlyGated, FailedIsNotLive, Gated
<1>5. ASSUME NEW m \in Loads, pc'[m] \notin {"new", "release", "done"}
      PROVE  status'[m] = "running"
  <2>1. CASE m = l
    BY <1>5, <2>1 DEF Flow, StatusFlow, StatusInv
  <2>2. CASE m # l
    BY <1>5, <2>2 DEF Frame, StatusInv
  <2> QED
    BY <2>1, <2>2
<1> QED
  BY <1>2, <1>3, <1>4, <1>5 DEF StatusInv

\* The lock keeps every other load of the binding out of the slice.
LEMMA OthersSlice ==
  ASSUME TypeOK, Triggered, LockInv, NEW l \in Loads, Frame(l),
         NEW m \in Loads \ {l}, pc[m] \in Held
  PROVE  staging'[B(m)] = staging[B(m)] /\ B(m)' = B(m) /\ P(m)' = P(m)
<1>1. B(m) \in Bindings
  BY Place DEF Held
<1>2. pc[l] \in Held => B(l) # B(m)
  BY <1>1 DEF LockInv, B
<1> QED
  BY <1>1, <1>2 DEF Frame, B, P, warehouse

Own(l) == Slice(l) /\ Gate(l) /\ Landed(l)

\* A row-level or tie-out check of error severity that did not trip has seen
\* the load's rows, and they are good.
LEMMA GateSound ==
  ASSUME TypeOK, NEW l \in Loads, B(l) \in Bindings, P(l) \in Slices, NEW broken,
         data[l] \in {"clean", "dirty"},
         VerdictWith(l, broken) # "failed_checks", Gated(B(l)), l \in staging[B(l)][P(l)]
  PROVE  data[l] = "clean"
<1>1. PICK c \in Checks[B(l)] : c.severity = "error"
  BY DEF Gated
<1>2. c.type \in {"rows", "reconcile"}
  BY IngestionAssumption DEF CheckSpec
<1>3. ~Trips(c, l)
  <2>1. ~\E d \in Checks[B(l)] : Trips(d, l) /\ d.severity = "error"
    BY SMTT(30) DEF VerdictWith, VerdictOf
  <2> QED
    BY <1>1, <2>1
<1>4. l \in StagedRows(B(l))
  BY DEF StagedRows
<1> QED
  BY <1>2, <1>3, <1>4 DEF Trips

LEMMA OwnStep ==
  ASSUME TypeOK, Triggered, NEW l \in Loads, Own(l), Start(l) \/ Step(l) \/ Crash(l), TypeOK', Triggered'
  PROVE  Own(l)'
<1> USE DEF TypeOK, Own, Slice, Gate, Landed, Goto, warehouse, Staged, B, P
<1>1. CASE Start(l)
  BY <1>1 DEF Start
<1>2. CASE Acquire(l)
  BY <1>2 DEF Acquire
<1>3. CASE GiveUp(l)
  BY <1>3 DEF GiveUp
<1>4. CASE FindRunning(l)
  BY <1>4 DEF FindRunning, RunningFor
<1>5. CASE Refuse(l)
  BY <1>5 DEF Refuse
<1>6. CASE ClearStaging(l)
  BY <1>6 DEF ClearStaging, ClearSlice
<1>7. CASE ExtractRows(l)
  <2>1. B(l) \in Bindings /\ P(l) \in Slices
    BY <1>7, Place DEF ExtractRows
  <2>2. staging'[B(l)][P(l)] \subseteq {l} /\ data'[l] \in {"clean", "dirty"}
    BY <1>7, <2>1 DEF ExtractRows, InsertRows
  <2>3. "source" \notin Faults => l \in staging'[B(l)][P(l)]
    BY <1>7, <2>1 DEF ExtractRows, InsertRows
  <2> QED
    BY <1>7, <2>2, <2>3 DEF ExtractRows
<1>8. CASE ExtractNothing(l)
  BY <1>8 DEF ExtractNothing
<1>9. CASE ExtractFails(l)
  BY <1>9 DEF ExtractFails, Outcome, InsertRows, ClearSlice
<1>10. CASE RecordExtract(l)
  BY <1>10 DEF RecordExtract, Outcome
<1>11. CASE ValidateShape(l)
  <2>1. req[l].stop \in {"validate", "swap"}
    BY <1>11, IngestionAssumption DEF ValidateShape, Triggered, Requests, StageName
  <2>2. Checks[B(l)] = {} => ~Gated(B(l))
    BY DEF Gated
  <2> QED
    BY <1>11, <2>1, <2>2 DEF ValidateShape, PassGate, Outcome, Gated
<1>12. CASE ValidateFails(l)
  BY <1>12 DEF ValidateFails, Outcome, Unwind
<1>13. CASE RunChecks(l)
  <2>1. PICK broken \in SUBSET Checks[B(l)] : RunChecksWith(l, broken)
    BY <1>13 DEF RunChecks
  <2>2. pc[l] = "checks" /\ B(l) \in Bindings /\ P(l) \in Slices
    BY <1>13, Place DEF RunChecks
  <2>3. req[l].stop \in {"validate", "swap"}
    BY <2>2, IngestionAssumption DEF Triggered, Requests, StageName
  <2>4. VerdictWith(l, broken) # "failed_checks" /\ Gated(B(l))
          /\ l \in staging[B(l)][P(l)] => data[l] = "clean"
    BY <2>2, GateSound
  <2> QED
    BY <2>1, <2>2, <2>3, <2>4 DEF RunChecksWith, PassGate, Outcome, Gated
<1>14. CASE Replace(l)
  BY <1>14 DEF Replace, Promote
<1>15. CASE DropPromoted(l)
  BY <1>15 DEF DropPromoted, ClearSlice
<1>16. CASE SwapFails(l)
  BY <1>16 DEF SwapFails, Outcome, Promote, ClearSlice
<1>17. CASE RecordSwap(l)
  BY <1>17 DEF RecordSwap, Outcome
<1>18. CASE Finalise(l)
  BY <1>18 DEF Finalise
<1>19. CASE Release(l)
  BY <1>19 DEF Release, FreeLock
<1>20. CASE HistoryWriteFails(l)
  BY <1>20 DEF HistoryWriteFails, Unwind
<1>21. CASE Crash(l)
  BY <1>21 DEF Crash, FreeLock
<1> QED
  BY <1>1, <1>2, <1>3, <1>4, <1>5, <1>6, <1>7, <1>8, <1>9, <1>10, <1>11, <1>12, <1>13, <1>14, <1>15, <1>16, <1>17, <1>18, <1>19, <1>20, <1>21 DEF Step

LEMMA SlicesStep ==
  ASSUME TypeOK, Triggered, LockInv, SliceInv, GateInv, LandedInv, TypeOK', Triggered',
         NEW l \in Loads, Start(l) \/ Step(l) \/ Crash(l)
  PROVE  SliceInv' /\ GateInv' /\ LandedInv'
<1>1. Frame(l)
  BY FrameStep
<1>2. Own(l)'
  BY OwnStep DEF Own, SliceInv, GateInv, LandedInv
<1>3. ASSUME NEW m \in Loads \ {l} PROVE Own(m)'
  <2>1. pc'[m] = pc[m] /\ data'[m] = data[m] /\ req'[m] = req[m]
    BY <1>1 DEF Frame
  <2>2. Own(m)
    BY DEF Own, SliceInv, GateInv, LandedInv
  <2>3. CASE pc[m] \in Held
    BY <1>1, <2>1, <2>2, <2>3, OthersSlice
    DEF Own, Slice, Gate, Landed, Gated, Staged, B, P
  <2>4. CASE pc[m] \notin Held
    BY <2>1, <2>4 DEF Own, Slice, Gate, Landed, Staged, Held
  <2> QED
    BY <2>3, <2>4
<1> QED
  BY <1>2, <1>3 DEF Own, SliceInv, GateInv, LandedInv

LEMMA InitInv == Init => IInv
<1> SUFFICES ASSUME Init PROVE IInv
  OBVIOUS
<1>1. TypeOK /\ Triggered
  BY InitType
<1>2. LockInv /\ RowsInv /\ LiveUnmixed /\ LiveOnlyGated /\ FailedIsNotLive /\ StatusInv
  BY IngestionAssumption
  DEF Init, LockInv, RowsInv, LiveUnmixed, LiveOnlyGated, FailedIsNotLive, StatusInv,
      Held, NoLoad, Loads
<1>3. SliceInv /\ GateInv /\ LandedInv
  BY DEF Init, SliceInv, GateInv, LandedInv, Slice, Gate, Landed, Staged
<1> QED
  BY <1>1, <1>2, <1>3 DEF IInv

LEMMA NextInv ==
  ASSUME "lockconn" \notin Faults, IInv, [Next]_vars
  PROVE  IInv'
<1>1. TypeOK' /\ Triggered' /\ LockInv'
  BY TypeStep, LockStep DEF IInv
<1>2. CASE UNCHANGED vars
  BY <1>1, <1>2
  DEF vars, process, warehouse, history, IInv, RowsInv, SliceInv, GateInv, LandedInv, StatusInv,
      Slice, Gate, Landed, Gated, B, P, LiveUnmixed, LiveOnlyGated, FailedIsNotLive
<1>3. ASSUME NEW l \in Loads, Start(l) \/ Step(l) \/ Crash(l)
      PROVE  IInv'
  <2>1. Frame(l) /\ Flow(l)
    BY <1>3, FrameStep, FlowStep DEF IInv
  <2>2. RowsInv'
    BY <1>1, <2>1, RowsStep DEF IInv
  <2>3. LiveUnmixed' /\ LiveOnlyGated' /\ FailedIsNotLive' /\ StatusInv'
    BY <1>1, <2>1, LiveStep DEF IInv
  <2>4. SliceInv' /\ GateInv' /\ LandedInv'
    BY <1>1, <1>3, SlicesStep DEF IInv
  <2> QED
    BY <1>1, <2>2, <2>3, <2>4 DEF IInv
<1>4. ~ \E l \in Loads : LoseLock(l)
  BY DEF LoseLock
<1> QED
  BY <1>2, <1>3, <1>4 DEF Next

-----------------------------------------------------------------------------
(***************************************************************************)
(* Results.                                                                *)
(***************************************************************************)

\* Types, for every fault class: no handler of run_binding writes a status, a
\* verdict or a lock owner outside its domain.
THEOREM TypeCorrect == Spec => []TypeOK
<1>1. Init => TypeOK /\ Triggered
  BY InitType
<1>2. TypeOK /\ Triggered /\ [Next]_vars => TypeOK' /\ Triggered'
  BY TypeStep
<1> QED
  BY <1>1, <1>2, PTL DEF Spec

\* The invariant, for loads whose lock lives as long as they do.
THEOREM Invariant == "lockconn" \notin Faults => (Spec => []IInv)
<1> SUFFICES ASSUME "lockconn" \notin Faults PROVE Spec => []IInv
  OBVIOUS
<1>1. Init => IInv
  BY InitInv
<1>2. IInv /\ [Next]_vars => IInv'
  BY NextInv
<1> QED
  BY <1>1, <1>2, PTL DEF Spec

\* No slice of live.* ever mixes the rows of two loads, for any number of
\* bindings, periods and loads, whatever crashes or raises in between.
THEOREM NeverMixed == "lockconn" \notin Faults => (Spec => []LiveUnmixed)
<1>1. IInv => LiveUnmixed
  BY DEF IInv
<1> QED
  BY <1>1, Invariant, PTL

\* What is live passed the error-severity checks of its binding.
THEOREM OnlyGatedIsLive == "lockconn" \notin Faults => (Spec => []LiveOnlyGated)
<1>1. IInv => LiveOnlyGated
  BY DEF IInv
<1> QED
  BY <1>1, Invariant, PTL

\* The advisory lock excludes: two loads of a binding never overlap.
THEOREM Exclusion == "lockconn" \notin Faults => (Spec => []MutualExclusion)
<1>1. IInv => MutualExclusion
  <2> SUFFICES ASSUME IInv, NEW l \in Loads, NEW m \in Loads,
                      pc[l] \in Held, pc[m] \in Held, req[l].b = req[m].b
               PROVE  l = m
    BY DEF MutualExclusion
  <2>1. req[l].b \in Bindings
    BY Place DEF IInv, B, Held
  <2> QED
    BY <2>1 DEF IInv, LockInv
<1> QED
  BY <1>1, Invariant, PTL

\* A load recorded as failed, failed_swap aside, has no row live.
THEOREM FailuresAreNotLive == "lockconn" \notin Faults => (Spec => []FailedIsNotLive)
<1>1. IInv => FailedIsNotLive
  BY DEF IInv
<1> QED
  BY <1>1, Invariant, PTL
-----------------------------------------------------------------------------
(***************************************************************************)
(* live.* as registers.                                                    *)
(***************************************************************************)

\* Once closed, an attempt stays closed; once triggered, it stays triggered.
LEMMA PhaseStep ==
  ASSUME TypeOK, NEW l \in Loads, Step(l) \/ Crash(l)
  PROVE  /\ pc[l] # "new" /\ pc'[l] # "new"
         /\ Phase(l) = "closed" => Phase(l)' = "closed"
<1> DEFINE Goal == /\ pc[l] # "new" /\ pc'[l] # "new"
                   /\ Phase(l) = "closed" => Phase(l)' = "closed"
<1> USE DEF TypeOK, Phase, Goto, Held
<1>1. CASE Acquire(l)
  BY <1>1 DEF Acquire
<1>2. CASE GiveUp(l)
  BY <1>2 DEF GiveUp
<1>3. CASE FindRunning(l)
  BY <1>3 DEF FindRunning, RunningFor
<1>4. CASE Refuse(l)
  BY <1>4 DEF Refuse
<1>5. CASE ClearStaging(l)
  BY <1>5 DEF ClearStaging, ClearSlice
<1>6. CASE ExtractRows(l)
  BY <1>6 DEF ExtractRows, InsertRows
<1>7. CASE ExtractNothing(l)
  BY <1>7 DEF ExtractNothing
<1>8. CASE ExtractFails(l)
  BY <1>8 DEF ExtractFails, Outcome, InsertRows, ClearSlice
<1>9. CASE RecordExtract(l)
  BY <1>9 DEF RecordExtract, Outcome
<1>10. CASE ValidateShape(l)
  BY <1>10 DEF ValidateShape, PassGate, Outcome
<1>11. CASE ValidateFails(l)
  BY <1>11 DEF ValidateFails, Outcome, Unwind
<1>12. CASE RunChecks(l)
  BY <1>12 DEF RunChecks, RunChecksWith, PassGate, Outcome
<1>13. CASE Replace(l)
  BY <1>13 DEF Replace, Promote
<1>14. CASE DropPromoted(l)
  BY <1>14 DEF DropPromoted, ClearSlice
<1>15. CASE SwapFails(l)
  BY <1>15 DEF SwapFails, Outcome, Promote, ClearSlice
<1>16. CASE RecordSwap(l)
  BY <1>16 DEF RecordSwap, Outcome
<1>17. CASE Finalise(l)
  BY <1>17 DEF Finalise
<1>18. CASE Release(l)
  BY <1>18 DEF Release, FreeLock
<1>19. CASE HistoryWriteFails(l)
  BY <1>19 DEF HistoryWriteFails, Unwind
<1>20. CASE Crash(l)
  BY <1>20 DEF Crash, FreeLock
<1> QED
  BY <1>1, <1>2, <1>3, <1>4, <1>5, <1>6, <1>7, <1>8, <1>9, <1>10, <1>11, <1>12, <1>13, <1>14, <1>15, <1>16, <1>17, <1>18, <1>19, <1>20 DEF Step

\* A step of a load changes nothing that is live, or makes its own rows the
\* whole content of its own slice.
LEMMA PublishStep ==
  ASSUME "source" \notin Faults, IInv, TypeOK', NEW l \in Loads, Start(l) \/ Step(l) \/ Crash(l)
  PROVE  \/ live' = live
         \/ /\ pc[l] = "replace" /\ Phase(l)' = "closed"
            /\ B(l) \in Bindings /\ P(l) \in Slices
            /\ live' = [live EXCEPT ![B(l)][P(l)] = {l}]
<1>1. LiveFlow(l)
  BY FlowStep DEF IInv, Flow
<1>2. CASE \A b \in Bindings, p \in Slices : live'[b][p] = live[b][p]
  <2>1. live' = live
    BY <1>2 DEF IInv, TypeOK
  <2> QED
    BY <2>1
<1>3. ASSUME NEW b \in Bindings, NEW p \in Slices, live'[b][p] # live[b][p]
      PROVE  /\ pc[l] = "replace" /\ Phase(l)' = "closed"
             /\ B(l) \in Bindings /\ P(l) \in Slices
             /\ live' = [live EXCEPT ![B(l)][P(l)] = {l}]
  <2>1. /\ b = B(l) /\ p = P(l) /\ pc[l] = "replace"
        /\ live'[b][p] = staging[b][p] /\ Phase(l)' = "closed"
    BY <1>1, <1>3 DEF LiveFlow, Phase
  <2>2. staging[b][p] = {l}
    BY <2>1 DEF IInv, SliceInv, Slice, GateInv, Gate, LandedInv, Landed, Staged
  <2>3. \A c \in Bindings, q \in Slices : c # b \/ q # p => live'[c][q] = live[c][q]
    BY <1>1, <2>1 DEF LiveFlow
  <2>4. live' = [live EXCEPT ![b][p] = {l}]
    BY <2>1, <2>2, <2>3 DEF IInv, TypeOK
  <2> QED
    BY <2>1, <2>4
<1> QED
  BY <1>2, <1>3

\* A load that returned rows of its own period replaces; nothing ever empties a
\* slice that holds data.
THEOREM DataStays ==
  {"lockconn", "source"} \cap Faults = {} => (Spec => NeverEmptied)
<1> SUFFICES ASSUME "lockconn" \notin Faults, "source" \notin Faults
             PROVE  Spec => NeverEmptied
  OBVIOUS
<1> DEFINE Stays == \A b \in Bindings, p \in Slices : live[b][p] # {} => live'[b][p] # {}
<1>1. IInv /\ IInv' /\ [Next]_vars => [Stays]_vars
  <2> SUFFICES ASSUME IInv, IInv', Next PROVE Stays
    OBVIOUS
  <2>1. PICK l \in Loads : Start(l) \/ Step(l) \/ Crash(l)
    BY DEF Next, LoseLock
  <2>2. live' = live \/ (B(l) \in Bindings /\ P(l) \in Slices
                         /\ live' = [live EXCEPT ![B(l)][P(l)] = {l}])
    BY <2>1, PublishStep DEF IInv
  <2>3. ASSUME NEW b \in Bindings, NEW p \in Slices, live[b][p] # {}
        PROVE  live'[b][p] # {}
    <3>1. CASE live' = live
      BY <2>3, <3>1
    <3>2. CASE live' = [live EXCEPT ![B(l)][P(l)] = {l}]
      <4>1. live'[b][p] \in {live[b][p], {l}}
        BY <3>2 DEF IInv, TypeOK
      <4> QED
        BY <2>3, <4>1
    <3> QED
      BY <2>2, <3>1, <3>2
  <2> QED
    BY <2>3
<1>2. Spec => []IInv
  BY Invariant
<1> QED
  BY <1>1, <1>2, PTL DEF Spec, NeverEmptied, Stays

\* run_binding implements LivePublication: readers of live.* see registers that
\* change in one step, each time to the rows of one load, once per load.
THEOREM Refinement ==
  {"lockconn", "source"} \cap Faults = {} => (Spec => Publishes)
<1> SUFFICES ASSUME "lockconn" \notin Faults, "source" \notin Faults
             PROVE  Spec => Publishes
  OBVIOUS
<1> USE DEF Publication!Empty
<1>1. Init => Publication!Init
  BY DEF Init, Publication!Init, Phase
<1>2. IInv /\ IInv' /\ [Next]_vars => [Publication!Next]_(Publication!vars)
  <2> SUFFICES ASSUME IInv, IInv', [Next]_vars
               PROVE  Publication!Next \/ UNCHANGED Publication!vars
    BY DEF Publication!vars
  <2>1. CASE UNCHANGED vars
    BY <2>1 DEF vars, process, warehouse, Publication!vars, Phase
  <2>2. ASSUME NEW l \in Loads, Start(l)
        PROVE  Publication!Open(l)
    <3>1. pc[l] = "new" /\ pc' = [pc EXCEPT ![l] = "acquire"] /\ live' = live
      BY <2>2 DEF Start, Goto, warehouse
    <3>2. PICK r \in Requests : req' = [req EXCEPT ![l] = r]
      BY <2>2 DEF Start
    <3>3. r.b \in Bindings /\ r.p \in Slices /\ r # NoReq
      BY IngestionAssumption DEF Requests
    <3>4. [m \in Loads |-> Phase(m)]' = [[m \in Loads |-> Phase(m)] EXCEPT ![l] = "open"]
      BY <3>1 DEF Phase, IInv, TypeOK
    <3>5. [m \in Loads |-> IF req[m] = NoReq THEN <<>> ELSE <<req[m].b, req[m].p>>]'
          = [[m \in Loads |-> IF req[m] = NoReq THEN <<>> ELSE <<req[m].b, req[m].p>>]
              EXCEPT ![l] = <<r.b, r.p>>]
      BY <3>2, <3>3 DEF IInv, TypeOK
    <3> QED
      BY <3>1, <3>3, <3>4, <3>5 DEF Publication!Open, Phase
  <2>3. ASSUME NEW l \in Loads, Step(l) \/ Crash(l)
        PROVE  Publication!Publish(l) \/ Publication!GiveUp(l) \/ UNCHANGED Publication!vars
    <3> DEFINE ph == [m \in Loads |-> Phase(m)]
               ce == [m \in Loads |-> IF req[m] = NoReq THEN <<>> ELSE <<req[m].b, req[m].p>>]
    <3>1. /\ pc[l] # "new" /\ pc'[l] # "new"
          /\ Phase(l) = "closed" => Phase(l)' = "closed"
      BY <2>3, PhaseStep DEF IInv
    <3>2. Frame(l)
      BY <2>3, FrameStep DEF IInv
    <3>3. \A m \in Loads : req'[m] = req[m]
      BY <3>1, <3>2 DEF Frame
    <3>4. ce' = ce
      BY <3>3
    <3>5. \A m \in Loads \ {l} : Phase(m)' = Phase(m)
      BY <3>2 DEF Frame, Phase
    <3>6. Phase(l) \in {"open", "closed"} /\ Phase(l)' \in {"open", "closed"}
      BY <3>1 DEF Phase
    <3>7. ph' = ph \/ (Phase(l) = "open" /\ ph' = [ph EXCEPT ![l] = "closed"])
      BY <3>1, <3>5, <3>6
    <3>8. CASE live' = live
      BY <3>4, <3>7, <3>8 DEF Publication!GiveUp, Publication!Close, Publication!vars
    <3>9. CASE live' # live
      <4>1. /\ pc[l] = "replace" /\ Phase(l)' = "closed"
            /\ B(l) \in Bindings /\ P(l) \in Slices
            /\ live' = [live EXCEPT ![B(l)][P(l)] = {l}]
        BY <2>3, <3>9, PublishStep DEF IInv
      <4>2. Phase(l) = "open" /\ ph' = [ph EXCEPT ![l] = "closed"]
        BY <3>7, <4>1 DEF Phase
      <4>3. req[l] # NoReq /\ ce[l] = <<B(l), P(l)>>
        BY <3>1, IngestionAssumption DEF IInv, Triggered, B, P
      <4> QED
        BY <3>4, <4>1, <4>2, <4>3 DEF Publication!Publish, Publication!Close
    <3> QED
      BY <3>8, <3>9
  <2> QED
    BY <2>1, <2>2, <2>3 DEF Next, LoseLock, Publication!Next
<1>3. Spec => []IInv
  BY Invariant
<1> QED
  BY <1>1, <1>2, <1>3, PTL DEF Spec, Publishes, Publication!Spec
-----------------------------------------------------------------------------
(***************************************************************************)
(* PostgreSQL follows ClickHouse.                                          *)
(***************************************************************************)

\* Past the swap a load's rows are its slice, and stay so until its lock is
\* released; success of a load asked to swap means the swap is stamped.
SwapDone(l) ==
  /\ pc[l] \in {"drop", "stamp"} => live[B(l)][P(l)] = {l}
  /\ pc[l] = "finalise" /\ outcome[l] = "success" /\ req[l].stop = "swap"
       => swapped[l] /\ live[B(l)][P(l)] = {l}
SwapInv == \A l \in Loads : SwapDone(l)

\* How a load comes to each of those points, and where the two columns of
\* load_history are written.
Stamping(l) ==
  /\ pc'[l] \in {"drop", "stamp"} =>
       \/ pc[l] = "replace" /\ live'[B(l)][P(l)] = staging[B(l)][P(l)]
       \/ pc[l] = "drop" /\ live' = live
  /\ pc'[l] = "finalise" /\ outcome'[l] = "success" =>
       \/ pc[l] = "stamp" /\ live' = live /\ swapped'[l]
       \/ req[l].stop # "swap"
  /\ swapped'[l] /\ ~swapped[l] => pc[l] = "stamp"
  /\ status'[l] = "success" /\ status[l] # "success" =>
       pc[l] = "finalise" /\ outcome[l] = "success"

LEMMA StampStep ==
  ASSUME TypeOK, Triggered, NEW l \in Loads, Start(l) \/ Step(l) \/ Crash(l)
  PROVE  Stamping(l) /\ \A m \in Loads \ {l} : swapped'[m] = swapped[m]
<1> USE DEF TypeOK, Triggered, Stamping, Goto, warehouse, history, Held
<1>0. pc[l] # "new" => B(l) \in Bindings /\ P(l) \in Slices
  BY Place
<1>1. CASE Start(l)
  BY <1>1 DEF Start
<1>2. CASE Acquire(l)
  BY <1>2 DEF Acquire
<1>3. CASE GiveUp(l)
  BY <1>3 DEF GiveUp
<1>4. CASE FindRunning(l)
  BY <1>4 DEF FindRunning, RunningFor
<1>5. CASE Refuse(l)
  BY <1>5 DEF Refuse
<1>6. CASE ClearStaging(l)
  BY <1>6 DEF ClearStaging
<1>7. CASE ExtractRows(l)
  BY <1>7 DEF ExtractRows
<1>8. CASE ExtractNothing(l)
  BY <1>8 DEF ExtractNothing
<1>9. CASE ExtractFails(l)
  BY <1>9 DEF ExtractFails, Outcome
<1>10. CASE RecordExtract(l)
  BY <1>10 DEF RecordExtract, Outcome
<1>11. CASE ValidateShape(l)
  BY <1>11 DEF ValidateShape, PassGate, Outcome
<1>12. CASE ValidateFails(l)
  BY <1>12 DEF ValidateFails, Outcome, Unwind
<1>13. CASE RunChecks(l)
  BY <1>13 DEF RunChecks, RunChecksWith, PassGate, Outcome
<1>14. CASE Replace(l)
  BY <1>0, <1>14 DEF Replace, Promote
<1>15. CASE DropPromoted(l)
  BY <1>15 DEF DropPromoted
<1>16. CASE SwapFails(l)
  BY <1>16 DEF SwapFails, Outcome
<1>17. CASE RecordSwap(l)
  BY <1>17 DEF RecordSwap, Outcome
<1>18. CASE Finalise(l)
  BY <1>18 DEF Finalise
<1>19. CASE Release(l)
  BY <1>19 DEF Release
<1>20. CASE HistoryWriteFails(l)
  BY <1>20 DEF HistoryWriteFails, Unwind
<1>21. CASE Crash(l)
  BY <1>21 DEF Crash
<1> QED
  BY <1>1, <1>2, <1>3, <1>4, <1>5, <1>6, <1>7, <1>8, <1>9, <1>10, <1>11, <1>12, <1>13, <1>14, <1>15, <1>16, <1>17, <1>18, <1>19, <1>20, <1>21 DEF Step

LEMMA SwapStep ==
  ASSUME {"lockconn", "source"} \cap Faults = {}, IInv, IInv', SwapInv, [Next]_vars
  PROVE  SwapInv'
<1>1. CASE UNCHANGED vars
  BY <1>1 DEF vars, process, warehouse, history, SwapInv, SwapDone, B, P
<1>2. CASE Next
  <2>1. PICK l \in Loads : Start(l) \/ Step(l) \/ Crash(l)
    BY <1>2 DEF Next, LoseLock
  <2>2. /\ Stamping(l) /\ \A m \in Loads \ {l} : swapped'[m] = swapped[m]
        /\ Frame(l) /\ LiveFlow(l)
    BY <2>1, StampStep, FrameStep, FlowStep DEF IInv, Flow
  <2>3. ASSUME NEW m \in Loads \ {l} PROVE SwapDone(m)'
    <3>1. /\ pc'[m] = pc[m] /\ req'[m] = req[m] /\ outcome'[m] = outcome[m]
          /\ swapped'[m] = swapped[m] /\ SwapDone(m)
      BY <2>2, <2>3 DEF Frame, SwapInv
    <3>2. ASSUME pc[m] \in {"drop", "stamp", "finalise"}
          PROVE  live'[B(m)][P(m)] = live[B(m)][P(m)]
      <4>1. B(m) \in Bindings /\ P(m) \in Slices
        BY <3>2, Place DEF IInv
      <4>2. pc[l] = "replace" => B(l) # B(m)
        BY <2>3, <3>2, <4>1 DEF IInv, LockInv, Held, B
      <4> QED
        BY <2>2, <4>1, <4>2 DEF LiveFlow
    <3> QED
      BY <3>1, <3>2 DEF SwapDone, B, P
  <2>4. SwapDone(l)'
    <3>1. CASE pc[l] = "new"
      <4>1. pc'[l] \notin {"drop", "stamp", "finalise"}
        BY <2>1, <3>1, PhaseStep DEF IInv, TypeOK, Start, Goto
      <4> QED
        BY <4>1 DEF SwapDone
    <3>2. CASE pc[l] # "new"
      <4>1. req'[l] = req[l] /\ SwapDone(l)
        BY <2>2, <3>2 DEF Frame, SwapInv
      <4>2. pc[l] = "replace" => staging[B(l)][P(l)] = {l}
        BY DEF IInv, SliceInv, Slice, GateInv, Gate, LandedInv, Landed, Staged
      <4> QED
        BY <2>2, <4>1, <4>2 DEF Stamping, SwapDone, B, P
    <3> QED
      BY <3>1, <3>2
  <2> QED
    BY <2>3, <2>4 DEF SwapInv
<1> QED
  BY <1>1, <1>2

\* Success of a load that was to swap is recorded over a live slice that holds
\* its rows and nothing else, and so is the stamp of the swap: load_history
\* never runs ahead of ClickHouse.
THEOREM HistoryFollows ==
  {"lockconn", "source"} \cap Faults = {} => (Spec => SuccessIsLive)
<1> SUFFICES ASSUME {"lockconn", "source"} \cap Faults = {}
             PROVE  Spec => SuccessIsLive
  OBVIOUS
<1> DEFINE Follows ==
      \A l \in Loads :
        /\ swapped'[l] /\ ~swapped[l] => live[B(l)][P(l)] = {l}
        /\ status'[l] = "success" /\ status[l] # "success" /\ req[l].stop = "swap"
             => swapped[l] /\ live[B(l)][P(l)] = {l}
<1>1. Init => SwapInv
  BY DEF Init, SwapInv, SwapDone
<1>2. IInv /\ IInv' /\ SwapInv /\ [Next]_vars => SwapInv'
  BY SwapStep
<1>3. IInv /\ SwapInv /\ [Next]_vars => [Follows]_vars
  <2> SUFFICES ASSUME IInv, SwapInv, Next PROVE Follows
    OBVIOUS
  <2>1. PICK l \in Loads : Start(l) \/ Step(l) \/ Crash(l)
    BY DEF Next, LoseLock
  <2>2. /\ Stamping(l) /\ \A m \in Loads \ {l} : swapped'[m] = swapped[m]
        /\ \A m \in Loads \ {l} : status'[m] = status[m]
    BY <2>1, StampStep, FrameStep DEF IInv, Frame
  <2> QED
    BY <2>2 DEF Stamping, SwapInv, SwapDone
<1>4. Spec => []IInv
  BY Invariant
<1> QED
  BY <1>1, <1>2, <1>3, <1>4, PTL DEF Spec, SuccessIsLive, Follows
=============================================================================
