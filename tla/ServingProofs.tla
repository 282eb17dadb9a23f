--------------------------- MODULE ServingProofs ---------------------------
(***************************************************************************)
(* The administration commands beside the requests of the MCP endpoint:    *)
(* what they promise each other, and the books of the read limiter, for    *)
(* any number of commands, requests, users, slots and threads.             *)
(***************************************************************************)
EXTENDS Serving, SequenceTheorems, FiniteSetTheorems, TLAPS

JobType ==
    job \in [Jobs -> [cmd : Commands \cup {Idle}, pc : Steps,
                      seen : Definitions \cup {NoRow}, result : Results]]

Tables ==
    /\ users \in [Ids -> Users \cup {NoRow}]
    /\ accounts \in [Ids -> {"none", "enabled", "disabled"}]
    /\ profiles \in [Profiles -> Definitions \cup {NoRow}]
    /\ assigned \in [Ids -> Profiles \cup {NoRow}]
    /\ history \in [Profiles -> Seq([kind : Kinds, definition : Definitions])]

OfAUser  == {"create_user", "set_admin", "disable_user", "revoke", "assign"}
OfAProfile == {"create_profile", "update_profile", "delete_profile", "assign"}

\* What a command has found out is still so: the row of a user never goes, and
\* the profile to delete was there.
Progressed(j) ==
    /\ job[j].pc = "end" <=> job[j].result # "none"
    /\ job[j].cmd.op = "set_admin" /\ job[j].pc = "row" => HasRow(users, IdOf(j))
    /\ job[j].cmd.op = "disable_user" /\ job[j].pc \in {"account", "row"} => HasRow(users, IdOf(j))
    /\ job[j].cmd.op = "delete_profile" /\ job[j].pc \in {"inuse", "audit"} =>
          job[j].seen \in Definitions
    /\ job[j].cmd.op = "disable_user" /\ job[j].result = "ok" =>
          HasRow(users, IdOf(j)) /\ users[IdOf(j)].disabled

\* The creation has an account of its own making in Keycloak.
HasAccount(j) ==
    /\ job[j].cmd.op = "create_user" /\ job[j].cmd.keycloak
    /\ job[j].pc \in {"row", "rollback"} \/ job[j].result = "ok"

\* The account of a creation stays until that creation takes it back, and no two
\* creations have the same one.
Owned(j) ==
    /\ HasAccount(j) => accounts[IdOf(j)] # "none"
    /\ \A k \in Jobs : HasAccount(j) /\ HasAccount(k) /\ IdOf(k) = IdOf(j) => k = j
    /\ job[j].cmd.op = "create_user" /\ job[j].result = "ok" => HasRow(users, IdOf(j))
    /\ job[j].cmd.op = "create_user" /\ job[j].pc = "rollback" => job[j].cmd.keycloak

PInv ==
    /\ JobType /\ Tables
    /\ \A j \in Jobs : Progressed(j) /\ Owned(j)

-----------------------------------------------------------------------------
(* What a step of a command changes *)

LEMMA Arguments ==
  ASSUME JobType, NEW j \in Jobs
  PROVE  /\ job[j].cmd.op \in OfAUser => IdOf(j) \in Ids
         /\ job[j].cmd.op \in OfAProfile => ProfileOf(j) \in Profiles
         /\ job[j].cmd.op \in {"create_profile", "update_profile"} =>
               job[j].cmd.definition \in Definitions
         /\ job[j].cmd.op \in {"create_user", "set_admin"} => job[j].cmd.admin \in BOOLEAN
<1>1. job[j].cmd \in Commands \cup {Idle}
  BY DEF JobType
<1> QED
  BY <1>1 DEF Commands, Idle, OfAUser, OfAProfile, IdOf, ProfileOf

\* The state of a job after a step, for the steps that end it and the others.
LEMMA Moves ==
  ASSUME JobType, NEW j \in Jobs, NEW pc \in Steps, Go(j, pc)
  PROVE  /\ JobType'
         /\ \A k \in Jobs : job'[k].cmd = job[k].cmd /\ (k # j => job'[k] = job[k])
         /\ job'[j].pc = pc /\ job'[j].result = job[j].result /\ job'[j].seen = job[j].seen
  BY DEF JobType, Go

LEMMA Finishes ==
  ASSUME JobType, NEW j \in Jobs, NEW result \in Results, End(j, result)
  PROVE  /\ JobType'
         /\ \A k \in Jobs : job'[k].cmd = job[k].cmd /\ (k # j => job'[k] = job[k])
         /\ job'[j].pc = "end" /\ job'[j].result = result
  BY DEF JobType, End, Steps

\* A step moves one job, on or to its end, and takes no row of a user away.
OneMoves(j) ==
    \A k \in Jobs : job'[k].cmd = job[k].cmd /\ (k # j => job'[k] = job[k])

Ended(j) == job[j].pc = "end" <=> job[j].result # "none"

UsersKept ==
    \A id \in Ids : HasRow(users, id) =>
        HasRow(users, id)' /\ (users[id].disabled => users'[id].disabled)

AccountsKept == \A id \in Ids : accounts[id] # "none" => accounts'[id] # "none"

Kept(j) ==
    /\ JobType' /\ Tables' /\ OneMoves(j) /\ UsersKept /\ Progressed(j)'
    /\ \/ job[j].cmd.op # "create_user" /\ AccountsKept
       \/ \A k \in Jobs : Owned(k)'

LEMMA NothingStored ==
  ASSUME PInv, UNCHANGED <<users, accounts, profiles, assigned, history>>
  PROVE  Tables' /\ UsersKept /\ AccountsKept
  BY DEF PInv, Tables, UsersKept, AccountsKept, HasRow

LEMMA KeptIsEnough ==
  ASSUME PInv, NEW j \in Jobs, Kept(j)
  PROVE  PInv'
<1>1. ASSUME NEW k \in Jobs PROVE Progressed(k)'
  <2>1. CASE k = j
    BY <2>1 DEF Kept
  <2>2. CASE k # j
    <3>1. job'[k] = job[k] /\ Progressed(k)
      BY <2>2 DEF Kept, OneMoves, PInv
    <3>2. job[k].cmd.op \in {"set_admin", "disable_user"} => IdOf(k) \in Ids
      BY Arguments DEF PInv, OfAUser
    <3> QED
      BY <3>1, <3>2 DEF Progressed, Kept, UsersKept, IdOf, HasRow
  <2> QED
    BY <2>1, <2>2
<1>2. ASSUME job[j].cmd.op # "create_user", AccountsKept, NEW k \in Jobs PROVE Owned(k)'
  <2>1. ASSUME NEW i \in Jobs PROVE IdOf(i)' = IdOf(i) /\ HasAccount(i)' = HasAccount(i)
    BY <1>2 DEF Kept, OneMoves, IdOf, HasAccount
  <2>2. job[k].cmd.op = "create_user" => IdOf(k) \in Ids /\ job'[k] = job[k]
    BY <1>2, Arguments DEF PInv, OfAUser, Kept, OneMoves
  <2>3. Owned(k) /\ job'[k].cmd = job[k].cmd
    BY DEF PInv, Kept, OneMoves
  <2>4. HasAccount(k) => job[k].cmd.op = "create_user"
    BY DEF HasAccount
  <2>5. \A i \in Jobs : HasAccount(k)' /\ HasAccount(i)' /\ IdOf(i)' = IdOf(k)' => i = k
    BY <2>1, <2>3 DEF Owned
  <2>6. HasAccount(k)' => accounts'[IdOf(k)'] # "none"
    BY <1>2, <2>1, <2>2, <2>3, <2>4 DEF Owned, AccountsKept
  <2>7. job'[k].cmd.op = "create_user" /\ job'[k].result = "ok" => users'[IdOf(k)'] # NoRow
    BY <2>1, <2>2, <2>3 DEF Owned, Kept, UsersKept, HasRow
  <2> QED
    BY <2>2, <2>3, <2>5, <2>6, <2>7 DEF Owned, HasRow
<1> QED
  BY <1>1, <1>2 DEF Kept, PInv

-----------------------------------------------------------------------------
(* The commands, one after the other *)

LEMMA DiesKeeps ==
  ASSUME PInv, NEW j \in Jobs, Dies(j)
  PROVE  PInv'
<1>1. End(j, "failed") /\ JobType /\ "failed" \in Results
  BY DEF Dies, PInv, Results
<1>2. JobType' /\ OneMoves(j) /\ job'[j].pc = "end" /\ job'[j].result = "failed"
  BY <1>1, Finishes DEF OneMoves
<1>3. Tables' /\ UsersKept /\ AccountsKept
  BY NothingStored DEF Dies
<1>4. Progressed(j)'
  BY <1>2 DEF Progressed
<1>5. CASE job[j].cmd.op = "create_user"
  <2>1. ASSUME NEW k \in Jobs PROVE Owned(k)'
    <3>1. ~HasAccount(j)' /\ \A i \in Jobs : i # j => HasAccount(i)' = HasAccount(i)
      BY <1>2 DEF HasAccount, OneMoves
    <3>2. IdOf(k)' = IdOf(k) /\ Owned(k) /\ UNCHANGED <<accounts, users>>
      BY <1>2 DEF PInv, OneMoves, IdOf, Dies
    <3>3. \A i \in Jobs : IdOf(i)' = IdOf(i)
      BY <1>2 DEF OneMoves, IdOf
    <3>4. job'[k] = job[k] \/ k = j
      BY <1>2 DEF OneMoves
    <3> QED
      BY <1>2, <3>1, <3>2, <3>3, <3>4 DEF Owned, HasRow
  <2> QED
    BY <1>2, <1>3, <1>4, <2>1, KeptIsEnough DEF Kept
<1>6. CASE job[j].cmd.op # "create_user"
  BY <1>2, <1>3, <1>4, <1>6, KeptIsEnough DEF Kept
<1> QED
  BY <1>5, <1>6

\* A step of a creation: it may get an account nobody has, and may take away the
\* one it has.
LEMMA OwnedAfter ==
  ASSUME PInv, NEW j \in Jobs, job[j].cmd.op = "create_user", OneMoves(j), UsersKept,
         HasAccount(j)' => accounts'[IdOf(j)] # "none",
         \A id \in Ids \ {IdOf(j)} : accounts'[id] = accounts[id],
         accounts'[IdOf(j)] = "none" => accounts[IdOf(j)] = "none" \/ HasAccount(j),
         HasAccount(j)' /\ ~HasAccount(j) => accounts[IdOf(j)] = "none",
         job'[j].result = "ok" => HasRow(users, IdOf(j))',
         job'[j].pc = "rollback" => job[j].cmd.keycloak
  PROVE  \A k \in Jobs : Owned(k)'
<1>1. \A k \in Jobs : /\ IdOf(k)' = IdOf(k) /\ job'[k].cmd = job[k].cmd
                      /\ k # j => job'[k] = job[k] /\ HasAccount(k)' = HasAccount(k)
                      /\ Owned(k)
                      /\ job[k].cmd.op = "create_user" => IdOf(k) \in Ids
  BY Arguments DEF OneMoves, IdOf, HasAccount, PInv, OfAUser
<1>2. Owned(j)'
  <2>1. ASSUME NEW k \in Jobs, HasAccount(j)', HasAccount(k)', IdOf(k) = IdOf(j), k # j PROVE FALSE
    <3>1. HasAccount(k) /\ accounts[IdOf(j)] # "none"
      BY <1>1, <2>1 DEF Owned
    <3>2. HasAccount(j)
      BY <2>1, <3>1
    <3> QED
      BY <1>1, <2>1, <3>1, <3>2 DEF Owned
  <2> QED
    BY <1>1, <2>1 DEF Owned, HasRow
<1>3. ASSUME NEW k \in Jobs, k # j PROVE Owned(k)'
  <2>1. HasAccount(k) => accounts'[IdOf(k)] # "none"
    <3>1. CASE IdOf(k) = IdOf(j)
      BY <1>1, <1>3, <3>1 DEF Owned
    <3>2. CASE IdOf(k) # IdOf(j)
      <4>1. HasAccount(k) => job[k].cmd.op = "create_user"
        BY DEF HasAccount
      <4> QED
        BY <1>1, <3>2, <4>1 DEF Owned
    <3> QED
      BY <3>1, <3>2
  <2>2. ASSUME NEW i \in Jobs, HasAccount(k)', HasAccount(i)', IdOf(i) = IdOf(k) PROVE i = k
    <3>1. CASE i # j
      BY <1>1, <1>3, <2>2, <3>1 DEF Owned
    <3>2. CASE i = j
      <4>1. HasAccount(k) /\ accounts[IdOf(j)] # "none"
        BY <1>1, <1>3, <2>2, <3>2 DEF Owned
      <4>2. HasAccount(j)
        BY <2>2, <3>2, <4>1
      <4> QED
        BY <1>1, <2>2, <3>2, <4>1, <4>2 DEF Owned
    <3> QED
      BY <3>1, <3>2
  <2>3. job'[k].cmd.op = "create_user" /\ job'[k].result = "ok" => HasRow(users, IdOf(k))'
    BY <1>1, <1>3 DEF Owned, UsersKept, HasRow
  <2> QED
    BY <1>1, <1>3, <2>1, <2>2, <2>3 DEF Owned, HasRow
<1> QED
  BY <1>2, <1>3

LEMMA CreateChecksKeeps ==
  ASSUME PInv, NEW j \in Jobs, CreateChecks(j)
  PROVE  PInv'
<1>1. /\ JobType /\ Runs(j, "create_user", "check") /\ IdOf(j) \in Ids
      /\ UNCHANGED <<users, accounts, profiles, assigned, history>>
      /\ \/ Go(j, IF job[j].cmd.keycloak THEN "account" ELSE "row")
         \/ End(j, "refused")
  BY Arguments DEF CreateChecks, Checks, PInv, Runs, OfAUser
<1>2. /\ JobType' /\ OneMoves(j)
      /\ \/ /\ job'[j].pc = IF job[j].cmd.keycloak THEN "account" ELSE "row"
            /\ job'[j].result = job[j].result
         \/ job'[j].pc = "end" /\ job'[j].result = "refused"
  BY <1>1, Moves, Finishes DEF OneMoves, Steps, Results
<1>3. Tables' /\ UsersKept /\ AccountsKept
  BY <1>1, NothingStored
<1>4. job[j].result = "none" /\ ~HasAccount(j)
  BY <1>1 DEF PInv, Progressed, Runs, HasAccount
<1>5. Progressed(j)'
  BY <1>1, <1>2, <1>4 DEF Progressed, Runs, OneMoves
<1>6. ~HasAccount(j)' /\ job'[j].result # "ok" /\ job'[j].pc # "rollback"
  BY <1>2, <1>4 DEF HasAccount, OneMoves
<1> QED
  BY <1>1, <1>2, <1>3, <1>5, <1>6, KeptIsEnough, OwnedAfter DEF Kept, Runs

LEMMA CreateAccountKeeps ==
  ASSUME PInv, NEW j \in Jobs, CreateAccount(j)
  PROVE  PInv'
<1>1. /\ JobType /\ Tables /\ Runs(j, "create_user", "account") /\ IdOf(j) \in Ids
      /\ UNCHANGED <<users, profiles, assigned, history>>
  BY Arguments DEF CreateAccount, PInv, Runs, OfAUser
<1>2. \/ /\ accounts[IdOf(j)] = "none"
         /\ accounts' = [accounts EXCEPT ![IdOf(j)] = "enabled"]
         /\ Go(j, "row") \/ End(j, "failed")
      \/ accounts' = accounts /\ End(j, "failed")
  BY DEF CreateAccount, Call
<1>3. job[j].result = "none" /\ ~HasAccount(j)
  BY <1>1 DEF PInv, Progressed, Runs, HasAccount
<1>4. /\ JobType' /\ OneMoves(j)
      /\ \/ job'[j].pc = "row" /\ job'[j].result = "none"
         \/ job'[j].pc = "end" /\ job'[j].result = "failed"
  BY <1>1, <1>2, <1>3, Moves, Finishes DEF OneMoves, Steps, Results
<1>5. HasAccount(j)' => accounts[IdOf(j)] = "none" /\ accounts' = [accounts EXCEPT ![IdOf(j)] = "enabled"]
  <2>1. CASE End(j, "failed")
    <3>1. job'[j].pc = "end" /\ job'[j].result = "failed"
      BY <1>1, <2>1, Finishes DEF Results
    <3> QED
      BY <3>1 DEF HasAccount
  <2> QED
    BY <1>2, <2>1
<1>6. Tables' /\ UsersKept
  BY <1>1, <1>2 DEF Tables, UsersKept, HasRow
<1>7. /\ \A id \in Ids \ {IdOf(j)} : accounts'[id] = accounts[id]
      /\ accounts'[IdOf(j)] = "none" => accounts[IdOf(j)] = "none"
  BY <1>1, <1>2 DEF Tables
<1>8. HasAccount(j)' => accounts'[IdOf(j)] # "none"
  BY <1>1, <1>5 DEF Tables
<1>9. Progressed(j)'
  BY <1>1, <1>4 DEF Progressed, Runs, OneMoves
<1>10. job'[j].result # "ok" /\ job'[j].pc # "rollback"
  BY <1>4
<1>11. \A k \in Jobs : Owned(k)'
  BY <1>1, <1>3, <1>4, <1>5, <1>6, <1>7, <1>8, <1>10, OwnedAfter DEF Runs
<1> QED
  BY <1>4, <1>6, <1>9, <1>11, KeptIsEnough DEF Kept

LEMMA CreateRowKeeps ==
  ASSUME PInv, NEW j \in Jobs, CreateRow(j)
  PROVE  PInv'
<1>1. /\ JobType /\ Tables /\ Runs(j, "create_user", "row") /\ IdOf(j) \in Ids
      /\ UNCHANGED <<accounts, profiles, assigned, history>>
      /\ job[j].cmd.admin \in BOOLEAN
  BY Arguments DEF CreateRow, PInv, Runs, OfAUser
<1>2. job[j].result = "none" /\ (job[j].cmd.keycloak => HasAccount(j))
  BY <1>1 DEF PInv, Progressed, Runs, HasAccount
<1>3. CASE /\ ~HasRow(users, IdOf(j)) /\ End(j, "ok")
           /\ users' = [users EXCEPT ![IdOf(j)] = [admin |-> job[j].cmd.admin, disabled |-> FALSE]]
  <2>1. JobType' /\ OneMoves(j) /\ job'[j].pc = "end" /\ job'[j].result = "ok"
    BY <1>1, <1>3, Finishes DEF OneMoves, Results
  <2>2. [admin |-> job[j].cmd.admin, disabled |-> FALSE] \in Users
    BY <1>1 DEF Users
  <2>3. Tables' /\ UsersKept /\ HasRow(users, IdOf(j))'
    <3>1. IdOf(j)' = IdOf(j) /\ users'[IdOf(j)] # NoRow
      BY <1>1, <1>3, <2>1, <2>2, ProvisioningAssumption DEF Tables, OneMoves, IdOf
    <3>2. Tables'
      BY <1>1, <1>3, <2>2 DEF Tables
    <3>3. UsersKept
      BY <1>1, <1>3 DEF Tables, UsersKept, HasRow
    <3> QED
      BY <3>1, <3>2, <3>3 DEF HasRow
  <2>4. HasAccount(j)' => HasAccount(j)
    BY <1>2, <2>1 DEF HasAccount, OneMoves
  <2>5. HasAccount(j) => accounts[IdOf(j)] # "none"
    BY DEF PInv, Owned
  <2>6. \A k \in Jobs : Owned(k)'
    BY <1>1, <2>1, <2>3, <2>4, <2>5, OwnedAfter DEF Runs
  <2>7. Progressed(j)'
    BY <1>1, <2>1 DEF Progressed, Runs, OneMoves
  <2> QED
    BY <2>1, <2>3, <2>6, <2>7, KeptIsEnough DEF Kept
<1>4. CASE /\ IF job[j].cmd.keycloak THEN Go(j, "rollback") ELSE End(j, "failed")
           /\ UNCHANGED users
  <2>1. /\ JobType' /\ OneMoves(j)
        /\ \/ job[j].cmd.keycloak /\ job'[j].pc = "rollback" /\ job'[j].result = "none"
           \/ job'[j].pc = "end" /\ job'[j].result = "failed"
    BY <1>1, <1>2, <1>4, Moves, Finishes DEF OneMoves, Steps, Results
  <2>2. Tables' /\ UsersKept /\ AccountsKept
    BY <1>1, <1>4, NothingStored
  <2>3. HasAccount(j)' => HasAccount(j)
    BY <1>2, <2>1 DEF HasAccount, OneMoves
  <2>4. HasAccount(j) => accounts[IdOf(j)] # "none"
    BY DEF PInv, Owned
  <2>5. \A k \in Jobs : Owned(k)'
    BY <1>1, <2>1, <2>2, <2>3, <2>4, OwnedAfter DEF Runs
  <2>6. Progressed(j)'
    BY <1>1, <2>1 DEF Progressed, Runs, OneMoves
  <2> QED
    BY <2>1, <2>2, <2>5, <2>6, KeptIsEnough DEF Kept
<1> QED
  BY <1>3, <1>4 DEF CreateRow

LEMMA CreateRollbackKeeps ==
  ASSUME PInv, NEW j \in Jobs, CreateRollback(j)
  PROVE  PInv'
<1>1. /\ JobType /\ Tables /\ Runs(j, "create_user", "rollback") /\ IdOf(j) \in Ids
      /\ UNCHANGED <<users, profiles, assigned, history>> /\ End(j, "failed")
      /\ \/ accounts' = [accounts EXCEPT ![IdOf(j)] = "none"]
         \/ accounts' = accounts
  BY Arguments DEF CreateRollback, Call, PInv, Runs, OfAUser
<1>2. HasAccount(j)
  BY <1>1 DEF PInv, Owned, Runs, HasAccount
<1>3. JobType' /\ OneMoves(j) /\ job'[j].pc = "end" /\ job'[j].result = "failed"
  BY <1>1, Finishes DEF OneMoves, Results
<1>4. Tables' /\ UsersKept /\ \A id \in Ids \ {IdOf(j)} : accounts'[id] = accounts[id]
  BY <1>1 DEF Tables, UsersKept, HasRow
<1>5. ~HasAccount(j)'
  BY <1>3 DEF HasAccount
<1>6. \A k \in Jobs : Owned(k)'
  BY <1>1, <1>2, <1>3, <1>4, <1>5, OwnedAfter DEF Runs
<1>7. Progressed(j)'
  BY <1>1, <1>3 DEF Progressed, Runs, OneMoves
<1> QED
  BY <1>3, <1>4, <1>6, <1>7, KeptIsEnough DEF Kept

\* A query that lets the command go on or refuses it.
LEMMA ChecksMove ==
  ASSUME PInv, NEW j \in Jobs, NEW op, NEW passes, NEW pc \in Steps, Checks(j, op, passes, pc)
  PROVE  /\ JobType' /\ OneMoves(j) /\ Tables' /\ UsersKept /\ AccountsKept /\ Runs(j, op, "check")
         /\ job[j].result = "none"
         /\ UNCHANGED <<users, accounts, profiles, assigned, history>>
         /\ \/ passes /\ job'[j].pc = pc /\ job'[j].result = "none"
            \/ job'[j].pc = "end" /\ job'[j].result = "refused"
<1>1. JobType /\ job[j].result = "none" /\ Runs(j, op, "check")
  BY DEF Checks, PInv, Progressed, Runs
<1>2. Tables' /\ UsersKept /\ AccountsKept
  BY NothingStored DEF Checks
<1> QED
  BY <1>1, <1>2, Moves, Finishes DEF Checks, OneMoves, Results

\* A step that ends the command or takes it on, and is no creation.
LEMMA PlainStep ==
  ASSUME PInv, NEW j \in Jobs, job[j].cmd.op \notin {"create_user"}, job[j].pc # "end",
         JobType', OneMoves(j), Tables', UsersKept, AccountsKept,
         \/ job'[j].pc = "end" /\ job'[j].result # "none"
         \/ job'[j].pc # "end" /\ job'[j].result = job[j].result,
         /\ job[j].cmd.op = "set_admin" => job'[j].pc \in {"row", "end"}
         /\ job[j].cmd.op = "set_admin" /\ job'[j].pc = "row" => HasRow(users, IdOf(j))
         /\ job[j].cmd.op = "disable_user" /\ job'[j].pc # "end" => HasRow(users, IdOf(j))
         /\ job[j].cmd.op = "disable_user" /\ job'[j].result = "ok" =>
               HasRow(users, IdOf(j)) /\ users'[IdOf(j)].disabled,
         job[j].cmd.op = "delete_profile" /\ job'[j].pc \in {"inuse", "audit"} =>
            job'[j].seen \in Definitions
  PROVE  PInv'
<1>1. IdOf(j)' = IdOf(j) /\ job'[j].cmd = job[j].cmd
  BY DEF OneMoves, IdOf
<1>2. job[j].cmd.op \in {"set_admin", "disable_user"} => IdOf(j) \in Ids
  BY Arguments DEF PInv, OfAUser
<1>3. job[j].cmd.op \in {"set_admin", "disable_user"} /\ HasRow(users, IdOf(j)) => HasRow(users, IdOf(j))'
  BY <1>1, <1>2 DEF UsersKept, HasRow
<1>4. job[j].result = "none"
  BY DEF PInv, Progressed
<1>5. Progressed(j)'
  BY <1>1, <1>3, <1>4 DEF Progressed
<1> QED
  BY <1>5, KeptIsEnough DEF Kept

LEMMA AdminKeeps ==
  ASSUME PInv, NEW j \in Jobs, AdminChecks(j) \/ AdminRow(j)
  PROVE  PInv'
<1>1. CASE AdminChecks(j)
  BY <1>1, ChecksMove, PlainStep DEF AdminChecks, Runs, Steps
<1>2. CASE AdminRow(j)
  <2>1. /\ JobType /\ Tables /\ IdOf(j) \in Ids /\ job[j].cmd.admin \in BOOLEAN
        /\ Runs(j, "set_admin", "row") /\ HasRow(users, IdOf(j))
        /\ UNCHANGED <<accounts, profiles, assigned, history>>
    BY <1>2, Arguments DEF AdminRow, PInv, Progressed, Runs, OfAUser
  <2>2. JobType' /\ OneMoves(j) /\ job'[j].pc = "end" /\ job'[j].result = "ok"
    BY <1>2, <2>1, Finishes DEF AdminRow, OneMoves, Results
  <2>3. users' = [users EXCEPT ![IdOf(j)].admin = job[j].cmd.admin] /\ users[IdOf(j)] \in Users
    BY <1>2, <2>1 DEF AdminRow, Tables, HasRow
  <2>4. [users[IdOf(j)] EXCEPT !.admin = job[j].cmd.admin] \in Users
    BY <2>1, <2>3 DEF Users
  <2>5. Tables'
    BY <2>1, <2>3, <2>4 DEF Tables
  <2>6. UsersKept
    BY <2>1, <2>3, <2>4, ProvisioningAssumption DEF Tables, UsersKept, HasRow, Users
  <2> QED
    BY <2>1, <2>2, <2>5, <2>6, PlainStep DEF Runs, AccountsKept
<1> QED
  BY <1>1, <1>2

LEMMA DisableKeeps ==
  ASSUME PInv, NEW j \in Jobs, DisableChecks(j) \/ DisableAccount(j) \/ DisableRow(j)
  PROVE  PInv'
<1>1. CASE DisableChecks(j)
  BY <1>1, ChecksMove, PlainStep DEF DisableChecks, Runs, Steps
<1>2. CASE DisableAccount(j)
  <2>1. /\ JobType /\ Tables /\ IdOf(j) \in Ids /\ job[j].result = "none"
        /\ Runs(j, "disable_user", "account") /\ HasRow(users, IdOf(j))
        /\ UNCHANGED <<users, profiles, assigned, history>>
    BY <1>2, Arguments DEF DisableAccount, PInv, Progressed, Runs, OfAUser
  <2>2. /\ accounts' = [accounts EXCEPT ![IdOf(j)] = "disabled"] \/ accounts' = accounts
        /\ Go(j, "row") \/ End(j, "failed")
    BY <1>2 DEF DisableAccount, Call
  <2>3. /\ JobType' /\ OneMoves(j)
        /\ \/ job'[j].pc = "row" /\ job'[j].result = "none"
           \/ job'[j].pc = "end" /\ job'[j].result = "failed"
    BY <2>1, <2>2, Moves, Finishes DEF OneMoves, Results, Steps
  <2>4. Tables' /\ UsersKept /\ AccountsKept
    BY <2>1, <2>2 DEF Tables, UsersKept, AccountsKept, HasRow
  <2> QED
    BY <2>1, <2>3, <2>4, PlainStep DEF Runs
<1>3. CASE DisableRow(j)
  <2>1. /\ JobType /\ Tables /\ IdOf(j) \in Ids
        /\ Runs(j, "disable_user", "row") /\ HasRow(users, IdOf(j))
        /\ UNCHANGED <<accounts, profiles, assigned, history>>
    BY <1>3, Arguments DEF DisableRow, PInv, Progressed, Runs, OfAUser
  <2>2. JobType' /\ OneMoves(j) /\ job'[j].pc = "end" /\ job'[j].result = "ok"
    BY <1>3, <2>1, Finishes DEF DisableRow, OneMoves, Results
  <2>3. users' = [users EXCEPT ![IdOf(j)].disabled = TRUE] /\ users[IdOf(j)] \in Users
    BY <1>3, <2>1 DEF DisableRow, Tables, HasRow
  <2>4. [users[IdOf(j)] EXCEPT !.disabled = TRUE] \in Users
    BY <2>3 DEF Users
  <2>5. Tables' /\ users'[IdOf(j)].disabled
    BY <2>1, <2>3, <2>4 DEF Tables, Users
  <2>6. UsersKept
    BY <2>1, <2>3, <2>4, ProvisioningAssumption DEF Tables, UsersKept, HasRow, Users
  <2> QED
    BY <2>1, <2>2, <2>5, <2>6, PlainStep DEF Runs, AccountsKept
<1> QED
  BY <1>1, <1>2, <1>3

LEMMA UsersUntouched ==
  ASSUME UNCHANGED <<users, accounts>>
  PROVE  UsersKept /\ AccountsKept
  BY DEF UsersKept, AccountsKept, HasRow

LEMMA RecordedIsAudited ==
  ASSUME Tables, NEW p \in Profiles, NEW kind \in Kinds, NEW def \in Definitions,
         Recorded(p, kind, def)
  PROVE  history' \in [Profiles -> Seq([kind : Kinds, definition : Definitions])]
<1> DEFINE Row == [kind : Kinds, definition : Definitions]
<1>1. [kind |-> kind, definition |-> def] \in Row
  OBVIOUS
<1>2. history \in [Profiles -> Seq(Row)]
      /\ history' = [history EXCEPT ![p] = Append(@, [kind |-> kind, definition |-> def])]
  BY DEF Tables, Recorded
<1> HIDE DEF Row
<1>3. Append(history[p], [kind |-> kind, definition |-> def]) \in Seq(Row)
  BY <1>1, <1>2
<1>4. history' \in [Profiles -> Seq(Row)]
  BY <1>2, <1>3
<1> QED
  BY <1>4 DEF Row

LEMMA ProfileKeeps ==
  ASSUME PInv, NEW j \in Jobs, ProfileChecks(j) \/ ProfileRow(j) \/ ProfileAudit(j)
  PROVE  PInv'
<1> DEFINE ops == {"create_profile", "update_profile"}
<1>0. JobType /\ Tables
  BY DEF PInv
<1>1. CASE ProfileChecks(j)
  BY <1>1, ChecksMove, PlainStep DEF ProfileChecks, Runs, Steps
<1>2. CASE ProfileRow(j)
  <2>1. /\ job[j].cmd.op \in ops /\ job[j].pc = "row" /\ Go(j, "audit")
        /\ UNCHANGED <<users, accounts, assigned, history>>
        /\ \/ profiles' = profiles
           \/ profiles' = [profiles EXCEPT ![ProfileOf(j)] = job[j].cmd.definition]
    BY <1>2 DEF ProfileRow, Runs
  <2>2. JobType' /\ OneMoves(j) /\ job'[j].pc = "audit" /\ job'[j].result = job[j].result
    BY <1>0, <2>1, Moves DEF OneMoves, Steps
  <2>3. ProfileOf(j) \in Profiles /\ job[j].cmd.definition \in Definitions
    BY <1>0, <2>1, Arguments DEF OfAProfile
  <2>4. Tables'
    BY <1>0, <2>1, <2>3 DEF Tables
  <2> QED
    BY <2>1, <2>2, <2>4, UsersUntouched, PlainStep
<1>3. CASE ProfileAudit(j)
  <2>1. /\ job[j].cmd.op \in ops /\ job[j].pc = "audit" /\ End(j, "ok")
        /\ UNCHANGED <<users, accounts, profiles, assigned>>
        /\ \E kind \in Kinds : Recorded(ProfileOf(j), kind, job[j].cmd.definition)
    BY <1>3 DEF ProfileAudit, Runs, Kinds
  <2>2. JobType' /\ OneMoves(j) /\ job'[j].pc = "end" /\ job'[j].result = "ok"
    BY <1>0, <2>1, Finishes DEF OneMoves, Results
  <2>3. ProfileOf(j) \in Profiles /\ job[j].cmd.definition \in Definitions
    BY <1>0, <2>1, Arguments DEF OfAProfile
  <2>4. Tables'
    BY <1>0, <2>1, <2>3, RecordedIsAudited DEF Tables
  <2> QED
    BY <2>1, <2>2, <2>4, UsersUntouched, PlainStep
<1> QED
  BY <1>1, <1>2, <1>3

LEMMA DeleteKeeps ==
  ASSUME PInv, NEW j \in Jobs, DeleteChecks(j) \/ DeleteInUse(j) \/ DeleteAudit(j) \/ DeleteRow(j)
  PROVE  PInv'
<1>0. /\ JobType /\ Tables
      /\ job[j].cmd.op = "delete_profile" /\ ProfileOf(j) \in Profiles /\ job[j].pc # "end"
      /\ job[j].pc \in {"inuse", "audit"} => job[j].seen \in Definitions
  BY Arguments DEF PInv, Progressed, DeleteChecks, DeleteInUse, DeleteAudit, DeleteRow, Runs, OfAProfile
<1>1. CASE DeleteChecks(j)
  <2>1. Tables' /\ UsersKept /\ AccountsKept
    BY <1>1, NothingStored DEF DeleteChecks
  <2>2. CASE HasRow(profiles, ProfileOf(j))
    <3>1. /\ job' = [job EXCEPT ![j].pc = "inuse", ![j].seen = profiles[ProfileOf(j)]]
          /\ profiles[ProfileOf(j)] \in Definitions
      BY <1>0, <1>1, <2>2 DEF DeleteChecks, Tables, HasRow
    <3>2. /\ JobType' /\ OneMoves(j) /\ job'[j].pc = "inuse" /\ job'[j].result = job[j].result
          /\ job'[j].seen \in Definitions
      BY <1>0, <3>1 DEF JobType, OneMoves, Steps
    <3> QED
      BY <1>0, <2>1, <3>2, PlainStep
  <2>3. CASE ~HasRow(profiles, ProfileOf(j))
    <3>1. JobType' /\ OneMoves(j) /\ job'[j].pc = "end" /\ job'[j].result = "refused"
      BY <1>0, <1>1, <2>3, Finishes DEF DeleteChecks, OneMoves, Results
    <3> QED
      BY <1>0, <2>1, <3>1, PlainStep
  <2> QED
    BY <2>2, <2>3
<1>2. CASE DeleteInUse(j)
  <2>1. Tables' /\ UsersKept /\ AccountsKept
    BY <1>2, NothingStored DEF DeleteInUse
  <2>2. /\ JobType' /\ OneMoves(j)
        /\ \/ job'[j].pc = "audit" /\ job'[j].result = job[j].result /\ job'[j].seen = job[j].seen
           \/ job'[j].pc = "end" /\ job'[j].result = "refused"
    BY <1>0, <1>2, Moves, Finishes DEF DeleteInUse, OneMoves, Steps, Results
  <2>3. job[j].pc = "inuse"
    BY <1>2 DEF DeleteInUse, Runs
  <2> QED
    BY <1>0, <2>1, <2>2, <2>3, PlainStep
<1>3. CASE DeleteAudit(j)
  <2>1. /\ job[j].pc = "audit" /\ Recorded(ProfileOf(j), "delete", job[j].seen) /\ Go(j, "row")
        /\ UNCHANGED <<users, accounts, profiles, assigned>>
    BY <1>3 DEF DeleteAudit, Runs
  <2>2. Tables'
    BY <1>0, <2>1, RecordedIsAudited DEF Tables, Kinds
  <2>3. JobType' /\ OneMoves(j) /\ job'[j].pc = "row" /\ job'[j].result = job[j].result
    BY <1>0, <2>1, Moves DEF OneMoves, Steps
  <2> QED
    BY <1>0, <2>1, <2>2, <2>3, UsersUntouched, PlainStep
<1>4. CASE DeleteRow(j)
  <2>1. /\ UNCHANGED <<users, accounts, assigned, history>>
        /\ End(j, "ok") \/ End(j, "failed")
        /\ profiles' = [profiles EXCEPT ![ProfileOf(j)] = NoRow] \/ profiles' = profiles
    BY <1>4 DEF DeleteRow
  <2>2. Tables'
    BY <1>0, <2>1 DEF Tables
  <2>3. JobType' /\ OneMoves(j) /\ job'[j].pc = "end" /\ job'[j].result \in {"ok", "failed"}
    BY <1>0, <2>1, Finishes DEF OneMoves, Results
  <2> QED
    BY <1>0, <2>1, <2>2, <2>3, UsersUntouched, PlainStep
<1> QED
  BY <1>1, <1>2, <1>3, <1>4

LEMMA AssignKeeps ==
  ASSUME PInv, NEW j \in Jobs,
         \/ AssignChecksUser(j) \/ AssignChecksProfile(j) \/ AssignRow(j)
         \/ RevokeChecks(j) \/ RevokeRow(j)
  PROVE  PInv'
<1>0. JobType /\ Tables
  BY DEF PInv
<1>1. CASE AssignChecksUser(j)
  BY <1>1, ChecksMove, PlainStep DEF AssignChecksUser, Runs, Steps
<1>2. CASE RevokeChecks(j)
  BY <1>2, ChecksMove, PlainStep DEF RevokeChecks, Runs, Steps
<1>3. CASE AssignChecksProfile(j)
  <2>1. Tables' /\ UsersKept /\ AccountsKept
    BY <1>3, NothingStored DEF AssignChecksProfile
  <2>2. /\ JobType' /\ OneMoves(j)
        /\ \/ job'[j].pc = "row" /\ job'[j].result = job[j].result
           \/ job'[j].pc = "end" /\ job'[j].result = "refused"
    BY <1>0, <1>3, Moves, Finishes DEF AssignChecksProfile, OneMoves, Steps, Results
  <2> QED
    BY <1>3, <2>1, <2>2, PlainStep DEF AssignChecksProfile, Runs
<1>4. CASE AssignRow(j) \/ RevokeRow(j)
  <2>1. /\ job[j].cmd.op \in {"assign", "revoke"} /\ job[j].pc = "row"
        /\ UNCHANGED <<users, accounts, profiles, history>>
        /\ End(j, "ok") \/ End(j, "failed")
        /\ \/ assigned' = assigned
           \/ job[j].cmd.op = "assign" /\ assigned' = [assigned EXCEPT ![IdOf(j)] = ProfileOf(j)]
           \/ assigned' = [assigned EXCEPT ![IdOf(j)] = NoRow]
    BY <1>4 DEF AssignRow, RevokeRow, Runs
  <2>2. IdOf(j) \in Ids /\ (job[j].cmd.op = "assign" => ProfileOf(j) \in Profiles)
    BY <1>0, <2>1, Arguments DEF OfAUser, OfAProfile
  <2>3. Tables'
    BY <1>0, <2>1, <2>2 DEF Tables
  <2>4. JobType' /\ OneMoves(j) /\ job'[j].pc = "end" /\ job'[j].result \in {"ok", "failed"}
    BY <1>0, <2>1, Finishes DEF OneMoves, Results
  <2> QED
    BY <2>1, <2>3, <2>4, UsersUntouched, PlainStep
<1> QED
  BY <1>1, <1>2, <1>3, <1>4

LEMMA AdminStepKeeps ==
  ASSUME PInv, NEW j \in Jobs, AdminStep(j)
  PROVE  PInv'
  BY CreateChecksKeeps, CreateAccountKeeps, CreateRowKeeps, CreateRollbackKeeps, AdminKeeps,
     DisableKeeps, ProfileKeeps, DeleteKeeps, AssignKeeps, DiesKeeps DEF AdminStep

-----------------------------------------------------------------------------
(* One semaphore: the requests that hold a slot of it and those that wait   *)

In(r, q)    == \E i \in 1..Len(q) : q[i] = r
Distinct(q) == \A i, j \in 1..Len(q) : q[i] = q[j] => i = j

Semaphores == [free : Nat, waiters : Seq(Requests), woken : SUBSET Requests]

\* The queue holds the requests that wait, each once, but for those that were
\* handed a slot; nobody queues while a slot is free; every slot is somewhere.
Consistent(s, holders, waiting, cap) ==
    /\ s \in Semaphores
    /\ s.woken \subseteq waiting
    /\ \A r \in Requests : In(r, s.waiters) <=> r \in waiting \ s.woken
    /\ Distinct(s.waiters)
    /\ s.free + Cardinality(holders) + Cardinality(s.woken) = cap
    /\ s.waiters # << >> => s.free = 0

LEMMA Finite ==
  ASSUME NEW S \in SUBSET Requests
  PROVE  IsFiniteSet(S) /\ Cardinality(S) \in Nat
  BY ServingAssumption, FS_Subset, FS_CardinalityType

Rest(q, k) == SubSeq(q, 1, k - 1) \o SubSeq(q, k + 1, Len(q))

LEMMA Removed ==
  ASSUME NEW S, NEW q \in Seq(S), NEW k \in 1..Len(q)
  PROVE  /\ Rest(q, k) \in Seq(S) /\ Len(Rest(q, k)) = Len(q) - 1
         /\ \A i \in 1..(Len(q) - 1) : Rest(q, k)[i] = IF i < k THEN q[i] ELSE q[i + 1]
<1> DEFINE a == SubSeq(q, 1, k - 1)
           b == SubSeq(q, k + 1, Len(q))
<1>0. Len(q) \in Nat /\ k \in Nat /\ \A i \in 1..Len(q) : q[i] \in S
  BY ElementOfSeq
<1>1. a \in Seq(S) /\ Len(a) = k - 1 /\ \A i \in 1..(k - 1) : a[i] = q[i]
  BY <1>0, SubSeqProperties
<1>2. b \in Seq(S) /\ Len(b) = Len(q) - k /\ \A i \in 1..(Len(q) - k) : b[i] = q[k + i]
  <2>1. k + 1 \in Int /\ Len(q) \in Int /\ \A i \in (k + 1)..Len(q) : q[i] \in S
    BY <1>0
  <2>2. /\ b \in Seq(S)
        /\ Len(b) = IF k + 1 <= Len(q) THEN Len(q) - (k + 1) + 1 ELSE 0
        /\ \A i \in 1..(Len(q) - (k + 1) + 1) : b[i] = q[(k + 1) + i - 1]
    BY <2>1, SubSeqProperties
  <2> HIDE DEF b
  <2>3. Len(q) - (k + 1) + 1 = Len(q) - k /\ \A i \in Nat : (k + 1) + i - 1 = k + i
    BY <1>0
  <2>4. Len(b) = Len(q) - k
    <3>1. CASE k + 1 <= Len(q)
      BY <2>2, <2>3, <3>1
    <3>2. CASE ~(k + 1 <= Len(q))
      BY <1>0, <2>2, <3>2
    <3> QED
      BY <3>1, <3>2
  <2>5. ASSUME NEW i \in 1..(Len(q) - k) PROVE i \in Nat /\ b[i] = q[(k + 1) + i - 1]
    <3>1. i \in 1..(Len(q) - (k + 1) + 1) /\ i \in Nat
      BY <1>0, <2>3
    <3> QED
      BY <2>2, <3>1
  <2> QED
    BY <2>2, <2>3, <2>4, <2>5
<1> HIDE DEF a, b
<1>3. /\ a \o b \in Seq(S) /\ Len(a \o b) = Len(a) + Len(b)
      /\ \A i \in 1..(Len(a) + Len(b)) : (a \o b)[i] = IF i <= Len(a) THEN a[i] ELSE b[i - Len(a)]
  BY <1>1, <1>2, ConcatProperties
<1>4. Len(a) + Len(b) = Len(q) - 1
  BY <1>0, <1>1, <1>2
<1>5. ASSUME NEW i \in 1..(Len(q) - 1) PROVE (a \o b)[i] = IF i < k THEN q[i] ELSE q[i + 1]
  <2>1. CASE i < k
    BY <1>0, <1>1, <1>3, <1>4, <2>1
  <2>2. CASE ~(i < k)
    <3>1. i - Len(a) \in 1..(Len(q) - k) /\ ~(i <= Len(a)) /\ k + (i - Len(a)) = i + 1
      BY <1>0, <1>1, <2>2
    <3> QED
      BY <1>2, <1>3, <1>4, <2>2, <3>1
  <2> QED
    BY <2>1, <2>2
<1> QED
  BY <1>3, <1>4, <1>5 DEF a, b, Rest

\* Who leaves the queue is gone from it, and the others stay.
LEMMA LeftIsGone ==
  ASSUME NEW S, NEW q \in Seq(S), NEW r, In(r, q), Distinct(q)
  PROVE  /\ Left(q, r) \in Seq(S) /\ Distinct(Left(q, r))
         /\ \A o : In(o, Left(q, r)) <=> In(o, q) /\ o # r
<1> DEFINE k == CHOOSE i \in 1..Len(q) : q[i] = r
           rest == Left(q, r)
<1>1. k \in 1..Len(q) /\ q[k] = r
  BY DEF In
<1> HIDE DEF k
<1>2. rest = Rest(q, k)
  BY DEF Left, Rest, k
<1> HIDE DEF rest
<1>3. /\ rest \in Seq(S) /\ Len(rest) = Len(q) - 1 /\ Len(q) \in Nat
      /\ \A i \in 1..(Len(q) - 1) : rest[i] = IF i < k THEN q[i] ELSE q[i + 1]
  <2>1. /\ Rest(q, k) \in Seq(S) /\ Len(Rest(q, k)) = Len(q) - 1
        /\ \A i \in 1..(Len(q) - 1) : Rest(q, k)[i] = IF i < k THEN q[i] ELSE q[i + 1]
    BY <1>1, Removed
  <2> QED
    BY <1>2, <2>1
<1>4. Distinct(rest)
  <2> SUFFICES ASSUME NEW i \in 1..(Len(q) - 1), NEW j \in 1..(Len(q) - 1), rest[i] = rest[j]
               PROVE  i = j
    BY <1>3 DEF Distinct
  <2> DEFINE x == IF i < k THEN i ELSE i + 1
             y == IF j < k THEN j ELSE j + 1
  <2>1. x \in 1..Len(q) /\ y \in 1..Len(q) /\ q[x] = q[y]
    BY <1>1, <1>3
  <2>2. x = y
    BY <2>1 DEF Distinct
  <2> QED
    BY <1>1, <2>2
<1>5. ASSUME NEW o, In(o, rest) PROVE In(o, q) /\ o # r
  <2>1. PICK i \in 1..(Len(q) - 1) : rest[i] = o
    BY <1>3, <1>5 DEF In
  <2> DEFINE x == IF i < k THEN i ELSE i + 1
  <2>2. x \in 1..Len(q) /\ q[x] = o /\ x # k
    BY <1>1, <1>3, <2>1
  <2> QED
    BY <1>1, <2>2 DEF In, Distinct
<1>6. ASSUME NEW o, In(o, q), o # r PROVE In(o, rest)
  <2>1. PICK i \in 1..Len(q) : q[i] = o
    BY <1>6 DEF In
  <2>2. i # k
    BY <1>1, <1>6, <2>1
  <2>3. CASE i < k
    BY <1>1, <1>3, <2>1, <2>3 DEF In
  <2>4. CASE ~(i < k)
    <3>1. i - 1 \in 1..(Len(q) - 1) /\ ~(i - 1 < k) /\ (i - 1) + 1 = i
      BY <1>1, <1>3, <2>2, <2>4
    <3>2. rest[i - 1] = o
      BY <1>3, <2>1, <3>1
    <3> QED
      BY <1>3, <3>1, <3>2 DEF In
  <2> QED
    BY <2>3, <2>4
<1> QED
  BY <1>3, <1>4, <1>5, <1>6 DEF rest

LEMMA SemaphoreParts ==
  ASSUME NEW s \in Semaphores
  PROVE  /\ s.free \in Nat /\ s.waiters \in Seq(Requests) /\ s.woken \in SUBSET Requests
         /\ Len(s.waiters) \in Nat
         /\ s.waiters = << >> <=> \A r \in Requests : ~In(r, s.waiters)
<1>1. s.free \in Nat /\ s.waiters \in Seq(Requests) /\ s.woken \in SUBSET Requests
  BY DEF Semaphores
<1>2. Len(s.waiters) \in Nat /\ (s.waiters # << >> => Len(s.waiters) \in Nat \ {0})
  BY <1>1, EmptySeq
<1>3. s.waiters # << >> => s.waiters[1] \in Requests /\ In(s.waiters[1], s.waiters)
  BY <1>1, <1>2 DEF In
<1>4. s.waiters = << >> => \A r \in Requests : ~In(r, s.waiters)
  BY DEF In
<1> QED
  BY <1>1, <1>2, <1>3, <1>4

\* A free slot is taken.
LEMMA AcquiredRight ==
  ASSUME NEW s, NEW holders \in SUBSET Requests, NEW waiting, NEW cap \in Nat,
         Consistent(s, holders, waiting, cap),
         NEW r \in Requests \ holders, s.free > 0, s.waiters = << >>
  PROVE  Consistent(Acquired(s), holders \cup {r}, waiting, cap)
<1>1. s \in Semaphores /\ s.free \in Nat
  BY SemaphoreParts DEF Consistent
<1>2. /\ Acquired(s) \in Semaphores /\ Acquired(s).free = s.free - 1
      /\ Acquired(s).waiters = s.waiters /\ Acquired(s).woken = s.woken
  BY <1>1 DEF Acquired, Semaphores
<1>3. Cardinality(holders \cup {r}) = Cardinality(holders) + 1
  BY Finite, FS_AddElement
<1>4. Cardinality(holders) \in Nat /\ Cardinality(s.woken) \in Nat
  BY <1>1, Finite, SemaphoreParts
<1>5. s.free + Cardinality(holders) + Cardinality(s.woken) = cap
  BY DEF Consistent
<1>6. (s.free - 1) + (Cardinality(holders) + 1) + Cardinality(s.woken) = cap
  BY <1>1, <1>4, <1>5
<1> QED
  BY <1>1, <1>2, <1>3, <1>6 DEF Consistent

\* Where none is free, the request queues.
LEMMA QueuedRight ==
  ASSUME NEW s, NEW holders \in SUBSET Requests, NEW waiting, NEW cap \in Nat,
         Consistent(s, holders, waiting, cap),
         NEW r \in Requests \ waiting, ~(s.free > 0 /\ s.waiters = << >>)
  PROVE  Consistent(Queued(s, r), holders, waiting \cup {r}, cap)
<1>1. s \in Semaphores /\ s.free = 0
  BY SemaphoreParts DEF Consistent
<1>2. s.waiters \in Seq(Requests) /\ Len(s.waiters) \in Nat /\ r \notin s.woken
  BY <1>1, SemaphoreParts DEF Consistent
<1>3. /\ Queued(s, r) \in Semaphores /\ Queued(s, r).free = s.free
      /\ Queued(s, r).waiters = Append(s.waiters, r) /\ Queued(s, r).woken = s.woken
  BY <1>1, <1>2 DEF Queued, Semaphores
<1> DEFINE q == s.waiters
           l == Append(q, r)
<1>4. /\ Len(l) = Len(q) + 1 /\ l[Len(q) + 1] = r /\ \A i \in 1..Len(q) : l[i] = q[i]
  BY <1>2
<1> HIDE DEF l
<1>5. ~In(r, q) /\ Distinct(q)
  BY <1>1, <1>2 DEF Consistent
<1>6. \A o : In(o, l) <=> In(o, q) \/ o = r
  <2>1. ASSUME NEW o, In(o, l) PROVE In(o, q) \/ o = r
    <3>1. PICK i \in 1..(Len(q) + 1) : l[i] = o
      BY <1>4, <2>1 DEF In
    <3>2. i \in 1..Len(q) \/ i = Len(q) + 1
      BY <1>2
    <3> QED
      BY <1>4, <3>1, <3>2 DEF In
  <2>2. ASSUME NEW o, In(o, q) PROVE In(o, l)
    BY <1>2, <1>4, <2>2 DEF In
  <2>3. In(r, l)
    BY <1>2, <1>4 DEF In
  <2> QED
    BY <2>1, <2>2, <2>3
<1>7. Distinct(l)
  <2> SUFFICES ASSUME NEW i \in 1..(Len(q) + 1), NEW j \in 1..(Len(q) + 1), l[i] = l[j]
               PROVE  i = j
    BY <1>4 DEF Distinct
  <2>1. i \in 1..Len(q) \/ i = Len(q) + 1
    BY <1>2
  <2>2. j \in 1..Len(q) \/ j = Len(q) + 1
    BY <1>2
  <2> QED
    BY <1>4, <1>5, <2>1, <2>2 DEF Distinct, In
<1> QED
  BY <1>1, <1>2, <1>3, <1>6, <1>7 DEF Consistent, l

\* A slot given back goes to the first waiter, or is free.
LEMMA ReleasedRight ==
  ASSUME NEW s, NEW holders \in SUBSET Requests, NEW waiting, NEW cap \in Nat,
         s \in Semaphores, s.woken \subseteq waiting,
         \A o \in Requests : In(o, s.waiters) <=> o \in waiting \ s.woken,
         Distinct(s.waiters), s.waiters # << >> => s.free = 0,
         s.free + Cardinality(holders) + Cardinality(s.woken) + 1 = cap
  PROVE  Consistent(Released(s), holders, waiting, cap)
<1>1. /\ s.free \in Nat /\ s.waiters \in Seq(Requests) /\ s.woken \in SUBSET Requests
      /\ Len(s.waiters) \in Nat
      /\ Cardinality(holders) \in Nat /\ Cardinality(s.woken) \in Nat
  BY SemaphoreParts, Finite
<1>2. CASE s.waiters = << >>
  <2>1. /\ Released(s) \in Semaphores /\ Released(s).free = s.free + 1
        /\ Released(s).waiters = s.waiters /\ Released(s).woken = s.woken
    BY <1>1, <1>2 DEF Released, Semaphores
  <2>2. (s.free + 1) + Cardinality(holders) + Cardinality(s.woken) = cap
    BY <1>1
  <2> QED
    BY <1>2, <2>1, <2>2 DEF Consistent
<1>3. CASE s.waiters # << >>
  <2> DEFINE h == Head(s.waiters)
             t == Tail(s.waiters)
  <2>1. /\ h \in Requests /\ t \in Seq(Requests) /\ Len(t) = Len(s.waiters) - 1
        /\ \A i \in 1..Len(t) : t[i] = s.waiters[i + 1]
        /\ Len(s.waiters) \in Nat \ {0} /\ h = s.waiters[1]
    BY <1>1, <1>3, HeadTailProperties, EmptySeq
  <2> HIDE DEF h, t
  <2>2. /\ Released(s) \in Semaphores /\ Released(s).free = s.free
        /\ Released(s).waiters = t /\ Released(s).woken = s.woken \cup {h}
    BY <1>1, <1>3, <2>1 DEF Released, Semaphores, h, t
  <2>3. In(h, s.waiters) /\ h \in waiting \ s.woken
    BY <2>1 DEF In
  <2>4. Distinct(t)
    BY <2>1 DEF Distinct
  <2>5. \A o : In(o, t) <=> In(o, s.waiters) /\ o # h
    <3>1. ASSUME NEW o, In(o, t) PROVE In(o, s.waiters) /\ o # h
      <4>1. PICK i \in 1..Len(t) : t[i] = o
        BY <3>1 DEF In
      <4>2. i + 1 \in 1..Len(s.waiters) /\ s.waiters[i + 1] = o /\ i + 1 # 1 /\ 1 \in 1..Len(s.waiters)
        BY <2>1, <4>1
      <4> QED
        BY <2>1, <4>2 DEF In, Distinct
    <3>2. ASSUME NEW o, In(o, s.waiters), o # h PROVE In(o, t)
      <4>1. PICK i \in 1..Len(s.waiters) : s.waiters[i] = o
        BY <3>2 DEF In
      <4>2. i - 1 \in 1..Len(t) /\ (i - 1) + 1 = i
        BY <2>1, <3>2, <4>1
      <4>3. t[i - 1] = o
        BY <2>1, <4>1, <4>2
      <4> QED
        BY <4>2, <4>3 DEF In
    <3> QED
      BY <3>1, <3>2
  <2>6. Cardinality(s.woken \cup {h}) = Cardinality(s.woken) + 1
    BY <1>1, <2>3, Finite, FS_AddElement
  <2>7. s.free + Cardinality(holders) + (Cardinality(s.woken) + 1) = cap
    BY <1>1
  <2>8. \A o \in Requests : In(o, t) <=> o \in waiting \ (s.woken \cup {h})
    BY <2>5
  <2> QED
    BY <1>3, <2>2, <2>3, <2>4, <2>6, <2>7, <2>8 DEF Consistent
<1> QED
  BY <1>2, <1>3

\* A request that holds a slot gives it back.
LEMMA GivenBackRight ==
  ASSUME NEW s, NEW holders \in SUBSET Requests, NEW waiting, NEW cap \in Nat,
         Consistent(s, holders, waiting, cap), NEW r \in holders
  PROVE  Consistent(Released(s), holders \ {r}, waiting, cap)
<1>1. /\ Cardinality(holders \ {r}) = Cardinality(holders) - 1
      /\ Cardinality(holders) \in Nat /\ Cardinality(s.woken) \in Nat /\ s.free \in Nat
  BY Finite, FS_RemoveElement, SemaphoreParts DEF Consistent
<1>2. s.free + Cardinality(holders) + Cardinality(s.woken) = cap
  BY DEF Consistent
<1>3. s.free + Cardinality(holders \ {r}) + Cardinality(s.woken) + 1 = cap
  BY <1>1, <1>2
<1> QED
  BY <1>3, ReleasedRight DEF Consistent

\* A request that was handed a slot takes it.
LEMMA TakenRight ==
  ASSUME NEW s, NEW holders \in SUBSET Requests, NEW waiting, NEW cap \in Nat,
         Consistent(s, holders, waiting, cap), NEW r \in s.woken, r \notin holders
  PROVE  Consistent([s EXCEPT !.woken = @ \ {r}], holders \cup {r}, waiting \ {r}, cap)
<1>1. /\ s \in Semaphores /\ s.woken \in SUBSET Requests /\ s.free \in Nat
      /\ s.free + Cardinality(holders) + Cardinality(s.woken) = cap
  BY SemaphoreParts DEF Consistent
<1> DEFINE u == [s EXCEPT !.woken = @ \ {r}]
<1>2. /\ u \in Semaphores /\ u.free = s.free /\ u.waiters = s.waiters /\ u.woken = s.woken \ {r}
  BY <1>1 DEF Semaphores
<1> HIDE DEF u
<1>3. /\ Cardinality(s.woken \ {r}) = Cardinality(s.woken) - 1
      /\ Cardinality(holders \cup {r}) = Cardinality(holders) + 1
      /\ Cardinality(holders) \in Nat /\ Cardinality(s.woken) \in Nat
  BY <1>1, Finite, FS_AddElement, FS_RemoveElement
<1>4. s.free + Cardinality(holders \cup {r}) + Cardinality(s.woken \ {r}) = cap
  BY <1>1, <1>3
<1> QED
  BY <1>1, <1>2, <1>4 DEF Consistent, u

\* A request that gives up leaves the queue, or hands on the slot it was given.
LEMMA WithdrawnRight ==
  ASSUME NEW s, NEW holders \in SUBSET Requests, NEW waiting, NEW cap \in Nat,
         Consistent(s, holders, waiting, cap), NEW r \in waiting, r \in Requests
  PROVE  Consistent(Withdrawn(s, r), holders, waiting \ {r}, cap)
<1>1. /\ s \in Semaphores /\ s.woken \in SUBSET Requests /\ s.free \in Nat
      /\ s.waiters \in Seq(Requests)
      /\ s.free + Cardinality(holders) + Cardinality(s.woken) = cap
  BY SemaphoreParts DEF Consistent
<1>2. CASE r \in s.woken
  <2> DEFINE u == [s EXCEPT !.woken = @ \ {r}]
  <2>1. /\ u \in Semaphores /\ u.free = s.free /\ u.waiters = s.waiters /\ u.woken = s.woken \ {r}
    BY <1>1 DEF Semaphores
  <2>2. Withdrawn(s, r) = Released(u)
    BY <1>2 DEF Withdrawn
  <2> HIDE DEF u
  <2>3. /\ Cardinality(s.woken \ {r}) = Cardinality(s.woken) - 1
        /\ Cardinality(holders) \in Nat /\ Cardinality(s.woken) \in Nat
    BY <1>1, <1>2, Finite, FS_RemoveElement
  <2>4. u.free + Cardinality(holders) + Cardinality(u.woken) + 1 = cap
    BY <1>1, <2>1, <2>3
  <2> DEFINE w == waiting \ {r}
  <2>5. \A o \in Requests : In(o, u.waiters) <=> o \in w \ u.woken
    BY <1>2, <2>1 DEF Consistent
  <2>6. Distinct(u.waiters) /\ (u.waiters # << >> => u.free = 0) /\ u.woken \subseteq w
    BY <2>1 DEF Consistent
  <2> HIDE DEF w
  <2>7. Consistent(Released(u), holders, w, cap)
    BY <2>1, <2>4, <2>5, <2>6, ReleasedRight
  <2> QED
    BY <2>2, <2>7 DEF w
<1>3. CASE r \notin s.woken
  <2> DEFINE u == [s EXCEPT !.waiters = Left(@, r)]
  <2>1. In(r, s.waiters) /\ Distinct(s.waiters)
    BY <1>3 DEF Consistent
  <2>2. /\ Left(s.waiters, r) \in Seq(Requests) /\ Distinct(Left(s.waiters, r))
        /\ \A o : In(o, Left(s.waiters, r)) <=> In(o, s.waiters) /\ o # r
    BY <1>1, <2>1, LeftIsGone
  <2>3. /\ u \in Semaphores /\ u.free = s.free /\ u.waiters = Left(s.waiters, r)
        /\ u.woken = s.woken
    BY <1>1, <2>2 DEF Semaphores
  <2>4. Withdrawn(s, r) = u
    BY <1>3 DEF Withdrawn
  <2>5. s.waiters # << >>
    BY <1>1, <2>1, SemaphoreParts
  <2> HIDE DEF u
  <2>6. u.free = 0
    BY <2>3, <2>5 DEF Consistent
  <2>7. \A o \in Requests : In(o, u.waiters) <=> o \in (waiting \ {r}) \ u.woken
    BY <2>2, <2>3 DEF Consistent
  <2>8. u.woken \subseteq waiting \ {r}
    BY <1>3, <2>3 DEF Consistent
  <2> QED
    BY <1>1, <2>2, <2>3, <2>4, <2>6, <2>7, <2>8 DEF Consistent
<1> QED
  BY <1>2, <1>3

-----------------------------------------------------------------------------
(* The requests *)

Keys    == Ids \cup {Box}
Batches == {load.requests[r].batch : load \in Loads, r \in Requests}
Grants  == Definitions \cup {NoRow, {}}
States  ==
    [user : Ids, batch : Batches, pc : Pcs, late : BOOLEAN, granted : Grants, got : 0..2,
     done : Nat, replied : BOOLEAN, status : Statuses]

Waiting(k) == {r \in Requests : req[r].pc = "waiting" /\ Awaited(r) = k}

\* How far a request has come and which slots that leaves it.
Underway(r) ==
    /\ req[r].pc = "waiting" => req[r].got \in {0, 1}
    /\ req[r].pc \in {"queued", "engine"} => req[r].got = 2
    /\ req[r].pc \notin {"waiting", "queued", "engine"} => req[r].got = 0
    /\ req[r].done <= Len(req[r].batch)
    /\ req[r].pc \in {"waiting", "queued", "engine"} => req[r].done < Len(req[r].batch)
    /\ req[r].pc = "end" <=> req[r].status # "none"

\* A request that came too late goes no further than the look at the user.
ShutOut(r) ==
    req[r].late =>
        /\ DisableAcknowledged(req[r].user)
        /\ req[r].pc \in {"users", "end"} /\ ~req[r].replied
        /\ req[r].status \in {"none", "rejected"}

\* A request that has not come has nothing.
Fresh(r) == req[r].pc \in {"new", "users", "profile"} => ~req[r].replied /\ req[r].status = "none"

Balanced(k) == Consistent(sem[k], Holders(k), Waiting(k), CapOf(k))

Pools == [size : Nat \ {0}, queue : Seq(Requests)]

SInv ==
    /\ PInv
    /\ req \in [Requests -> States] /\ sem \in [Keys -> Semaphores] /\ pool \in Pools
    /\ \A r \in Requests : Underway(r) /\ ShutOut(r) /\ Fresh(r)
    /\ \A k \in Keys : Balanced(k)

Holds(state, k) ==
    \/ state.got \in {1, 2} /\ state.user = k
    \/ state.got = 2 /\ k = Box
Waits(state, k) == state.pc = "waiting" /\ k = IF state.got = 0 THEN state.user ELSE Box

LEMMA BatchesAreSequences ==
  ASSUME NEW b \in Batches
  PROVE  b \in Seq(Messages) /\ Len(b) \in Nat
<1>1. PICK load \in Loads, r \in Requests : b = load.requests[r].batch
  BY DEF Batches
<1>2. load.requests[r] \in [user : Ids, batch : Seq(Messages)]
  BY ServingAssumption
<1>3. b \in Seq(Messages)
  BY <1>1, <1>2
<1> QED
  BY <1>3, LenProperties

LEMMA HoldersAre ==
  ASSUME SInv, NEW k
  PROVE  /\ Holders(k) = {r \in Requests : Holds(req[r], k)}
         /\ Waiting(k) = {r \in Requests : Waits(req[r], k)}
         /\ Holders(k) \in SUBSET Requests /\ Waiting(k) \in SUBSET Requests
<1>1. ASSUME NEW r \in Requests
      PROVE  (\E i \in 1..req[r].got : SlotOrder(r)[i] = k) <=> Holds(req[r], k)
  <2>1. req[r].got \in 0..2 /\ SlotOrder(r)[1] = req[r].user /\ SlotOrder(r)[2] = Box
    BY DEF SInv, States, SlotOrder
  <2>2. CASE req[r].got = 0
    BY <2>2 DEF Holds
  <2>3. CASE req[r].got = 1
    <3>1. 1..1 = {1}
      OBVIOUS
    <3> QED
      BY <2>1, <2>3, <3>1 DEF Holds
  <2>4. CASE req[r].got = 2
    <3>1. 1..2 = {1, 2}
      OBVIOUS
    <3> QED
      BY <2>1, <2>4, <3>1 DEF Holds
  <2> QED
    BY <2>1, <2>2, <2>3, <2>4
<1>2. ASSUME NEW r \in Requests, req[r].pc = "waiting"
      PROVE  Awaited(r) = IF req[r].got = 0 THEN req[r].user ELSE Box
  <2>1. req[r].got \in {0, 1} /\ SlotOrder(r)[1] = req[r].user /\ SlotOrder(r)[2] = Box
    BY <1>2 DEF SInv, Underway, SlotOrder
  <2> QED
    BY <2>1 DEF Awaited
<1> QED
  BY <1>1, <1>2 DEF Holders, Waiting, Waits

\* One request goes on, as the same user's.
OnlyOne(r) ==
    /\ req' \in [Requests -> States]
    /\ \A q \in Requests \ {r} : req'[q] = req[q]
    /\ req'[r].user = req[r].user

LEMMA UserInIds ==
  ASSUME SInv, NEW r \in Requests
  PROVE  /\ req[r].user \in Ids /\ req[r].user # Box /\ req[r].user \in Keys /\ Box \in Keys
         /\ CapOf(req[r].user) = UserCap /\ CapOf(Box) = BoxCap
  BY ServingAssumption DEF SInv, States, Keys, CapOf

LEMMA HoldersAfter ==
  ASSUME SInv, NEW r \in Requests, OnlyOne(r), Underway(r)', NEW k
  PROVE  /\ Holders(k)' = IF Holds(req'[r], k) THEN Holders(k) \cup {r} ELSE Holders(k) \ {r}
         /\ Waiting(k)' = IF Waits(req'[r], k) THEN Waiting(k) \cup {r} ELSE Waiting(k) \ {r}
<1>1. ASSUME NEW q \in Requests
      PROVE  (\E i \in 1..req'[q].got : SlotOrder(q)'[i] = k) <=> Holds(req'[q], k)
  <2>1. req'[q].got \in 0..2 /\ SlotOrder(q)'[1] = req'[q].user /\ SlotOrder(q)'[2] = Box
    BY DEF OnlyOne, States, SlotOrder
  <2>2. CASE req'[q].got = 0
    BY <2>2 DEF Holds
  <2>3. CASE req'[q].got = 1
    <3>1. 1..1 = {1}
      OBVIOUS
    <3> QED
      BY <2>1, <2>3, <3>1 DEF Holds
  <2>4. CASE req'[q].got = 2
    <3>1. 1..2 = {1, 2}
      OBVIOUS
    <3> QED
      BY <2>1, <2>4, <3>1 DEF Holds
  <2> QED
    BY <2>1, <2>2, <2>3, <2>4
<1>2. ASSUME NEW q \in Requests, req'[q].pc = "waiting"
      PROVE  Awaited(q)' = IF req'[q].got = 0 THEN req'[q].user ELSE Box
  <2>1. req'[q].got \in {0, 1} /\ SlotOrder(q)'[1] = req'[q].user /\ SlotOrder(q)'[2] = Box
    BY <1>2 DEF SInv, OnlyOne, Underway, SlotOrder
  <2> QED
    BY <2>1 DEF Awaited
<1>3. /\ Holders(k)' = {q \in Requests : Holds(req'[q], k)}
      /\ Waiting(k)' = {q \in Requests : Waits(req'[q], k)}
  BY <1>1, <1>2 DEF Holders, Waiting, Waits
<1>5. /\ Holders(k) = {q \in Requests : Holds(req[q], k)}
      /\ Waiting(k) = {q \in Requests : Waits(req[q], k)}
  BY HoldersAre
<1>6. Holders(k)' = IF Holds(req'[r], k) THEN Holders(k) \cup {r} ELSE Holders(k) \ {r}
  <2>1. \A q \in Requests : q \in Holders(k)' <=> Holds(req'[q], k)
    BY <1>3
  <2>2. \A q \in Requests : q \in Holders(k) <=> Holds(req[q], k)
    BY <1>5
  <2>3. Holders(k)' \subseteq Requests /\ Holders(k) \subseteq Requests
    BY <1>3, <1>5
  <2>4. ASSUME NEW q \in Requests \ {r} PROVE q \in Holders(k)' <=> q \in Holders(k)
    <3>1. req'[q] = req[q]
      BY DEF OnlyOne
    <3> QED
      BY <2>1, <2>2, <3>1
  <2>5. r \in Holders(k)' <=> Holds(req'[r], k)
    BY <2>1
  <2> QED
    BY <2>3, <2>4, <2>5
<1>7. Waiting(k)' = IF Waits(req'[r], k) THEN Waiting(k) \cup {r} ELSE Waiting(k) \ {r}
  <2>1. \A q \in Requests : q \in Waiting(k)' <=> Waits(req'[q], k)
    BY <1>3
  <2>2. \A q \in Requests : q \in Waiting(k) <=> Waits(req[q], k)
    BY <1>5
  <2>3. Waiting(k)' \subseteq Requests /\ Waiting(k) \subseteq Requests
    BY <1>3, <1>5
  <2>4. ASSUME NEW q \in Requests \ {r} PROVE q \in Waiting(k)' <=> q \in Waiting(k)
    <3>1. req'[q] = req[q]
      BY DEF OnlyOne
    <3> QED
      BY <2>1, <2>2, <3>1
  <2>5. r \in Waiting(k)' <=> Waits(req'[r], k)
    BY <2>1
  <2> QED
    BY <2>3, <2>4, <2>5
<1> QED
  BY <1>6, <1>7

\* It is enough to look at the two semaphores of the request.
LEMMA BooksOfOne ==
  ASSUME SInv, NEW r \in Requests, OnlyOne(r), Underway(r)', NEW u, u = req[r].user,
         sem' \in [Keys -> Semaphores], \A k \in Keys \ {u, Box} : sem'[k] = sem[k],
         Consistent(sem'[u], Holders(u)', Waiting(u)', UserCap),
         Consistent(sem'[Box], Holders(Box)', Waiting(Box)', BoxCap)
  PROVE  \A k \in Keys : Balanced(k)'
<1>1. ASSUME NEW k \in Keys \ {u, Box} PROVE Balanced(k)'
  <2>1. /\ ~Holds(req'[r], k) /\ ~Waits(req'[r], k)
        /\ ~Holds(req[r], k) /\ ~Waits(req[r], k)
    BY DEF Holds, Waits, OnlyOne
  <2>2. r \notin Holders(k) /\ r \notin Waiting(k)
    BY <2>1, HoldersAre
  <2>3. Holders(k)' = Holders(k) \ {r} /\ Waiting(k)' = Waiting(k) \ {r}
    BY <2>1, HoldersAfter
  <2>4. Holders(k)' = Holders(k) /\ Waiting(k)' = Waiting(k)
    BY <2>2, <2>3
  <2> QED
    BY <2>4 DEF SInv, Balanced, CapOf
<1>2. u # Box /\ CapOf(u) = UserCap /\ CapOf(Box) = BoxCap
  BY UserInIds
<1>3. Balanced(u)' /\ Balanced(Box)'
  BY <1>2 DEF Balanced, CapOf
<1> QED
  BY <1>1, <1>3

\* A command that has ended is left alone, so an answer stays given.
LEMMA AdminMovesOne ==
  ASSUME JobType, NEW j \in Jobs, AdminStep(j)
  PROVE  job[j].pc # "end" /\ OneMoves(j)
<1> DEFINE Going == (\E pc : Go(j, pc)) \/ (\E result : End(j, result))
           Goes  == job[j].pc # "end" /\ Going
<1>1. ASSUME NEW op, NEW passes, NEW pc, Checks(j, op, passes, pc)
      PROVE  Goes
  BY <1>1 DEF Checks, Runs
<1>2. ASSUME \/ CreateChecks(j) \/ AdminChecks(j) \/ DisableChecks(j) \/ ProfileChecks(j)
             \/ AssignChecksUser(j) \/ RevokeChecks(j) PROVE Goes
  BY <1>1, <1>2 DEF CreateChecks, AdminChecks, DisableChecks, ProfileChecks, AssignChecksUser,
     RevokeChecks
<1>3. ASSUME CreateAccount(j) \/ CreateRollback(j) \/ DisableAccount(j) PROVE Goes
  BY <1>3 DEF CreateAccount, CreateRollback, DisableAccount, Call, Runs
<1>4. ASSUME CreateRow(j) \/ AdminRow(j) \/ DisableRow(j) \/ Dies(j) PROVE Goes
  BY <1>4 DEF CreateRow, AdminRow, DisableRow, Dies, Runs
<1>5. ASSUME ProfileRow(j) \/ ProfileAudit(j) \/ DeleteInUse(j) \/ DeleteAudit(j) \/ DeleteRow(j) PROVE Goes
  BY <1>5 DEF ProfileRow, ProfileAudit, DeleteInUse, DeleteAudit, DeleteRow, Runs
<1>6. ASSUME AssignChecksProfile(j) \/ AssignRow(j) \/ RevokeRow(j) PROVE Goes
  BY <1>6 DEF AssignChecksProfile, AssignRow, RevokeRow, Runs
<1>7. CASE DeleteChecks(j)
  <2>1. job[j].pc # "end"
    BY <1>7 DEF DeleteChecks, Runs
  <2>2. Going \/ job' = [job EXCEPT ![j].pc = "inuse", ![j].seen = profiles[ProfileOf(j)]]
    BY <1>7 DEF DeleteChecks
  <2>3. ASSUME job' = [job EXCEPT ![j].pc = "inuse", ![j].seen = profiles[ProfileOf(j)]]
        PROVE  OneMoves(j)
    BY <2>3 DEF OneMoves, JobType
  <2>4. ASSUME Going PROVE OneMoves(j)
    BY <2>4 DEF Go, End, OneMoves, JobType
  <2> QED
    BY <2>1, <2>2, <2>3, <2>4
<1>8. ASSUME Going PROVE OneMoves(j)
  BY <1>8 DEF Go, End, OneMoves, JobType
<1> HIDE DEF Going
<1> QED
  BY <1>2, <1>3, <1>4, <1>5, <1>6, <1>7, <1>8 DEF AdminStep

LEMMA AdminBesideRequests ==
  ASSUME SInv, NEW j \in Jobs, AdminStep(j), UNCHANGED svars
  PROVE  SInv'
<1>1. PInv'
  BY AdminStepKeeps DEF SInv
<1>2. OneMoves(j) /\ job[j].pc # "end" /\ req' = req /\ sem' = sem /\ pool' = pool
  BY AdminMovesOne DEF SInv, PInv, svars
<1>3. ASSUME NEW id, DisableAcknowledged(id) PROVE DisableAcknowledged(id)'
  <2>1. PICK k \in Jobs : /\ job[k].cmd.op = "disable_user" /\ job[k].cmd.id = id
                          /\ job[k].result = "ok"
    BY <1>3 DEF DisableAcknowledged
  <2>2. k # j
    BY <1>2, <2>1 DEF SInv, PInv, Progressed
  <2> QED
    BY <1>2, <2>1, <2>2 DEF DisableAcknowledged, OneMoves
<1>4. ASSUME NEW r \in Requests PROVE Underway(r)' /\ ShutOut(r)' /\ Fresh(r)'
  BY <1>2, <1>3 DEF SInv, Underway, ShutOut, Fresh
<1>5. ASSUME NEW k \in Keys PROVE Balanced(k)'
  <2>1. Holders(k)' = Holders(k) /\ Waiting(k)' = Waiting(k)
    BY <1>2 DEF Holders, SlotOrder, Waiting, Awaited
  <2> QED
    BY <1>2, <2>1 DEF SInv, Balanced, CapOf
<1> QED
  BY <1>1, <1>2, <1>4, <1>5 DEF SInv

\* A step of a request that has nothing to do with the limiter.
LEMMA BesideTheLimiter ==
  ASSUME SInv, NEW r \in Requests, OnlyOne(r), UNCHANGED <<pvars, sem, pool>>,
         Underway(r)', ShutOut(r)', Fresh(r)',
         req[r].pc \notin {"waiting", "queued", "engine"},
         req'[r].pc \notin {"waiting", "queued", "engine"}
  PROVE  SInv'
<1>1. PInv'
  <2>1. UNCHANGED <<users, accounts, profiles, assigned, history, job>>
    BY DEF pvars
  <2>2. JobType' /\ Tables'
    BY <2>1 DEF SInv, PInv, JobType, Tables
  <2>3. ASSUME NEW j \in Jobs PROVE Progressed(j)' /\ Owned(j)'
    <3>1. Progressed(j) /\ Owned(j)
      BY DEF SInv, PInv
    <3> QED
      BY <2>1, <3>1 DEF Progressed, Owned, HasAccount, IdOf, HasRow
  <2> QED
    BY <2>2, <2>3 DEF PInv
<1>2. ASSUME NEW q \in Requests PROVE Underway(q)' /\ ShutOut(q)' /\ Fresh(q)'
  <2>1. CASE q = r
    BY <2>1
  <2>2. CASE q # r
    <3>1. req'[q] = req[q] /\ job' = job
      BY <2>2 DEF OnlyOne, pvars
    <3> QED
      BY <3>1 DEF SInv, Underway, ShutOut, Fresh, DisableAcknowledged
  <2> QED
    BY <2>1, <2>2
<1>3. ASSUME NEW k \in Keys PROVE Balanced(k)'
  <2>1. req[r].got = 0 /\ req'[r].got = 0
    BY DEF SInv, Underway
  <2>2. /\ ~Holds(req'[r], k) /\ ~Waits(req'[r], k)
        /\ ~Holds(req[r], k) /\ ~Waits(req[r], k)
    BY <2>1 DEF Holds, Waits
  <2>3. r \notin Holders(k) /\ r \notin Waiting(k)
    BY <2>2, HoldersAre
  <2>4. Holders(k)' = Holders(k) \ {r} /\ Waiting(k)' = Waiting(k) \ {r}
    BY <2>2, HoldersAfter
  <2>5. Holders(k)' = Holders(k) /\ Waiting(k)' = Waiting(k)
    BY <2>3, <2>4
  <2> QED
    BY <2>5 DEF SInv, Balanced, CapOf
<1> QED
  BY <1>1, <1>2, <1>3 DEF SInv, OnlyOne

LEMMA HandledState ==
  ASSUME NEW state \in States, NEW replied \in BOOLEAN
  PROVE  LET next == Handled(state, replied)
         IN  /\ next \in States
             /\ next.user = state.user /\ next.batch = state.batch /\ next.pc = "next"
             /\ next.got = 0 /\ next.done = state.done + 1
             /\ next.late = state.late /\ next.status = state.status
<1> DEFINE d == state.done + 1
           b == state.replied \/ replied
<1>1. d \in Nat /\ b \in BOOLEAN
  BY DEF States
<1>2. Handled(state, replied) =
        [state EXCEPT !.done = d, !.replied = b, !.pc = "next", !.got = 0]
  BY DEF Handled
<1> HIDE DEF b
<1>3. [state EXCEPT !.done = d, !.replied = b, !.pc = "next", !.got = 0] \in States
  <2>1. "next" \in Pcs /\ 0 \in 0..2
    BY DEF Pcs
  <2> HIDE DEF d
  <2> QED
    BY <1>1, <2>1 DEF States
<1>4. /\ Handled(state, replied).done = d /\ Handled(state, replied).got = 0
      /\ Handled(state, replied).pc = "next"
  BY <1>2 DEF States
<1>5. /\ Handled(state, replied).user = state.user
      /\ Handled(state, replied).batch = state.batch
      /\ Handled(state, replied).late = state.late
      /\ Handled(state, replied).status = state.status
  BY <1>2 DEF States
<1> QED
  BY <1>2, <1>3, <1>4, <1>5

LEMMA QuietSteps ==
  ASSUME SInv, NEW r \in Requests,
         \/ Arrives(r) \/ ReadsUser(r) \/ ReadsProfile(r)
         \/ Replies(r) \/ AnswersCall(r) \/ Ends(r)
  PROVE  SInv'
<1>1. /\ req \in [Requests -> States] /\ req[r] \in States
      /\ Underway(r) /\ ShutOut(r) /\ Fresh(r)
  BY DEF SInv
<1>2. Len(req[r].batch) \in Nat
  BY <1>1, BatchesAreSequences DEF States
<1>3. ASSUME NEW next \in States, req' = [req EXCEPT ![r] = next], next.user = req[r].user,
             next.batch = req[r].batch, UNCHANGED <<pvars, sem, pool>>,
             req[r].pc \notin {"waiting", "queued", "engine"},
             next.pc \notin {"waiting", "queued", "engine"},
             next.got = 0, next.done <= Len(next.batch), next.pc = "end" <=> next.status # "none",
             next.late => /\ DisableAcknowledged(req[r].user)
                          /\ next.pc \in {"users", "end"} /\ ~next.replied
                          /\ next.status \in {"none", "rejected"},
             next.pc \in {"new", "users", "profile"} => ~next.replied /\ next.status = "none"
      PROVE  SInv'
  <2>1. OnlyOne(r) /\ req'[r] = next
    BY <1>1, <1>3 DEF OnlyOne
  <2>2. Underway(r)' /\ Fresh(r)'
    BY <1>3, <2>1 DEF Underway, Fresh
  <2>3. ShutOut(r)'
    BY <1>3, <2>1 DEF ShutOut, DisableAcknowledged, pvars
  <2> QED
    BY <1>3, <2>1, <2>2, <2>3, BesideTheLimiter
<1>4. CASE Rejected(r) /\ req[r].pc \in {"new", "users", "profile"} /\ UNCHANGED <<pvars, sem, pool>>
  <2> DEFINE next == [req[r] EXCEPT !.pc = "end", !.status = "rejected"]
  <2>1. req' = [req EXCEPT ![r] = next]
    BY <1>1, <1>4 DEF Rejected
  <2>2. next \in States /\ next.got = 0 /\ next.done <= Len(next.batch)
    BY <1>1, <1>4 DEF States, Underway, Pcs, Statuses
  <2>3. /\ next.user = req[r].user /\ next.batch = req[r].batch /\ next.pc = "end"
        /\ next.status = "rejected" /\ next.late = req[r].late /\ next.replied = req[r].replied
    BY <1>1 DEF States
  <2> HIDE DEF next
  <2> QED
    BY <1>1, <1>3, <1>4, <2>1, <2>2, <2>3 DEF ShutOut
<1>5. CASE Arrives(r) /\ ~Rejected(r)
  <2> DEFINE next == [req[r] EXCEPT !.pc = "users", !.late = DisableAcknowledged(req[r].user)]
  <2>1. req' = [req EXCEPT ![r] = next] /\ req[r].pc = "new" /\ UNCHANGED <<pvars, sem, pool>>
    BY <1>1, <1>5 DEF Arrives
  <2>2. DisableAcknowledged(req[r].user) \in BOOLEAN
    BY DEF DisableAcknowledged
  <2>3. next \in States
    BY <1>1, <2>2 DEF States, Pcs
  <2>4. /\ next.user = req[r].user /\ next.batch = req[r].batch /\ next.pc = "users"
        /\ next.status = "none" /\ ~next.replied /\ next.got = 0 /\ next.done <= Len(next.batch)
        /\ next.late => DisableAcknowledged(req[r].user)
    BY <1>1, <2>1 DEF States, Underway, Fresh
  <2> HIDE DEF next
  <2> QED
    BY <1>3, <2>1, <2>3, <2>4
<1>6. CASE ReadsUser(r) /\ ~Rejected(r)
  <2> DEFINE next == [req[r] EXCEPT !.pc = "profile"]
  <2>1. /\ req' = [req EXCEPT ![r] = next] /\ req[r].pc = "users" /\ UNCHANGED <<pvars, sem, pool>>
        /\ ~(users[req[r].user] = NoRow \/ users[req[r].user].disabled)
    BY <1>1, <1>6 DEF ReadsUser
  <2>2. ~req[r].late
    <3>1. SUFFICES ASSUME req[r].late PROVE FALSE
      BY <1>1 DEF States
    <3>2. DisableAcknowledged(req[r].user)
      BY <1>1, <3>1 DEF ShutOut
    <3>3. PICK k \in Jobs : /\ job[k].cmd.op = "disable_user" /\ job[k].cmd.id = req[r].user
                            /\ job[k].result = "ok"
      BY <3>2 DEF DisableAcknowledged
    <3>4. HasRow(users, req[r].user) /\ users[req[r].user].disabled
      BY <3>3 DEF SInv, PInv, Progressed, IdOf
    <3> QED
      BY <2>1, <3>4
  <2>3. next \in States
    BY <1>1 DEF States, Pcs
  <2>4. /\ next.user = req[r].user /\ next.batch = req[r].batch /\ next.pc = "profile"
        /\ next.status = "none" /\ ~next.replied /\ next.got = 0 /\ next.done <= Len(next.batch)
        /\ ~next.late
    BY <1>1, <2>1, <2>2 DEF States, Underway, Fresh
  <2> HIDE DEF next
  <2> QED
    BY <1>3, <2>1, <2>3, <2>4
<1>7. CASE ReadsProfile(r) /\ ~Rejected(r)
  <2> DEFINE next == [req[r] EXCEPT !.pc = "next", !.granted = GrantedBy(req[r].user)]
  <2>1. req' = [req EXCEPT ![r] = next] /\ req[r].pc = "profile" /\ UNCHANGED <<pvars, sem, pool>>
    BY <1>1, <1>7 DEF ReadsProfile
  <2>2. GrantedBy(req[r].user) \in Grants
    BY <1>1 DEF GrantedBy, Grants, SInv, PInv, Tables, States
  <2>3. next \in States
    BY <1>1, <2>2 DEF States, Pcs
  <2>4. /\ next.user = req[r].user /\ next.batch = req[r].batch /\ next.pc = "next"
        /\ next.status = "none" /\ next.got = 0 /\ next.done <= Len(next.batch) /\ ~next.late
    BY <1>1, <2>1 DEF States, Underway, Fresh, ShutOut
  <2> HIDE DEF next
  <2> QED
    BY <1>3, <2>1, <2>3, <2>4
<1>8. CASE Replies(r) \/ AnswersCall(r)
  <2>1. PICK replied \in BOOLEAN : req' = [req EXCEPT ![r] = Handled(req[r], replied)]
    BY <1>1, <1>8 DEF Replies, AnswersCall
  <2> DEFINE next == Handled(req[r], replied)
  <2>2. /\ req[r].pc = "next" /\ req[r].done < Len(req[r].batch) /\ UNCHANGED <<pvars, sem, pool>>
    BY <1>8 DEF Replies, AnswersCall, Calls, HasMessage
  <2>3. next \in States
    BY <1>1, HandledState
  <2>4. /\ next.user = req[r].user /\ next.batch = req[r].batch /\ next.pc = "next"
        /\ next.status = "none" /\ next.got = 0 /\ next.done = req[r].done + 1 /\ ~next.late
    BY <1>1, <2>2, HandledState DEF Underway, ShutOut
  <2>5. next.done <= Len(next.batch)
    BY <1>1, <1>2, <2>2, <2>4 DEF States
  <2> HIDE DEF next
  <2> QED
    BY <1>3, <2>1, <2>2, <2>3, <2>4, <2>5 DEF next
<1>9. CASE Ends(r)
  <2>1. PICK status \in {"answered", "accepted"} :
            req' = [req EXCEPT ![r] = [req[r] EXCEPT !.pc = "end", !.status = status]]
    BY <1>1, <1>9 DEF Ends
  <2> DEFINE next == [req[r] EXCEPT !.pc = "end", !.status = status]
  <2>2. req[r].pc = "next" /\ UNCHANGED <<pvars, sem, pool>>
    BY <1>9 DEF Ends
  <2>3. next \in States
    BY <1>1 DEF States, Pcs, Statuses
  <2>4. /\ next.user = req[r].user /\ next.batch = req[r].batch /\ next.pc = "end"
        /\ next.status # "none" /\ next.got = 0 /\ next.done <= Len(next.batch) /\ ~next.late
    BY <1>1, <2>2 DEF States, Underway, ShutOut
  <2> HIDE DEF next
  <2> QED
    BY <1>3, <2>1, <2>2, <2>3, <2>4 DEF next
<1> QED
  BY <1>4, <1>5, <1>6, <1>7, <1>8, <1>9 DEF Arrives, ReadsUser, ReadsProfile

-----------------------------------------------------------------------------
(* The limiter *)

\* A request in the limiter: it waits, or hands its tool to the pool.
WaitsWith(r, n) == req' = [req EXCEPT ![r].got = n, ![r].pc = "waiting"]
RunsTool(r)  == req' = [req EXCEPT ![r].got = 2, ![r].pc = "queued"]
Ready(s)     == s.free > 0 /\ s.waiters = << >>

LEMMA InLimiter ==
  ASSUME SInv, NEW r \in Requests, req[r].pc \in {"next", "waiting"},
         req[r].done < Len(req[r].batch),
         WaitsWith(r, 0) \/ WaitsWith(r, 1) \/ RunsTool(r)
  PROVE  /\ OnlyOne(r) /\ Underway(r)'
         /\ UNCHANGED job => ShutOut(r)' /\ Fresh(r)'
<1>1. req \in [Requests -> States] /\ req[r] \in States /\ Underway(r) /\ ShutOut(r)
  BY DEF SInv
<1>2. ASSUME NEW n \in 0..2, NEW pc \in {"waiting", "queued"}, n = 2 <=> pc = "queued",
             req' = [req EXCEPT ![r].got = n, ![r].pc = pc]
      PROVE  /\ OnlyOne(r) /\ Underway(r)'
             /\ UNCHANGED job => ShutOut(r)' /\ Fresh(r)'
  <2>1. /\ req' \in [Requests -> States] /\ \A q \in Requests \ {r} : req'[q] = req[q]
        /\ req'[r] = [req[r] EXCEPT !.got = n, !.pc = pc]
    BY <1>1, <1>2 DEF States, Pcs
  <2>2. /\ req'[r].user = req[r].user /\ req'[r].batch = req[r].batch /\ req'[r].pc = pc
        /\ req'[r].got = n /\ req'[r].done = req[r].done /\ req'[r].late = req[r].late
        /\ req'[r].status = req[r].status
    BY <1>1, <2>1 DEF States
  <2>3. ~req[r].late
    BY <1>1 DEF ShutOut
  <2>4. Underway(r)'
    BY <1>1, <1>2, <2>2 DEF Underway
  <2> QED
    BY <1>2, <2>1, <2>2, <2>3, <2>4 DEF OnlyOne, ShutOut, Fresh
<1>3. CASE WaitsWith(r, 0)
  BY <1>2, <1>3 DEF WaitsWith
<1>4. CASE WaitsWith(r, 1)
  BY <1>2, <1>4 DEF WaitsWith
<1>5. CASE RunsTool(r)
  BY <1>2, <1>5 DEF RunsTool
<1> QED
  BY <1>3, <1>4, <1>5

\* When only one request moves, the invariant comes down to the books.
LEMMA BooksAreEnough ==
  ASSUME SInv, NEW r \in Requests, OnlyOne(r), UNCHANGED pvars,
         Underway(r)', ShutOut(r)', Fresh(r)', sem' \in [Keys -> Semaphores], pool' \in Pools,
         \A k \in Keys : Balanced(k)'
  PROVE  SInv'
<1>1. PInv'
  <2>1. UNCHANGED <<users, accounts, profiles, assigned, history, job>>
    BY DEF pvars
  <2>2. JobType' /\ Tables'
    BY <2>1 DEF SInv, PInv, JobType, Tables
  <2>3. ASSUME NEW j \in Jobs PROVE Progressed(j)' /\ Owned(j)'
    <3>1. Progressed(j) /\ Owned(j)
      BY DEF SInv, PInv
    <3> QED
      BY <2>1, <3>1 DEF Progressed, Owned, HasAccount, IdOf, HasRow
  <2> QED
    BY <2>2, <2>3 DEF PInv
<1>2. ASSUME NEW q \in Requests PROVE Underway(q)' /\ ShutOut(q)' /\ Fresh(q)'
  <2>1. CASE q = r
    BY <2>1
  <2>2. CASE q # r
    <3>1. req'[q] = req[q] /\ job' = job
      BY <2>2 DEF OnlyOne, pvars
    <3> QED
      BY <3>1 DEF SInv, Underway, ShutOut, Fresh, DisableAcknowledged
  <2> QED
    BY <2>1, <2>2
<1> QED
  BY <1>1, <1>2 DEF SInv, OnlyOne

\* The two semaphores a request has to do with, and what it has of them.
LEMMA BooksOf ==
  ASSUME SInv, NEW r \in Requests, NEW u, u = req[r].user
  PROVE  /\ u \in Keys /\ Box \in Keys /\ u # Box /\ UserCap \in Nat /\ BoxCap \in Nat
         /\ sem[u] \in Semaphores /\ sem[Box] \in Semaphores
         /\ Consistent(sem[u], Holders(u), Waiting(u), UserCap)
         /\ Consistent(sem[Box], Holders(Box), Waiting(Box), BoxCap)
         /\ r \in Holders(u) <=> req[r].got \in {1, 2}
         /\ r \in Holders(Box) <=> req[r].got = 2
         /\ r \in Waiting(u) <=> req[r].pc = "waiting" /\ req[r].got = 0
         /\ r \in Waiting(Box) <=> req[r].pc = "waiting" /\ req[r].got # 0
         /\ Holders(u) \in SUBSET Requests /\ Holders(Box) \in SUBSET Requests
<1>1. /\ u \in Keys /\ Box \in Keys /\ u # Box /\ CapOf(u) = UserCap /\ CapOf(Box) = BoxCap
      /\ UserCap \in Nat /\ BoxCap \in Nat
  BY UserInIds, ServingAssumption
<1>2. Balanced(u) /\ Balanced(Box)
  BY <1>1 DEF SInv
<1>3. sem[u] \in Semaphores /\ sem[Box] \in Semaphores
  BY <1>1 DEF SInv
<1>4. /\ Holders(u) = {q \in Requests : Holds(req[q], u)}
      /\ Waiting(u) = {q \in Requests : Waits(req[q], u)}
      /\ Holders(Box) = {q \in Requests : Holds(req[q], Box)}
      /\ Waiting(Box) = {q \in Requests : Waits(req[q], Box)}
      /\ Holders(u) \in SUBSET Requests /\ Holders(Box) \in SUBSET Requests
  BY HoldersAre
<1>5. /\ Holds(req[r], u) <=> req[r].got \in {1, 2}
      /\ Holds(req[r], Box) <=> req[r].got = 2
      /\ Waits(req[r], u) <=> req[r].pc = "waiting" /\ req[r].got = 0
      /\ Waits(req[r], Box) <=> req[r].pc = "waiting" /\ req[r].got # 0
  BY <1>1 DEF Holds, Waits
<1> QED
  BY <1>1, <1>2, <1>3, <1>4, <1>5 DEF Balanced

\* The same after a step of the request.
LEMMA BooksThen ==
  ASSUME SInv, NEW r \in Requests, NEW u, u = req[r].user, OnlyOne(r), Underway(r)'
  PROVE  /\ Holders(u)' = IF req'[r].got \in {1, 2} THEN Holders(u) \cup {r} ELSE Holders(u) \ {r}
         /\ Holders(Box)' = IF req'[r].got = 2 THEN Holders(Box) \cup {r} ELSE Holders(Box) \ {r}
         /\ Waiting(u)' = IF req'[r].pc = "waiting" /\ req'[r].got = 0
                          THEN Waiting(u) \cup {r} ELSE Waiting(u) \ {r}
         /\ Waiting(Box)' = IF req'[r].pc = "waiting" /\ req'[r].got # 0
                            THEN Waiting(Box) \cup {r} ELSE Waiting(Box) \ {r}
<1>1. u # Box
  BY UserInIds
<1>2. req'[r].user = u
  BY DEF OnlyOne
<1>3. /\ Holds(req'[r], u) <=> req'[r].got \in {1, 2}
      /\ Holds(req'[r], Box) <=> req'[r].got = 2
      /\ Waits(req'[r], u) <=> req'[r].pc = "waiting" /\ req'[r].got = 0
      /\ Waits(req'[r], Box) <=> req'[r].pc = "waiting" /\ req'[r].got # 0
  BY <1>1, <1>2 DEF Holds, Waits
<1> QED
  BY <1>3, HoldersAfter

LEMMA LimiterStep ==
  ASSUME SInv, NEW r \in Requests, NEW u, u = req[r].user, UNCHANGED pvars, pool' \in Pools,
         OnlyOne(r), Underway(r)', ShutOut(r)', Fresh(r)',
         sem' = [sem EXCEPT ![u] = sem'[u], ![Box] = sem'[Box]],
         Consistent(sem'[u], Holders(u)', Waiting(u)', UserCap),
         Consistent(sem'[Box], Holders(Box)', Waiting(Box)', BoxCap)
  PROVE  SInv'
<1>1. sem \in [Keys -> Semaphores] /\ u \in Keys /\ Box \in Keys /\ u # Box
  BY BooksOf DEF SInv
<1>2. sem'[u] \in Semaphores /\ sem'[Box] \in Semaphores
  BY DEF Consistent
<1>3. sem' \in [Keys -> Semaphores] /\ \A k \in Keys \ {u, Box} : sem'[k] = sem[k]
  BY <1>1, <1>2
<1>4. \A k \in Keys : Balanced(k)'
  BY <1>3, BooksOfOne
<1> QED
  BY <1>3, <1>4, BooksAreEnough

\* Two semaphores written leave the others alone.
LEMMA TwoWritten ==
  ASSUME SInv, NEW u \in Keys, u # Box, Box \in Keys, NEW su, NEW sb,
         sem' = [sem EXCEPT ![u] = su, ![Box] = sb]
  PROVE  /\ sem'[u] = su /\ sem'[Box] = sb
         /\ sem' = [sem EXCEPT ![u] = sem'[u], ![Box] = sem'[Box]]
  BY DEF SInv

\* The queue of the pool stays a queue of requests.
LEMMA PoolAfterTaking ==
  ASSUME SInv, NEW r \in Requests, NEW i, NEW sems, Taking(r, i, sems)
  PROVE  pool' \in Pools
<1>1. pool' = pool \/ pool' = [pool EXCEPT !.queue = Append(@, r)]
  BY DEF Taking
<1>2. pool \in Pools
  BY DEF SInv
<1>3. Append(pool.queue, r) \in Seq(Requests)
  BY <1>2 DEF Pools
<1> QED
  BY <1>1, <1>2, <1>3 DEF Pools

\* What Taking does from the first slot on.
LEMMA TakesFirst ==
  ASSUME SInv, NEW r \in Requests, NEW u, u = req[r].user, Taking(r, 1, sem)
  PROVE  \/ /\ ~Ready(sem[u]) /\ WaitsWith(r, 0)
            /\ sem' = [sem EXCEPT ![u] = Queued(sem[u], r), ![Box] = sem[Box]]
         \/ /\ Ready(sem[u]) /\ Ready(sem[Box]) /\ RunsTool(r)
            /\ sem' = [sem EXCEPT ![u] = Acquired(sem[u]), ![Box] = Acquired(sem[Box])]
         \/ /\ Ready(sem[u]) /\ ~Ready(sem[Box]) /\ WaitsWith(r, 1)
            /\ sem' = [sem EXCEPT ![u] = Acquired(sem[u]), ![Box] = Queued(sem[Box], r)]
<1>1. sem \in [Keys -> Semaphores] /\ u \in Keys /\ Box \in Keys /\ u # Box
  BY BooksOf DEF SInv
<1>2. SlotOrder(r)[1] = u /\ SlotOrder(r)[2] = Box
  BY DEF SlotOrder
<1> DEFINE taken == [sem EXCEPT ![u] = Acquired(sem[u])]
<1>3. taken[Box] = sem[Box]
  BY <1>1
<1>4. CASE ~Ready(sem[u])
  <2>1. sem' = [sem EXCEPT ![u] = Queued(sem[u], r)] /\ WaitsWith(r, 0)
    BY <1>2, <1>4 DEF Taking, Ready, WaitsWith
  <2>2. [sem EXCEPT ![u] = Queued(sem[u], r)] = [sem EXCEPT ![u] = Queued(sem[u], r), ![Box] = sem[Box]]
    BY <1>1
  <2> QED
    BY <1>4, <2>1, <2>2
<1>5. CASE Ready(sem[u]) /\ Ready(sem[Box])
  <2>1. sem' = [taken EXCEPT ![Box] = Acquired(taken[Box])] /\ RunsTool(r)
    BY <1>2, <1>3, <1>5 DEF Taking, Ready, RunsTool
  <2> QED
    BY <1>3, <1>5, <2>1
<1>6. CASE Ready(sem[u]) /\ ~Ready(sem[Box])
  <2>1. sem' = [taken EXCEPT ![Box] = Queued(taken[Box], r)] /\ WaitsWith(r, 1)
    BY <1>2, <1>3, <1>6 DEF Taking, Ready, WaitsWith
  <2> QED
    BY <1>3, <1>6, <2>1
<1> QED
  BY <1>4, <1>5, <1>6

LEMMA StartsCallKeeps ==
  ASSUME SInv, NEW r \in Requests, StartsCall(r)
  PROVE  SInv'
<1>1. PICK u : u = req[r].user
  OBVIOUS
<1>2. /\ req[r].pc = "next" /\ req[r].got = 0 /\ req[r].done < Len(req[r].batch)
      /\ Taking(r, 1, sem) /\ UNCHANGED pvars /\ UNCHANGED job /\ pool' \in Pools
  BY PoolAfterTaking DEF StartsCall, Calls, HasMessage, SInv, Underway, pvars
<1>3. /\ Consistent(sem[u], Holders(u), Waiting(u), UserCap)
      /\ Consistent(sem[Box], Holders(Box), Waiting(Box), BoxCap)
      /\ r \notin Holders(u) /\ r \notin Holders(Box)
      /\ r \notin Waiting(u) /\ r \notin Waiting(Box)
      /\ Holders(u) \in SUBSET Requests /\ Holders(Box) \in SUBSET Requests
      /\ UserCap \in Nat /\ BoxCap \in Nat /\ u \in Keys /\ u # Box /\ Box \in Keys
  BY <1>1, <1>2, BooksOf
<1>4. req \in [Requests -> States] /\ req[r] \in States
  BY DEF SInv
<1>5. CASE /\ ~Ready(sem[u]) /\ WaitsWith(r, 0)
           /\ sem' = [sem EXCEPT ![u] = Queued(sem[u], r), ![Box] = sem[Box]]
  <2>1. OnlyOne(r) /\ Underway(r)' /\ ShutOut(r)' /\ Fresh(r)'
    BY <1>2, <1>5, InLimiter
  <2>2. req'[r].got = 0 /\ req'[r].pc = "waiting"
    BY <1>4, <1>5 DEF WaitsWith, States
  <2>3. /\ Holders(u)' = Holders(u) \ {r} /\ Waiting(u)' = Waiting(u) \cup {r}
        /\ Holders(Box)' = Holders(Box) \ {r} /\ Waiting(Box)' = Waiting(Box) \ {r}
    BY <1>1, <2>1, <2>2, BooksThen
  <2>4. /\ Holders(u)' = Holders(u)
        /\ Holders(Box)' = Holders(Box) /\ Waiting(Box)' = Waiting(Box)
    BY <1>3, <2>3
  <2>5. Consistent(Queued(sem[u], r), Holders(u), Waiting(u) \cup {r}, UserCap)
    BY <1>3, <1>5, QueuedRight DEF Ready
  <2>7. /\ sem'[u] = Queued(sem[u], r) /\ sem'[Box] = sem[Box]
        /\ sem' = [sem EXCEPT ![u] = sem'[u], ![Box] = sem'[Box]]
    BY <1>3, <1>5, TwoWritten
  <2>8. /\ Consistent(sem'[u], Holders(u)', Waiting(u)', UserCap)
        /\ Consistent(sem'[Box], Holders(Box)', Waiting(Box)', BoxCap)
    BY <1>3, <2>3, <2>4, <2>5, <2>7
  <2> QED
    BY <1>1, <1>2, <2>1, <2>7, <2>8, LimiterStep
<1>6. CASE /\ Ready(sem[u]) /\ Ready(sem[Box]) /\ RunsTool(r)
           /\ sem' = [sem EXCEPT ![u] = Acquired(sem[u]), ![Box] = Acquired(sem[Box])]
  <2>1. OnlyOne(r) /\ Underway(r)' /\ ShutOut(r)' /\ Fresh(r)'
    BY <1>2, <1>6, InLimiter
  <2>2. req'[r].got = 2 /\ req'[r].pc = "queued"
    BY <1>4, <1>6 DEF RunsTool, States
  <2>3. /\ Holders(u)' = Holders(u) \cup {r} /\ Waiting(u)' = Waiting(u) \ {r}
        /\ Holders(Box)' = Holders(Box) \cup {r} /\ Waiting(Box)' = Waiting(Box) \ {r}
    BY <1>1, <2>1, <2>2, BooksThen
  <2>4. Waiting(u)' = Waiting(u) /\ Waiting(Box)' = Waiting(Box)
    BY <1>3, <2>3
  <2>5. Consistent(Acquired(sem[u]), Holders(u) \cup {r}, Waiting(u), UserCap)
    BY <1>3, <1>6, AcquiredRight DEF Ready
  <2>6. Consistent(Acquired(sem[Box]), Holders(Box) \cup {r}, Waiting(Box), BoxCap)
    BY <1>3, <1>6, AcquiredRight DEF Ready
  <2>7. /\ sem'[u] = Acquired(sem[u]) /\ sem'[Box] = Acquired(sem[Box])
        /\ sem' = [sem EXCEPT ![u] = sem'[u], ![Box] = sem'[Box]]
    BY <1>3, <1>6, TwoWritten
  <2>8. /\ Consistent(sem'[u], Holders(u)', Waiting(u)', UserCap)
        /\ Consistent(sem'[Box], Holders(Box)', Waiting(Box)', BoxCap)
    BY <1>3, <2>3, <2>4, <2>5, <2>6, <2>7
  <2> QED
    BY <1>1, <1>2, <2>1, <2>7, <2>8, LimiterStep
<1>7. CASE /\ Ready(sem[u]) /\ ~Ready(sem[Box]) /\ WaitsWith(r, 1)
           /\ sem' = [sem EXCEPT ![u] = Acquired(sem[u]), ![Box] = Queued(sem[Box], r)]
  <2>1. OnlyOne(r) /\ Underway(r)' /\ ShutOut(r)' /\ Fresh(r)'
    BY <1>2, <1>7, InLimiter
  <2>2. req'[r].got = 1 /\ req'[r].pc = "waiting"
    BY <1>4, <1>7 DEF WaitsWith, States
  <2>3. /\ Holders(u)' = Holders(u) \cup {r} /\ Waiting(u)' = Waiting(u) \ {r}
        /\ Holders(Box)' = Holders(Box) \ {r} /\ Waiting(Box)' = Waiting(Box) \cup {r}
    BY <1>1, <2>1, <2>2, BooksThen
  <2>4. Waiting(u)' = Waiting(u) /\ Holders(Box)' = Holders(Box)
    BY <1>3, <2>3
  <2>5. Consistent(Acquired(sem[u]), Holders(u) \cup {r}, Waiting(u), UserCap)
    BY <1>3, <1>7, AcquiredRight DEF Ready
  <2>6. Consistent(Queued(sem[Box], r), Holders(Box), Waiting(Box) \cup {r}, BoxCap)
    BY <1>3, <1>7, QueuedRight DEF Ready
  <2>7. /\ sem'[u] = Acquired(sem[u]) /\ sem'[Box] = Queued(sem[Box], r)
        /\ sem' = [sem EXCEPT ![u] = sem'[u], ![Box] = sem'[Box]]
    BY <1>3, <1>7, TwoWritten
  <2>8. /\ Consistent(sem'[u], Holders(u)', Waiting(u)', UserCap)
        /\ Consistent(sem'[Box], Holders(Box)', Waiting(Box)', BoxCap)
    BY <1>3, <2>3, <2>4, <2>5, <2>6, <2>7
  <2> QED
    BY <1>1, <1>2, <2>1, <2>7, <2>8, LimiterStep
<1> QED
  BY <1>1, <1>2, <1>5, <1>6, <1>7, TakesFirst

LEMMA ResumesKeeps ==
  ASSUME SInv, NEW r \in Requests, Resumes(r)
  PROVE  SInv'
<1>1. PICK u : u = req[r].user
  OBVIOUS
<1>2. /\ req[r].pc = "waiting" /\ req[r].got \in {0, 1} /\ req[r].done < Len(req[r].batch)
      /\ UNCHANGED pvars /\ UNCHANGED job /\ pool' \in Pools
      /\ SlotOrder(r)[1] = u /\ SlotOrder(r)[2] = Box
  BY <1>1, PoolAfterTaking DEF Resumes, SInv, Underway, pvars, SlotOrder
<1>3. /\ Consistent(sem[u], Holders(u), Waiting(u), UserCap)
      /\ Consistent(sem[Box], Holders(Box), Waiting(Box), BoxCap)
      /\ r \in Holders(u) <=> req[r].got \in {1, 2}
      /\ r \in Holders(Box) <=> req[r].got = 2
      /\ r \in Waiting(u) <=> req[r].pc = "waiting" /\ req[r].got = 0
      /\ r \in Waiting(Box) <=> req[r].pc = "waiting" /\ req[r].got # 0
      /\ Holders(u) \in SUBSET Requests /\ Holders(Box) \in SUBSET Requests
      /\ UserCap \in Nat /\ BoxCap \in Nat /\ u \in Keys /\ u # Box /\ Box \in Keys
  BY <1>1, BooksOf
<1>4. req \in [Requests -> States] /\ req[r] \in States /\ sem \in [Keys -> Semaphores]
  BY DEF SInv
<1> DEFINE su == [sem[u] EXCEPT !.woken = @ \ {r}]
           sb == [sem[Box] EXCEPT !.woken = @ \ {r}]
<1>5. ASSUME req[r].got = 0
      PROVE  /\ r \in sem[u].woken
             /\ \/ /\ ~Ready(sem[Box]) /\ WaitsWith(r, 1)
                   /\ sem' = [sem EXCEPT ![u] = su, ![Box] = Queued(sem[Box], r)]
                \/ /\ Ready(sem[Box]) /\ RunsTool(r)
                   /\ sem' = [sem EXCEPT ![u] = su, ![Box] = Acquired(sem[Box])]
  <2>1. Awaited(r) = u /\ req[r].got + 2 = 2
    BY <1>2, <1>5 DEF Awaited
  <2> DEFINE taken == [sem EXCEPT ![u].woken = @ \ {r}]
  <2>2. taken = [sem EXCEPT ![u] = su] /\ taken[Box] = sem[Box]
    BY <1>3, <1>4
  <2>3. r \in sem[u].woken /\ Taking(r, 2, taken)
    BY <2>1 DEF Resumes
  <2> HIDE DEF taken, su
  <2>4. CASE Ready(sem[Box])
    <3>1. RunsTool(r) /\ sem' = [taken EXCEPT ![Box] = Acquired(sem[Box])]
      BY <1>2, <2>2, <2>3, <2>4 DEF Taking, Ready, RunsTool
    <3> QED
      BY <2>2, <2>3, <2>4, <3>1
  <2>5. CASE ~Ready(sem[Box])
    <3>1. WaitsWith(r, 1) /\ sem' = [taken EXCEPT ![Box] = Queued(sem[Box], r)]
      BY <1>2, <2>2, <2>3, <2>5 DEF Taking, Ready, WaitsWith
    <3> QED
      BY <2>2, <2>3, <2>5, <3>1
  <2> QED
    BY <2>4, <2>5
<1>6. ASSUME req[r].got = 1
      PROVE  /\ r \in sem[Box].woken /\ RunsTool(r)
             /\ sem' = [sem EXCEPT ![u] = sem[u], ![Box] = sb]
  <2>1. Awaited(r) = Box /\ req[r].got + 2 = 3
    BY <1>2, <1>6 DEF Awaited
  <2> DEFINE taken == [sem EXCEPT ![Box].woken = @ \ {r}]
  <2>2. taken = [sem EXCEPT ![u] = sem[u], ![Box] = sb]
    BY <1>3, <1>4
  <2>3. r \in sem[Box].woken /\ Taking(r, 3, taken)
    BY <2>1 DEF Resumes
  <2> HIDE DEF taken
  <2>4. RunsTool(r) /\ sem' = taken
    BY <2>3 DEF Taking, RunsTool
  <2> QED
    BY <2>2, <2>3, <2>4
<1> HIDE DEF su, sb
<1>7. CASE /\ req[r].got = 0 /\ r \in sem[u].woken /\ ~Ready(sem[Box]) /\ WaitsWith(r, 1)
           /\ sem' = [sem EXCEPT ![u] = su, ![Box] = Queued(sem[Box], r)]
  <2>1. OnlyOne(r) /\ Underway(r)' /\ ShutOut(r)' /\ Fresh(r)'
    BY <1>2, <1>7, InLimiter
  <2>2. req'[r].got = 1 /\ req'[r].pc = "waiting"
    BY <1>4, <1>7 DEF WaitsWith, States
  <2>3. /\ Holders(u)' = Holders(u) \cup {r} /\ Waiting(u)' = Waiting(u) \ {r}
        /\ Holders(Box)' = Holders(Box) \ {r} /\ Waiting(Box)' = Waiting(Box) \cup {r}
    BY <1>1, <2>1, <2>2, BooksThen
  <2>4. Holders(Box)' = Holders(Box)
    BY <1>3, <1>7, <2>3
  <2>5. Consistent(su, Holders(u) \cup {r}, Waiting(u) \ {r}, UserCap)
    BY <1>3, <1>7, TakenRight DEF su
  <2>6. Consistent(Queued(sem[Box], r), Holders(Box), Waiting(Box) \cup {r}, BoxCap)
    BY <1>3, <1>7, QueuedRight DEF Ready
  <2>7. /\ sem'[u] = su /\ sem'[Box] = Queued(sem[Box], r)
        /\ sem' = [sem EXCEPT ![u] = sem'[u], ![Box] = sem'[Box]]
    BY <1>3, <1>7, TwoWritten
  <2>8. /\ Consistent(sem'[u], Holders(u)', Waiting(u)', UserCap)
        /\ Consistent(sem'[Box], Holders(Box)', Waiting(Box)', BoxCap)
    BY <1>3, <2>3, <2>4, <2>5, <2>6, <2>7
  <2> QED
    BY <1>1, <1>2, <2>1, <2>7, <2>8, LimiterStep
<1>8. CASE /\ req[r].got = 0 /\ r \in sem[u].woken /\ Ready(sem[Box]) /\ RunsTool(r)
           /\ sem' = [sem EXCEPT ![u] = su, ![Box] = Acquired(sem[Box])]
  <2>1. OnlyOne(r) /\ Underway(r)' /\ ShutOut(r)' /\ Fresh(r)'
    BY <1>2, <1>8, InLimiter
  <2>2. req'[r].got = 2 /\ req'[r].pc = "queued"
    BY <1>4, <1>8 DEF RunsTool, States
  <2>3. /\ Holders(u)' = Holders(u) \cup {r} /\ Waiting(u)' = Waiting(u) \ {r}
        /\ Holders(Box)' = Holders(Box) \cup {r} /\ Waiting(Box)' = Waiting(Box) \ {r}
    BY <1>1, <2>1, <2>2, BooksThen
  <2>4. Waiting(Box)' = Waiting(Box)
    BY <1>3, <1>8, <2>3
  <2>5. Consistent(su, Holders(u) \cup {r}, Waiting(u) \ {r}, UserCap)
    BY <1>3, <1>8, TakenRight DEF su
  <2>6. Consistent(Acquired(sem[Box]), Holders(Box) \cup {r}, Waiting(Box), BoxCap)
    BY <1>3, <1>8, AcquiredRight DEF Ready
  <2>7. /\ sem'[u] = su /\ sem'[Box] = Acquired(sem[Box])
        /\ sem' = [sem EXCEPT ![u] = sem'[u], ![Box] = sem'[Box]]
    BY <1>3, <1>8, TwoWritten
  <2>8. /\ Consistent(sem'[u], Holders(u)', Waiting(u)', UserCap)
        /\ Consistent(sem'[Box], Holders(Box)', Waiting(Box)', BoxCap)
    BY <1>3, <2>3, <2>4, <2>5, <2>6, <2>7
  <2> QED
    BY <1>1, <1>2, <2>1, <2>7, <2>8, LimiterStep
<1>9. CASE /\ req[r].got = 1 /\ r \in sem[Box].woken /\ RunsTool(r)
           /\ sem' = [sem EXCEPT ![u] = sem[u], ![Box] = sb]
  <2>1. OnlyOne(r) /\ Underway(r)' /\ ShutOut(r)' /\ Fresh(r)'
    BY <1>2, <1>9, InLimiter
  <2>2. req'[r].got = 2 /\ req'[r].pc = "queued"
    BY <1>4, <1>9 DEF RunsTool, States
  <2>3. /\ Holders(u)' = Holders(u) \cup {r} /\ Waiting(u)' = Waiting(u) \ {r}
        /\ Holders(Box)' = Holders(Box) \cup {r} /\ Waiting(Box)' = Waiting(Box) \ {r}
    BY <1>1, <2>1, <2>2, BooksThen
  <2>4. Holders(u)' = Holders(u) /\ Waiting(u)' = Waiting(u)
    BY <1>3, <1>9, <2>3
  <2>5. Consistent(sb, Holders(Box) \cup {r}, Waiting(Box) \ {r}, BoxCap)
    BY <1>3, <1>9, TakenRight DEF sb
  <2>7. /\ sem'[u] = sem[u] /\ sem'[Box] = sb
        /\ sem' = [sem EXCEPT ![u] = sem'[u], ![Box] = sem'[Box]]
    BY <1>3, <1>9, TwoWritten
  <2>8. /\ Consistent(sem'[u], Holders(u)', Waiting(u)', UserCap)
        /\ Consistent(sem'[Box], Holders(Box)', Waiting(Box)', BoxCap)
    BY <1>3, <2>3, <2>4, <2>5, <2>7
  <2> QED
    BY <1>1, <1>2, <2>1, <2>7, <2>8, LimiterStep
<1> QED
  BY <1>2, <1>5, <1>6, <1>7, <1>8, <1>9

LEMMA AfterCall ==
  ASSUME SInv, NEW r \in Requests, req[r].pc \in {"waiting", "engine"},
         req' = [req EXCEPT ![r] = Handled(@, TRUE)], UNCHANGED pvars
  PROVE  /\ OnlyOne(r) /\ Underway(r)' /\ ShutOut(r)' /\ Fresh(r)'
         /\ req'[r].got = 0 /\ req'[r].pc = "next"
<1>1. /\ req \in [Requests -> States] /\ req[r] \in States /\ Underway(r) /\ ShutOut(r)
      /\ Len(req[r].batch) \in Nat
  BY BatchesAreSequences DEF SInv, States
<1> DEFINE next == Handled(req[r], TRUE)
<1>2. /\ next \in States
      /\ next.user = req[r].user /\ next.batch = req[r].batch /\ next.pc = "next"
      /\ next.got = 0 /\ next.done = req[r].done + 1
      /\ next.late = req[r].late /\ next.status = req[r].status
  BY <1>1, HandledState
<1> HIDE DEF next
<1>3. OnlyOne(r) /\ req'[r] = next
  BY <1>1, <1>2 DEF OnlyOne, next
<1>4. ~req[r].late /\ req[r].status = "none" /\ req[r].done < Len(req[r].batch) /\ req[r].done \in Nat
  BY <1>1 DEF ShutOut, Underway, States
<1>5. next.done <= Len(next.batch)
  BY <1>1, <1>2, <1>4
<1> QED
  BY <1>2, <1>3, <1>4, <1>5 DEF Underway, ShutOut, Fresh

LEMMA TimesOutKeeps ==
  ASSUME SInv, NEW r \in Requests, TimesOut(r)
  PROVE  SInv'
<1>1. PICK u : u = req[r].user
  OBVIOUS
<1>2. /\ req[r].pc = "waiting" /\ req[r].got \in {0, 1} /\ UNCHANGED pvars /\ pool' \in Pools
      /\ req' = [req EXCEPT ![r] = Handled(@, TRUE)]
      /\ SlotOrder(r)[1] = u /\ SlotOrder(r)[2] = Box
  BY <1>1 DEF TimesOut, SInv, Underway, SlotOrder
<1>3. /\ Consistent(sem[u], Holders(u), Waiting(u), UserCap)
      /\ Consistent(sem[Box], Holders(Box), Waiting(Box), BoxCap)
      /\ r \in Holders(u) <=> req[r].got \in {1, 2}
      /\ r \in Holders(Box) <=> req[r].got = 2
      /\ r \in Waiting(u) <=> req[r].pc = "waiting" /\ req[r].got = 0
      /\ r \in Waiting(Box) <=> req[r].pc = "waiting" /\ req[r].got # 0
      /\ Holders(u) \in SUBSET Requests /\ Holders(Box) \in SUBSET Requests
      /\ UserCap \in Nat /\ BoxCap \in Nat /\ u \in Keys /\ u # Box /\ Box \in Keys
  BY <1>1, BooksOf
<1>4. sem \in [Keys -> Semaphores]
  BY DEF SInv
<1>5. /\ OnlyOne(r) /\ Underway(r)' /\ ShutOut(r)' /\ Fresh(r)'
      /\ req'[r].got = 0 /\ req'[r].pc = "next"
  BY <1>2, AfterCall
<1>6. /\ Holders(u)' = Holders(u) \ {r} /\ Waiting(u)' = Waiting(u) \ {r}
      /\ Holders(Box)' = Holders(Box) \ {r} /\ Waiting(Box)' = Waiting(Box) \ {r}
  BY <1>1, <1>5, BooksThen
<1>7. CASE req[r].got = 0
  <2>1. Awaited(r) = u
    BY <1>2, <1>7 DEF Awaited
  <2>2. sem' = [sem EXCEPT ![u] = Withdrawn(sem[u], r)]
    BY <1>7, <2>1 DEF TimesOut, GiveBack
  <2>3. sem' = [sem EXCEPT ![u] = Withdrawn(sem[u], r), ![Box] = sem[Box]]
    BY <1>3, <1>4, <2>2
  <2>4. Holders(u)' = Holders(u) /\ Holders(Box)' = Holders(Box) /\ Waiting(Box)' = Waiting(Box)
    BY <1>3, <1>6, <1>7
  <2>5. Consistent(Withdrawn(sem[u], r), Holders(u), Waiting(u) \ {r}, UserCap)
    BY <1>2, <1>3, <1>7, WithdrawnRight
  <2>6. /\ sem'[u] = Withdrawn(sem[u], r) /\ sem'[Box] = sem[Box]
        /\ sem' = [sem EXCEPT ![u] = sem'[u], ![Box] = sem'[Box]]
    BY <1>3, <2>3, TwoWritten
  <2>7. /\ Consistent(sem'[u], Holders(u)', Waiting(u)', UserCap)
        /\ Consistent(sem'[Box], Holders(Box)', Waiting(Box)', BoxCap)
    BY <1>3, <1>6, <2>4, <2>5, <2>6
  <2> QED
    BY <1>1, <1>2, <1>5, <2>6, <2>7, LimiterStep
<1>8. CASE req[r].got = 1
  <2>1. Awaited(r) = Box
    BY <1>2, <1>8 DEF Awaited
  <2> DEFINE out == [sem EXCEPT ![Box] = Withdrawn(sem[Box], r)]
  <2>2. sem' = [out EXCEPT ![u] = Released(out[u])]
    BY <1>2, <1>8, <2>1 DEF TimesOut, GiveBack
  <2>3. sem' = [sem EXCEPT ![u] = Released(sem[u]), ![Box] = Withdrawn(sem[Box], r)]
    BY <1>3, <1>4, <2>2
  <2>4. Waiting(u)' = Waiting(u) /\ Holders(Box)' = Holders(Box)
    BY <1>3, <1>6, <1>8
  <2>5. Consistent(Released(sem[u]), Holders(u) \ {r}, Waiting(u), UserCap)
    BY <1>3, <1>8, GivenBackRight
  <2>6. Consistent(Withdrawn(sem[Box], r), Holders(Box), Waiting(Box) \ {r}, BoxCap)
    BY <1>2, <1>3, <1>8, WithdrawnRight
  <2>7. /\ sem'[u] = Released(sem[u]) /\ sem'[Box] = Withdrawn(sem[Box], r)
        /\ sem' = [sem EXCEPT ![u] = sem'[u], ![Box] = sem'[Box]]
    BY <1>3, <2>3, TwoWritten
  <2>8. /\ Consistent(sem'[u], Holders(u)', Waiting(u)', UserCap)
        /\ Consistent(sem'[Box], Holders(Box)', Waiting(Box)', BoxCap)
    BY <1>6, <2>4, <2>5, <2>6, <2>7
  <2> QED
    BY <1>1, <1>2, <1>5, <2>7, <2>8, LimiterStep
<1> QED
  BY <1>2, <1>7, <1>8

LEMMA EngineEndsKeeps ==
  ASSUME SInv, NEW r \in Requests, EngineEnds(r)
  PROVE  SInv'
<1>1. PICK u : u = req[r].user
  OBVIOUS
<1>2. /\ req[r].pc = "engine" /\ req[r].got = 2 /\ UNCHANGED pvars /\ pool' \in Pools
      /\ req' = [req EXCEPT ![r] = Handled(@, TRUE)]
      /\ SlotOrder(r)[1] = u /\ SlotOrder(r)[2] = Box
  BY <1>1 DEF EngineEnds, SInv, Underway, SlotOrder
<1>3. /\ Consistent(sem[u], Holders(u), Waiting(u), UserCap)
      /\ Consistent(sem[Box], Holders(Box), Waiting(Box), BoxCap)
      /\ r \in Holders(u) /\ r \in Holders(Box) /\ r \notin Waiting(u) /\ r \notin Waiting(Box)
      /\ Holders(u) \in SUBSET Requests /\ Holders(Box) \in SUBSET Requests
      /\ UserCap \in Nat /\ BoxCap \in Nat /\ u \in Keys /\ u # Box /\ Box \in Keys
  BY <1>1, <1>2, BooksOf
<1>4. sem \in [Keys -> Semaphores]
  BY DEF SInv
<1>5. /\ OnlyOne(r) /\ Underway(r)' /\ ShutOut(r)' /\ Fresh(r)'
      /\ req'[r].got = 0 /\ req'[r].pc = "next"
  BY <1>2, AfterCall
<1>6. /\ Holders(u)' = Holders(u) \ {r} /\ Waiting(u)' = Waiting(u)
      /\ Holders(Box)' = Holders(Box) \ {r} /\ Waiting(Box)' = Waiting(Box)
  <2>1. /\ Holders(u)' = Holders(u) \ {r} /\ Waiting(u)' = Waiting(u) \ {r}
        /\ Holders(Box)' = Holders(Box) \ {r} /\ Waiting(Box)' = Waiting(Box) \ {r}
    BY <1>1, <1>5, BooksThen
  <2> QED
    BY <1>3, <2>1
<1> DEFINE out == [sem EXCEPT ![Box] = Released(sem[Box])]
<1>7. sem' = [out EXCEPT ![u] = Released(out[u])]
  BY <1>2 DEF EngineEnds, GiveBack
<1>8. sem' = [sem EXCEPT ![u] = Released(sem[u]), ![Box] = Released(sem[Box])]
  BY <1>3, <1>4, <1>7
<1>9. /\ Consistent(Released(sem[u]), Holders(u) \ {r}, Waiting(u), UserCap)
      /\ Consistent(Released(sem[Box]), Holders(Box) \ {r}, Waiting(Box), BoxCap)
  BY <1>3, GivenBackRight
<1>10. /\ sem'[u] = Released(sem[u]) /\ sem'[Box] = Released(sem[Box])
       /\ sem' = [sem EXCEPT ![u] = sem'[u], ![Box] = sem'[Box]]
  BY <1>3, <1>8, TwoWritten
<1>11. /\ Consistent(sem'[u], Holders(u)', Waiting(u)', UserCap)
       /\ Consistent(sem'[Box], Holders(Box)', Waiting(Box)', BoxCap)
  BY <1>6, <1>9, <1>10
<1> QED
  BY <1>1, <1>2, <1>5, <1>10, <1>11, LimiterStep

\* A thread that takes a call moves no slot.
LEMMA ThreadStartsKeeps ==
  ASSUME SInv, NEW r \in Requests, ThreadStarts(r)
  PROVE  SInv'
<1>1. /\ req \in [Requests -> States] /\ req[r] \in States /\ pool \in Pools
      /\ Underway(r) /\ ShutOut(r) /\ req[r].pc = "queued" /\ req[r].got = 2
      /\ UNCHANGED pvars /\ sem' = sem
  BY DEF ThreadStarts, SInv, Underway
<1>2. pool' \in Pools
  <2>1. pool' = [pool EXCEPT !.queue = Tail(pool.queue)]
    BY DEF ThreadStarts
  <2>2. Tail(pool.queue) \in Seq(Requests)
    <3>1. pool.queue \in Seq(Requests) /\ pool.queue # << >>
      BY <1>1 DEF Pools, ThreadStarts
    <3> QED
      BY <3>1, HeadTailProperties
  <2> QED
    BY <1>1, <2>1, <2>2 DEF Pools
<1>3. /\ req' \in [Requests -> States] /\ \A q \in Requests \ {r} : req'[q] = req[q]
      /\ req'[r] = [req[r] EXCEPT !.pc = "engine"]
  BY <1>1 DEF ThreadStarts, States, Pcs
<1>4. /\ req'[r].user = req[r].user /\ req'[r].batch = req[r].batch /\ req'[r].pc = "engine"
      /\ req'[r].got = req[r].got /\ req'[r].done = req[r].done /\ req'[r].late = req[r].late
      /\ req'[r].status = req[r].status
  BY <1>1, <1>3 DEF States
<1>5. OnlyOne(r) /\ Underway(r)' /\ ShutOut(r)' /\ Fresh(r)'
  BY <1>1, <1>3, <1>4 DEF OnlyOne, Underway, ShutOut, Fresh
<1>6. ASSUME NEW k \in Keys PROVE Balanced(k)'
  <2>1. /\ Holds(req'[r], k) <=> Holds(req[r], k)
        /\ ~Waits(req'[r], k) /\ ~Waits(req[r], k)
    BY <1>1, <1>4 DEF Holds, Waits
  <2>2. Holders(k)' = Holders(k) /\ Waiting(k)' = Waiting(k)
    BY <1>5, <2>1, HoldersAre, HoldersAfter
  <2> QED
    BY <1>1, <2>2 DEF SInv, Balanced, CapOf
<1>7. sem' \in [Keys -> Semaphores]
  BY <1>1 DEF SInv
<1> QED
  BY <1>1, <1>2, <1>5, <1>6, <1>7, BooksAreEnough

-----------------------------------------------------------------------------
(* The invariant and what follows from it *)

LEMMA InitialSInv == Init => SInv
<1> SUFFICES ASSUME Init PROVE SInv
  OBVIOUS
<1>1. PICK load \in Loads :
        /\ job = [j \in Jobs |-> Job(load.jobs[j])]
        /\ req = [r \in Requests |-> Request(load.requests[r].user, load.requests[r].batch)]
        /\ pool = [size |-> load.threads, queue |-> << >>]
  BY DEF Init
<1>2. /\ load.jobs \in [Jobs -> Commands \cup {Idle}]
      /\ load.requests \in [Requests -> [user : Ids, batch : Seq(Messages)]]
      /\ load.threads \in Nat \ {0}
  BY ServingAssumption
<1>3. JobType
  BY <1>1, <1>2 DEF JobType, Job, Steps, Results
<1>4. Tables
  <2>1. users \in [Ids -> Users \cup {NoRow}]
    <3>1. [admin |-> FALSE, disabled |-> FALSE] \in Users
      BY DEF Users
    <3> QED
      BY <3>1 DEF Init
  <2>2. accounts \in [Ids -> {"none", "enabled", "disabled"}]
    BY DEF Init
  <2>3. profiles \in [Profiles -> Definitions \cup {NoRow}]
    BY DEF Init
  <2>4. assigned \in [Ids -> Profiles \cup {NoRow}]
    BY ServingAssumption DEF Init
  <2>5. history \in [Profiles -> Seq([kind : Kinds, definition : Definitions])]
    BY EmptySeq DEF Init
  <2> QED
    BY <2>1, <2>2, <2>3, <2>4, <2>5 DEF Tables
<1>5. ASSUME NEW j \in Jobs PROVE Progressed(j) /\ Owned(j)
  <2>1. job[j].pc = "check" /\ job[j].result = "none"
    BY <1>1 DEF Job
  <2>2. ~HasAccount(j)
    BY <2>1 DEF HasAccount
  <2> QED
    BY <2>1, <2>2 DEF Progressed, Owned
<1>6. ASSUME NEW r \in Requests
      PROVE  /\ req[r].user \in Ids /\ req[r].batch \in Batches /\ req[r].pc = "new"
             /\ req[r].late = FALSE /\ req[r].granted = {} /\ req[r].got = 0 /\ req[r].done = 0
             /\ req[r].replied = FALSE /\ req[r].status = "none" /\ req[r] \in States
  <2>1. req[r] = Request(load.requests[r].user, load.requests[r].batch)
    BY <1>1
  <2>2. load.requests[r].user \in Ids /\ load.requests[r].batch \in Batches
    BY <1>2 DEF Batches
  <2> QED
    BY <2>1, <2>2 DEF Request, States, Pcs, Statuses, Grants
<1>7. req \in [Requests -> States]
  BY <1>1, <1>6
<1>8. ASSUME NEW r \in Requests PROVE Underway(r) /\ ShutOut(r) /\ Fresh(r)
  <2>1. Len(req[r].batch) \in Nat
    BY <1>6, BatchesAreSequences
  <2>2. req[r].done = 0
    BY <1>6
  <2> DEFINE n == Len(req[r].batch)
  <2>3. req[r].pc = "new" /\ req[r].status = "none" /\ req[r].got = 0
    BY <1>6
  <2>4. Underway(r)
    <3>1. n \in Nat
      BY <2>1
    <3> HIDE DEF n
    <3>2. req[r].done <= n
      BY <2>2, <3>1
    <3>3. req[r].done <= Len(req[r].batch)
      BY <3>2 DEF n
    <3> QED
      BY <2>3, <3>3 DEF Underway
  <2>5. ShutOut(r) /\ Fresh(r)
    BY <1>6 DEF ShutOut, Fresh
  <2> QED
    BY <2>4, <2>5
<1>9. sem = [k \in Keys |-> [free |-> CapOf(k), waiters |-> << >>, woken |-> {}]]
  BY DEF Init, Keys
<1>10. ASSUME NEW k \in Keys
       PROVE  sem[k] \in Semaphores /\ Balanced(k)
  <2>1. CapOf(k) \in Nat
    BY ServingAssumption DEF CapOf
  <2>2. /\ sem[k].free = CapOf(k) /\ sem[k].waiters = << >> /\ sem[k].woken = {}
        /\ sem[k] \in Semaphores
    BY <1>9, <2>1, EmptySeq DEF Semaphores
  <2>3. Holders(k) = {} /\ Waiting(k) = {}
    <3>1. 1..0 = {}
      OBVIOUS
    <3>2. \A r \in Requests : req[r].got = 0 /\ req[r].pc # "waiting"
      BY <1>6
    <3>3. Holders(k) = {}
      BY <3>1, <3>2 DEF Holders
    <3> QED
      BY <3>2, <3>3 DEF Waiting
  <2>4. Cardinality({}) = 0 /\ Len(<< >>) = 0
    BY FS_EmptySet
  <2> QED
    BY <2>1, <2>2, <2>3, <2>4 DEF Balanced, Consistent, In, Distinct
<1>11. pool \in Pools
  BY <1>1, <1>2, EmptySeq DEF Pools
<1> QED
  BY <1>3, <1>4, <1>5, <1>7, <1>8, <1>9, <1>10, <1>11 DEF SInv, PInv

LEMMA StepsKeep == SInv /\ [Next]_allvars => SInv'
<1> SUFFICES ASSUME SInv, [Next]_allvars PROVE SInv'
  OBVIOUS
<1>1. CASE UNCHANGED allvars
  <2>1. UNCHANGED <<users, accounts, profiles, assigned, history, job, req, sem, pool>>
    BY <1>1 DEF allvars, pvars, svars
  <2>2. ASSUME NEW j \in Jobs PROVE Progressed(j)' /\ Owned(j)'
    <3>1. Progressed(j) /\ Owned(j)
      BY DEF SInv, PInv
    <3> QED
      BY <2>1, <3>1 DEF Progressed, Owned, HasAccount, IdOf, HasRow
  <2>3. PInv'
    BY <2>1, <2>2 DEF SInv, PInv, JobType, Tables
  <2>4. ASSUME NEW r \in Requests PROVE Underway(r)' /\ ShutOut(r)' /\ Fresh(r)'
    BY <2>1 DEF SInv, Underway, ShutOut, Fresh, DisableAcknowledged
  <2>5. ASSUME NEW k \in Keys PROVE Balanced(k)'
    BY <2>1 DEF SInv, Balanced, Holders, Waiting, Awaited, SlotOrder, CapOf
  <2> QED
    BY <2>1, <2>3, <2>4, <2>5 DEF SInv
<1>2. ASSUME NEW j \in Jobs, AdminStep(j), UNCHANGED svars PROVE SInv'
  BY <1>2, AdminBesideRequests
<1>3. ASSUME NEW r \in Requests, Handles(r) \/ ThreadStarts(r) \/ EngineEnds(r) PROVE SInv'
  BY <1>3, QuietSteps, StartsCallKeeps, ResumesKeeps, TimesOutKeeps, ThreadStartsKeeps,
     EngineEndsKeeps DEF Handles
<1> QED
  BY <1>1, <1>2, <1>3 DEF Next

\* The invariant of the commands, the requests and the limiter together.
THEOREM ServingInvariance == Spec => []SInv
  BY InitialSInv, StepsKeep, PTL DEF Spec

\* A disabled user is answered nothing once the disabling was reported done, by
\* any number of commands that set, create and disable users meanwhile.
THEOREM DisabledUsersStayOut == Spec => []DisabledStaysOut
<1>1. SInv => DisabledStaysOut
  BY DEF SInv, ShutOut, DisabledStaysOut
<1> QED
  BY <1>1, ServingInvariance, PTL

\* No creation of a user takes away the account another one made, however many
\* run at once and wherever they fail.
THEOREM CreatedUsersAreWhole == Spec => []CreatedUserIsWhole
<1>1. SInv => CreatedUserIsWhole
  BY DEF SInv, PInv, Owned, HasAccount, CreatedUserIsWhole
<1> QED
  BY <1>1, ServingInvariance, PTL

\* Every slot is free, held or handed over, and no more tools run than the caps
\* allow, through refusals, timeouts and errors of any number of requests.
THEOREM SlotsAreAccounted == Spec => []SlotsAccounted
<1>1. SInv => SlotsAccounted
  <2> SUFFICES ASSUME SInv PROVE SlotsAccounted
    OBVIOUS
  <2>1. PTypeOK
    <3>1. ASSUME NEW j \in Jobs
          PROVE  /\ job[j].cmd \in Commands \cup {Idle}
                 /\ job[j].pc \in Steps /\ job[j].result \in Results
                 /\ job[j].seen \in Definitions \cup {NoRow}
                 /\ job[j].pc = "end" <=> job[j].result # "none"
      BY DEF SInv, PInv, JobType, Progressed
    <3> QED
      BY <3>1 DEF SInv, PInv, Tables, PTypeOK
  <2>2. ASSUME NEW r \in Requests
        PROVE  /\ req[r].pc \in Pcs /\ req[r].status \in Statuses
               /\ req[r].user \in Ids /\ req[r].late \in BOOLEAN /\ req[r].got \in 0..2
               /\ req[r].done <= Len(req[r].batch) /\ req[r].replied \in BOOLEAN
               /\ req[r].pc = "end" <=> req[r].status # "none"
    BY DEF SInv, States, Underway
  <2>3. \A k \in Keys : sem[k].free \in Nat /\ sem[k].woken \subseteq Requests
    BY DEF SInv, Semaphores
  <2>4. STypeOK
    <3>1. pool.size \in Nat \ {0} /\ pool.queue \in Seq(Requests)
      BY DEF SInv, Pools
    <3> QED
      BY <2>1, <2>2, <2>3, <3>1 DEF STypeOK, Keys
  <2>5. ASSUME NEW k \in Keys
        PROVE  /\ Cardinality(Running(k)) <= CapOf(k)
               /\ sem[k].free + Cardinality(Holders(k)) + Cardinality(sem[k].woken) = CapOf(k)
    <3>1. /\ sem[k].free + Cardinality(Holders(k)) + Cardinality(sem[k].woken) = CapOf(k)
          /\ sem[k] \in Semaphores /\ Holders(k) \in SUBSET Requests
      BY HoldersAre DEF SInv, Balanced, Consistent
    <3>2. /\ IsFiniteSet(Holders(k)) /\ Cardinality(Holders(k)) \in Nat
          /\ Cardinality(sem[k].woken) \in Nat /\ sem[k].free \in Nat
      BY <3>1, Finite, SemaphoreParts
    <3>3. Running(k) \in SUBSET Holders(k)
      <4>1. ASSUME NEW r \in Requests, req[r].pc = "engine", k \in {Box, req[r].user}
            PROVE  Holds(req[r], k)
        BY <4>1 DEF SInv, Underway, Holds
      <4> QED
        BY <4>1, HoldersAre DEF Running
    <3>4. Cardinality(Running(k)) <= Cardinality(Holders(k)) /\ Cardinality(Running(k)) \in Nat
      BY <3>2, <3>3, FS_Subset, FS_CardinalityType
    <3> QED
      BY <3>1, <3>2, <3>4
  <2> QED
    BY <2>4, <2>5 DEF SlotsAccounted, Keys
<1> QED
  BY <1>1, ServingInvariance, PTL

\* A call waits only while its slots are all taken, those of a user by that user
\* and those of the box by no more calls of any user than the cap of a user.
THEOREM NobodyStarvesOthers == Spec => []OneUserCannotStarve
<1>1. SInv => OneUserCannotStarve
  <2> SUFFICES ASSUME SInv, NEW r \in Requests, req[r].pc = "waiting",
                      r \notin sem[Awaited(r)].woken
               PROVE  LET k == Awaited(r)
                          taken == Holders(k) \cup sem[k].woken
                      IN  /\ Cardinality(taken) = CapOf(k)
                          /\ \A id \in Ids :
                                Cardinality({q \in taken : req[q].user = id}) <= UserCap
    BY DEF OneUserCannotStarve
  <2> DEFINE k == Awaited(r)
             taken == Holders(k) \cup sem[k].woken
  <2>1. k \in Keys /\ r \in Waiting(k)
    <3>1. Awaited(r) \in {req[r].user, Box}
      BY DEF SInv, Underway, Awaited, SlotOrder
    <3> QED
      BY <3>1, UserInIds DEF Waiting
  <2> HIDE DEF k
  <2>2. Consistent(sem[k], Holders(k), Waiting(k), CapOf(k)) /\ sem[k] \in Semaphores
    BY <2>1 DEF SInv, Balanced
  <2>3. sem[k].free = 0
    <3>1. In(r, sem[k].waiters)
      BY <2>1, <2>2 DEF Consistent, k
    <3>2. sem[k].waiters # << >>
      BY <2>2, <3>1, SemaphoreParts
    <3> QED
      BY <2>2, <3>2 DEF Consistent
  <2>4. /\ Holders(k) = {q \in Requests : Holds(req[q], k)}
        /\ Waiting(k) = {q \in Requests : Waits(req[q], k)}
    BY HoldersAre
  <2>5. Holders(k) \cap sem[k].woken = {}
    <3>1. ASSUME NEW q \in Requests, Waits(req[q], k) PROVE ~Holds(req[q], k)
      <4>1. req[q].got \in {0, 1} /\ req[q].user # Box
        BY <3>1, UserInIds DEF SInv, Underway, Waits
      <4> QED
        BY <3>1, <4>1 DEF Waits, Holds
    <3> QED
      BY <2>2, <2>4, <3>1 DEF Consistent
  <2>6. /\ IsFiniteSet(Holders(k)) /\ IsFiniteSet(sem[k].woken) /\ IsFiniteSet(taken)
        /\ Cardinality(Holders(k)) \in Nat /\ Cardinality(sem[k].woken) \in Nat
        /\ taken \in SUBSET Requests
    <3>1. Holders(k) \in SUBSET Requests /\ sem[k].woken \in SUBSET Requests
      BY <2>2, HoldersAre, SemaphoreParts
    <3> QED
      BY <3>1, Finite
  <2>7. Cardinality(taken) = CapOf(k)
    <3>1. Cardinality(taken) = Cardinality(Holders(k)) + Cardinality(sem[k].woken)
                                 - Cardinality(Holders(k) \cap sem[k].woken)
      BY <2>6, FS_Union
    <3>2. Cardinality(Holders(k) \cap sem[k].woken) = 0
      BY <2>5, FS_EmptySet
    <3>3. sem[k].free + Cardinality(Holders(k)) + Cardinality(sem[k].woken) = CapOf(k)
      BY <2>2 DEF Consistent
    <3> QED
      BY <2>3, <2>6, <3>1, <3>2, <3>3
  <2>8. ASSUME NEW id \in Ids PROVE Cardinality({q \in taken : req[q].user = id}) <= UserCap
    <3> DEFINE own == {q \in taken : req[q].user = id}
    <3>1. CASE k # Box
      <4>1. CapOf(k) = UserCap /\ UserCap \in Nat
        BY <3>1, ServingAssumption DEF CapOf
      <4>2. own \in SUBSET taken
        OBVIOUS
      <4>3. Cardinality(own) <= Cardinality(taken)
        BY <2>6, <4>2, FS_Subset
      <4> QED
        BY <2>7, <4>1, <4>3
    <3>2. CASE k = Box
      <4>1. own \in SUBSET Holders(id)
        <5>1. ASSUME NEW q \in own PROVE q \in Holders(id)
          <6>1. q \in Requests /\ req[q].user = id /\ (Holds(req[q], Box) \/ Waits(req[q], Box))
            BY <2>2, <2>4, <3>2 DEF Consistent
          <6>2. req[q].got \in {1, 2}
            BY <6>1, UserInIds DEF SInv, Underway, Holds, Waits
          <6>3. Holds(req[q], id)
            BY <6>1, <6>2 DEF Holds
          <6> QED
            BY <6>1, <6>3, HoldersAre
        <5> QED
          BY <5>1
      <4>2. id \in Keys /\ CapOf(id) = UserCap
        BY ServingAssumption DEF Keys, CapOf
      <4>3. /\ sem[id].free + Cardinality(Holders(id)) + Cardinality(sem[id].woken) = UserCap
            /\ sem[id] \in Semaphores /\ Holders(id) \in SUBSET Requests
        BY <4>2, HoldersAre DEF SInv, Balanced, Consistent
      <4>4. /\ IsFiniteSet(Holders(id)) /\ Cardinality(Holders(id)) \in Nat
            /\ Cardinality(sem[id].woken) \in Nat /\ sem[id].free \in Nat
        BY <4>3, Finite, SemaphoreParts
      <4>5. Cardinality(own) <= Cardinality(Holders(id)) /\ Cardinality(own) \in Nat
        BY <4>1, <4>4, FS_Subset, FS_CardinalityType
      <4> QED
        BY <4>3, <4>4, <4>5
    <3> QED
      BY <3>1, <3>2
  <2> QED
    BY <2>7, <2>8 DEF k
<1> QED
  BY <1>1, ServingInvariance, PTL
=============================================================================
