---------------------------- MODULE Provisioning ----------------------------
(***************************************************************************)
(* Administration of users and profiles (admin_ops.py), run by the admin   *)
(* CLI: every command is a process of its own, and several may run at once.*)
(*                                                                         *)
(* Each statement commits by itself, so a command is a sequence of steps   *)
(* and may end after any of them: the process is killed, a statement fails,*)
(* the directory of a user cannot be made.  A call to Keycloak takes       *)
(* effect, is answered with an error (KeycloakAdminError), or loses its    *)
(* connection before or after the effect, which raises an error of httpx   *)
(* that no handler of these commands names.                                *)
(*                                                                         *)
(* Not modelled: passwords, change reasons and the security audit log,     *)
(* which is written last and best effort.                                  *)
(***************************************************************************)
EXTENDS Naturals, Sequences, FiniteSets

CONSTANTS
    Jobs,       \* runs of the CLI
    Ids,        \* ids of users
    Profiles, Definitions,
    NoRow       \* no row with that key

VARIABLES
    users,      \* table users: [admin, disabled]
    accounts,   \* accounts of Keycloak: "none", "enabled" or "disabled"
    profiles,   \* table profiles: the definition of each
    assigned,   \* table user_profile_assignments: at most one profile a user
    history,    \* table profile_audit: the rows of each profile, oldest first
    job         \* Jobs -> [cmd, pc, seen, result]

pvars == <<users, accounts, profiles, assigned, history, job>>

Commands ==
    [op : {"create_user"}, id : Ids, keycloak : BOOLEAN, admin : BOOLEAN]
    \cup [op : {"set_admin"}, id : Ids, admin : BOOLEAN]
    \cup [op : {"disable_user", "revoke"}, id : Ids]
    \cup [op : {"create_profile", "update_profile"}, profile : Profiles, definition : Definitions]
    \cup [op : {"delete_profile"}, profile : Profiles]
    \cup [op : {"assign"}, id : Ids, profile : Profiles]
Idle == [op |-> "none"]

Steps   == {"check", "account", "row", "rollback", "profile", "inuse", "audit", "end"}
Results == {"none", "ok", "refused", "failed"}
Users   == [admin : BOOLEAN, disabled : BOOLEAN]
Kinds   == {"create", "update", "delete"}

ASSUME ProvisioningAssumption == NoRow \notin Users \cup Profiles \cup Definitions

PTypeOK ==
    /\ users \in [Ids -> Users \cup {NoRow}]
    /\ accounts \in [Ids -> {"none", "enabled", "disabled"}]
    /\ profiles \in [Profiles -> Definitions \cup {NoRow}]
    /\ assigned \in [Ids -> Profiles \cup {NoRow}]
    /\ history \in [Profiles -> Seq([kind : Kinds, definition : Definitions])]
    /\ \A j \in Jobs :
         /\ job[j].cmd \in Commands \cup {Idle}
         /\ job[j].pc \in Steps /\ job[j].result \in Results
         /\ job[j].seen \in Definitions \cup {NoRow}
         /\ job[j].pc = "end" <=> job[j].result # "none"

Job(cmd) == [cmd |-> cmd, pc |-> "check", seen |-> NoRow, result |-> "none"]

-----------------------------------------------------------------------------
Runs(j, op, pc) == job[j].cmd.op = op /\ job[j].pc = pc
Go(j, pc)       == job' = [job EXCEPT ![j].pc = pc]
End(j, result)  == job' = [job EXCEPT ![j].pc = "end", ![j].result = result]

IdOf(j)      == job[j].cmd.id
ProfileOf(j) == job[j].cmd.profile
HasRow(table, key) == table[key] # NoRow

\* The first query of a command, and its refusal.
Checks(j, op, passes, pc) ==
    /\ Runs(j, op, "check")
    /\ IF passes THEN Go(j, pc) ELSE End(j, "refused")
    /\ UNCHANGED <<users, accounts, profiles, assigned, history>>

\* The command ends after any of its steps.
Dies(j) ==
    /\ job[j].pc # "end"
    /\ End(j, "failed")
    /\ UNCHANGED <<users, accounts, profiles, assigned, history>>

\* A call that changes an account: what it leaves and whether it raises the
\* error the handlers know.
Call(id, enabled, to, accepted, known, other) ==
    \/ enabled /\ accounts' = [accounts EXCEPT ![id] = to] /\ accepted
    \/ accounts' = accounts /\ known
    \/ accounts' = accounts /\ other
    \/ enabled /\ accounts' = [accounts EXCEPT ![id] = to] /\ other

-----------------------------------------------------------------------------
(* Users *)

CreateChecks(j) ==
    Checks(j, "create_user", ~HasRow(users, IdOf(j)),
           IF job[j].cmd.keycloak THEN "account" ELSE "row")

\* Mutant: an account that exists (409) is taken over.
CreateAccountAdopts(j) ==
    /\ Runs(j, "create_user", "account")
    /\ Call(IdOf(j), TRUE, "enabled", Go(j, "row"), End(j, "failed"), End(j, "failed"))
    /\ UNCHANGED <<users, profiles, assigned, history>>

\* Keycloak refuses an account that exists.
CreateAccount(j) ==
    /\ Runs(j, "create_user", "account")
    /\ Call(IdOf(j), accounts[IdOf(j)] = "none", "enabled",
            Go(j, "row"), End(j, "failed"), End(j, "failed"))
    /\ UNCHANGED <<users, profiles, assigned, history>>

\* The INSERT finds the row of another command, or fails: the account goes.
CreateRow(j) ==
    /\ Runs(j, "create_user", "row")
    /\ \/ /\ ~HasRow(users, IdOf(j))
          /\ users' = [users EXCEPT ![IdOf(j)] = [admin |-> job[j].cmd.admin, disabled |-> FALSE]]
          /\ End(j, "ok")
       \/ /\ IF job[j].cmd.keycloak THEN Go(j, "rollback") ELSE End(j, "failed")
          /\ UNCHANGED users
    /\ UNCHANGED <<accounts, profiles, assigned, history>>

\* A rollback that fails is logged.
CreateRollback(j) ==
    /\ Runs(j, "create_user", "rollback")
    /\ Call(IdOf(j), TRUE, "none", End(j, "failed"), End(j, "failed"), End(j, "failed"))
    /\ UNCHANGED <<users, profiles, assigned, history>>

AdminChecks(j) == Checks(j, "set_admin", HasRow(users, IdOf(j)), "row")

AdminRow(j) ==
    /\ Runs(j, "set_admin", "row")
    /\ users' = [users EXCEPT ![IdOf(j)].admin = job[j].cmd.admin]
    /\ End(j, "ok")
    /\ UNCHANGED <<accounts, profiles, assigned, history>>

DisableChecks(j) == Checks(j, "disable_user", HasRow(users, IdOf(j)), "account")

\* Mutant: an error of Keycloak ends the command before its UPDATE.
DisableAccountGivesUp(j) ==
    /\ Runs(j, "disable_user", "account")
    /\ Call(IdOf(j), accounts[IdOf(j)] # "none", "disabled",
            Go(j, "row"), End(j, "ok"), End(j, "failed"))
    /\ UNCHANGED <<users, profiles, assigned, history>>

\* An error of Keycloak is logged and the row is written all the same; a lost
\* connection ends the command.
DisableAccount(j) ==
    /\ Runs(j, "disable_user", "account")
    /\ Call(IdOf(j), accounts[IdOf(j)] # "none", "disabled",
            Go(j, "row"), Go(j, "row"), End(j, "failed"))
    /\ UNCHANGED <<users, profiles, assigned, history>>

DisableRow(j) ==
    /\ Runs(j, "disable_user", "row")
    /\ users' = [users EXCEPT ![IdOf(j)].disabled = TRUE]
    /\ End(j, "ok")
    /\ UNCHANGED <<accounts, profiles, assigned, history>>

-----------------------------------------------------------------------------
(* Profiles *)

ProfileChecks(j) ==
    \/ Checks(j, "create_profile", ~HasRow(profiles, ProfileOf(j)), "row")
    \/ Checks(j, "update_profile", HasRow(profiles, ProfileOf(j)), "row")

\* An INSERT that finds a row fails; an UPDATE that finds none does nothing.
ProfileRow(j) ==
    LET name == ProfileOf(j) def == job[j].cmd.definition
    IN  /\ \/ Runs(j, "create_profile", "row") /\ ~HasRow(profiles, name)
           \/ Runs(j, "update_profile", "row")
        /\ profiles' = IF Runs(j, "update_profile", "row") /\ ~HasRow(profiles, name) THEN profiles
                       ELSE [profiles EXCEPT ![name] = def]
        /\ Go(j, "audit")
        /\ UNCHANGED <<users, accounts, assigned, history>>

Recorded(p, kind, def) == history' = [history EXCEPT ![p] = Append(@, [kind |-> kind, definition |-> def])]

ProfileAudit(j) ==
    /\ \/ Runs(j, "create_profile", "audit") /\ Recorded(ProfileOf(j), "create", job[j].cmd.definition)
       \/ Runs(j, "update_profile", "audit") /\ Recorded(ProfileOf(j), "update", job[j].cmd.definition)
    /\ End(j, "ok")
    /\ UNCHANGED <<users, accounts, profiles, assigned>>

DeleteChecks(j) ==
    /\ Runs(j, "delete_profile", "check")
    /\ IF HasRow(profiles, ProfileOf(j))
       THEN job' = [job EXCEPT ![j].pc = "inuse", ![j].seen = profiles[ProfileOf(j)]]
       ELSE End(j, "refused")
    /\ UNCHANGED <<users, accounts, profiles, assigned, history>>

Grantees(p) == {id \in Ids : assigned[id] = p}

DeleteInUse(j) ==
    /\ Runs(j, "delete_profile", "inuse")
    /\ IF Grantees(ProfileOf(j)) = {} THEN Go(j, "audit") ELSE End(j, "refused")
    /\ UNCHANGED <<users, accounts, profiles, assigned, history>>

DeleteAudit(j) ==
    /\ Runs(j, "delete_profile", "audit")
    /\ Recorded(ProfileOf(j), "delete", job[j].seen)
    /\ Go(j, "row")
    /\ UNCHANGED <<users, accounts, profiles, assigned>>

\* The foreign key refuses to delete a profile someone was given meanwhile.
DeleteRow(j) ==
    /\ Runs(j, "delete_profile", "row")
    /\ IF Grantees(ProfileOf(j)) = {}
       THEN profiles' = [profiles EXCEPT ![ProfileOf(j)] = NoRow] /\ End(j, "ok")
       ELSE profiles' = profiles /\ End(j, "failed")
    /\ UNCHANGED <<users, accounts, assigned, history>>

-----------------------------------------------------------------------------
(* Assignments *)

AssignChecksUser(j) == Checks(j, "assign", HasRow(users, IdOf(j)), "profile")

AssignChecksProfile(j) ==
    /\ Runs(j, "assign", "profile")
    /\ IF HasRow(profiles, ProfileOf(j)) THEN Go(j, "row") ELSE End(j, "refused")
    /\ UNCHANGED <<users, accounts, profiles, assigned, history>>

\* The upsert replaces the profile of the user; the foreign key wants it there.
AssignRow(j) ==
    /\ Runs(j, "assign", "row")
    /\ IF HasRow(profiles, ProfileOf(j))
       THEN assigned' = [assigned EXCEPT ![IdOf(j)] = ProfileOf(j)] /\ End(j, "ok")
       ELSE assigned' = assigned /\ End(j, "failed")
    /\ UNCHANGED <<users, accounts, profiles, history>>

RevokeChecks(j) ==
    Checks(j, "revoke", HasRow(users, IdOf(j)) /\ HasRow(assigned, IdOf(j)), "row")

RevokeRow(j) ==
    /\ Runs(j, "revoke", "row")
    /\ assigned' = [assigned EXCEPT ![IdOf(j)] = NoRow]
    /\ End(j, "ok")
    /\ UNCHANGED <<users, accounts, profiles, history>>

AdminStep(j) ==
    \/ CreateChecks(j) \/ CreateAccount(j) \/ CreateRow(j) \/ CreateRollback(j)
    \/ AdminChecks(j) \/ AdminRow(j)
    \/ DisableChecks(j) \/ DisableAccount(j) \/ DisableRow(j)
    \/ ProfileChecks(j) \/ ProfileRow(j) \/ ProfileAudit(j)
    \/ DeleteChecks(j) \/ DeleteInUse(j) \/ DeleteAudit(j) \/ DeleteRow(j)
    \/ AssignChecksUser(j) \/ AssignChecksProfile(j) \/ AssignRow(j)
    \/ RevokeChecks(j) \/ RevokeRow(j)
    \/ Dies(j)

-----------------------------------------------------------------------------
\* A user created with an account has it, whatever other creations of the same
\* id did at the same time: no rollback takes away the account of another.
CreatedUserIsWhole ==
    \A j \in Jobs :
        /\ job[j].cmd.op = "create_user" /\ job[j].result = "ok" /\ job[j].cmd.keycloak
        => HasRow(users, IdOf(j)) /\ accounts[IdOf(j)] # "none"
=============================================================================
