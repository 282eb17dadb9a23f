----------------------------- MODULE MCServing -----------------------------
(* Either requests of three users and no command, four on a host with as    *)
(* many threads as slots and three on one with fewer, or two commands and   *)
(* one request, which carries one message of each kind or calls a tool.     *)
EXTENDS Serving, TLC

CONSTANTS u, v, w, p, q, r1, r2, r3, r4, j1, j2

MCTools ==
  [run_metric |-> [mcp_read |-> TRUE, access |-> "read", scoped |-> TRUE, default |-> "actuals"],
   list_kpis  |-> [mcp_read |-> TRUE, access |-> "read", scoped |-> FALSE, default |-> NoScenario],
   reload_catalogue |-> [mcp_read |-> FALSE, access |-> "admin", scoped |-> FALSE, default |-> NoScenario]]
MCDefinitions == {{"actuals"}, {"actuals", "budget"}}

Tell(method) == [method |-> method]
CallOf(tool, scenario) ==
  [method |-> "tools/call", tool |-> tool, scenario |-> scenario, valid |-> TRUE]
Silent == [user |-> u, batch |-> << >>]
From(id, batch) == [user |-> id, batch |-> batch]
Metric == CallOf("run_metric", NoScenario)

Quiet == j1 :> Idle @@ j2 :> Idle
Burst == r1 :> From(u, <<Metric>>) @@ r2 :> From(u, <<Metric>>)
         @@ r3 :> From(v, <<Metric>>) @@ r4 :> From(w, <<Metric, Metric>>)
Three == r2 :> Silent @@ r4 :> From(w, <<Metric>>) @@ Burst
Alone(batch) == [r \in Requests |-> IF r = r1 THEN From(u, batch) ELSE Silent]
Both(c, d) == j1 :> c @@ j2 :> d

Create(id, keycloak) == [op |-> "create_user", id |-> id, keycloak |-> keycloak, admin |-> FALSE]
OfUser(op, id) == [op |-> op, id |-> id]
SetAdmin(id) == [op |-> "set_admin", id |-> id, admin |-> TRUE]
Define(op, profile, def) == [op |-> op, profile |-> profile, definition |-> def]
Delete(profile) == [op |-> "delete_profile", profile |-> profile]
Assign(id, profile) == [op |-> "assign", id |-> id, profile |-> profile]

MCCommands ==
  {Both(Create(u, TRUE), Create(u, k)) : k \in BOOLEAN}
  \cup {Both(OfUser("disable_user", u), c) : c \in {SetAdmin(u), OfUser("disable_user", u), OfUser("revoke", u)}}
  \cup {Both(Assign(u, q), c) : c \in {Delete(q), Define("create_profile", q, {"actuals"}), OfUser("revoke", u)}}
  \cup {Both(Define("update_profile", p, {"actuals"}), c) :
          c \in {Delete(p), Define("create_profile", p, {"actuals"}), OfUser("revoke", u), Assign(u, p)}}
  \cup {Both(Delete(p), c) : c \in {OfUser("revoke", u), Assign(u, p), Delete(p)}}
  \cup {Both(Assign(u, p), OfUser("revoke", u)),
        Both(Define("create_profile", q, {"actuals"}), Define("create_profile", q, {"actuals", "budget"}))}

MCBatches ==
  {<<Metric, CallOf("run_metric", "budget")>>,
   <<Tell("initialize"), Tell("tools/list"), CallOf("precis_orientation", NoScenario), CallOf("", NoScenario),
     CallOf("delete_all", NoScenario), CallOf("reload_catalogue", NoScenario), Tell("notification"),
     CallOf("list_kpis", NoScenario), [Metric EXCEPT !.valid = FALSE], Tell("other")>>,
   <<Tell("notification")>>}

MCLoads ==
  {[jobs |-> Quiet, requests |-> Burst, threads |-> 2],
   [jobs |-> Quiet, requests |-> Three, threads |-> 1]}
  \cup {[jobs |-> Quiet, requests |-> Alone(batch), threads |-> 1] : batch \in MCBatches}
  \cup {[jobs |-> c, requests |-> Alone(<<Metric>>), threads |-> 1] : c \in MCCommands}
=============================================================================
