---------------------------- MODULE CronScheduler ----------------------------
(***************************************************************************)
(* The scheduler daemon: on every tick it asks load_history when each      *)
(* binding was last attempted by schedule and, when a cron instant has     *)
(* passed since, loads the periods its strategy selects, oldest first.     *)
(* The daemon keeps no state of its own; load_history is shared with every *)
(* other trigger.                                                          *)
(*                                                                         *)
(* A period is a number in the order of its text: month m is 2m, and 2m+1  *)
(* is an adjustment period sorted right after it (2026-12-ADJ, 2026-13).   *)
(***************************************************************************)
EXTENDS Integers, FiniteSets, Sequences, FiniteSetsExt

CONSTANTS
    Bindings,   \* bindings in registry order, a sequence
    Strategy,   \* "none" (no cron, or a cron that does not parse), "snapshot",
                \* "lookback", "watermark", "explicit", by binding
    FiresAt,    \* instants of the binding's cron expression
    MonthAt,    \* the month of each instant
    Lookback,   \* lookback_periods
    Fallback,   \* watermark_fallback_periods
    Safety,     \* longest catch-up of one window (240 in the code)
    Daemons,    \* replicas of the daemon
    MaxTime,    \* bound: the last instant
    MaxFaults   \* bound: crashes and failing calls in a behaviour

VARIABLES
    now,
    last,       \* started_at of the newest schedule:* row, by binding
    loaded,     \* periods of the rows with status success, by binding
    attempted,  \* periods with a row in load_history or an exception in the log
    started,    \* last schedule:* row of a binding and period (history variable)
    pc,         \* Daemons -> where the tick stands
    at,         \* the instant the tick took from the clock when it began
    todo,       \* bindings the tick has still to look at
    plan,       \* periods of this binding's window still to load
    faults

daemon == <<pc, at, todo, plan>>
table  == <<last, loaded, attempted, started>>
cvars  == <<now, table, daemon, faults>>

Never  == -1          \* no such row
NoPeriod == 0         \* the period of a snapshot load
Names   == {Bindings[i] : i \in DOMAIN Bindings}
Months  == {2 * m : m \in {MonthAt[t] : t \in DOMAIN MonthAt}}
Instants == 0..MaxTime
Earliest == Min(Months) - 2 * Max({Lookback, Fallback})
Periods == {NoPeriod} \cup (Earliest..Max(Months) + 1)

ASSUME CronAssumption ==
    /\ MaxTime \in Nat /\ MaxFaults \in Nat
    /\ Lookback \in Nat /\ Fallback \in Nat /\ Safety \in Nat
    /\ Bindings \in Seq(Names)
    /\ Strategy \in [Names -> {"none", "snapshot", "lookback", "watermark", "explicit"}]
    /\ MonthAt \in [Instants -> Nat]
    /\ \A t, u \in Instants : t <= u => MonthAt[t] <= MonthAt[u]
    /\ FiresAt \in [Names -> SUBSET Instants]
    /\ Earliest > 0

CTypeOK ==
    /\ now \in Instants
    /\ last \in [Names -> Instants \cup {Never}]
    /\ loaded \in [Names -> SUBSET Periods]
    /\ attempted \in [Names -> SUBSET Periods]
    /\ started \in [Names -> [Periods -> Instants \cup {Never}]]
    /\ pc \in [Daemons -> {"sleep", "ask", "select", "run", "load"}]
    /\ at \in [Daemons -> Instants]
    /\ \A d \in Daemons :
          /\ at[d] <= now
          /\ pc[d] \in {"select", "run", "load"} => todo[d] # <<>>
          /\ pc[d] = "load" => plan[d] # <<>>
          /\ \A i, j \in DOMAIN plan[d] : i < j => plan[d][i] < plan[d][j]
    /\ faults \in 0..MaxFaults

CInit ==
    /\ now = 0
    /\ last = [b \in Names |-> Never]
    /\ loaded = [b \in Names |-> {}]
    /\ attempted = [b \in Names |-> {}]
    /\ started = [b \in Names |-> [p \in Periods |-> Never]]
    /\ pc = [d \in Daemons |-> "sleep"]
    /\ at = [d \in Daemons |-> 0]
    /\ todo = [d \in Daemons |-> <<>>]
    /\ plan = [d \in Daemons |-> <<>>]
    /\ faults = 0

Fault == faults < MaxFaults /\ faults' = faults + 1

Clock ==
    /\ now < MaxTime
    /\ now' = now + 1
    /\ UNCHANGED <<table, daemon, faults>>

-----------------------------------------------------------------------------
(* select_periods                                                           *)

\* latest_successful_period: the highest by text.
Latest(b) == IF loaded[b] = {} THEN Never ELSE Max(loaded[b])

IsMonth(p) == p % 2 = 0
Shift(p, n) == p + 2 * n

\* The months from the first to the last, both included, oldest first.
MonthsFrom(first, end) == [i \in 1..((end - first) \div 2 + 1) |-> Shift(first, i - 1)]
UpTo(n, s) == SubSeq(s, 1, Min({n, Len(s)}))

Selects(b, tick, newest) ==
    CASE Strategy[b] = "snapshot"  -> <<NoPeriod>>
      [] Strategy[b] = "lookback"  -> MonthsFrom(Shift(tick, 1 - Lookback), tick)
      [] Strategy[b] = "watermark" ->
            IF newest = Never THEN MonthsFrom(Shift(tick, 1 - Fallback), tick)
            ELSE IF newest >= tick THEN <<>>
            ELSE UpTo(Safety, MonthsFrom(Shift(newest, 1), tick))

\* An explicit strategy needs a period nobody gives it here, and calendar
\* arithmetic refuses a watermark that is no month.
SelectionRaises(b, newest) ==
    \/ Strategy[b] = "explicit"
    \/ Strategy[b] = "watermark" /\ newest # Never /\ ~IsMonth(newest)

-----------------------------------------------------------------------------
(* tick                                                                     *)

Goto(d, p) == pc' = [pc EXCEPT ![d] = p]
Binding(d) == Head(todo[d])

WakeUp(d) ==
    /\ pc[d] = "sleep"
    /\ at' = [at EXCEPT ![d] = now]
    /\ todo' = [todo EXCEPT ![d] = Bindings]
    /\ Goto(d, "ask")
    /\ UNCHANGED <<now, table, plan, faults>>

EndTick(d) ==
    /\ pc[d] = "ask" /\ todo[d] = <<>>
    /\ Goto(d, "sleep")
    /\ UNCHANGED <<now, table, at, todo, plan, faults>>

\* Mutant: a cron instant equal to the last attempt counts as missed.
FiresSinceInclusive(b, t) ==
    last[b] = Never \/ \E f \in FiresAt[b] : last[b] <= f /\ f <= t

\* next_fire_time(last_attempt) <= now; a binding never attempted is due.
FiresSince(b, t) ==
    last[b] = Never \/ \E f \in FiresAt[b] : last[b] < f /\ f <= t

Due(b, t) == Strategy[b] # "none" /\ FiresSince(b, t)

NotDue(d) ==
    /\ pc[d] = "ask" /\ todo[d] # <<>>
    /\ ~Due(Binding(d), at[d])
    /\ todo' = [todo EXCEPT ![d] = Tail(@)]
    /\ UNCHANGED <<now, table, pc, at, plan, faults>>

IsDue(d) ==
    /\ pc[d] = "ask" /\ todo[d] # <<>>
    /\ Due(Binding(d), at[d])
    /\ Goto(d, "select")
    /\ UNCHANGED <<now, table, at, todo, plan, faults>>

\* Mutant: a selection that raises ends the tick.
SelectFailsTick(d) ==
    /\ pc[d] = "select"
    /\ SelectionRaises(Binding(d), Latest(Binding(d)))
    /\ Goto(d, "sleep")
    /\ UNCHANGED <<now, table, at, todo, plan, faults>>

SelectFails(d) ==
    /\ pc[d] = "select"
    /\ SelectionRaises(Binding(d), Latest(Binding(d)))
    /\ todo' = [todo EXCEPT ![d] = Tail(@)]
    /\ Goto(d, "ask")
    /\ UNCHANGED <<now, table, at, plan, faults>>

\* Mutant: newest period first.
SelectNewestFirst(d) ==
    LET b == Binding(d)  s == Selects(b, 2 * MonthAt[at[d]], Latest(b))
    IN  /\ pc[d] = "select"
        /\ ~SelectionRaises(b, Latest(b))
        /\ plan' = [plan EXCEPT ![d] = [i \in DOMAIN s |-> s[Len(s) + 1 - i]]]
        /\ Goto(d, "run")
        /\ UNCHANGED <<now, table, at, todo, faults>>

Select(d) ==
    LET b == Binding(d)
    IN  /\ pc[d] = "select"
        /\ ~SelectionRaises(b, Latest(b))
        /\ plan' = [plan EXCEPT ![d] = Selects(b, 2 * MonthAt[at[d]], Latest(b))]
        /\ Goto(d, "run")
        /\ UNCHANGED <<now, table, at, todo, faults>>

EndBinding(d) ==
    /\ pc[d] = "run" /\ plan[d] = <<>>
    /\ todo' = [todo EXCEPT ![d] = Tail(@)]
    /\ Goto(d, "ask")
    /\ UNCHANGED <<now, table, at, plan, faults>>

\* run_binding inserts its row: triggered_by = schedule:<binding>.
BeginLoad(d) ==
    LET b == Binding(d)  p == Head(plan[d])
    IN  /\ pc[d] = "run" /\ plan[d] # <<>>
        /\ last' = [last EXCEPT ![b] = now]
        /\ started' = [started EXCEPT ![b][p] = now]
        /\ attempted' = [attempted EXCEPT ![b] = @ \cup {p}]
        /\ Goto(d, "load")
        /\ UNCHANGED <<now, loaded, at, todo, plan, faults>>

\* The attempt ends as a success; or in any other status.
LoadSucceeds(d) ==
    LET b == Binding(d)
    IN  /\ pc[d] = "load"
        /\ loaded' = [loaded EXCEPT ![b] = @ \cup {Head(plan[d])}]
        /\ plan' = [plan EXCEPT ![d] = Tail(@)]
        /\ Goto(d, "run")
        /\ UNCHANGED <<now, last, attempted, started, at, todo, faults>>

LoadFails(d) ==
    /\ pc[d] = "load"
    /\ plan' = [plan EXCEPT ![d] = Tail(@)]
    /\ Goto(d, "run")
    /\ Fault
    /\ UNCHANGED <<now, table, at, todo>>

\* run_binding raises before its row is there: logged, on to the next period.
LoadRaises(d) ==
    LET b == Binding(d)
    IN  /\ pc[d] = "run" /\ plan[d] # <<>>
        /\ attempted' = [attempted EXCEPT ![b] = @ \cup {Head(plan[d])}]
        /\ plan' = [plan EXCEPT ![d] = Tail(@)]
        /\ Fault
        /\ UNCHANGED <<now, last, loaded, started, pc, at, todo>>

\* A query of load_history raises: the whole tick is abandoned.
QueryFails(d) ==
    /\ pc[d] \in {"ask", "select"} /\ todo[d] # <<>>
    /\ Goto(d, "sleep")
    /\ Fault
    /\ UNCHANGED <<now, table, at, todo, plan>>

DaemonRestarts(d) ==
    /\ pc[d] # "sleep"
    /\ Goto(d, "sleep")
    /\ todo' = [todo EXCEPT ![d] = <<>>]
    /\ plan' = [plan EXCEPT ![d] = <<>>]
    /\ Fault
    /\ UNCHANGED <<now, table, at>>

TickStep(d) ==
    \/ WakeUp(d) \/ EndTick(d)
    \/ NotDue(d) \/ IsDue(d) \/ SelectFails(d) \/ Select(d) \/ EndBinding(d)
    \/ BeginLoad(d) \/ LoadSucceeds(d)

CronNext ==
    \/ Clock
    \/ \E d \in Daemons : TickStep(d) \/ LoadFails(d) \/ LoadRaises(d) \/ QueryFails(d)
                          \/ DaemonRestarts(d)

-----------------------------------------------------------------------------
\* "Never double-fires on restart": a period is attempted again by schedule
\* only when a cron instant has passed since its last attempt, across crashes
\* inside a window and ticks abandoned half way.
NeverDoubleFires ==
    [][\A b \in Names, p \in Periods :
          started[b][p] # Never /\ started'[b][p] # started[b][p] =>
              \E f \in FiresAt[b] : started[b][p] < f /\ f <= now]_cvars

\* The watermark hides nothing: a month between one that was loaded and one
\* the scheduler has run has a row in load_history or an exception in the log,
\* however many windows were cut short by a crash or missed while it was down.
NoSilentGap ==
    \A b \in Names : Strategy[b] = "watermark" =>
        \A p \in loaded[b], q \in Periods : started[b][q] # Never =>
            {m \in p..q : IsMonth(m)} \subseteq attempted[b]

\* A binding that is due gets a scheduled row, whatever becomes of the bindings
\* before it in the registry and however often ticks are abandoned: a snapshot
\* and a lookback in every window, also when the month was loaded before.  Not
\* so where a watermark has reached the month (no row is written, the binding
\* stays due and is loaded with the next month), where a watermark is no month
\* (the selection raises and is only logged, tick after tick, until it is one
\* again), and under an explicit strategy, whose selection always raises.
NothingLeft(b) == Strategy[b] = "watermark" /\ Latest(b) >= 2 * MonthAt[now]
WindowsAreServed ==
    \A b \in Names : Strategy[b] # "explicit" =>
        Due(b, now) ~> (~Due(b, now) \/ NothingLeft(b) \/ SelectionRaises(b, Latest(b)))
=============================================================================
