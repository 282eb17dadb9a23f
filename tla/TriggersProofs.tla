--------------------------- MODULE TriggersProofs ---------------------------
(***************************************************************************)
(* Proofs about the scheduler and the push routes: what the scheduler       *)
(* selects, that no window fires twice and leaves no gap, and what the      *)
(* answers to requests with one idempotency key name.                       *)
(***************************************************************************)
EXTENDS PushTrigger, SequenceTheorems, FiniteSetTheorems, WellFoundedInduction, TLAPS

-----------------------------------------------------------------------------
(* The calendar of the model.                                               *)

Tick(t) == 2 * MonthAt[t]

LEMMA SpanOfMonths ==
  /\ Min(Months) = Tick(0) /\ Max(Months) = Tick(MaxTime)
  /\ \A t \in Instants : Tick(t) \in Nat /\ Tick(0) <= Tick(t) /\ Tick(t) <= Tick(MaxTime)
<1>1. 0 \in Instants /\ MaxTime \in Instants /\ DOMAIN MonthAt = Instants
  BY CronAssumption DEF Instants
<1>2. ASSUME NEW t \in Instants
      PROVE  /\ MonthAt[t] \in Nat /\ MonthAt[0] \in Nat /\ MonthAt[MaxTime] \in Nat
             /\ MonthAt[0] <= MonthAt[t] /\ MonthAt[t] <= MonthAt[MaxTime]
  <2>1. 0 <= t /\ t <= MaxTime
    BY CronAssumption DEF Instants
  <2> QED
    BY <1>1, <2>1, CronAssumption
<1>3. \A t \in Instants : Tick(t) \in Nat /\ Tick(0) <= Tick(t) /\ Tick(t) <= Tick(MaxTime)
  BY <1>1, <1>2 DEF Tick
<1>4. Months = {Tick(t) : t \in Instants}
  <2>1. ASSUME NEW t \in Instants PROVE Tick(t) \in Months
    BY <1>1, <2>1 DEF Months, Tick
  <2>2. ASSUME NEW m \in Months PROVE \E t \in Instants : m = Tick(t)
    BY <1>1, <2>2 DEF Months, Tick
  <2> QED
    BY <2>1, <2>2
<1>5. /\ \A m \in Months : m \in Nat /\ Tick(0) <= m /\ m <= Tick(MaxTime)
      /\ Tick(0) \in Months /\ Tick(MaxTime) \in Months
  BY <1>1, <1>3, <1>4
<1>6. Min(Months) = Tick(0)
  <2>1. Min(Months) \in Months /\ \A y \in Months : Min(Months) <= y
    BY <1>5 DEF Min
  <2> QED
    BY <1>5, <2>1
<1>7. Max(Months) = Tick(MaxTime)
  <2>1. Max(Months) \in Months /\ \A y \in Months : Max(Months) >= y
    BY <1>5 DEF Max
  <2> QED
    BY <1>5, <2>1
<1> QED
  BY <1>3, <1>6, <1>7

\* The larger of two numbers, and the smaller.
LEMMA OfTwo ==
  ASSUME NEW m \in Int, NEW n \in Int
  PROVE  /\ Max({m, n}) \in {m, n} /\ Max({m, n}) >= m /\ Max({m, n}) >= n
         /\ Min({m, n}) \in {m, n} /\ Min({m, n}) <= m /\ Min({m, n}) <= n
<1>1. \E x \in {m, n} : \A y \in {m, n} : x >= y
  <2>1. CASE m >= n
    BY <2>1
  <2>2. CASE n >= m
    BY <2>2
  <2> QED
    BY <2>1, <2>2
<1>2. \E x \in {m, n} : \A y \in {m, n} : x =< y
  <2>1. CASE m >= n
    BY <2>1
  <2>2. CASE n >= m
    BY <2>2
  <2> QED
    BY <2>1, <2>2
<1>3. Max({m, n}) \in {m, n} /\ \A y \in {m, n} : Max({m, n}) >= y
  BY <1>1 DEF Max
<1>4. Min({m, n}) \in {m, n} /\ \A y \in {m, n} : Min({m, n}) =< y
  BY <1>2 DEF Min
<1> QED
  BY <1>3, <1>4

\* A period of a window is no snapshot and lies in reach of the model's months.
LEMMA PeriodsAre ==
  /\ Earliest \in Nat /\ Earliest > 0 /\ Periods \subseteq Nat
  /\ \A p \in Periods : p <= Tick(MaxTime) + 1 /\ (p = NoPeriod \/ p >= Earliest)
  /\ \A p \in Int : Earliest <= p /\ p <= Tick(MaxTime) + 1 => p \in Periods
  /\ \A t \in Instants : /\ Earliest <= Tick(t) - 2 * Lookback
                         /\ Earliest <= Tick(t) - 2 * Fallback
<1> DEFINE reach == Max({Lookback, Fallback})
<1>1. Lookback \in Nat /\ Fallback \in Nat /\ Earliest > 0 /\ MaxTime \in Nat
  BY CronAssumption
<1>2. reach \in Nat /\ reach >= Lookback /\ reach >= Fallback
  <2>1. Lookback \in Int /\ Fallback \in Int
    BY <1>1
  <2> QED
    BY <1>1, <2>1, OfTwo
<1>3. Earliest = Tick(0) - 2 * reach
  BY SpanOfMonths DEF Earliest
<1>4. 0 \in Instants /\ MaxTime \in Instants
  BY <1>1 DEF Instants
<1>5. Tick(0) \in Nat /\ Tick(MaxTime) \in Nat
  BY <1>4, SpanOfMonths
<1> HIDE DEF reach
<1>6. Earliest \in Nat
  BY <1>1, <1>2, <1>3, <1>5
<1>7. Periods = {NoPeriod} \cup (Earliest..(Tick(MaxTime) + 1))
  BY SpanOfMonths DEF Periods
<1>8. NoPeriod = 0
  BY DEF NoPeriod
<1>9. \A p \in Periods : p \in Nat /\ p <= Tick(MaxTime) + 1 /\ (p = NoPeriod \/ p >= Earliest)
  BY <1>5, <1>6, <1>7, <1>8
<1>10. \A p \in Int : Earliest <= p /\ p <= Tick(MaxTime) + 1 => p \in Periods
  BY <1>6, <1>7
<1>11. ASSUME NEW t \in Instants
       PROVE  Earliest <= Tick(t) - 2 * Lookback /\ Earliest <= Tick(t) - 2 * Fallback
  <2>1. Tick(t) \in Nat /\ Tick(0) <= Tick(t)
    BY SpanOfMonths
  <2> QED
    BY <1>1, <1>2, <1>3, <1>5, <2>1
<1> QED
  BY <1>1, <1>6, <1>9, <1>10, <1>11

\* The highest of some periods: what latest_successful_period answers.
LEMMA HighestPeriod ==
  ASSUME NEW S \in SUBSET Periods, S # {}
  PROVE  Max(S) \in S /\ \A p \in S : p <= Max(S)
<1> DEFINE top == Tick(MaxTime) + 1
           T == {n \in Nat : top - n \in S}
<1>1. top \in Nat
  BY SpanOfMonths, CronAssumption DEF Instants
<1>2. \A p \in S : p \in Nat /\ p <= top
  BY PeriodsAre
<1> HIDE DEF top
<1>3. T # {}
  <2>1. PICK p \in S : TRUE
    OBVIOUS
  <2>2. top - p \in Nat /\ top - (top - p) = p
    BY <1>1, <1>2
  <2> QED
    BY <2>2
<1>4. PICK n \in T : \A m \in T : ~(<<m, n>> \in OpToRel(<, Nat))
  BY <1>3, WFMin, NatLessThanWellFounded
<1>5. \A m \in T : ~(m < n)
  BY <1>4 DEF OpToRel
<1>6. ASSUME NEW p \in S PROVE p <= top - n
  <2>1. top - p \in T
    BY <1>1, <1>2
  <2> QED
    BY <1>1, <1>2, <1>5, <2>1
<1>7. \E x \in S : \A y \in S : x >= y
  BY <1>1, <1>2, <1>6
<1>8. Max(S) \in S /\ \A y \in S : Max(S) >= y
  BY <1>7 DEF Max
<1> QED
  BY <1>2, <1>8

LEMMA LatestIs ==
  ASSUME NEW b \in Names, loaded[b] \in SUBSET Periods
  PROVE  /\ Latest(b) \in Periods \cup {Never}
         /\ Latest(b) = Never <=> loaded[b] = {}
         /\ Latest(b) # Never =>
               Latest(b) \in loaded[b] /\ \A p \in loaded[b] : p <= Latest(b)
<1>1. CASE loaded[b] = {}
  BY <1>1 DEF Latest
<1>2. CASE loaded[b] # {}
  <2>1. Max(loaded[b]) \in loaded[b] /\ \A p \in loaded[b] : p <= Max(loaded[b])
    BY <1>2, HighestPeriod
  <2>2. Latest(b) = Max(loaded[b])
    BY <1>2 DEF Latest
  <2>3. Never \notin Periods
    BY PeriodsAre DEF Never
  <2> QED
    BY <1>2, <2>1, <2>2, <2>3
<1> QED
  BY <1>1, <1>2

-----------------------------------------------------------------------------
(* What a window holds.                                                     *)

\* Consecutive months, of which the first and the last are bounded.
Run(s, first, end) ==
    /\ s \in Seq(Int)
    /\ \A i \in 1..Len(s) : s[i] = first + 2 * (i - 1) /\ s[i] <= end

Increasing(s) == \A i, j \in DOMAIN s : i < j => s[i] < s[j]

LEMMA MonthsFromIs ==
  ASSUME NEW first \in Int, NEW end \in Int
  PROVE  Run(MonthsFrom(first, end), first, end)
<1> DEFINE n == (end - first) \div 2 + 1
           s == MonthsFrom(first, end)
           len == IF n >= 0 THEN n ELSE 0
<1>1. n \in Int /\ \A i \in 1..n : first + 2 * (i - 1) <= end
  OBVIOUS
<1>2. s = [i \in 1..n |-> first + 2 * (i - 1)]
  BY DEF MonthsFrom, Shift
<1> HIDE DEF n, s
<1>3. len \in Nat /\ 1..n = 1..len
  BY <1>1
<1> HIDE DEF len
<1>4. s = [i \in 1..len |-> first + 2 * (i - 1)]
  BY <1>2, <1>3
<1>5. \A i \in 1..len : s[i] = first + 2 * (i - 1) /\ s[i] \in Int
  BY <1>3, <1>4
<1>6. s \in [1..len -> Int]
  BY <1>4, <1>5
<1>7. s \in Seq(Int) /\ Len(s) = len
  BY <1>3, <1>6
<1>8. \A i \in 1..Len(s) : s[i] <= end
  BY <1>1, <1>3, <1>5, <1>7
<1> QED
  BY <1>5, <1>7, <1>8 DEF Run, s

LEMMA UpToIs ==
  ASSUME NEW s, NEW first \in Int, NEW end \in Int, Run(s, first, end)
  PROVE  Run(UpTo(Safety, s), first, end)
<1> DEFINE n == Min({Safety, Len(s)})
           t == UpTo(Safety, s)
<1>1. s \in Seq(Int) /\ Len(s) \in Nat /\ Safety \in Nat
  BY CronAssumption, LenProperties DEF Run
<1>2. n \in Nat /\ n <= Len(s)
  <2> DEFINE l == Len(s)
  <2>1. l \in Int /\ Safety \in Int
    BY <1>1
  <2> HIDE DEF l
  <2>2. Min({Safety, l}) \in {Safety, l} /\ Min({Safety, l}) <= l
    BY <2>1, OfTwo
  <2> QED
    BY <1>1, <2>2 DEF l
<1>3. t = SubSeq(s, 1, n)
  BY DEF UpTo
<1> HIDE DEF n, t
<1>4. \A i \in 1..n : s[i] \in Int
  BY <1>1, <1>2 DEF Run
<1>5. /\ t \in Seq(Int) /\ Len(t) = IF 1 <= n THEN n - 1 + 1 ELSE 0
      /\ \A i \in 1..n - 1 + 1 : t[i] = s[1 + i - 1]
  <2>1. n \in Int /\ 1 \in Int
    BY <1>2
  <2> QED
    BY <1>3, <1>4, <2>1, SubSeqProperties
<1>6. Len(t) = n /\ \A i \in 1..n : t[i] = s[i]
  <2>1. n - 1 + 1 = n /\ \A i \in 1..n : 1 + i - 1 = i
    BY <1>2
  <2>2. \A i \in 1..n : t[i] = s[1 + i - 1]
    BY <1>5, <2>1
  <2> QED
    BY <1>2, <1>5, <2>1, <2>2
<1>7. \A i \in 1..Len(t) : t[i] = first + 2 * (i - 1) /\ t[i] <= end
  BY <1>1, <1>2, <1>6 DEF Run
<1> QED
  BY <1>5, <1>7 DEF Run, t

\* A window is a plan the scheduler may work on.
LEMMA WindowIs ==
  ASSUME NEW s, NEW first \in Int, NEW end \in Int, Run(s, first, end),
         Earliest <= first, end <= Tick(MaxTime)
  PROVE  s \in Seq(Periods) /\ Increasing(s)
<1>1. s \in Seq(Int) /\ Len(s) \in Nat /\ DOMAIN s = 1..Len(s)
  BY LenProperties DEF Run
<1>2. Tick(MaxTime) \in Nat /\ Earliest \in Nat
  BY SpanOfMonths, PeriodsAre, CronAssumption DEF Instants
<1>3. ASSUME NEW i \in 1..Len(s) PROVE s[i] \in Periods
  <2>1. s[i] = first + 2 * (i - 1) /\ s[i] <= end /\ i \in Nat /\ i >= 1
    BY <1>1 DEF Run
  <2>2. s[i] \in Int /\ Earliest <= s[i] /\ s[i] <= Tick(MaxTime) + 1
    BY <1>2, <2>1
  <2> QED
    BY <2>2, PeriodsAre
<1>4. s \in Seq(Periods)
  BY <1>1, <1>3
<1>5. Increasing(s)
  BY <1>1 DEF Increasing, Run
<1> QED
  BY <1>4, <1>5

\* Where a window of a watermark binding begins.
First(b, t) == IF loaded[b] = {} THEN Tick(t) - 2 * (Fallback - 1) ELSE Latest(b) + 2

LEMMA FirstIs ==
  ASSUME NEW b \in Names, NEW t \in Instants, loaded[b] \in SUBSET Periods
  PROVE  First(b, t) \in Int
<1>1. Tick(t) \in Nat /\ Fallback \in Nat
  BY SpanOfMonths, CronAssumption
<1>2. Latest(b) \in Int
  <2>1. Never \in Int /\ \A p \in Periods : p \in Int
    BY PeriodsAre DEF Never
  <2>2. Latest(b) \in Periods \cup {Never}
    BY LatestIs
  <2> QED
    BY <2>1, <2>2
<1> QED
  BY <1>1, <1>2 DEF First

LEMMA SelectedIs ==
  ASSUME NEW b \in Names, NEW t \in Instants, loaded[b] \in SUBSET Periods,
         Strategy[b] # "none", ~SelectionRaises(b, Latest(b)),
         Strategy[b] = "watermark" => NoPeriod \notin loaded[b]
  PROVE  LET s == Selects(b, 2 * MonthAt[t], Latest(b))
         IN  /\ s \in Seq(Periods) /\ Increasing(s)
             /\ Strategy[b] = "watermark" =>
                   /\ Run(s, First(b, t), Tick(t)) /\ Earliest <= First(b, t)
                   /\ s # << >> => IsMonth(First(b, t))
<1> DEFINE s == Selects(b, 2 * MonthAt[t], Latest(b))
           tick == Tick(t)
<1>1. /\ tick \in Nat /\ tick <= Tick(MaxTime) /\ Earliest \in Nat
      /\ Lookback \in Nat /\ Fallback \in Nat /\ Tick(MaxTime) \in Nat
      /\ Earliest <= tick - 2 * Lookback /\ Earliest <= tick - 2 * Fallback
  BY SpanOfMonths, PeriodsAre, CronAssumption DEF Instants
<1>2. tick = 2 * MonthAt[t] /\ MonthAt[t] \in Nat
  BY CronAssumption DEF Tick
<1>3. Strategy[b] \in {"snapshot", "lookback", "watermark"}
  BY CronAssumption DEF SelectionRaises
<1> HIDE DEF tick
<1>4. CASE Strategy[b] = "snapshot"
  <2>1. s = <<NoPeriod>>
    BY <1>4 DEF Selects
  <2>2. NoPeriod \in Periods
    BY DEF Periods
  <2>3. <<NoPeriod>> \in Seq(Periods) /\ Len(<<NoPeriod>>) = 1
    BY <2>2
  <2>4. s \in Seq(Periods) /\ DOMAIN s = 1..1
    <3> HIDE DEF s
    <3> QED
      BY <2>1, <2>3
  <2>5. Increasing(s)
    BY <2>4 DEF Increasing
  <2> QED
    BY <1>4, <2>4, <2>5
<1>5. CASE Strategy[b] = "lookback"
  <2> DEFINE first == tick + 2 * (1 - Lookback)
  <2>1. s = MonthsFrom(first, tick)
    BY <1>2, <1>5 DEF Selects, Shift
  <2>2. first \in Int /\ Earliest <= first
    BY <1>1
  <2>3. Run(s, first, tick)
    BY <1>1, <2>1, <2>2, MonthsFromIs
  <2>4. s \in Seq(Periods) /\ Increasing(s)
    <3> HIDE DEF s, first
    <3> QED
      BY <1>1, <2>2, <2>3, WindowIs
  <2> QED
    BY <1>5, <2>4
<1>6. CASE Strategy[b] = "watermark" /\ loaded[b] = {}
  <2> DEFINE first == tick + 2 * (1 - Fallback)
  <2>1. s = MonthsFrom(first, tick)
    BY <1>2, <1>6, LatestIs DEF Selects, Shift
  <2>2. first \in Int /\ Earliest <= first
    BY <1>1
  <2>3. Run(s, first, tick)
    BY <1>1, <2>1, <2>2, MonthsFromIs
  <2>4. s \in Seq(Periods) /\ Increasing(s)
    <3> HIDE DEF s, first
    <3> QED
      BY <1>1, <2>2, <2>3, WindowIs
  <2>5. first = First(b, t)
    BY <1>1, <1>6 DEF First, tick
  <2>6. first % 2 = 0
    BY <1>1, <1>2
  <2> QED
    BY <1>6, <2>2, <2>3, <2>4, <2>5, <2>6 DEF IsMonth, tick
<1>7. CASE Strategy[b] = "watermark" /\ loaded[b] # {}
  <2> DEFINE newest == Latest(b)
             first == newest + 2
  <2>1. newest \in loaded[b] /\ newest # Never
    BY <1>7, LatestIs
  <2>2. newest \in Periods /\ newest # NoPeriod /\ IsMonth(newest)
    BY <1>7, <2>1 DEF SelectionRaises
  <2>3. newest \in Nat /\ newest >= Earliest
    BY <2>2, PeriodsAre
  <2> HIDE DEF newest
  <2>4. first \in Int /\ Earliest <= first /\ first % 2 = 0
    BY <1>1, <2>2, <2>3 DEF IsMonth
  <2>5. s = IF newest >= tick THEN << >> ELSE UpTo(Safety, MonthsFrom(first, tick))
    BY <1>2, <1>7, <2>1 DEF Selects, Shift, newest
  <2>6. Run(s, first, tick)
    <3>1. Run(MonthsFrom(first, tick), first, tick)
      BY <1>1, <2>4, MonthsFromIs
    <3>2. Run(UpTo(Safety, MonthsFrom(first, tick)), first, tick)
      BY <1>1, <2>4, <3>1, UpToIs
    <3>3. Run(<< >>, first, tick)
      BY DEF Run
    <3> QED
      BY <2>5, <3>2, <3>3
  <2>7. s \in Seq(Periods) /\ Increasing(s)
    <3> HIDE DEF s, first
    <3> QED
      BY <1>1, <2>4, <2>6, WindowIs
  <2>8. first = First(b, t)
    BY <1>7 DEF First, newest
  <2> QED
    BY <1>7, <2>4, <2>6, <2>7, <2>8 DEF IsMonth, tick
<1> QED
  BY <1>3, <1>4, <1>5, <1>6, <1>7

-----------------------------------------------------------------------------
(* The scheduler, whatever the number of its daemons.                       *)

Places == {"sleep", "ask", "select", "run", "load"}
NoSnapshot(s) == \A i \in DOMAIN s : s[i] # NoPeriod

\* Where a daemon stands, and what it has in hand there.
Sound(d) ==
    /\ at[d] <= now
    /\ pc[d] \in {"select", "run", "load"} => todo[d] # << >>
    /\ pc[d] = "load" => plan[d] # << >>
    /\ Increasing(plan[d])
    /\ pc[d] = "select" => Strategy[Binding(d)] # "none"
    /\ pc[d] \in {"run", "load"} /\ Strategy[Binding(d)] = "watermark" => NoSnapshot(plan[d])

\* What the rows of load_history say of one binding.
Rows(b) ==
    /\ last[b] <= now
    /\ \A p \in Periods : started[b][p] # Never =>
          started[b][p] <= last[b] /\ p \in attempted[b]
    /\ Strategy[b] = "watermark" => NoPeriod \notin loaded[b]

DaemonsTyped ==
    /\ pc \in [Daemons -> Places]
    /\ at \in [Daemons -> Instants]
    /\ todo \in [Daemons -> Seq(Names)]
    /\ plan \in [Daemons -> Seq(Periods)]
    /\ faults \in 0..MaxFaults

TableTyped ==
    /\ now \in Instants
    /\ last \in [Names -> Instants \cup {Never}]
    /\ loaded \in [Names -> SUBSET Periods]
    /\ attempted \in [Names -> SUBSET Periods]
    /\ started \in [Names -> [Periods -> Instants \cup {Never}]]

SInv ==
    /\ TableTyped /\ DaemonsTyped
    /\ \A d \in Daemons : Sound(d)
    /\ \A b \in Names : Rows(b)

LEMMA SchedulerTyped == SInv => CTypeOK
BY DEF SInv, TableTyped, DaemonsTyped, Sound, CTypeOK, Places, Increasing

LEMMA BindingIs ==
  ASSUME SInv, NEW d \in Daemons, todo[d] # << >>
  PROVE  Binding(d) \in Names /\ Tail(todo[d]) \in Seq(Names)
<1>1. todo[d] \in Seq(Names)
  BY DEF SInv, DaemonsTyped
<1> QED
  BY <1>1, HeadTailProperties DEF Binding

\* What is left of a plan when its first period is done.
LEMMA PlanParts ==
  ASSUME NEW s \in Seq(Periods), s # << >>
  PROVE  /\ Head(s) \in Periods /\ Head(s) = s[1] /\ 1 \in DOMAIN s
         /\ Tail(s) \in Seq(Periods)
         /\ \A i \in DOMAIN Tail(s) : i + 1 \in DOMAIN s /\ Tail(s)[i] = s[i + 1]
         /\ Increasing(s) => Increasing(Tail(s))
         /\ NoSnapshot(s) => NoSnapshot(Tail(s))
<1>1. /\ Head(s) \in Periods /\ Tail(s) \in Seq(Periods)
      /\ Len(Tail(s)) = Len(s) - 1
      /\ \A i \in 1..Len(Tail(s)) : Tail(s)[i] = s[i + 1]
  BY HeadTailProperties
<1>2. /\ DOMAIN s = 1..Len(s) /\ Len(s) \in Nat /\ Len(s) # 0
      /\ DOMAIN Tail(s) = 1..Len(Tail(s))
  BY <1>1, LenProperties, EmptySeq
<1>3. Head(s) = s[1] /\ 1 \in DOMAIN s
  BY <1>2
<1>4. ASSUME NEW i \in DOMAIN Tail(s) PROVE i + 1 \in DOMAIN s /\ Tail(s)[i] = s[i + 1]
  BY <1>1, <1>2
<1>5. ASSUME Increasing(s) PROVE Increasing(Tail(s))
  <2> SUFFICES ASSUME NEW i \in DOMAIN Tail(s), NEW j \in DOMAIN Tail(s), i < j
               PROVE  Tail(s)[i] < Tail(s)[j]
    BY DEF Increasing
  <2>1. i \in Nat /\ j \in Nat /\ i + 1 < j + 1
    BY <1>1, <1>2
  <2> QED
    BY <1>4, <1>5, <2>1 DEF Increasing
<1>6. ASSUME NoSnapshot(s) PROVE NoSnapshot(Tail(s))
  BY <1>4, <1>6 DEF NoSnapshot
<1> QED
  BY <1>1, <1>3, <1>4, <1>5, <1>6

LEMMA Elsewhere ==
  ASSUME SInv, NEW e \in Daemons, now \in Int, now' \in Int, now <= now',
         pc'[e] = pc[e], at'[e] = at[e], todo'[e] = todo[e], plan'[e] = plan[e]
  PROVE  Sound(e)'
<1>1. Sound(e) /\ at[e] \in Int
  BY DEF SInv, DaemonsTyped, Instants
<1> QED
  BY <1>1 DEF Sound, Binding

DaemonMove(d) == TickStep(d) \/ LoadFails(d) \/ LoadRaises(d) \/ QueryFails(d) \/ DaemonRestarts(d)

LEMMA DaemonMoves ==
  ASSUME SInv, NEW d \in Daemons, DaemonMove(d)
  PROVE  /\ now' = now /\ DaemonsTyped' /\ Sound(d)'
         /\ \A e \in Daemons : e # d =>
               pc'[e] = pc[e] /\ at'[e] = at[e] /\ todo'[e] = todo[e] /\ plan'[e] = plan[e]
<1> DEFINE Goal ==
             /\ now' = now /\ DaemonsTyped' /\ Sound(d)'
             /\ \A e \in Daemons : e # d =>
                   pc'[e] = pc[e] /\ at'[e] = at[e] /\ todo'[e] = todo[e] /\ plan'[e] = plan[e]
<1> USE DEF Places
<1>1. /\ DaemonsTyped /\ Sound(d) /\ now \in Instants /\ now \in Int
      /\ pc[d] \in Places /\ at[d] \in Instants /\ plan[d] \in Seq(Periods)
  BY DEF SInv, DaemonsTyped, TableTyped, Instants
<1>2. todo[d] # << >> => Binding(d) \in Names /\ Tail(todo[d]) \in Seq(Names)
  BY BindingIs
<1>3. /\ Bindings \in Seq(Names) /\ << >> \in Seq(Names) /\ << >> \in Seq(Periods)
      /\ Increasing(<< >>)
  BY CronAssumption DEF Increasing
<1>4. ASSUME Fault PROVE faults' \in 0..MaxFaults
  BY <1>1, <1>4, CronAssumption DEF Fault, DaemonsTyped
<1>5. CASE WakeUp(d)
  <2>1. DaemonsTyped'
    BY <1>1, <1>3, <1>5 DEF WakeUp, Goto, DaemonsTyped
  <2>2. Sound(d)'
    BY <1>1, <1>5 DEF WakeUp, Goto, DaemonsTyped, Sound
  <2> QED
    BY <1>1, <1>5, <2>1, <2>2 DEF WakeUp, Goto, DaemonsTyped
<1>6. CASE EndTick(d)
  <2>1. DaemonsTyped'
    BY <1>1, <1>6 DEF EndTick, Goto, DaemonsTyped
  <2>2. Sound(d)'
    BY <1>1, <1>6 DEF EndTick, Goto, DaemonsTyped, Sound
  <2> QED
    BY <1>1, <1>6, <2>1, <2>2 DEF EndTick, Goto, DaemonsTyped
<1>7. CASE NotDue(d)
  <2>1. DaemonsTyped'
    BY <1>1, <1>2, <1>7 DEF NotDue, DaemonsTyped
  <2>2. Sound(d)'
    BY <1>1, <1>7 DEF NotDue, DaemonsTyped, Sound
  <2> QED
    BY <1>1, <1>7, <2>1, <2>2 DEF NotDue, DaemonsTyped
<1>8. CASE IsDue(d)
  <2>1. DaemonsTyped'
    BY <1>1, <1>8 DEF IsDue, Goto, DaemonsTyped
  <2>2. Sound(d)'
    BY <1>1, <1>8 DEF IsDue, Goto, DaemonsTyped, Sound, Due, Binding
  <2> QED
    BY <1>1, <1>8, <2>1, <2>2 DEF IsDue, Goto, DaemonsTyped
<1>9. CASE SelectFails(d)
  <2>1. DaemonsTyped'
    BY <1>1, <1>2, <1>9 DEF SelectFails, Goto, DaemonsTyped, Sound
  <2>2. Sound(d)'
    BY <1>1, <1>9 DEF SelectFails, Goto, DaemonsTyped, Sound
  <2> QED
    BY <1>1, <1>9, <2>1, <2>2 DEF SelectFails, Goto, DaemonsTyped
<1>10. CASE Select(d)
  <2> DEFINE b == Binding(d)
             s == Selects(b, 2 * MonthAt[at[d]], Latest(b))
  <2>1. /\ pc[d] = "select" /\ ~SelectionRaises(b, Latest(b))
        /\ pc' = [pc EXCEPT ![d] = "run"] /\ plan' = [plan EXCEPT ![d] = s]
        /\ UNCHANGED <<now, at, todo, faults>>
    BY <1>10 DEF Select, Goto
  <2>2. b \in Names /\ Strategy[b] # "none" /\ todo[d] # << >>
    BY <1>1, <1>2, <2>1 DEF Sound
  <2>3. loaded[b] \in SUBSET Periods /\ (Strategy[b] = "watermark" => NoPeriod \notin loaded[b])
    BY <2>2 DEF SInv, TableTyped, Rows
  <2>4. /\ s \in Seq(Periods) /\ Increasing(s)
        /\ Strategy[b] = "watermark" => /\ Run(s, First(b, at[d]), Tick(at[d]))
                                        /\ Earliest <= First(b, at[d])
    BY <1>1, <2>1, <2>2, <2>3, SelectedIs
  <2>5. ASSUME Strategy[b] = "watermark" PROVE NoSnapshot(s)
    <3>1. First(b, at[d]) \in Int /\ Earliest \in Nat /\ Earliest > 0
      BY <1>1, <2>2, <2>3, FirstIs, PeriodsAre
    <3>2. Len(s) \in Nat /\ DOMAIN s = 1..Len(s)
      BY <2>4, LenProperties
    <3> HIDE DEF s
    <3>3. \A i \in 1..Len(s) : s[i] = First(b, at[d]) + 2 * (i - 1)
      BY <2>4, <2>5 DEF Run
    <3> QED
      BY <2>4, <2>5, <3>1, <3>2, <3>3 DEF NoSnapshot, NoPeriod
  <2> HIDE DEF s
  <2>6. DaemonsTyped'
    BY <1>1, <2>1, <2>4 DEF DaemonsTyped
  <2>7. Sound(d)'
    BY <1>1, <2>1, <2>2, <2>4, <2>5 DEF DaemonsTyped, Sound, Binding
  <2> QED
    BY <1>1, <2>1, <2>6, <2>7 DEF DaemonsTyped
<1>11. CASE EndBinding(d)
  <2>1. DaemonsTyped'
    BY <1>1, <1>2, <1>11 DEF EndBinding, Goto, DaemonsTyped, Sound
  <2>2. Sound(d)'
    BY <1>1, <1>11 DEF EndBinding, Goto, DaemonsTyped, Sound
  <2> QED
    BY <1>1, <1>11, <2>1, <2>2 DEF EndBinding, Goto, DaemonsTyped
<1>12. CASE BeginLoad(d)
  <2>1. DaemonsTyped'
    BY <1>1, <1>12 DEF BeginLoad, Goto, DaemonsTyped
  <2>2. Sound(d)'
    BY <1>1, <1>12 DEF BeginLoad, Goto, DaemonsTyped, Sound, Binding
  <2> QED
    BY <1>1, <1>12, <2>1, <2>2 DEF BeginLoad, Goto, DaemonsTyped
<1>13. ASSUME plan[d] # << >>
       PROVE  /\ Tail(plan[d]) \in Seq(Periods)
              /\ Increasing(Tail(plan[d]))
              /\ NoSnapshot(plan[d]) => NoSnapshot(Tail(plan[d]))
  BY <1>1, <1>13, PlanParts DEF Sound
<1>14. CASE LoadSucceeds(d)
  <2>1. DaemonsTyped'
    BY <1>1, <1>13, <1>14 DEF LoadSucceeds, Goto, DaemonsTyped, Sound
  <2>2. Sound(d)'
    BY <1>1, <1>13, <1>14 DEF LoadSucceeds, Goto, DaemonsTyped, Sound, Binding
  <2> QED
    BY <1>1, <1>14, <2>1, <2>2 DEF LoadSucceeds, Goto, DaemonsTyped
<1>15. CASE LoadFails(d)
  <2>1. DaemonsTyped'
    BY <1>1, <1>4, <1>13, <1>15 DEF LoadFails, Goto, DaemonsTyped, Sound
  <2>2. Sound(d)'
    BY <1>1, <1>13, <1>15 DEF LoadFails, Goto, DaemonsTyped, Sound, Binding
  <2> QED
    BY <1>1, <1>15, <2>1, <2>2 DEF LoadFails, Goto, DaemonsTyped
<1>16. CASE LoadRaises(d)
  <2>1. DaemonsTyped'
    BY <1>1, <1>4, <1>13, <1>16 DEF LoadRaises, DaemonsTyped
  <2>2. Sound(d)'
    BY <1>1, <1>13, <1>16 DEF LoadRaises, DaemonsTyped, Sound, Binding
  <2> QED
    BY <1>1, <1>16, <2>1, <2>2 DEF LoadRaises, DaemonsTyped
<1>17. CASE QueryFails(d)
  <2>1. DaemonsTyped'
    BY <1>1, <1>4, <1>17 DEF QueryFails, Goto, DaemonsTyped
  <2>2. Sound(d)'
    BY <1>1, <1>17 DEF QueryFails, Goto, DaemonsTyped, Sound
  <2> QED
    BY <1>1, <1>17, <2>1, <2>2 DEF QueryFails, Goto, DaemonsTyped
<1>18. CASE DaemonRestarts(d)
  <2>1. DaemonsTyped'
    BY <1>1, <1>3, <1>4, <1>18 DEF DaemonRestarts, Goto, DaemonsTyped
  <2>2. Sound(d)'
    BY <1>1, <1>3, <1>18 DEF DaemonRestarts, Goto, DaemonsTyped, Sound
  <2> QED
    BY <1>1, <1>18, <2>1, <2>2 DEF DaemonRestarts, Goto, DaemonsTyped
<1> QED
  BY <1>5, <1>6, <1>7, <1>8, <1>9, <1>10, <1>11, <1>12, <1>14, <1>15, <1>16, <1>17, <1>18
     DEF DaemonMove, TickStep

TableSame == UNCHANGED <<last, loaded, attempted, started>>

LEMMA TableMoves ==
  ASSUME SInv, NEW d \in Daemons, DaemonMove(d)
  PROVE  \/ TableSame
         \/ BeginLoad(d) \/ LoadSucceeds(d) \/ LoadRaises(d)
BY DEF DaemonMove, TickStep, TableSame, table, WakeUp, EndTick, NotDue, IsDue, SelectFails,
       Select, EndBinding, LoadFails, QueryFails, DaemonRestarts

\* The binding and the period a daemon works on.
LEMMA AtWork ==
  ASSUME SInv, NEW d \in Daemons, pc[d] \in {"run", "load"}, plan[d] # << >>
  PROVE  /\ Binding(d) \in Names /\ Head(plan[d]) \in Periods
         /\ Strategy[Binding(d)] = "watermark" => Head(plan[d]) # NoPeriod
<1>1. plan[d] \in Seq(Periods) /\ Sound(d)
  BY DEF SInv, DaemonsTyped
<1>2. Head(plan[d]) \in Periods /\ Head(plan[d]) = plan[d][1] /\ 1 \in DOMAIN plan[d]
  BY <1>1, PlanParts
<1>3. Binding(d) \in Names
  BY <1>1, BindingIs DEF Sound
<1> QED
  BY <1>1, <1>2, <1>3 DEF Sound, NoSnapshot

LEMMA RowsUndisturbed ==
  ASSUME SInv, NEW b \in Names, now' \in Int, now <= now',
         last'[b] = last[b], started'[b] = started[b],
         attempted[b] \subseteq attempted'[b],
         Strategy[b] = "watermark" => NoPeriod \notin loaded'[b]
  PROVE  Rows(b)'
<1>1. Rows(b) /\ now \in Int /\ last[b] \in Int
  BY DEF SInv, TableTyped, Instants, Never
<1> QED
  BY <1>1 DEF Rows

LEMMA SchedulerKeeps ==
  ASSUME SInv, CronNext
  PROVE  SInv'
<1>1. /\ TableTyped /\ DaemonsTyped /\ now \in Nat /\ now <= MaxTime /\ MaxTime \in Nat
      /\ \A b \in Names : Rows(b)
  BY CronAssumption DEF SInv, TableTyped, Instants
<1>2. CASE Clock
  <2>1. now' = now + 1 /\ now' \in Instants /\ TableSame /\ UNCHANGED <<pc, at, todo, plan, faults>>
    BY <1>1, <1>2 DEF Clock, Instants, TableSame, table, daemon
  <2>2. TableTyped'
    BY <1>1, <2>1 DEF TableTyped, TableSame
  <2>3. DaemonsTyped'
    BY <1>1, <2>1 DEF DaemonsTyped
  <2>4. ASSUME NEW d \in Daemons PROVE Sound(d)'
    BY <1>1, <2>1, Elsewhere
  <2>5. ASSUME NEW b \in Names PROVE Rows(b)'
    BY <1>1, <2>1, RowsUndisturbed DEF TableSame, Rows
  <2> QED
    BY <2>2, <2>3, <2>4, <2>5 DEF SInv
<1>3. ASSUME NEW d \in Daemons, DaemonMove(d) PROVE SInv'
  <2>1. /\ now' = now /\ DaemonsTyped' /\ Sound(d)'
        /\ \A e \in Daemons : e # d =>
              pc'[e] = pc[e] /\ at'[e] = at[e] /\ todo'[e] = todo[e] /\ plan'[e] = plan[e]
    BY <1>3, DaemonMoves
  <2>2. \A e \in Daemons : Sound(e)'
    BY <1>1, <2>1, Elsewhere
  <2>3. TableTyped' /\ \A b \in Names : Rows(b)'
    <3>1. CASE TableSame
      <4>1. TableTyped'
        BY <1>1, <2>1, <3>1 DEF TableTyped, TableSame
      <4>2. ASSUME NEW b \in Names PROVE Rows(b)'
        BY <1>1, <2>1, <3>1, RowsUndisturbed DEF TableSame, Rows
      <4> QED
        BY <4>1, <4>2
    <3> DEFINE c == Binding(d)
               h == Head(plan[d])
    <3>2. CASE BeginLoad(d)
      <4>1. /\ c \in Names /\ h \in Periods
            /\ last' = [last EXCEPT ![c] = now]
            /\ started' = [started EXCEPT ![c][h] = now]
            /\ attempted' = [attempted EXCEPT ![c] = @ \cup {h}]
            /\ loaded' = loaded
        BY <3>2, AtWork DEF BeginLoad
      <4> HIDE DEF c, h
      <4>2. TableTyped'
        BY <1>1, <2>1, <4>1 DEF TableTyped
      <4>3. ASSUME NEW b \in Names, b # c PROVE Rows(b)'
        <5>1. last'[b] = last[b] /\ started'[b] = started[b] /\ attempted'[b] = attempted[b]
          BY <1>1, <4>1, <4>3 DEF TableTyped
        <5> QED
          BY <1>1, <2>1, <4>1, <5>1, RowsUndisturbed DEF Rows
      <4>4. ASSUME NEW b \in Names, b = c PROVE Rows(b)'
        <5>1. /\ last'[c] = now /\ attempted'[c] = attempted[c] \cup {h}
              /\ started'[c] = [started[c] EXCEPT ![h] = now]
          BY <1>1, <4>1 DEF TableTyped
        <5>2. ASSUME NEW p \in Periods, started'[c][p] # Never
              PROVE  started'[c][p] <= now /\ p \in attempted'[c]
          <6>1. CASE p = h
            BY <1>1, <4>1, <5>1, <6>1 DEF TableTyped
          <6>2. CASE p # h
            <7>1. started'[c][p] = started[c][p]
              BY <1>1, <4>1, <5>1, <6>2 DEF TableTyped
            <7>2. started[c][p] <= last[c] /\ p \in attempted[c] /\ last[c] <= now
              BY <1>1, <4>1, <5>2, <7>1 DEF Rows
            <7>3. last[c] \in Int /\ started[c][p] \in Int
              BY <1>1, <4>1 DEF TableTyped, Instants, Never
            <7> QED
              BY <1>1, <5>1, <7>1, <7>2, <7>3
          <6> QED
            BY <6>1, <6>2
        <5>3. now <= now /\ Rows(b) /\ loaded'[b] = loaded[b]
          BY <1>1, <4>1
        <5> QED
          BY <2>1, <4>4, <5>1, <5>2, <5>3 DEF Rows
      <4> QED
        BY <4>2, <4>3, <4>4
    <3>3. CASE LoadSucceeds(d)
      <4>1. pc[d] = "load" /\ plan[d] # << >>
        BY <3>3 DEF LoadSucceeds, SInv, Sound
      <4>2. /\ c \in Names /\ h \in Periods
            /\ loaded' = [loaded EXCEPT ![c] = @ \cup {h}]
            /\ UNCHANGED <<last, attempted, started>>
            /\ Strategy[c] = "watermark" => h # NoPeriod
        BY <3>3, <4>1, AtWork DEF LoadSucceeds
      <4> HIDE DEF c, h
      <4>3. TableTyped'
        BY <1>1, <2>1, <4>2 DEF TableTyped
      <4>4. ASSUME NEW b \in Names PROVE Rows(b)'
        <5>1. Strategy[b] = "watermark" => NoPeriod \notin loaded'[b]
          BY <1>1, <4>2 DEF Rows, TableTyped
        <5> QED
          BY <1>1, <2>1, <4>2, <5>1, RowsUndisturbed
      <4> QED
        BY <4>3, <4>4
    <3>4. CASE LoadRaises(d)
      <4>1. /\ c \in Names /\ h \in Periods
            /\ attempted' = [attempted EXCEPT ![c] = @ \cup {h}]
            /\ UNCHANGED <<last, loaded, started>>
        BY <3>4, AtWork DEF LoadRaises
      <4> HIDE DEF c, h
      <4>2. TableTyped'
        BY <1>1, <2>1, <4>1 DEF TableTyped
      <4>3. ASSUME NEW b \in Names PROVE Rows(b)'
        <5>1. attempted[b] \subseteq attempted'[b]
          BY <1>1, <4>1 DEF TableTyped
        <5> QED
          BY <1>1, <2>1, <4>1, <5>1, RowsUndisturbed DEF Rows
      <4> QED
        BY <4>2, <4>3
    <3> QED
      BY <1>3, <3>1, <3>2, <3>3, <3>4, TableMoves
  <2> QED
    BY <2>1, <2>2, <2>3 DEF SInv
<1> QED
  BY <1>2, <1>3 DEF CronNext, DaemonMove

-----------------------------------------------------------------------------
(* The requests and the caches of their keys.                               *)

Asked == {q \in Requests : reply[q] # "none"}

\* An entry of a cache names a load of its own key and body.
Recorded(e) ==
    /\ e.load \in 1..Len(load)
    /\ Asks[load[e.load]].key = e.key /\ Body(load[e.load]) = e.body

CacheOf(w) ==
    /\ \A e \in cache[w] : Recorded(e)
    /\ \A e, f \in cache[w] : e.key = f.key => e = f

\* A load under way is the request's own, and its key is still free.
Running(q) ==
    /\ Gate(q) = "pass" /\ Entry(q) = {}
    /\ names[q] \in 1..Len(load) /\ load[names[q]] = q

\* An answer names a load that was begun.
Own(q) ==
    /\ names[q] \in 1..Len(load)
    /\ reply[q] = "conflict" <=> Body(load[names[q]]) # Body(q)

\* The cache has the load of each answer it gave.
Kept(q) ==
    Keyed(q) => \E e \in cache[worker[q]] : e.key = Asks[q].key /\ e.load = names[q]

RTyped ==
    /\ reply \in [Requests -> Answers]
    /\ names \in [Requests -> 0..Cardinality(Requests)]
    /\ worker \in [Requests -> Workers]
    /\ cache \in [Workers -> SUBSET Entries]
    /\ load \in Seq(Requests) /\ Len(load) <= Cardinality(Asked)
    /\ forgotten \subseteq Requests

RInv ==
    /\ RTyped
    /\ \A w \in Workers : CacheOf(w)
    /\ \A q \in Requests :
          /\ reply[q] = "running" => Running(q)
          /\ reply[q] \in Named => Own(q)
          /\ q \notin forgotten /\ reply[q] \in Named => Kept(q)
    /\ \A q, r \in Requests :
          reply[q] = "running" /\ reply[r] = "running" /\ worker[q] = worker[r] => q = r

IInv == SInv /\ RInv

LEMMA PassedGate ==
  ASSUME NEW q \in Requests, Gate(q) = "pass"
  PROVE  /\ Asks[q].binding \in Names /\ Asks[q].period \in Periods
         /\ Strategy[Asks[q].binding] = "watermark" => Asks[q].period # NoPeriod
<1>1. ~WrongKind(q)
  BY DEF Gate, PushVerdict, AdminVerdict
<1>2. Asks[q].binding \in Names
  BY <1>1 DEF WrongKind
<1>3. Asks[q].binding \notin Snapshots => Asks[q].period # NoPeriod
  BY <1>1, <1>2 DEF WrongKind
<1> QED
  BY <1>2, <1>3, PushAssumption

LEMMA AskedIs ==
  ASSUME RTyped
  PROVE  /\ IsFiniteSet(Asked) /\ Cardinality(Asked) \in Nat
         /\ Cardinality(Requests) \in Nat /\ Cardinality(Asked) <= Cardinality(Requests)
         /\ Len(load) \in Nat /\ Len(load) <= Cardinality(Requests)
<1>1. Asked \subseteq Requests /\ IsFiniteSet(Requests)
  BY PushAssumption DEF Asked
<1>2. /\ IsFiniteSet(Asked) /\ Cardinality(Asked) <= Cardinality(Requests)
  BY <1>1, FS_Subset
<1>3. Cardinality(Asked) \in Nat /\ Cardinality(Requests) \in Nat
  BY <1>1, <1>2, FS_CardinalityType
<1>4. Len(load) \in Nat
  BY LenProperties DEF RTyped
<1> QED
  BY <1>2, <1>3, <1>4 DEF RTyped

LEMMA AskedGrows ==
  ASSUME RTyped, NEW q \in Requests, NEW v \in Answers, v # "none",
         reply' = [reply EXCEPT ![q] = v]
  PROVE  /\ Cardinality(Asked') \in Nat /\ Cardinality(Asked') <= Cardinality(Requests)
         /\ Cardinality(Asked') =
               IF reply[q] = "none" THEN Cardinality(Asked) + 1 ELSE Cardinality(Asked)
<1>1. Asked' = Asked \cup {q}
  BY DEF RTyped, Asked
<1>2. IsFiniteSet(Asked) /\ Cardinality(Asked) \in Nat
  BY AskedIs
<1>3. q \in Asked <=> reply[q] # "none"
  BY DEF Asked
<1>4. /\ IsFiniteSet(Asked')
      /\ Cardinality(Asked') = IF q \in Asked THEN Cardinality(Asked) ELSE Cardinality(Asked) + 1
  BY <1>1, <1>2, FS_AddElement
<1>5. Asked' \subseteq Requests
  BY DEF Asked
<1>6. Cardinality(Asked') <= Cardinality(Requests)
  BY <1>5, PushAssumption, FS_Subset
<1> QED
  BY <1>2, <1>3, <1>4, <1>6

\* The answers the routes give at once.
LEMMA AnswersKeep ==
  ASSUME RInv, NEW q \in Requests, Reject(q) \/ Deduplicate(q) \/ KeyReused(q)
  PROVE  RInv'
<1> DEFINE v == reply'[q]
<1>1. /\ RTyped /\ reply[q] = "none" /\ UNCHANGED <<worker, cache, load, forgotten>>
      /\ \A r \in Requests : r # q => reply'[r] = reply[r] /\ names'[r] = names[r]
  BY DEF RInv, RTyped, Reject, Deduplicate, KeyReused, Turn, cvars
<1>2. /\ v \in Answers \ {"none", "running", "ended"} /\ reply' = [reply EXCEPT ![q] = v]
      /\ names' \in [Requests -> 0..Cardinality(Requests)]
      /\ v \in Named => \E e \in Entry(q) : names'[q] = e.load /\ (v = "conflict" <=> e.body # Body(q))
  <2>1. CASE Reject(q)
    <3>1. Gate(q) \in {"unauthenticated", "forbidden", "unprocessable", "pass"} /\ Gate(q) # "pass"
      BY <2>1 DEF Reject, Gate, PushVerdict, AdminVerdict
    <3> QED
      BY <1>1, <2>1, <3>1 DEF Reject, RTyped, Answers, Named
  <2>2. CASE Deduplicate(q)
    <3>1. PICK e \in Entry(q) : e.body = Body(q) /\ names' = [names EXCEPT ![q] = e.load]
      BY <2>2 DEF Deduplicate
    <3>2. e.load \in 0..Cardinality(Requests)
      BY <1>1, <3>1, AskedIs DEF Entry, RTyped, Entries
    <3>3. v = "deduplicated" /\ reply' = [reply EXCEPT ![q] = v] /\ names'[q] = e.load
      BY <1>1, <2>2, <3>1 DEF Deduplicate, RTyped
    <3>4. names' \in [Requests -> 0..Cardinality(Requests)]
      BY <1>1, <3>1, <3>2 DEF RTyped
    <3> QED
      BY <3>1, <3>3, <3>4 DEF Answers, Named
  <2>3. CASE KeyReused(q)
    <3>1. PICK e \in Entry(q) : e.body # Body(q) /\ names' = [names EXCEPT ![q] = e.load]
      BY <2>3 DEF KeyReused
    <3>2. e.load \in 0..Cardinality(Requests)
      BY <1>1, <3>1, AskedIs DEF Entry, RTyped, Entries
    <3>3. v = "conflict" /\ reply' = [reply EXCEPT ![q] = v] /\ names'[q] = e.load
      BY <1>1, <2>3, <3>1 DEF KeyReused, RTyped
    <3>4. names' \in [Requests -> 0..Cardinality(Requests)]
      BY <1>1, <3>1, <3>2 DEF RTyped
    <3> QED
      BY <3>1, <3>3, <3>4 DEF Answers, Named
  <2> QED
    BY <2>1, <2>2, <2>3
<1> HIDE DEF v
<1>3. RTyped'
  <2>1. Cardinality(Asked') = Cardinality(Asked) + 1 /\ Cardinality(Asked) \in Nat
    BY <1>1, <1>2, AskedGrows, AskedIs
  <2>2. Len(load') <= Cardinality(Asked')
    BY <1>1, <2>1, AskedIs DEF RTyped
  <2>3. reply' \in [Requests -> Answers]
    BY <1>1, <1>2 DEF RTyped
  <2> QED
    BY <1>1, <1>2, <2>2, <2>3 DEF RTyped
<1>4. \A w \in Workers : CacheOf(w)'
  BY <1>1 DEF RInv, CacheOf, Recorded
<1>5. ASSUME NEW r \in Requests, r # q
      PROVE  /\ reply'[r] = "running" => Running(r)'
             /\ reply'[r] \in Named => Own(r)'
             /\ r \notin forgotten' /\ reply'[r] \in Named => Kept(r)'
  <2>1. reply'[r] = "running" => Running(r)'
    BY <1>1, <1>5 DEF RInv, Running, Entry
  <2>2. reply'[r] \in Named => Own(r)'
    BY <1>1, <1>5 DEF RInv, Own
  <2>3. r \notin forgotten' /\ reply'[r] \in Named => Kept(r)'
    BY <1>1, <1>5 DEF RInv, Kept
  <2> QED
    BY <2>1, <2>2, <2>3
<1>6. reply'[q] = v /\ v # "running"
  BY <1>1, <1>2 DEF RTyped
<1>7. ASSUME reply'[q] \in Named PROVE Own(q)' /\ Kept(q)'
  <2>1. PICK e \in Entry(q) : names'[q] = e.load /\ (v = "conflict" <=> e.body # Body(q))
    BY <1>2, <1>6, <1>7
  <2>2. e \in cache[worker[q]] /\ e.key = Asks[q].key /\ worker[q] \in Workers
    BY <1>1, <2>1 DEF Entry, RTyped
  <2>3. Recorded(e)
    BY <2>2 DEF RInv, CacheOf
  <2>4. Own(q)'
    BY <1>1, <1>6, <2>1, <2>3 DEF Own, Recorded
  <2>5. Kept(q)'
    BY <1>1, <2>1, <2>2 DEF Kept
  <2> QED
    BY <2>4, <2>5
<1>8. \A r, t \in Requests :
         reply'[r] = "running" /\ reply'[t] = "running" /\ worker'[r] = worker'[t] => r = t
  BY <1>1, <1>6 DEF RInv
<1> QED
  BY <1>3, <1>4, <1>5, <1>6, <1>7, <1>8 DEF RInv

LEMMA BeginPushKeeps ==
  ASSUME RInv, NEW q \in Requests, BeginPush(q)
  PROVE  RInv'
<1> DEFINE n == Len(load) + 1
<1>1. /\ RTyped /\ reply[q] = "none" /\ Gate(q) = "pass" /\ Entry(q) = {}
      /\ \A r \in Requests : reply[r] = "running" => worker[r] # worker[q]
      /\ load' = Append(load, q) /\ UNCHANGED <<worker, cache, forgotten>>
      /\ reply' = [reply EXCEPT ![q] = "running"] /\ names' = [names EXCEPT ![q] = n]
  BY DEF RInv, BeginPush, Turn
<1>2. /\ load' \in Seq(Requests) /\ Len(load') = n /\ load'[n] = q
      /\ \A i \in 1..Len(load) : load'[i] = load[i]
      /\ Len(load) \in Nat
  <2>1. load \in Seq(Requests) /\ Len(load) \in Nat
    BY <1>1, AskedIs DEF RTyped
  <2> QED
    BY <1>1, <2>1, AppendProperties
<1>3. /\ Len(load') <= Cardinality(Asked') /\ Cardinality(Asked') <= Cardinality(Requests)
      /\ Cardinality(Requests) \in Nat /\ Cardinality(Asked') \in Nat
  <2>1. "running" \in Answers
    BY DEF Answers
  <2>2. /\ Cardinality(Asked') = Cardinality(Asked) + 1 /\ Cardinality(Asked') <= Cardinality(Requests)
        /\ Cardinality(Asked) \in Nat /\ Cardinality(Requests) \in Nat
    BY <1>1, <2>1, AskedGrows, AskedIs
  <2>3. Len(load) <= Cardinality(Asked)
    BY <1>1 DEF RTyped
  <2> QED
    BY <1>2, <2>2, <2>3
<1> HIDE DEF n
<1>4. n \in 1..Len(load') /\ n \in 0..Cardinality(Requests) /\ 1..Len(load) \subseteq 1..Len(load')
  <2>1. n = Len(load) + 1
    BY DEF n
  <2>2. n \in Nat /\ n <= Cardinality(Requests)
    BY <1>2, <1>3, <2>1
  <2> QED
    BY <1>2, <1>3, <2>1, <2>2
<1>5. RTyped'
  <2>1. names' \in [Requests -> 0..Cardinality(Requests)]
    BY <1>1, <1>4 DEF RTyped
  <2>2. reply' \in [Requests -> Answers]
    BY <1>1 DEF RTyped, Answers
  <2> QED
    BY <1>1, <1>2, <1>3, <2>1, <2>2 DEF RTyped
<1>6. ASSUME NEW w \in Workers PROVE CacheOf(w)'
  <2>1. ASSUME NEW e \in cache[w] PROVE Recorded(e)'
    <3>1. Recorded(e)
      BY <2>1 DEF RInv, CacheOf
    <3> QED
      BY <1>2, <1>4, <3>1 DEF Recorded
  <2> QED
    BY <1>1, <2>1 DEF RInv, CacheOf
<1>7. ASSUME NEW r \in Requests, r # q
      PROVE  /\ reply'[r] = "running" => Running(r)'
             /\ reply'[r] \in Named => Own(r)'
             /\ r \notin forgotten' /\ reply'[r] \in Named => Kept(r)'
  <2>1. reply'[r] = reply[r] /\ names'[r] = names[r]
    BY <1>1, <1>7 DEF RTyped
  <2>2. ASSUME names[r] \in 1..Len(load)
        PROVE  names'[r] \in 1..Len(load') /\ load'[names'[r]] = load[names[r]]
    BY <1>2, <1>4, <2>1, <2>2
  <2>3. ASSUME reply'[r] = "running" PROVE Running(r)'
    <3>1. Running(r)
      BY <2>1, <2>3 DEF RInv
    <3> QED
      BY <1>1, <2>1, <2>2, <3>1 DEF Running, Entry
  <2>4. ASSUME reply'[r] \in Named PROVE Own(r)'
    <3>1. Own(r)
      BY <2>1, <2>4 DEF RInv
    <3> QED
      BY <2>1, <2>2, <3>1 DEF Own
  <2>5. r \notin forgotten' /\ reply'[r] \in Named => Kept(r)'
    BY <1>1, <2>1 DEF RInv, Kept
  <2> QED
    BY <2>3, <2>4, <2>5
<1>8. reply'[q] = "running" /\ names'[q] = n
  BY <1>1 DEF RTyped
<1>9. Running(q)' /\ reply'[q] \notin Named
  BY <1>1, <1>2, <1>4, <1>8 DEF Running, Entry, Named
<1>10. ASSUME NEW r \in Requests, NEW t \in Requests,
              reply'[r] = "running", reply'[t] = "running", worker'[r] = worker'[t]
       PROVE  r = t
  <2>1. ASSUME NEW u \in Requests, u # q PROVE reply'[u] = reply[u]
    BY <1>1, <2>1 DEF RTyped
  <2> QED
    BY <1>1, <1>10, <2>1 DEF RInv
<1> QED
  BY <1>5, <1>6, <1>7, <1>9, <1>10 DEF RInv

\* A load ends: the key is remembered, unless run_binding raised.
LEMMA EndsKeep ==
  ASSUME RInv, NEW q \in Requests,
         PushSucceeds(q) \/ PushEndsOtherwise(q) \/ PushRaises(q)
  PROVE  RInv'
<1> DEFINE v == reply'[q]
           w == worker[q]
           entry == [key |-> Asks[q].key, load |-> names[q], body |-> Body(q)]
<1>1. /\ RTyped /\ reply[q] = "running" /\ UNCHANGED <<worker, load, names, forgotten>>
      /\ v \in {"ended", "error"} /\ reply' = [reply EXCEPT ![q] = v]
      /\ v = "ended" => Remember(q)
      /\ v = "error" => cache' = cache
  BY DEF RInv, RTyped, PushSucceeds, PushEndsOtherwise, PushRaises
<1>2. /\ Running(q) /\ Gate(q) = "pass" /\ Entry(q) = {}
      /\ names[q] \in 1..Len(load) /\ load[names[q]] = q
  BY <1>1 DEF RInv, Running
<1>3. w \in Workers
  BY <1>1 DEF RTyped
<1>4. entry \in Entries
  <2>1. names[q] \in 1..Cardinality(Requests)
    BY <1>1, <1>2, AskedIs
  <2> QED
    BY <2>1 DEF Entries
<1>5. /\ cache' \in [Workers -> SUBSET Entries]
      /\ \A u \in Workers : u # w => cache'[u] = cache[u]
      /\ cache[w] \subseteq cache'[w] /\ cache'[w] \subseteq cache[w] \cup {entry}
      /\ v = "ended" /\ Keyed(q) => cache'[w] = cache[w] \cup {entry}
      /\ ~Keyed(q) => cache' = cache
  <2>1. cache \in [Workers -> SUBSET Entries]
    BY <1>1 DEF RTyped
  <2>2. cache' = cache \/ cache' = [cache EXCEPT ![w] = @ \cup {entry}]
    BY <1>1 DEF Remember
  <2>3. v = "ended" => cache' = IF ~Keyed(q) THEN cache ELSE [cache EXCEPT ![w] = @ \cup {entry}]
    BY <1>1 DEF Remember
  <2>4. v = "error" => cache' = cache
    BY <1>1
  <2> HIDE DEF entry, v, w
  <2>5. [cache EXCEPT ![w] = @ \cup {entry}] \in [Workers -> SUBSET Entries]
    BY <1>3, <1>4, <2>1
  <2>6. [cache EXCEPT ![w] = @ \cup {entry}][w] = cache[w] \cup {entry}
    BY <1>3, <2>1
  <2>7. ASSUME NEW u \in Workers, u # w PROVE [cache EXCEPT ![w] = @ \cup {entry}][u] = cache[u]
    BY <2>1, <2>7
  <2> QED
    BY <1>1, <2>1, <2>2, <2>3, <2>4, <2>5, <2>6, <2>7
<1> HIDE DEF v, w
<1>6. RTyped'
  <2>1. v \in Answers /\ v # "none"
    BY <1>1 DEF Answers
  <2>2. Cardinality(Asked') = Cardinality(Asked)
    BY <1>1, <2>1, AskedGrows
  <2>3. reply' \in [Requests -> Answers]
    BY <1>1, <2>1 DEF RTyped
  <2> QED
    BY <1>1, <1>5, <2>2, <2>3 DEF RTyped
<1>7. Recorded(entry)
  BY <1>2 DEF Recorded
<1> HIDE DEF entry
<1>8. ASSUME NEW u \in Workers PROVE CacheOf(u)'
  <2>1. CASE u # w \/ ~Keyed(q)
    BY <1>1, <1>5, <2>1 DEF RInv, CacheOf, Recorded
  <2>2. CASE u = w /\ Keyed(q)
    <3>1. ASSUME NEW e \in cache'[u] PROVE Recorded(e)'
      <4>1. e = entry \/ e \in cache[u]
        BY <1>5, <2>2, <3>1
      <4>2. Recorded(e)
        BY <1>7, <4>1 DEF RInv, CacheOf
      <4> QED
        BY <1>1, <4>2 DEF Recorded
    <3>2. \A e \in cache[w] : e.key # entry.key
      BY <1>2, <2>2 DEF Entry, entry, w
    <3>3. ASSUME NEW e \in cache'[u], NEW f \in cache'[u], e.key = f.key PROVE e = f
      <4>1. e \in cache[w] \/ e = entry
        BY <1>5, <2>2
      <4>2. f \in cache[w] \/ f = entry
        BY <1>5, <2>2
      <4> QED
        BY <1>3, <3>2, <3>3, <4>1, <4>2 DEF RInv, CacheOf
    <3> QED
      BY <3>1, <3>3 DEF CacheOf
  <2> QED
    BY <2>1, <2>2
<1>9. ASSUME NEW r \in Requests, r # q
      PROVE  /\ reply'[r] = "running" => Running(r)'
             /\ reply'[r] \in Named => Own(r)'
             /\ r \notin forgotten' /\ reply'[r] \in Named => Kept(r)'
  <2>1. reply'[r] = reply[r] /\ worker[r] \in Workers
    BY <1>1, <1>9 DEF RTyped
  <2>2. ASSUME reply'[r] = "running" PROVE Running(r)'
    <3>1. Running(r) /\ worker[r] # w
      BY <1>1, <1>9, <2>1, <2>2 DEF RInv, w
    <3>2. cache'[worker[r]] = cache[worker[r]]
      BY <1>5, <2>1, <3>1
    <3> QED
      BY <1>1, <3>1, <3>2 DEF Running, Entry
  <2>3. reply'[r] \in Named => Own(r)'
    BY <1>1, <2>1 DEF RInv, Own
  <2>4. ASSUME r \notin forgotten', reply'[r] \in Named PROVE Kept(r)'
    <3>1. Kept(r)
      BY <1>1, <2>1, <2>4 DEF RInv
    <3>2. cache[worker[r]] \subseteq cache'[worker[r]]
      BY <1>5, <2>1
    <3> QED
      BY <1>1, <3>1, <3>2 DEF Kept
  <2> QED
    BY <2>2, <2>3, <2>4
<1>10. reply'[q] = v /\ (reply'[q] \in Named => v = "ended")
  BY <1>1 DEF RTyped, Named
<1>11. Own(q)' \/ v # "ended"
  BY <1>1, <1>2, <1>10 DEF Own
<1>12. ASSUME v = "ended", Keyed(q) PROVE Kept(q)'
  <2>1. entry \in cache'[w] /\ entry.key = Asks[q].key /\ entry.load = names[q]
    BY <1>5, <1>12 DEF entry
  <2> QED
    BY <1>1, <2>1 DEF Kept, w
<1>13. v = "ended" => Kept(q)'
  BY <1>12 DEF Kept, Keyed
<1>14. ASSUME NEW r \in Requests, NEW t \in Requests,
              reply'[r] = "running", reply'[t] = "running", worker'[r] = worker'[t]
       PROVE  r = t
  <2>1. ASSUME NEW u \in Requests, u # q PROVE reply'[u] = reply[u]
    BY <1>1, <2>1 DEF RTyped
  <2> QED
    BY <1>1, <1>10, <1>14, <2>1 DEF RInv
<1> QED
  BY <1>1, <1>6, <1>8, <1>9, <1>10, <1>11, <1>13, <1>14 DEF RInv

LEMMA RestartsKeep ==
  ASSUME RInv, NEW w \in Workers, WorkerRestarts(w)
  PROVE  RInv'
<1>1. /\ RTyped /\ UNCHANGED <<worker, load, names>>
      /\ forgotten' = forgotten \cup {q \in Requests : worker[q] = w /\ reply[q] # "none"}
      /\ cache' = [cache EXCEPT ![w] = {}]
      /\ \A q \in Requests : reply'[q] =
            IF reply[q] = "running" /\ worker[q] = w THEN "lost" ELSE reply[q]
      /\ reply' = [q \in Requests |->
            IF reply[q] = "running" /\ worker[q] = w THEN "lost" ELSE reply[q]]
  BY DEF RInv, WorkerRestarts
<1>2. \A q \in Requests :
         /\ reply'[q] = "running" => reply[q] = "running" /\ worker[q] # w
         /\ reply'[q] \in Named => reply'[q] = reply[q]
         /\ reply'[q] = "none" <=> reply[q] = "none"
         /\ reply'[q] \in Answers
  BY <1>1 DEF RTyped, Answers, Named
<1>3. RTyped'
  <2>1. Asked' = Asked
    BY <1>2 DEF Asked
  <2>2. reply' \in [Requests -> Answers]
    BY <1>1, <1>2
  <2>3. cache' \in [Workers -> SUBSET Entries]
    BY <1>1 DEF RTyped
  <2> QED
    BY <1>1, <2>1, <2>2, <2>3 DEF RTyped
<1>4. ASSUME NEW u \in Workers PROVE CacheOf(u)'
  <2>1. cache'[u] \subseteq cache[u]
    BY <1>1 DEF RTyped
  <2> QED
    BY <1>1, <2>1 DEF RInv, CacheOf, Recorded
<1>5. ASSUME NEW q \in Requests
      PROVE  /\ reply'[q] = "running" => Running(q)'
             /\ reply'[q] \in Named => Own(q)'
             /\ q \notin forgotten' /\ reply'[q] \in Named => Kept(q)'
  <2>1. ASSUME reply'[q] = "running" PROVE Running(q)'
    <3>1. Running(q) /\ worker[q] # w /\ worker[q] \in Workers
      BY <1>1, <1>2, <2>1 DEF RInv, RTyped
    <3>2. cache'[worker[q]] = cache[worker[q]]
      BY <1>1, <3>1 DEF RTyped
    <3> QED
      BY <1>1, <3>1, <3>2 DEF Running, Entry
  <2>2. reply'[q] \in Named => Own(q)'
    BY <1>1, <1>2 DEF RInv, Own
  <2>3. ASSUME q \notin forgotten', reply'[q] \in Named PROVE Kept(q)'
    <3>1. reply[q] \in Named /\ reply[q] # "none" /\ worker[q] \in Workers
      BY <1>1, <1>2, <2>3 DEF RTyped, Named
    <3>2. q \notin forgotten /\ worker[q] # w
      BY <1>1, <2>3, <3>1
    <3>3. Kept(q)
      BY <3>1, <3>2 DEF RInv
    <3>4. cache'[worker[q]] = cache[worker[q]]
      BY <1>1, <3>1, <3>2 DEF RTyped
    <3> QED
      BY <1>1, <3>3, <3>4 DEF Kept
  <2> QED
    BY <2>1, <2>2, <2>3
<1>6. \A q, r \in Requests :
         reply'[q] = "running" /\ reply'[r] = "running" /\ worker'[q] = worker'[r] => q = r
  BY <1>1, <1>2 DEF RInv
<1> QED
  BY <1>3, <1>4, <1>5, <1>6 DEF RInv

\* What the scheduler does is nothing to the requests.
LEMMA RequestsUndisturbed ==
  ASSUME RInv, UNCHANGED pvars
  PROVE  RInv'
<1>1. UNCHANGED <<reply, names, worker, cache, load, forgotten>>
  BY DEF pvars
<1>2. RTyped'
  BY <1>1 DEF RInv, RTyped, Asked
<1>3. \A w \in Workers : CacheOf(w)'
  BY <1>1 DEF RInv, CacheOf, Recorded
<1>4. ASSUME NEW q \in Requests
      PROVE  /\ reply'[q] = "running" => Running(q)'
             /\ reply'[q] \in Named => Own(q)'
             /\ q \notin forgotten' /\ reply'[q] \in Named => Kept(q)'
  <2>1. reply'[q] = "running" => Running(q)'
    BY <1>1 DEF RInv, Running, Entry
  <2>2. reply'[q] \in Named => Own(q)'
    BY <1>1 DEF RInv, Own
  <2>3. q \notin forgotten' /\ reply'[q] \in Named => Kept(q)'
    BY <1>1 DEF RInv, Kept
  <2> QED
    BY <2>1, <2>2, <2>3
<1>5. \A q, r \in Requests :
         reply'[q] = "running" /\ reply'[r] = "running" /\ worker'[q] = worker'[r] => q = r
  BY <1>1 DEF RInv
<1> QED
  BY <1>2, <1>3, <1>4, <1>5 DEF RInv

RequestStep == (\E q \in Requests : Request(q)) \/ \E w \in Workers : WorkerRestarts(w)

\* What a request does to the scheduler's state: a row of a push, a load that
\* succeeds.
LEMMA RequestEffects ==
  ASSUME IInv, RequestStep
  PROVE  /\ UNCHANGED <<now, last, started, pc, at, todo, plan>> /\ faults' \in 0..MaxFaults
         /\ \/ UNCHANGED <<loaded, attempted>>
            \/ \E q \in Requests :
                  /\ Gate(q) = "pass" /\ loaded' = loaded
                  /\ attempted' = [attempted EXCEPT ![Asks[q].binding] = @ \cup {Asks[q].period}]
            \/ \E q \in Requests :
                  /\ Gate(q) = "pass" /\ attempted' = attempted
                  /\ loaded' = [loaded EXCEPT ![Asks[q].binding] = @ \cup {Asks[q].period}]
<1>1. faults \in 0..MaxFaults /\ MaxFaults \in Nat
  BY CronAssumption DEF IInv, SInv, DaemonsTyped
<1>2. ASSUME Fault PROVE faults' \in 0..MaxFaults
  BY <1>1, <1>2 DEF Fault
<1>3. CASE \E q \in Requests : Reject(q) \/ Deduplicate(q) \/ KeyReused(q)
  BY <1>1, <1>3 DEF Reject, Deduplicate, KeyReused, cvars, table, daemon
<1>4. ASSUME NEW q \in Requests, BeginPush(q)
      PROVE  /\ UNCHANGED <<now, last, started, pc, at, todo, plan, faults, loaded>>
             /\ Gate(q) = "pass"
             /\ attempted' = [attempted EXCEPT ![Asks[q].binding] = @ \cup {Asks[q].period}]
  BY <1>4 DEF BeginPush, daemon
<1>5. ASSUME NEW q \in Requests, PushSucceeds(q)
      PROVE  /\ UNCHANGED <<now, last, started, pc, at, todo, plan, faults, attempted>>
             /\ Gate(q) = "pass"
             /\ loaded' = [loaded EXCEPT ![Asks[q].binding] = @ \cup {Asks[q].period}]
  BY <1>5 DEF PushSucceeds, daemon, IInv, RInv, Running
<1>6. CASE (\E q \in Requests : PushEndsOtherwise(q) \/ PushRaises(q))
           \/ \E w \in Workers : WorkerRestarts(w)
  BY <1>2, <1>6 DEF PushEndsOtherwise, PushRaises, WorkerRestarts, table, daemon
<1> QED
  BY <1>1, <1>3, <1>4, <1>5, <1>6 DEF RequestStep, Request

LEMMA SchedulerUndisturbed ==
  ASSUME IInv, RequestStep
  PROVE  SInv'
<1>1. /\ SInv /\ TableTyped /\ DaemonsTyped /\ now \in Int
      /\ UNCHANGED <<now, last, started, pc, at, todo, plan>> /\ faults' \in 0..MaxFaults
  BY RequestEffects DEF IInv, SInv, TableTyped, Instants
<1>2. /\ loaded' \in [Names -> SUBSET Periods] /\ attempted' \in [Names -> SUBSET Periods]
      /\ \A b \in Names : attempted[b] \subseteq attempted'[b]
      /\ \A b \in Names : Strategy[b] = "watermark" => NoPeriod \notin loaded'[b]
  <2>1. \A b \in Names : Strategy[b] = "watermark" => NoPeriod \notin loaded[b]
    BY <1>1 DEF SInv, Rows
  <2>2. CASE UNCHANGED <<loaded, attempted>>
    BY <1>1, <2>1, <2>2 DEF TableTyped
  <2>3. ASSUME NEW q \in Requests, Gate(q) = "pass", loaded' = loaded,
               attempted' = [attempted EXCEPT ![Asks[q].binding] = @ \cup {Asks[q].period}]
        PROVE  /\ attempted' \in [Names -> SUBSET Periods]
               /\ \A b \in Names : attempted[b] \subseteq attempted'[b]
    BY <1>1, <2>3, PassedGate DEF TableTyped
  <2>4. ASSUME NEW q \in Requests, Gate(q) = "pass", attempted' = attempted,
               loaded' = [loaded EXCEPT ![Asks[q].binding] = @ \cup {Asks[q].period}]
        PROVE  /\ loaded' \in [Names -> SUBSET Periods]
               /\ \A b \in Names : Strategy[b] = "watermark" => NoPeriod \notin loaded'[b]
    BY <1>1, <2>1, <2>4, PassedGate DEF TableTyped
  <2> QED
    BY <1>1, <2>1, <2>2, <2>3, <2>4, RequestEffects DEF TableTyped
<1>3. TableTyped' /\ DaemonsTyped'
  BY <1>1, <1>2 DEF TableTyped, DaemonsTyped
<1>4. ASSUME NEW d \in Daemons PROVE Sound(d)'
  BY <1>1, Elsewhere
<1>5. ASSUME NEW b \in Names PROVE Rows(b)'
  BY <1>1, <1>2, RowsUndisturbed
<1> QED
  BY <1>3, <1>4, <1>5 DEF SInv

LEMMA InitialIInv == Init => IInv
<1> SUFFICES ASSUME Init PROVE IInv
  OBVIOUS
<1>1. 0 \in Instants /\ 0 \in 0..MaxFaults
  BY CronAssumption DEF Instants
<1>2. TableTyped
  BY <1>1 DEF Init, CInit, TableTyped
<1>3. DaemonsTyped
  BY <1>1, EmptySeq DEF Init, CInit, DaemonsTyped, Places
<1>4. ASSUME NEW d \in Daemons PROVE Sound(d)
  BY DEF Init, CInit, Sound, Increasing
<1>5. ASSUME NEW b \in Names PROVE Rows(b)
  BY DEF Init, CInit, Rows, Never
<1>6. RTyped
  <2>1. Asked = {} /\ Cardinality({}) = 0
    BY FS_EmptySet DEF Init, Asked
  <2>2. load \in Seq(Requests) /\ Len(load) = 0
    BY EmptySeq DEF Init
  <2>3. Cardinality(Requests) \in Nat
    BY PushAssumption, FS_CardinalityType
  <2> QED
    BY <2>1, <2>2, <2>3 DEF Init, RTyped, NoLoad, Answers
<1>7. \A w \in Workers : CacheOf(w)
  BY DEF Init, CacheOf
<1>8. \A q \in Requests : reply[q] = "none"
  BY DEF Init
<1> QED
  BY <1>2, <1>3, <1>4, <1>5, <1>6, <1>7, <1>8 DEF IInv, SInv, RInv, Named

LEMMA StepsKeep == IInv /\ [Next]_allvars => IInv'
<1> SUFFICES ASSUME IInv, [Next]_allvars PROVE IInv'
  OBVIOUS
<1>1. SInv /\ RInv
  BY DEF IInv
<1>2. CASE CronNext /\ UNCHANGED pvars
  BY <1>1, <1>2, SchedulerKeeps, RequestsUndisturbed DEF IInv
<1>3. ASSUME NEW q \in Requests, Request(q) PROVE RInv'
  BY <1>1, <1>3, AnswersKeep, BeginPushKeeps, EndsKeep DEF Request
<1>4. ASSUME NEW w \in Workers, WorkerRestarts(w) PROVE RInv'
  BY <1>1, <1>4, RestartsKeep
<1>5. CASE RequestStep
  BY <1>3, <1>4, <1>5, SchedulerUndisturbed DEF IInv, RequestStep
<1>6. CASE UNCHANGED allvars
  <2>1. UNCHANGED <<now, last, loaded, attempted, started, pc, at, todo, plan, faults>>
        /\ UNCHANGED pvars
    BY <1>6 DEF allvars, cvars, table, daemon
  <2>2. RInv'
    BY <1>1, <2>1, RequestsUndisturbed
  <2>3. TableTyped' /\ DaemonsTyped'
    BY <1>1, <2>1 DEF SInv, TableTyped, DaemonsTyped
  <2>4. now \in Int
    BY <1>1 DEF SInv, TableTyped, Instants
  <2>5. ASSUME NEW d \in Daemons PROVE Sound(d)'
    BY <1>1, <2>1, <2>4, Elsewhere
  <2>6. ASSUME NEW b \in Names PROVE Rows(b)'
    BY <1>1, <2>1, <2>4, RowsUndisturbed DEF SInv, Rows
  <2> QED
    BY <2>2, <2>3, <2>5, <2>6 DEF IInv, SInv
<1> QED
  BY <1>2, <1>5, <1>6 DEF Next, RequestStep

\* The state the scheduler and the routes can be in, for every registry,
\* calendar and set of requests, replicas of the daemon and worker processes.
THEOREM TriggerInvariance == Spec => []IInv
<1>1. Init => IInv
  BY InitialIInv
<1>2. IInv /\ [Next]_allvars => IInv'
  BY StepsKeep
<1> QED
  BY <1>1, <1>2, PTL DEF Spec

-----------------------------------------------------------------------------
LEMMA RequestsTyped == IInv => TypeOK
<1> SUFFICES ASSUME IInv PROVE TypeOK
  OBVIOUS
<1>1. CTypeOK /\ RTyped
  BY SchedulerTyped DEF IInv, RInv
<1>2. ASSUME NEW w \in Workers
      PROVE  Cardinality({q \in Requests : reply[q] = "running" /\ worker[q] = w}) <= 1
  <2> DEFINE S == {q \in Requests : reply[q] = "running" /\ worker[q] = w}
  <2>1. \A q, r \in S : q = r
    BY DEF IInv, RInv
  <2>2. CASE S = {}
    BY <2>2, FS_EmptySet
  <2>3. ASSUME NEW q \in S PROVE Cardinality(S) <= 1
    <3>1. S = {q}
      BY <2>1
    <3>2. Cardinality({q}) = 1
      BY FS_Singleton
    <3> QED
      BY <3>1, <3>2
  <2> QED
    BY <2>2, <2>3
<1>3. \A w \in Workers : \A e, f \in cache[w] : e.key = f.key => e = f
  BY DEF IInv, RInv, CacheOf
<1> QED
  BY <1>1, <1>2, <1>3 DEF RTyped, TypeOK

\* An answer that names a load names one of the request's own binding and
\* period, or is a conflict: run() compares the body the key was bound to.
THEOREM AnswersNameOwnLoads == Spec => []AnswerNamesOwnLoad
<1>1. IInv => AnswerNamesOwnLoad
  BY DEF IInv, RInv, Own, AnswerNamesOwnLoad
<1> QED
  BY <1>1, TriggerInvariance, PTL

\* The answers a worker gives between two of its restarts to requests with one
\* key name one load, whatever fails: the key stays free while the load runs and
\* when run_binding raises, the worker serves nothing else meanwhile, and the key
\* is bound when the load ends, as a success or as a failure.
THEOREM KeysNameOneLoad == Spec => []OneLoadPerKey
<1>1. IInv => OneLoadPerKey
  <2> SUFFICES ASSUME IInv PROVE OneLoadPerKey
    OBVIOUS
  <2>1. TypeOK
    BY RequestsTyped
  <2>2. ASSUME NEW q \in Requests \ forgotten, NEW r \in Requests \ forgotten,
               Keyed(q), Keyed(r), Asks[q].key = Asks[r].key, worker[q] = worker[r],
               reply[q] \in Named, reply[r] \in Named
        PROVE  names[q] = names[r]
    <3>1. PICK e \in cache[worker[q]] : e.key = Asks[q].key /\ e.load = names[q]
      BY <2>2 DEF IInv, RInv, Kept
    <3>2. PICK f \in cache[worker[q]] : f.key = Asks[r].key /\ f.load = names[r]
      BY <2>2 DEF IInv, RInv, Kept
    <3>3. worker[q] \in Workers
      BY DEF IInv, RInv, RTyped
    <3>4. e = f
      BY <2>2, <3>1, <3>2, <3>3 DEF IInv, RInv, CacheOf
    <3> QED
      BY <3>1, <3>2, <3>4
  <2> QED
    BY <2>1, <2>2 DEF OneLoadPerKey
<1> QED
  BY <1>1, TriggerInvariance, PTL

-----------------------------------------------------------------------------
(* One daemon: no window fires twice.                                       *)

\* A cron instant has passed since the period was last begun.
Free(b, p, t) ==
    started[b][p] # Never => \E f \in FiresAt[b] : started[b][p] < f /\ f <= t

\* The periods the daemon has still to begin in this window.
Window(d) ==
    /\ pc[d] = "select" => FiresSince(Binding(d), at[d])
    /\ pc[d] = "run" =>
          \A i \in DOMAIN plan[d] : Free(Binding(d), plan[d][i], at[d])
    /\ pc[d] = "load" =>
          \A i \in DOMAIN plan[d] : i > 1 => Free(Binding(d), plan[d][i], at[d])

LEMMA DueIsFree ==
  ASSUME SInv, NEW b \in Names, NEW p \in Periods, NEW t \in Instants, FiresSince(b, t)
  PROVE  Free(b, p, t)
<1>1. /\ started[b][p] \in Instants \cup {Never} /\ last[b] \in Instants \cup {Never}
      /\ started[b][p] # Never => started[b][p] <= last[b]
  BY DEF SInv, TableTyped, Rows
<1>2. CASE started[b][p] # Never
  <2>1. last[b] # Never /\ started[b][p] \in Nat /\ last[b] \in Nat
    BY <1>1, <1>2 DEF Never, Instants
  <2>2. PICK f \in FiresAt[b] : last[b] < f /\ f <= t
    BY <2>1 DEF FiresSince
  <2>3. f \in Nat
    BY CronAssumption DEF Instants
  <2>4. started[b][p] < f
    BY <1>1, <1>2, <2>1, <2>2, <2>3
  <2> QED
    BY <2>2, <2>4 DEF Free
<1> QED
  BY <1>2 DEF Free

LEMMA WindowKept ==
  ASSUME NEW d \in Daemons, Window(d), UNCHANGED <<last, started, at>>,
         \/ pc'[d] \in {"sleep", "ask"}
         \/ pc'[d] = pc[d] /\ todo'[d] = todo[d] /\ plan'[d] = plan[d]
  PROVE  Window(d)'
BY DEF Window, Free, FiresSince, Binding

LEMMA WindowMoves ==
  ASSUME SInv, NEW d \in Daemons, Window(d), DaemonMove(d)
  PROVE  Window(d)'
<1> DEFINE b == Binding(d)
           s == plan[d]
<1>1. /\ DaemonsTyped /\ TableTyped /\ Sound(d) /\ s \in Seq(Periods) /\ at[d] \in Instants
      /\ pc[d] \in Places
  BY DEF SInv, DaemonsTyped
<1>2. \A i \in DOMAIN s : s[i] \in Periods
  BY <1>1, ElementOfSeq, LenProperties
<1>3. todo[d] # << >> => b \in Names
  BY BindingIs
<1>4. s # << >> => /\ Head(s) = s[1] /\ 1 \in DOMAIN s
                   /\ \A i \in DOMAIN Tail(s) : i + 1 \in DOMAIN s /\ Tail(s)[i] = s[i + 1]
  BY <1>1, PlanParts
<1>5. /\ DOMAIN s = 1..Len(s) /\ Len(s) \in Nat
      /\ s # << >> => DOMAIN Tail(s) = 1..Len(Tail(s)) /\ Len(Tail(s)) \in Nat
  <2>1. s # << >> => Tail(s) \in Seq(Periods)
    BY <1>1, PlanParts
  <2> QED
    BY <1>1, <2>1, LenProperties
<1>6. CASE WakeUp(d)
  BY <1>1, <1>6 DEF WakeUp, Goto, DaemonsTyped, Window
<1>7. CASE EndTick(d) \/ NotDue(d) \/ SelectFails(d) \/ EndBinding(d) \/ QueryFails(d)
           \/ DaemonRestarts(d)
  <2>1. pc'[d] \in {"sleep", "ask"} /\ UNCHANGED <<last, started, at>>
    BY <1>1, <1>7 DEF EndTick, NotDue, SelectFails, EndBinding, QueryFails, DaemonRestarts, Goto,
                      DaemonsTyped, table
  <2> QED
    BY <2>1, WindowKept
<1>8. CASE IsDue(d)
  <2>1. /\ pc'[d] = "select" /\ UNCHANGED <<last, started, at, todo>>
        /\ FiresSince(b, at[d])
    BY <1>1, <1>8 DEF IsDue, Goto, DaemonsTyped, table, Due
  <2> QED
    BY <2>1 DEF Window, FiresSince, Binding
<1>9. CASE Select(d)
  <2>1. /\ pc[d] = "select" /\ pc'[d] = "run" /\ UNCHANGED <<last, started, at, todo>>
    BY <1>1, <1>9 DEF Select, Goto, DaemonsTyped, table
  <2>2. plan'[d] \in Seq(Periods)
    BY <1>9, DaemonMoves DEF DaemonsTyped
  <2>3. \A i \in DOMAIN plan'[d] : plan'[d][i] \in Periods
    BY <2>2, ElementOfSeq, LenProperties
  <2>4. FiresSince(b, at[d]) /\ b \in Names
    BY <1>1, <1>3, <2>1 DEF Window, Sound
  <2>5. \A i \in DOMAIN plan'[d] : Free(b, plan'[d][i], at[d])
    BY <1>1, <2>3, <2>4, DueIsFree
  <2> QED
    BY <2>1, <2>5 DEF Window, Free, Binding
<1>10. CASE BeginLoad(d)
  <2>1. /\ pc[d] = "run" /\ pc'[d] = "load" /\ UNCHANGED <<at, todo, plan>> /\ s # << >>
        /\ started' = [started EXCEPT ![b][Head(s)] = now]
    BY <1>1, <1>10 DEF BeginLoad, Goto, DaemonsTyped
  <2>2. b \in Names /\ Head(s) = s[1] /\ 1 \in DOMAIN s
    BY <1>1, <1>3, <1>4, <2>1 DEF Sound
  <2>3. ASSUME NEW i \in DOMAIN s, i > 1 PROVE Free(b, s[i], at[d]) /\ started'[b][s[i]] = started[b][s[i]]
    <3>1. s[1] < s[i] /\ s[i] \in Periods /\ s[1] \in Periods
      BY <1>1, <1>2, <1>5, <2>2, <2>3 DEF Sound, Increasing
    <3>2. s[1] # s[i]
      <4>1. \A x, y \in Nat : x < y => x # y
        OBVIOUS
      <4> QED
        BY <3>1, <4>1, PeriodsAre
    <3>3. started'[b][s[i]] = started[b][s[i]]
      BY <1>1, <2>1, <2>2, <3>1, <3>2 DEF TableTyped
    <3> QED
      BY <2>1, <3>3 DEF Window
  <2>4. Binding(d)' = b /\ plan'[d] = s /\ at'[d] = at[d]
    BY <2>1 DEF Binding
  <2> HIDE DEF b, s
  <2>5. ASSUME NEW i \in DOMAIN s, i > 1
        PROVE  started'[b][s[i]] # Never => \E f \in FiresAt[b] : started'[b][s[i]] < f /\ f <= at[d]
    BY <2>3, <2>5 DEF Free
  <2>6. pc'[d] = "load"
    BY <2>1
  <2> QED
    BY <2>4, <2>5, <2>6 DEF Window, Free
<1>11. CASE LoadSucceeds(d) \/ LoadFails(d) \/ LoadRaises(d)
  <2>1. /\ pc[d] \in {"run", "load"} /\ pc'[d] = "run" /\ UNCHANGED <<last, started, at, todo>>
        /\ plan'[d] = Tail(s) /\ s # << >>
    BY <1>1, <1>11 DEF LoadSucceeds, LoadFails, LoadRaises, Goto, DaemonsTyped, table, Sound
  <2>2. ASSUME NEW i \in DOMAIN Tail(s) PROVE Free(b, Tail(s)[i], at[d])
    <3>1. i + 1 \in DOMAIN s /\ i + 1 > 1 /\ Tail(s)[i] = s[i + 1]
      BY <1>4, <1>5, <2>1
    <3> QED
      BY <2>1, <3>1 DEF Window
  <2> QED
    BY <2>1, <2>2 DEF Window, Free, Binding
<1> QED
  BY <1>6, <1>7, <1>8, <1>9, <1>10, <1>11 DEF DaemonMove, TickStep

Lone(d) == Daemons = {d}

LEMMA WindowSteps ==
  ASSUME NEW d, Lone(d), IInv, Window(d), [Next]_allvars
  PROVE  Window(d)'
<1>1. d \in Daemons /\ \A e \in Daemons : e = d
  BY DEF Lone
<1>2. CASE Clock
  <2>1. UNCHANGED <<last, started, at, pc, todo, plan>>
    BY <1>2 DEF Clock, table, daemon
  <2> QED
    BY <1>1, <2>1, WindowKept
<1>3. CASE \E e \in Daemons : DaemonMove(e)
  BY <1>1, <1>3, WindowMoves DEF IInv
<1>4. CASE RequestStep
  BY <1>1, <1>4, RequestEffects, WindowKept
<1>5. CASE UNCHANGED allvars
  <2>1. UNCHANGED <<last, started, at, pc, todo, plan>>
    BY <1>5 DEF allvars, cvars, table, daemon
  <2> QED
    BY <1>1, <2>1, WindowKept
<1> QED
  BY <1>2, <1>3, <1>4, <1>5 DEF Next, CronNext, DaemonMove, RequestStep

\* One daemon never fires a window twice, whatever crashes, failing loads and
\* pushes there are: a period it begins again has had a cron instant since.
THEOREM WindowsFireOnce ==
  ASSUME NEW d, Lone(d)
  PROVE  Spec => NeverDoubleFires
<1> DEFINE Renewed ==
      \A b \in Names, p \in Periods :
          started[b][p] # Never /\ started'[b][p] # started[b][p] =>
              \E f \in FiresAt[b] : started[b][p] < f /\ f <= now
<1>1. d \in Daemons /\ \A e \in Daemons : e = d
  BY DEF Lone
<1>2. Init => Window(d)
  BY <1>1 DEF Init, CInit, Window
<1>3. IInv /\ Window(d) /\ [Next]_allvars => Window(d)'
  BY WindowSteps
<1>4. IInv /\ Window(d) /\ [Next]_allvars => Renewed
  <2> SUFFICES ASSUME IInv, Window(d), [Next]_allvars,
                      NEW b \in Names, NEW p \in Periods,
                      started[b][p] # Never, started'[b][p] # started[b][p]
               PROVE  \E f \in FiresAt[b] : started[b][p] < f /\ f <= now
    OBVIOUS
  <2>1. SInv /\ DaemonsTyped /\ TableTyped /\ Sound(d)
    BY <1>1 DEF IInv, SInv
  <2>2. BeginLoad(d)
    <3>1. CASE Clock
      BY <3>1 DEF Clock, table
    <3>2. CASE \E e \in Daemons : DaemonMove(e)
      <4>1. DaemonMove(d)
        BY <1>1, <3>2
      <4>2. ~TableSame /\ ~LoadSucceeds(d) /\ ~LoadRaises(d)
        BY DEF TableSame, LoadSucceeds, LoadRaises
      <4> QED
        BY <1>1, <2>1, <4>1, <4>2, TableMoves
    <3>3. CASE RequestStep
      BY <3>3, RequestEffects
    <3>4. CASE UNCHANGED allvars
      BY <3>4 DEF allvars, cvars, table
    <3> QED
      BY <3>1, <3>2, <3>3, <3>4 DEF Next, CronNext, DaemonMove, RequestStep
  <2>3. /\ pc[d] = "run" /\ plan[d] # << >> /\ plan[d] \in Seq(Periods)
        /\ started' = [started EXCEPT ![Binding(d)][Head(plan[d])] = now]
    BY <1>1, <2>1, <2>2 DEF BeginLoad, DaemonsTyped
  <2>4. Head(plan[d]) = plan[d][1] /\ 1 \in DOMAIN plan[d]
    BY <2>3, PlanParts
  <2>5. b = Binding(d) /\ p = plan[d][1]
    BY <2>1, <2>3, <2>4 DEF TableTyped
  <2>6. PICK f \in FiresAt[b] : started[b][p] < f /\ f <= at[d]
    BY <2>3, <2>4, <2>5 DEF Window, Free
  <2>7. f <= now
    <3>1. f \in Nat /\ at[d] \in Nat /\ now \in Nat /\ at[d] <= now
      BY <1>1, <2>1, CronAssumption DEF Instants, DaemonsTyped, TableTyped, Sound
    <3> QED
      BY <2>6, <3>1
  <2> QED
    BY <2>6, <2>7
<1>5. IInv /\ Window(d) /\ [Next]_allvars => [Renewed]_cvars
  BY <1>4
<1> QED
  BY <1>2, <1>3, <1>5, TriggerInvariance, PTL DEF Spec, NeverDoubleFires

-----------------------------------------------------------------------------
(* One daemon, and no push into the binding: no month is passed over.       *)

\* Where the months the scheduler has taken on begin: at each month it loaded
\* or, before the first, where the window of the tick begins.
Floor(b, d, x) ==
    IF loaded[b] = {} THEN x = Tick(at[d]) - 2 * (Fallback - 1) ELSE x \in loaded[b]

Filled(b, x, y) == \A m \in Int : x <= m /\ m < y /\ IsMonth(m) => m \in attempted[b]

Monthly(s) == \A i \in DOMAIN s : s[i] = s[1] + 2 * (i - 1) /\ IsMonth(s[1])

\* The plan of the binding under work begins where the attempts end.
Adjoins(b, d) ==
    /\ \A x \in Int : Floor(b, d, x) => Filled(b, x, plan[d][1])
    /\ \E x \in Int : Floor(b, d, x) /\ x <= plan[d][1]
    /\ pc[d] = "load" => plan[d][1] \in attempted[b]

Gapless(b, d) ==
    /\ loaded[b] \subseteq attempted[b]
    /\ \A x \in Int : Floor(b, d, x) => \A q \in attempted[b] : Filled(b, x, q)
    /\ pc[d] \in {"run", "load"} /\ Binding(d) = b =>
          Monthly(plan[d]) /\ (plan[d] # << >> => Adjoins(b, d))

LEMMA NextMonth ==
  ASSUME NEW h \in Int, IsMonth(h), NEW m \in Int, IsMonth(m), m < h + 2
  PROVE  m < h \/ m = h
BY DEF IsMonth

LEMMA MonthlyTail ==
  ASSUME NEW s \in Seq(Periods), s # << >>, Monthly(s)
  PROVE  /\ Monthly(Tail(s)) /\ IsMonth(s[1]) /\ s[1] \in Nat
         /\ Tail(s) # << >> => Tail(s)[1] = s[1] + 2
<1>1. /\ 1 \in DOMAIN s /\ Tail(s) \in Seq(Periods) /\ s[1] \in Periods
      /\ \A i \in DOMAIN Tail(s) : i + 1 \in DOMAIN s /\ Tail(s)[i] = s[i + 1]
  BY PlanParts
<1>2. s[1] \in Nat /\ IsMonth(s[1])
  BY <1>1, PeriodsAre DEF Monthly
<1>3. /\ DOMAIN Tail(s) = 1..Len(Tail(s)) /\ Len(Tail(s)) \in Nat
      /\ Tail(s) # << >> => Len(Tail(s)) > 0
  BY <1>1, LenProperties, EmptySeq
<1>4. ASSUME NEW i \in DOMAIN Tail(s) PROVE Tail(s)[i] = s[1] + 2 * i /\ i \in Nat /\ i >= 1
  <2>1. i \in Nat /\ i >= 1
    BY <1>3
  <2>2. s[i + 1] = s[1] + 2 * (i + 1 - 1)
    BY <1>1 DEF Monthly
  <2> QED
    BY <1>1, <2>1, <2>2
<1>5. ASSUME Tail(s) # << >> PROVE 1 \in DOMAIN Tail(s) /\ Tail(s)[1] = s[1] + 2
  <2>1. 1 \in DOMAIN Tail(s)
    BY <1>3, <1>5
  <2>2. Tail(s)[1] = s[1] + 2 * 1
    BY <1>4, <2>1
  <2> QED
    BY <2>1, <2>2
<1>6. IsMonth(s[1] + 2)
  BY <1>2 DEF IsMonth
<1>7. ASSUME NEW i \in DOMAIN Tail(s)
      PROVE  Tail(s)[i] = Tail(s)[1] + 2 * (i - 1) /\ IsMonth(Tail(s)[1])
  <2>1. Tail(s) # << >>
    BY <1>3, <1>7
  <2>2. Tail(s)[1] = s[1] + 2
    BY <1>5, <2>1
  <2> QED
    BY <1>2, <1>4, <1>6, <2>2
<1> QED
  BY <1>2, <1>5, <1>7 DEF Monthly

LEMMA GaplessKept ==
  ASSUME SInv, NEW b \in Names, NEW d \in Daemons, Gapless(b, d),
         loaded'[b] = loaded[b], attempted'[b] = attempted[b],
         at'[d] \in Instants, at[d] <= at'[d],
         \/ pc'[d] \in {"sleep", "ask", "select"}
         \/ Binding(d)' # b
         \/ pc'[d] = pc[d] /\ todo'[d] = todo[d] /\ plan'[d] = plan[d] /\ at'[d] = at[d]
  PROVE  Gapless(b, d)'
<1>1. at[d] \in Instants
  BY DEF SInv, DaemonsTyped
<1>2. /\ Tick(at[d]) \in Nat /\ Tick(at'[d]) \in Nat /\ Fallback \in Nat
      /\ Tick(at[d]) <= Tick(at'[d])
  <2>1. MonthAt[at[d]] <= MonthAt[at'[d]] /\ MonthAt[at[d]] \in Nat /\ MonthAt[at'[d]] \in Nat
    BY <1>1, CronAssumption
  <2> QED
    BY <2>1, CronAssumption DEF Tick
<1>3. ASSUME NEW x \in Int, Floor(b, d, x)', NEW q \in attempted[b]
      PROVE  Filled(b, x, q)'
  <2>1. CASE loaded[b] = {}
    <3> DEFINE y == Tick(at[d]) - 2 * (Fallback - 1)
    <3>1. x = Tick(at'[d]) - 2 * (Fallback - 1)
      BY <1>3, <2>1 DEF Floor, Tick
    <3>2. y \in Int /\ y <= x
      BY <1>2, <3>1
    <3>3. Filled(b, y, q)
      BY <1>3, <2>1, <3>2 DEF Gapless, Floor
    <3> HIDE DEF y
    <3> QED
      BY <3>2, <3>3 DEF Filled
  <2>2. CASE loaded[b] # {}
    <3>1. Filled(b, x, q)
      BY <1>3, <2>2 DEF Gapless, Floor
    <3> QED
      BY <3>1 DEF Filled
  <2> QED
    BY <2>1, <2>2
<1>4. ASSUME pc'[d] = pc[d], todo'[d] = todo[d], plan'[d] = plan[d], at'[d] = at[d]
      PROVE  pc'[d] \in {"run", "load"} /\ Binding(d)' = b =>
                Monthly(plan'[d]) /\ (plan'[d] # << >> => Adjoins(b, d)')
  BY <1>4 DEF Gapless, Binding, Adjoins, Floor, Filled
<1> QED
  BY <1>3, <1>4 DEF Gapless

LEMMA SelectAdjoins ==
  ASSUME SInv, NEW b \in Names, NEW d \in Daemons, Gapless(b, d),
         Strategy[b] = "watermark", Binding(d) = b, Select(d)
  PROVE  Gapless(b, d)'
<1> DEFINE s == Selects(b, 2 * MonthAt[at[d]], Latest(b))
           first == First(b, at[d])
<1>1. /\ DaemonsTyped /\ TableTyped /\ at[d] \in Instants
      /\ loaded[b] \in SUBSET Periods /\ \A p \in loaded[b] : p \in Int
      /\ NoPeriod \notin loaded[b]
  <2>1. /\ DaemonsTyped /\ TableTyped /\ at[d] \in Instants
        /\ loaded[b] \in SUBSET Periods /\ NoPeriod \notin loaded[b]
    BY DEF SInv, DaemonsTyped, TableTyped, Rows
  <2>2. \A p \in Periods : p \in Int
    BY PeriodsAre
  <2> QED
    BY <2>1, <2>2
<1>2. /\ ~SelectionRaises(b, Latest(b)) /\ pc'[d] = "run" /\ plan'[d] = s
      /\ UNCHANGED <<loaded, attempted, at, todo>>
  BY <1>1 DEF Select, Goto, DaemonsTyped, table
<1>3. s \in Seq(Periods) /\ Run(s, first, Tick(at[d])) /\ (s # << >> => IsMonth(first))
  BY <1>1, <1>2, SelectedIs
<1>4. first \in Int
  BY <1>1, FirstIs
<1> HIDE DEF s
<1>5. /\ DOMAIN s = 1..Len(s) /\ Len(s) \in Nat /\ (s # << >> => Len(s) > 0)
  BY <1>3, LenProperties, EmptySeq
<1>6. s # << >> => s[1] = first
  BY <1>3, <1>4, <1>5 DEF Run
<1>7. Monthly(s)
  <2> SUFFICES ASSUME NEW i \in DOMAIN s PROVE s[i] = s[1] + 2 * (i - 1) /\ IsMonth(s[1])
    BY DEF Monthly
  <2>1. s # << >> /\ s[i] = first + 2 * (i - 1)
    BY <1>3, <1>5 DEF Run
  <2> QED
    BY <1>3, <1>6, <2>1
<1>8. ASSUME NEW x \in Int, Floor(b, d, x), s # << >>
      PROVE  Filled(b, x, first) /\ x <= first
  <2>1. CASE loaded[b] = {}
    BY <1>8, <2>1 DEF Floor, First, Filled
  <2>2. CASE loaded[b] # {}
    <3> DEFINE n == Latest(b)
    <3>1. /\ n \in loaded[b] /\ x \in loaded[b] /\ x <= n /\ n \in Int
          /\ first = n + 2 /\ IsMonth(n)
      <4>1. n \in loaded[b] /\ (\A p \in loaded[b] : p <= n) /\ n # Never
        BY <1>1, <2>2, LatestIs
      <4>2. x \in loaded[b] /\ first = n + 2
        BY <1>8, <2>2 DEF Floor, First
      <4>3. IsMonth(n)
        BY <1>2, <4>1 DEF SelectionRaises
      <4>4. n \in Int
        BY <1>1, <4>1
      <4> QED
        BY <4>1, <4>2, <4>3, <4>4
    <3>2. Filled(b, x, n) /\ n \in attempted[b]
      BY <1>8, <3>1 DEF Gapless
    <3> HIDE DEF n, first
    <3>3. Filled(b, x, first)
      BY <3>1, <3>2, NextMonth DEF Filled
    <3>4. x <= first
      BY <3>1
    <3> QED
      BY <3>3, <3>4
  <2> QED
    BY <2>1, <2>2
<1>9. ASSUME s # << >> PROVE \E x \in Int : Floor(b, d, x) /\ x <= first
  <2>1. \E x \in Int : Floor(b, d, x)
    <3>1. CASE loaded[b] = {}
      BY <1>4, <3>1 DEF Floor, First
    <3>2. CASE loaded[b] # {}
      BY <1>1, <3>2 DEF Floor
    <3> QED
      BY <3>1, <3>2
  <2> QED
    BY <1>8, <1>9, <2>1
<1> HIDE DEF first
<1>10. \A x \in Int : Floor(b, d, x)' <=> Floor(b, d, x)
  BY <1>2 DEF Floor
<1>11. ASSUME s # << >> PROVE Adjoins(b, d)'
  BY <1>2, <1>6, <1>8, <1>9, <1>10, <1>11 DEF Adjoins, Filled
<1> QED
  BY <1>2, <1>7, <1>10, <1>11 DEF Gapless, Filled

\* One more period of the plan is attempted; and the plan goes on.
LEMMA AttemptAdjoins ==
  ASSUME SInv, NEW b \in Names, NEW d \in Daemons, Gapless(b, d), Binding(d) = b,
         pc[d] \in {"run", "load"}, plan[d] # << >>,
         UNCHANGED <<loaded, at, todo>>,
         attempted'[b] = attempted[b] \cup {plan[d][1]},
         \/ plan' = plan
         \/ plan'[d] = Tail(plan[d]) /\ pc'[d] # "load"
  PROVE  Gapless(b, d)'
<1> DEFINE s == plan[d]
<1>0. PICK h : h = s[1]
  OBVIOUS
<1>1. s \in Seq(Periods) /\ Monthly(s) /\ Adjoins(b, d)
  <2>1. s \in Seq(Periods)
    BY DEF SInv, DaemonsTyped
  <2>2. Monthly(s) /\ Adjoins(b, d)
    BY DEF Gapless
  <2> QED
    BY <2>1, <2>2
<1>2. h \in Int /\ IsMonth(h) /\ Monthly(Tail(s)) /\ (Tail(s) # << >> => Tail(s)[1] = h + 2)
  BY <1>0, <1>1, MonthlyTail
<1>3. \A x \in Int : Floor(b, d, x)' <=> Floor(b, d, x)
  <2>1. loaded' = loaded /\ at' = at
    OBVIOUS
  <2> QED
    BY <2>1 DEF Floor
<1>4. attempted'[b] = attempted[b] \cup {h}
  BY <1>0
<1>5. ASSUME NEW x \in Int, Floor(b, d, x)
      PROVE  /\ \A q \in attempted'[b] : Filled(b, x, q)'
             /\ Filled(b, x, h)' /\ Filled(b, x, h + 2)'
  <2>1. Filled(b, x, h) /\ \A q \in attempted[b] : Filled(b, x, q)
    BY <1>0, <1>1, <1>5 DEF Adjoins, Gapless
  <2>2. \A y : Filled(b, x, y) => Filled(b, x, y)'
    BY <1>4 DEF Filled
  <2>3. Filled(b, x, h + 2)'
    BY <1>2, <1>4, <2>1, NextMonth DEF Filled
  <2> QED
    BY <1>4, <2>1, <2>2, <2>3
<1>6. PICK x \in Int : Floor(b, d, x) /\ x <= h
  BY <1>0, <1>1 DEF Adjoins
<1>7. Binding(d)' = b
  BY DEF Binding
<1>8. loaded'[b] \subseteq attempted'[b]
  BY <1>4 DEF Gapless
<1>9. CASE plan' = plan
  <2>1. Adjoins(b, d)'
    <3>1. plan'[d][1] = h
      BY <1>0, <1>9
    <3> QED
      BY <1>3, <1>4, <1>5, <1>6, <3>1 DEF Adjoins
  <2>2. Monthly(plan'[d])
    BY <1>1, <1>9
  <2> QED
    BY <1>3, <1>5, <1>8, <2>1, <2>2 DEF Gapless
<1>10. CASE plan'[d] = Tail(s) /\ pc'[d] # "load"
  <2>1. Monthly(plan'[d])
    BY <1>2, <1>10
  <2>2. ASSUME plan'[d] # << >> PROVE Adjoins(b, d)'
    <3>1. plan'[d][1] = h + 2
      BY <1>2, <1>10, <2>2
    <3>2. x <= h + 2
      BY <1>2, <1>6
    <3> QED
      BY <1>3, <1>5, <1>6, <1>10, <3>1, <3>2 DEF Adjoins
  <2> QED
    BY <1>3, <1>5, <1>8, <2>1, <2>2 DEF Gapless
<1> QED
  BY <1>9, <1>10

LEMMA SuccessAdjoins ==
  ASSUME SInv, NEW b \in Names, NEW d \in Daemons, Gapless(b, d), Binding(d) = b,
         LoadSucceeds(d)
  PROVE  Gapless(b, d)'
<1> DEFINE s == plan[d]
<1>0. PICK h : h = s[1]
  OBVIOUS
<1>1. /\ DaemonsTyped /\ TableTyped /\ pc[d] = "load" /\ pc'[d] = "run" /\ s # << >>
      /\ s \in Seq(Periods) /\ Monthly(s) /\ Adjoins(b, d) /\ h \in attempted[b]
      /\ plan'[d] = Tail(s) /\ UNCHANGED <<attempted, at, todo>>
      /\ loaded[b] \subseteq attempted[b]
  <2>1. pc[d] = "load" /\ s # << >> /\ DaemonsTyped /\ TableTyped
    BY DEF LoadSucceeds, SInv, Sound
  <2>2. pc'[d] = "run" /\ plan'[d] = Tail(s) /\ UNCHANGED <<attempted, at, todo>>
    BY <2>1 DEF LoadSucceeds, Goto, DaemonsTyped
  <2>3. Monthly(s) /\ Adjoins(b, d) /\ loaded[b] \subseteq attempted[b]
    BY <2>1 DEF Gapless
  <2> QED
    BY <1>0, <2>1, <2>2, <2>3 DEF DaemonsTyped, Adjoins
<1>2. /\ h \in Int /\ IsMonth(h) /\ Monthly(Tail(s)) /\ (Tail(s) # << >> => Tail(s)[1] = h + 2)
      /\ Head(s) = h
  <2>1. Monthly(Tail(s)) /\ IsMonth(h) /\ h \in Nat /\ (Tail(s) # << >> => Tail(s)[1] = h + 2)
    BY <1>0, <1>1, MonthlyTail
  <2>2. Head(s) = h
    BY <1>0, <1>1, PlanParts
  <2> QED
    BY <2>1, <2>2
<1>3. loaded'[b] = loaded[b] \cup {h}
  BY <1>1, <1>2 DEF LoadSucceeds, TableTyped
<1>4. PICK y \in Int : Floor(b, d, y) /\ y <= h
  BY <1>0, <1>1 DEF Adjoins
<1>5. \A x \in Int : Floor(b, d, x)' <=> x \in loaded[b] \cup {h}
  BY <1>3 DEF Floor
<1>6. \A x \in Int : x \in loaded[b] => Floor(b, d, x)
  BY DEF Floor
<1>7. \A x \in Int : Floor(b, d, x) =>
         Filled(b, x, h) /\ \A q \in attempted[b] : Filled(b, x, q)
  BY <1>0, <1>1 DEF Gapless, Adjoins
<1>8. \A q \in attempted[b] : Filled(b, h, q)
  <2> SUFFICES ASSUME NEW q \in attempted[b],
                      NEW m \in Int, h <= m, m < q, IsMonth(m)
               PROVE  m \in attempted[b]
    BY DEF Filled
  <2>1. Filled(b, y, q) /\ y <= m
    BY <1>2, <1>4, <1>7
  <2> QED
    BY <2>1 DEF Filled
<1>9. ASSUME NEW x \in Int, x \in loaded[b] \cup {h}
      PROVE  Filled(b, x, h + 2) /\ \A q \in attempted[b] : Filled(b, x, q)
  <2>1. Filled(b, x, h) /\ \A q \in attempted[b] : Filled(b, x, q)
    <3>1. CASE x \in loaded[b]
      BY <1>6, <1>7, <3>1
    <3>2. CASE x = h
      <4>1. Filled(b, h, h)
        BY <1>2 DEF Filled
      <4> QED
        BY <1>8, <3>2, <4>1
    <3> QED
      BY <1>9, <3>1, <3>2
  <2>2. h \in attempted[b]
    BY <1>0, <1>1
  <2>3. Filled(b, x, h + 2)
    BY <1>2, <2>1, <2>2, NextMonth DEF Filled
  <2> QED
    BY <2>1, <2>3
<1>10. \A x, z : Filled(b, x, z)' <=> Filled(b, x, z)
  BY <1>1 DEF Filled
<1>11. loaded'[b] \subseteq attempted'[b]
  BY <1>0, <1>1, <1>3
<1>12. ASSUME plan'[d] # << >> PROVE Adjoins(b, d)'
  <2>1. plan'[d][1] = h + 2
    BY <1>1, <1>2, <1>12
  <2>2. h <= h + 2 /\ h \in Int
    BY <1>2
  <2>3. \E x \in Int : Floor(b, d, x)' /\ x <= h + 2
    BY <1>5, <2>2
  <2>4. \A x \in Int : Floor(b, d, x)' => Filled(b, x, h + 2)'
    BY <1>5, <1>9, <1>10
  <2> QED
    BY <1>1, <2>1, <2>3, <2>4 DEF Adjoins
<1>13. \A x \in Int : Floor(b, d, x)' => \A q \in attempted'[b] : Filled(b, x, q)'
  BY <1>1, <1>5, <1>9, <1>10
<1>14. Monthly(plan'[d])
  BY <1>1, <1>2
<1> QED
  BY <1>11, <1>12, <1>13, <1>14 DEF Gapless

\* A push into a watermark binding may go back behind all that was loaded: the
\* theorem is about bindings that the routes refuse, or that nobody asks for.
Unpushed(b) == \A q \in Requests : Gate(q) = "pass" => Asks[q].binding # b

LEMMA GaplessMoves ==
  ASSUME SInv, NEW b \in Names, NEW d \in Daemons, Gapless(b, d),
         Strategy[b] = "watermark", DaemonMove(d)
  PROVE  Gapless(b, d)'
<1> DEFINE c == Binding(d)
           s == plan[d]
<1>1. /\ DaemonsTyped /\ TableTyped /\ Sound(d) /\ at[d] \in Instants /\ at[d] \in Int
      /\ s \in Seq(Periods) /\ now \in Instants /\ at[d] <= now
      /\ b \in Names
  BY DEF SInv, DaemonsTyped, Sound, TableTyped, Instants
<1>2. CASE WakeUp(d)
  <2>1. pc'[d] = "ask" /\ at'[d] = now /\ UNCHANGED <<loaded, attempted>>
    BY <1>1, <1>2 DEF WakeUp, Goto, DaemonsTyped, table
  <2> QED
    BY <1>1, <2>1, GaplessKept
<1>3. CASE EndTick(d) \/ NotDue(d) \/ IsDue(d) \/ SelectFails(d) \/ EndBinding(d) \/ QueryFails(d)
           \/ DaemonRestarts(d)
  <2>1. pc'[d] \in {"sleep", "ask", "select"} /\ UNCHANGED <<loaded, attempted, at>>
    BY <1>1, <1>3 DEF EndTick, NotDue, IsDue, SelectFails, EndBinding, QueryFails, DaemonRestarts,
                      Goto, DaemonsTyped, table
  <2> QED
    BY <1>1, <2>1, GaplessKept
<1>4. CASE Select(d)
  <2>1. UNCHANGED <<loaded, attempted, at, todo>>
    BY <1>4 DEF Select, table
  <2>2. CASE c = b
    BY <1>4, <2>2, SelectAdjoins
  <2>3. CASE c # b
    <3>1. Binding(d)' # b /\ loaded'[b] = loaded[b] /\ attempted'[b] = attempted[b]
      BY <2>1, <2>3 DEF Binding
    <3>2. at'[d] \in Instants /\ at[d] <= at'[d]
      BY <1>1, <2>1
    <3> QED
      BY <3>1, <3>2, GaplessKept
  <2> QED
    BY <2>2, <2>3
<1>5. ASSUME s # << >> PROVE Head(s) = s[1]
  BY <1>1, <1>5, PlanParts
<1>6. CASE BeginLoad(d)
  <2>1. /\ pc[d] = "run" /\ s # << >> /\ UNCHANGED <<loaded, at, todo, plan>>
        /\ attempted' = [attempted EXCEPT ![c] = @ \cup {s[1]}]
    BY <1>5, <1>6 DEF BeginLoad
  <2>2. CASE c = b
    <3>1. attempted'[b] = attempted[b] \cup {s[1]}
      BY <1>1, <2>1, <2>2 DEF TableTyped
    <3> QED
      BY <2>1, <2>2, <3>1, AttemptAdjoins
  <2>3. CASE c # b
    <3>1. Binding(d)' # b /\ attempted'[b] = attempted[b] /\ loaded'[b] = loaded[b]
      BY <1>1, <2>1, <2>3 DEF Binding, TableTyped
    <3>2. at'[d] \in Instants /\ at[d] <= at'[d]
      BY <1>1, <2>1
    <3> QED
      BY <3>1, <3>2, GaplessKept
  <2> QED
    BY <2>2, <2>3
<1>7. CASE LoadSucceeds(d)
  <2>1. CASE c = b
    BY <1>7, <2>1, SuccessAdjoins
  <2>2. CASE c # b
    <3>1. Binding(d)' # b /\ loaded'[b] = loaded[b] /\ UNCHANGED <<attempted, at>>
      BY <1>1, <1>7, <2>2 DEF LoadSucceeds, Binding, TableTyped
    <3> QED
      BY <1>1, <3>1, GaplessKept
  <2> QED
    BY <2>1, <2>2
<1>8. CASE LoadFails(d)
  <2>1. /\ pc[d] = "load" /\ pc'[d] = "run" /\ plan'[d] = Tail(s) /\ s # << >>
        /\ UNCHANGED <<loaded, attempted, at, todo>>
    BY <1>1, <1>8 DEF LoadFails, Goto, DaemonsTyped, table, Sound
  <2>2. CASE c = b
    <3>1. s[1] \in attempted[b]
      BY <2>1, <2>2 DEF Gapless, Adjoins
    <3>2. attempted'[b] = attempted[b] \cup {s[1]}
      BY <2>1, <3>1
    <3> QED
      BY <2>1, <2>2, <3>2, AttemptAdjoins
  <2>3. CASE c # b
    <3>1. Binding(d)' # b /\ loaded'[b] = loaded[b] /\ attempted'[b] = attempted[b]
      BY <2>1, <2>3 DEF Binding
    <3>2. at'[d] \in Instants /\ at[d] <= at'[d]
      BY <1>1, <2>1
    <3> QED
      BY <3>1, <3>2, GaplessKept
  <2> QED
    BY <2>2, <2>3
<1>9. CASE LoadRaises(d)
  <2>1. /\ pc[d] = "run" /\ pc'[d] = "run" /\ plan'[d] = Tail(s) /\ s # << >>
        /\ UNCHANGED <<loaded, at, todo>>
        /\ attempted' = [attempted EXCEPT ![c] = @ \cup {s[1]}]
    BY <1>1, <1>5, <1>9 DEF LoadRaises, DaemonsTyped
  <2>2. CASE c = b
    <3>1. attempted'[b] = attempted[b] \cup {s[1]}
      BY <1>1, <2>1, <2>2 DEF TableTyped
    <3> QED
      BY <2>1, <2>2, <3>1, AttemptAdjoins
  <2>3. CASE c # b
    <3>1. Binding(d)' # b /\ attempted'[b] = attempted[b] /\ loaded'[b] = loaded[b]
      BY <1>1, <2>1, <2>3 DEF Binding, TableTyped
    <3>2. at'[d] \in Instants /\ at[d] <= at'[d]
      BY <1>1, <2>1
    <3> QED
      BY <3>1, <3>2, GaplessKept
  <2> QED
    BY <2>2, <2>3
<1> QED
  BY <1>2, <1>3, <1>4, <1>6, <1>7, <1>8, <1>9 DEF DaemonMove, TickStep

LEMMA GaplessSteps ==
  ASSUME NEW d, Lone(d), NEW b \in Names, Strategy[b] = "watermark", Unpushed(b),
         IInv, Gapless(b, d), [Next]_allvars
  PROVE  Gapless(b, d)'
<1>1. /\ d \in Daemons /\ (\A e \in Daemons : e = d) /\ SInv /\ TableTyped
      /\ at[d] \in Instants /\ at[d] <= at[d]
  BY DEF Lone, IInv, SInv, DaemonsTyped, Instants
<1>2. ASSUME UNCHANGED <<pc, at, todo, plan>>, loaded'[b] = loaded[b], attempted'[b] = attempted[b]
      PROVE  Gapless(b, d)'
  BY <1>1, <1>2, GaplessKept
<1>3. CASE Clock
  BY <1>2, <1>3 DEF Clock, table, daemon
<1>4. CASE \E e \in Daemons : DaemonMove(e)
  BY <1>1, <1>4, GaplessMoves
<1>5. CASE RequestStep
  <2>1. UNCHANGED <<pc, at, todo, plan>>
    BY <1>5, RequestEffects
  <2>2. loaded'[b] = loaded[b] /\ attempted'[b] = attempted[b]
    BY <1>1, <1>5, RequestEffects DEF TableTyped, Unpushed
  <2> QED
    BY <1>2, <2>1, <2>2
<1>6. CASE UNCHANGED allvars
  BY <1>2, <1>6 DEF allvars, cvars, table, daemon
<1> QED
  BY <1>3, <1>4, <1>5, <1>6 DEF Next, CronNext, DaemonMove, RequestStep

GapInv(d) ==
    \A b \in Names : Strategy[b] = "watermark" => Gapless(b, d)

\* One daemon passes no month over in a binding whose periods come from its
\* watermark alone: whatever windows crashes, failing loads, refused
\* selections and months without a tick cut short, every month between one
\* that was loaded and one it began has a row, or an exception in the log.
THEOREM NoMonthIsSkipped ==
  ASSUME NEW d, Lone(d),
         \A b \in Names : Strategy[b] = "watermark" => Unpushed(b)
  PROVE  Spec => []NoSilentGap
<1>1. d \in Daemons
  BY DEF Lone
<1>2. Init => GapInv(d)
  <2> SUFFICES ASSUME Init, NEW b \in Names PROVE Gapless(b, d)
    BY DEF GapInv
  <2> QED
    BY <1>1 DEF Init, CInit, Gapless
<1>3. IInv /\ GapInv(d) /\ [Next]_allvars => GapInv(d)'
  <2> SUFFICES ASSUME IInv, GapInv(d), [Next]_allvars, NEW b \in Names, Strategy[b] = "watermark"
               PROVE  Gapless(b, d)'
    BY DEF GapInv
  <2> QED
    BY GaplessSteps DEF GapInv
<1>4. IInv /\ GapInv(d) => NoSilentGap
  <2> SUFFICES ASSUME IInv, GapInv(d), NEW b \in Names, Strategy[b] = "watermark",
                      NEW p \in loaded[b], NEW q \in Periods, started[b][q] # Never,
                      NEW m \in p..q, IsMonth(m)
               PROVE  m \in attempted[b]
    BY DEF NoSilentGap
  <2>1. /\ Gapless(b, d) /\ q \in attempted[b] /\ p \in Periods
    BY DEF GapInv, IInv, SInv, Rows, TableTyped
  <2>2. p \in Int /\ q \in Int
    BY <2>1, PeriodsAre
  <2>3. Filled(b, p, q)
    BY <2>1, <2>2 DEF Gapless, Floor
  <2>4. CASE m = q
    BY <2>1, <2>4
  <2>5. CASE m # q
    BY <2>2, <2>3, <2>5 DEF Filled
  <2> QED
    BY <2>4, <2>5
<1> QED
  BY <1>2, <1>3, <1>4, TriggerInvariance, PTL DEF Spec
=============================================================================
