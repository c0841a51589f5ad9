------------------------------ MODULE GthrTime ------------------------------
(***************************************************************************)
(* Time accounting of src/gthreads/gthr.c: what every scheduling decision  *)
(* adds to the run time, the waiting time and the slice statistics of the  *)
(* threads, and what gt_dump_stats reports from them.                      *)
(*                                                                         *)
(* Each action is an action of Gthr together with its accounting.  The     *)
(* clock is gettimeofday: between two calls of the library it may advance, *)
(* and it may be set back.  Time is kept in unsigned words; Word is their  *)
(* number (2^64), so a difference with a clock that went back wraps.       *)
(***************************************************************************)
EXTENDS Gthr

CONSTANTS
  Word,        \* number of values of a uint64_t
  MaxTime,     \* bound: the latest value the clock takes
  MaxSlices    \* bound: slices all threads run before the model stops

\* The clock never shows 0, which last_run_start_us uses for "not running".
Times == 1 .. MaxTime

ASSUME WordAssumption == Word \in Nat /\ MaxTime \in 1 .. Word - 1
ASSUME MaxSlicesAssumption == MaxSlices \in Nat

VARIABLES
  clock,      \* what gt_now_us returns
  born,       \* history: when the slot's last owner was created
  change,     \* gt_table[t].last_state_change_us
  run_start,  \* gt_table[t].last_run_start_us
  stats,      \* gt_table[t]'s totals; slice_sum_us always equals run_total_us
  set_back    \* history: the clock was set back

timevars == <<clock, born, change, run_start, stats, set_back>>

Stats == [run : 0 .. Word - 1, wait : 0 .. Word - 1, count : 0 .. MaxSlices,
          min : 0 .. Word - 1, max : 0 .. Word - 1, sq : 0 .. Word - 1]

(* The statistics are words and every stored time is a reading of the       *)
(* clock; only the Running thread has a run start.                          *)
TimeTypeOK ==
  /\ clock \in Times
  /\ born \in [Slots -> Times]
  /\ change \in [Slots -> Times]
  /\ run_start \in [Slots -> 0 .. MaxTime]
  /\ stats \in [Slots -> Stats]
  /\ set_back \in BOOLEAN
  /\ \A t \in Slots : run_start[t] # 0 <=> state[t] = "Running"

-----------------------------------------------------------------------------
Plus(a, b) == (a + b) % Word
Minus(a, b) == (a - b) % Word

\* gt_reset_thread_stats; UINT64_MAX stands for "no slice yet" in min.
NewStats == [run |-> 0, wait |-> 0, count |-> 0, min |-> Word - 1, max |-> 0, sq |-> 0]

FaultyAccountRunningSlice(t, now) ==
  LET delta == Minus(now, run_start[t])
  IN  IF state[t] # "Running" \/ run_start[t] = 0 THEN stats[t]
      ELSE [stats[t] EXCEPT
              !.run = Plus(@, delta),
              !.count = @ + 1,
              !.sq = Plus(@, delta * delta),
              !.min = IF delta < @ THEN delta ELSE @,
              !.max = IF delta >= stats[t].min /\ delta > @ THEN delta ELSE @]

(* t's statistics when the slice that ends now is added.                    *)
AccountRunningSlice(t, now) ==
  LET delta == Minus(now, run_start[t])
  IN  IF state[t] # "Running" \/ run_start[t] = 0 THEN stats[t]
      ELSE [stats[t] EXCEPT
              !.run = Plus(@, delta),
              !.count = @ + 1,
              !.sq = Plus(@, delta * delta),
              !.min = IF delta < @ THEN delta ELSE @,
              !.max = IF delta > @ THEN delta ELSE @]

FaultyGoOn(now) ==
  /\ stats' = [stats EXCEPT ![current] = AccountRunningSlice(current, now)]
  /\ UNCHANGED <<run_start, change>>

(* gt_schedule_internal found nobody Ready: the slice is accounted for and  *)
(* the thread's next one begins.                                            *)
GoOn(now) ==
  /\ stats' = [stats EXCEPT ![current] = AccountRunningSlice(current, now)]
  /\ run_start' = [run_start EXCEPT ![current] = now]
  /\ UNCHANGED change

FaultyHandOver(now, later) ==
  /\ stats' = [stats EXCEPT
                 ![current] = AccountRunningSlice(current, now),
                 ![current'].wait = Plus(@, Minus(later, change[current']))]
  /\ change' = [change EXCEPT ![current] = now, ![current'] = later]
  /\ run_start' = [run_start EXCEPT ![current'] = later]

(* The leaving thread's slice ends at now, the wait of the thread that is   *)
(* resumed ends at later.                                                   *)
HandOver(now, later) ==
  /\ stats' = [stats EXCEPT
                 ![current] = AccountRunningSlice(current, now),
                 ![current'].wait = Plus(@, Minus(later, change[current']))]
  /\ change' = [change EXCEPT ![current] = now, ![current'] = later]
  /\ run_start' = [run_start EXCEPT ![current] = 0, ![current'] = later]

WithinBound == MapThenSumSet(LAMBDA t : stats[t].count, Slots) < MaxSlices

(* The accounting of one call of gt_schedule_internal by a live thread.     *)
ScheduleTimes ==
  /\ WithinBound
  /\ IF ReadySlots = {} THEN GoOn(clock) ELSE HandOver(clock, clock)
  /\ UNCHANGED <<clock, born, set_back>>

-----------------------------------------------------------------------------
TimeInit ==
  /\ Init
  /\ clock \in Times
  /\ born = [t \in Slots |-> clock]
  /\ change = [t \in Slots |-> clock]
  /\ run_start = [t \in Slots |-> IF t = 0 THEN clock ELSE 0]
  /\ stats = [t \in Slots |-> NewStats]
  /\ set_back = FALSE

MoveClock(later) ==
  /\ clock' = later
  /\ set_back' = (set_back \/ later < clock)

Clock ==
  /\ exited = "no"
  /\ \E later \in Times : MoveClock(later)
  /\ UNCHANGED <<vars, born, change, run_start, stats>>

TimedCreate(prio) ==
  /\ CreateThread(prio)
  /\ LET new == {t \in Slots : state[t] = "Unused" /\ state'[t] = "Ready"}
     IN  /\ born' = [t \in Slots |-> IF t \in new THEN clock ELSE born[t]]
         /\ change' = [t \in Slots |-> IF t \in new THEN clock ELSE change[t]]
         /\ stats' = [t \in Slots |-> IF t \in new THEN NewStats ELSE stats[t]]
  /\ UNCHANGED <<clock, run_start, set_back>>

TimedYield == Yield /\ ScheduleTimes

TimedMainExitLoop == MainExitLoop /\ ScheduleTimes

(* gt_exit reads the clock, and gt_schedule_internal reads it again.        *)
TimedExitThread ==
  /\ WithinBound
  /\ ExitThread
  /\ \E later \in Times : MoveClock(later) /\ HandOver(clock, later)
  /\ UNCHANGED born

(* The last round of gt_exit's loop finds nobody Ready, and ends a slice.   *)
TimedPlatformExit ==
  /\ WithinBound
  /\ PlatformExit
  /\ GoOn(clock)
  /\ UNCHANGED <<clock, born, set_back>>

TimedTick ==
  /\ Tick
  /\ IF in_schedule THEN UNCHANGED timevars ELSE ScheduleTimes

Untimed ==
  /\ \/ \E prio \in Priorities : CreateFails(prio)
     \/ \E policy \in RuntimePolicies : SetScheduler(policy)
     \/ MainExit
     \/ Sigint
     \/ Ended
  /\ UNCHANGED timevars

TimeNext ==
  \/ Clock
  \/ \E prio \in Priorities : TimedCreate(prio)
  \/ TimedYield
  \/ TimedExitThread
  \/ TimedMainExitLoop
  \/ TimedPlatformExit
  \/ TimedTick
  \/ Untimed

TimeSpec == TimeInit /\ [][TimeNext]_<<vars, timevars>>

-----------------------------------------------------------------------------
(* What gt_dump_stats prints, from the SIGINT handler or main's own call.   *)

DumpRun(t) ==
  IF state[t] = "Running" /\ run_start[t] # 0
    THEN Plus(stats[t].run, Minus(clock, run_start[t])) ELSE stats[t].run

DumpWait(t) ==
  IF state[t] = "Ready"
    THEN Plus(stats[t].wait, Minus(clock, change[t])) ELSE stats[t].wait

Avg(t) == IF stats[t].count = 0 THEN 0 ELSE stats[t].run \div stats[t].count

Var(t) ==
  IF stats[t].count = 0 THEN 0
  ELSE Minus(stats[t].sq \div stats[t].count, Avg(t) * Avg(t))

-----------------------------------------------------------------------------
(* The run time and the waiting time in a report add up to the thread's     *)
(* age, at every moment: no decision counts a microsecond twice, in both    *)
(* columns or in none.  Once the thread has exited they add up to its       *)
(* lifetime.  The differences cancel even when the clock is set back and    *)
(* single figures wrap (gthr.c:161, gthr.c:266, gthr.c:278).                *)
DumpAddsUp ==
  \A t \in Slots :
    Plus(DumpRun(t), DumpWait(t)) =
      Minus(IF state[t] = "Unused" THEN change[t] ELSE clock, born[t])

(* As long as the clock only advances, the slice columns describe one set   *)
(* of slices: the average lies between the shortest and the longest, the    *)
(* difference of the two truncated quotients in gt_var_slice_us never wraps *)
(* below 0, and it exceeds the variance such slices can have by no more     *)
(* than the square lost when the average is truncated.                      *)
SpreadSound ==
  set_back \/
  \A t \in Slots :
    stats[t].count > 0 =>
      /\ stats[t].min <= Avg(t) /\ Avg(t) <= stats[t].max
      /\ LET width == stats[t].max - stats[t].min
         IN  4 * Var(t) <= width * width + 4 * (2 * Avg(t) + 1)
=============================================================================
