------------------------------- MODULE Gthr -------------------------------
(***************************************************************************)
(* The user-level threads of src/gthreads: the thread table gt_table, the  *)
(* three scheduling policies, gt_create, gt_yield, gt_exit and the         *)
(* periodic tick.  One action is one call of the library by the running    *)
(* thread, or one signal.                                                  *)
(*                                                                         *)
(* A tick arrives here between two library calls, in the thread's own      *)
(* code.  Ticks inside the library's code are the subject of GthrPreempt.  *)
(*                                                                         *)
(* gt_switch saves the context of the thread that leaves and resumes the   *)
(* one that was chosen.  What the resumed thread does before it is back in *)
(* its own code depends on where it had stopped, so saved[t] records that: *)
(*   "fresh"  never run: the switch returns into gt_thread_trampoline,     *)
(*   "call"   inside gt_yield (or main's loop in gt_exit): it returns,     *)
(*   "tick"   inside scheduler_tick, called from the SIGALRM handler: it   *)
(*            clears gt_in_schedule and returns from the handler, which    *)
(*            unblocks SIGALRM,                                            *)
(*   "exit"   inside gt_exit: it would spin in for (;;) for ever.          *)
(*                                                                         *)
(* An operator named Faulty... is a plausible bug in the definition that   *)
(* follows it, kept to show that a property would notice it.               *)
(***************************************************************************)
EXTENDS Integers, FiniteSets, FiniteSetsExt

CONSTANTS
  MaxGThreads,        \* slots of gt_table (8 in gthr.h)
  GtPriorityLowest,   \* the weakest priority (10); the strongest is 0
  Priorities,         \* arguments the program passes to gt_create
  InitPolicies,       \* policies in force when scheduler_init runs
  RuntimePolicies     \* arguments of gt_set_scheduler while threads run

GtPriorityHighest == 0
Policies == {"RR", "PRI", "LS"}

\* Slot 0 is the main thread: there is always one.
ASSUME SlotsAssumption == MaxGThreads \in Nat \ {0}
ASSUME LowestAssumption == GtPriorityLowest \in Nat
\* gt_create takes any int and clamps it.
ASSUME PrioritiesAssumption == Priorities \subseteq Int
\* gt_set_scheduler is given one of the enum's values before scheduler_init.
ASSUME PoliciesAssumption == InitPolicies \subseteq Policies

VARIABLES
  sched_policy,    \* gt_sched_policy_current
  state,           \* gt_table[t].state
  priority,        \* gt_table[t].priority
  boost,           \* gt_table[t].starvation_boost
  saved,           \* gt_table[t].ctx: where the suspended thread resumes
  current,         \* gt_current
  in_schedule,     \* gt_in_schedule
  alarm_blocked,   \* SIGALRM is in the process's signal mask
  main_exiting,    \* slot 0 is in the loop of gt_exit
  exited,          \* "no", or how the process ended: "done", "sigint"
  waited           \* history: scheduling decisions that passed t over since
                   \* it became Ready, or since the policy was last set

vars == <<sched_policy, state, priority, boost, saved, current, in_schedule,
          alarm_blocked, main_exiting, exited, waited>>

Slots == 0 .. MaxGThreads - 1

TypeOK ==
  /\ sched_policy \in Policies
  /\ state \in [Slots -> {"Unused", "Running", "Ready"}]
  /\ priority \in [Slots -> GtPriorityHighest .. GtPriorityLowest]
  /\ boost \in [Slots -> 0 .. GtPriorityLowest]
  /\ saved \in [Slots -> {"fresh", "call", "tick", "exit"}]
  /\ current \in Slots
  /\ in_schedule \in BOOLEAN
  /\ alarm_blocked \in BOOLEAN
  /\ main_exiting \in BOOLEAN
  /\ exited \in {"no", "done", "sigint"}
  /\ waited \in [Slots -> Nat]

-----------------------------------------------------------------------------
(* gt_init: the main thread runs in slot 0, every other slot is free.       *)
Init ==
  /\ sched_policy \in InitPolicies
  /\ state = [t \in Slots |-> IF t = 0 THEN "Running" ELSE "Unused"]
  /\ priority = [t \in Slots |-> GtPriorityLowest]
  /\ boost = [t \in Slots |-> 0]
  /\ saved = [t \in Slots |-> "exit"]
  /\ current = 0
  /\ in_schedule = FALSE
  /\ alarm_blocked = FALSE
  /\ main_exiting = FALSE
  /\ exited = "no"
  /\ waited = [t \in Slots |-> 0]

-----------------------------------------------------------------------------
(* Choosing the next thread.                                                *)

ReadySlots == {t \in Slots : state[t] = "Ready"}

(* How far the circular search that starts at the slot after gt_current     *)
(* walks before it meets t (gt_next_slot).                                  *)
Dist(t) == IF t > current THEN t - current ELSE t - current + MaxGThreads

FaultyEffectivePriority(t) == priority[t]

EffectivePriority(t) ==
  IF priority[t] - boost[t] < GtPriorityHighest
    THEN GtPriorityHighest
    ELSE priority[t] - boost[t]

FaultyNextReadyRR(t) == t \in ReadySlots /\ \A u \in ReadySlots : t <= u

NextReadyRR(t) ==
  /\ t \in ReadySlots
  /\ \A u \in ReadySlots : Dist(t) <= Dist(u)

NextReadyByPriority(t) ==
  /\ t \in ReadySlots
  /\ \A u \in ReadySlots :
       \/ EffectivePriority(t) < EffectivePriority(u)
       \/ /\ EffectivePriority(t) = EffectivePriority(u)
          /\ Dist(t) <= Dist(u)

TicketCount(t) == GtPriorityLowest - priority[t] + 1

CumulativeTickets(t) ==
  MapThenSumSet(TicketCount, {u \in ReadySlots : u <= t})

TotalTickets == CumulativeTickets(MaxGThreads - 1)

FaultyLotteryWinner(draw, t) ==
  /\ t \in ReadySlots
  /\ draw <= CumulativeTickets(t)
  /\ \A u \in ReadySlots : u < t => CumulativeTickets(u) < draw

(* The first Ready slot whose cumulative count exceeds the draw.            *)
LotteryWinner(draw, t) ==
  /\ t \in ReadySlots
  /\ draw < CumulativeTickets(t)
  /\ \A u \in ReadySlots : u < t => CumulativeTickets(u) <= draw

(* gt_rand_u32() % total_tickets may be any draw.                           *)
NextReadyLottery(t) == \E draw \in 0 .. TotalTickets - 1 : LotteryWinner(draw, t)

NextReady(t) ==
  \/ sched_policy = "RR"  /\ NextReadyRR(t)
  \/ sched_policy = "LS"  /\ NextReadyLottery(t)
  \/ sched_policy = "PRI" /\ NextReadyByPriority(t)

FaultyAgeReadyThreads(selected) == boost' = [boost EXCEPT ![selected] = 0]

(* gt_age_ready_threads, then the reset of the chosen thread's boost.       *)
AgeReadyThreads(selected) ==
  boost' = [t \in Slots |->
              IF sched_policy # "PRI" THEN boost[t]
              ELSE IF t = selected THEN 0
              ELSE IF t \in ReadySlots /\ boost[t] < GtPriorityLowest - GtPriorityHighest
                THEN boost[t] + 1
              ELSE boost[t]]

FaultyResumeFrom(p, how) ==
  /\ in_schedule' = (in_schedule \/ how = "tick")
  /\ alarm_blocked' = ((alarm_blocked \/ how = "tick") /\ saved[p] # "tick")

(* The chosen thread goes on from where it had stopped.  Only a thread that *)
(* was preempted inside the handler clears the flag and unblocks SIGALRM.   *)
ResumeFrom(p, how) ==
  LET gate == (in_schedule \/ how = "tick") /\ saved[p] # "tick"
      mask == (alarm_blocked \/ how = "tick") /\ saved[p] # "tick"
  IN  /\ in_schedule' = gate
      /\ alarm_blocked' = mask

(* Bound: the history counts no further than one past every wait that       *)
(* BoundedWait allows.                                                      *)
WaitBound == GtPriorityLowest + MaxGThreads
CountWait(n) == IF n < WaitBound THEN n + 1 ELSE n

(* gt_schedule_internal once p is chosen: the leaving thread becomes next   *)
(* ("Ready", or "Unused" when it is exiting) and stops at how.              *)
SwitchTo(p, next, how) ==
  /\ AgeReadyThreads(p)
  /\ state' = [state EXCEPT ![current] = next, ![p] = "Running"]
  /\ saved' = [saved EXCEPT ![current] = how]
  /\ current' = p
  /\ ResumeFrom(p, how)
  /\ waited' = [t \in Slots |->
                  IF t \in ReadySlots \ {p} /\ sched_policy # "LS"
                    THEN CountWait(waited[t]) ELSE 0]
  /\ UNCHANGED <<sched_policy, priority, main_exiting, exited>>

(* With no Ready thread gt_schedule_internal returns false: a thread that   *)
(* was not exiting goes on, an exiting one is left Unused and spinning.     *)
Schedule(next, how) ==
  IF ReadySlots # {}
    THEN \E p \in Slots : NextReady(p) /\ SwitchTo(p, next, how)
    ELSE /\ state' = [state EXCEPT ![current] =
                        IF next = "Unused" THEN "Unused" ELSE @]
         /\ UNCHANGED <<sched_policy, priority, boost, saved, current, in_schedule,
                        alarm_blocked, main_exiting, exited, waited>>

-----------------------------------------------------------------------------
(* The calls of the running thread.                                         *)

InThreadCode == exited = "no" /\ ~(current = 0 /\ main_exiting)

FaultyClampPriority(p) == p

ClampPriority(p) ==
  IF p < GtPriorityHighest THEN GtPriorityHighest
  ELSE IF p > GtPriorityLowest THEN GtPriorityLowest
  ELSE p

FreeSlots == {t \in Slots \ {0} : state[t] = "Unused"}

FaultyFreshContext(p) == UNCHANGED saved

(* The new stack holds only the address of gt_thread_trampoline.            *)
FreshContext(p) == saved' = [saved EXCEPT ![p] = "fresh"]

(* gt_create takes the first free slot; with none it returns -1.            *)
CreateThread(prio) ==
  /\ InThreadCode
  /\ \E p \in FreeSlots :
       /\ \A q \in FreeSlots : p <= q
       /\ state' = [state EXCEPT ![p] = "Ready"]
       /\ priority' = [priority EXCEPT ![p] = ClampPriority(prio)]
       /\ boost' = [boost EXCEPT ![p] = 0]
       /\ FreshContext(p)
       /\ waited' = [waited EXCEPT ![p] = 0]
  /\ UNCHANGED <<sched_policy, current, in_schedule, alarm_blocked,
                 main_exiting, exited>>

CreateFails(prio) ==
  /\ InThreadCode
  /\ FreeSlots = {}
  /\ UNCHANGED vars

SetScheduler(policy) ==
  /\ InThreadCode
  /\ sched_policy' = IF policy \in Policies THEN policy ELSE "PRI"
  /\ waited' = [t \in Slots |-> 0]
  /\ UNCHANGED <<state, priority, boost, saved, current, in_schedule,
                 alarm_blocked, main_exiting, exited>>

Yield ==
  /\ InThreadCode
  /\ Schedule("Ready", "call")

FaultyExitThread == InThreadCode /\ Schedule("Unused", "exit")

(* gt_exit (gt_stop, gt_return, or the entry function returning) outside    *)
(* the main thread.                                                         *)
ExitThread ==
  /\ InThreadCode
  /\ current # 0
  /\ Schedule("Unused", "exit")

(* The main thread enters gt_exit, and goes round its loop until no thread  *)
(* is Ready.                                                                *)
MainExit ==
  /\ InThreadCode
  /\ current = 0
  /\ main_exiting' = TRUE
  /\ UNCHANGED <<sched_policy, state, priority, boost, saved, current,
                 in_schedule, alarm_blocked, exited, waited>>

InMainExitLoop == exited = "no" /\ current = 0 /\ main_exiting

MainExitLoop ==
  /\ InMainExitLoop
  /\ ReadySlots # {}
  /\ Schedule("Ready", "call")

FaultyPlatformExit ==
  /\ InMainExitLoop
  /\ exited' = "done"
  /\ UNCHANGED <<sched_policy, state, priority, boost, saved, current,
                 in_schedule, alarm_blocked, main_exiting, waited>>

PlatformExit ==
  /\ InMainExitLoop
  /\ ReadySlots = {}
  /\ exited' = "done"
  /\ UNCHANGED <<sched_policy, state, priority, boost, saved, current,
                 in_schedule, alarm_blocked, main_exiting, waited>>

-----------------------------------------------------------------------------
(* The signals.                                                             *)

(* SIGALRM is blocked while its handler runs, on whichever stack.           *)
Tick ==
  /\ exited = "no"
  /\ ~alarm_blocked
  /\ IF in_schedule THEN UNCHANGED vars ELSE Schedule("Ready", "tick")

Sigint ==
  /\ exited = "no"
  /\ exited' = "sigint"
  /\ UNCHANGED <<sched_policy, state, priority, boost, saved, current,
                 in_schedule, alarm_blocked, main_exiting, waited>>

Ended == exited # "no" /\ UNCHANGED vars

Next ==
  \/ \E prio \in Priorities : CreateThread(prio) \/ CreateFails(prio)
  \/ \E policy \in RuntimePolicies : SetScheduler(policy)
  \/ Yield
  \/ ExitThread
  \/ MainExit
  \/ MainExitLoop
  \/ PlatformExit
  \/ Tick
  \/ Sigint
  \/ Ended

Spec == Init /\ [][Next]_vars

(* Every thread of main.c calls gt_yield in its loop, and main ends in      *)
(* gt_return.  Nothing is assumed of the timer: a thread that was started   *)
(* by a tick runs with SIGALRM blocked, so only its own calls hand over.    *)
Fairness == WF_vars(Yield) /\ WF_vars(MainExitLoop)

FairSpec == Spec /\ Fairness

-----------------------------------------------------------------------------
(* Safety.                                                                  *)

(* gt_current is the one Running thread, and the main thread's slot is      *)
(* never free.  So a thread that exits always finds somebody Ready, and     *)
(* never falls into the for (;;) that ends gt_exit.                         *)
OneRunner ==
  /\ \A t \in Slots : state[t] = "Running" <=> t = current
  /\ state[0] # "Unused"

(* A thread the scheduler may pick can go on when it is picked: its saved   *)
(* context is never the frame of gt_exit its slot's previous owner left.    *)
ReadyResumable == \A t \in ReadySlots : saved[t] # "exit"

Preempted == {t \in ReadySlots : saved[t] = "tick"}

(* The flag gt_in_schedule and the blocked SIGALRM go together, and always  *)
(* belong to one preempted thread that can still be resumed to release      *)
(* them: a tick never leaves preemption switched off for good.              *)
TickGate ==
  /\ in_schedule = alarm_blocked
  /\ in_schedule <=> Preempted # {}
  /\ \A t, u \in Preempted : t = u

(* No Ready thread is passed over for long.  Round robin reaches it within  *)
(* one turn of the table; under priorities, aging makes it as strong as any *)
(* after priority[t] decisions and the circular search then reaches it.     *)
BoundedWait ==
  \A t \in ReadySlots :
    /\ sched_policy = "RR"  => waited[t] <= MaxGThreads - 2
    /\ sched_policy = "PRI" => waited[t] <= priority[t] + MaxGThreads - 2

(* Every Ready thread wins exactly as many draws as it holds tickets: no    *)
(* draw is lost between two slots and none falls past the last one.         *)
LotteryProportional ==
  \A t \in ReadySlots :
    Cardinality({draw \in 0 .. TotalTickets - 1 : LotteryWinner(draw, t)})
      = TicketCount(t)

(* The main thread ends the process only when every other thread has        *)
(* exited ("wait until all threads terminate", main.c).                     *)
MainExitsLast ==
  exited = "done" => \A t \in Slots \ {0} : state[t] = "Unused"

-----------------------------------------------------------------------------
(* Liveness.                                                                *)

(* Under round robin and under priorities a Ready thread runs again, unless *)
(* the process is ended by SIGINT.                                          *)
NoStarvation ==
  \A t \in Slots :
    state[t] = "Ready" ~> (state[t] = "Running" \/ exited # "no")

(* Preemption comes back: whatever runs meanwhile, the thread that the tick *)
(* interrupted is resumed and SIGALRM is unblocked.                         *)
PreemptionReturns == alarm_blocked ~> (~alarm_blocked \/ exited # "no")
=============================================================================
