----------------------------- MODULE Gthr_proofs -----------------------------
(***************************************************************************)
(* Proofs about Gthr for any table size, any lowest priority, any policies *)
(* and any arguments of gt_create.  The inductive invariant IInv adds to   *)
(* the safety invariants the reason why waiting is bounded (WaitInv).  The *)
(* lottery comes last.                                                     *)
(***************************************************************************)
EXTENDS Gthr, LeastElements

(* What BoundedWait needs to be inductive.  While aging still has to lift a *)
(* thread, every decision that passed it over raised its boost; once it has *)
(* effective priority 0, and always under round robin, every decision that  *)
(* passes it over moves gt_current closer to it.                            *)
WaitInv ==
  \A t \in ReadySlots :
    /\ sched_policy = "RR" => waited[t] <= MaxGThreads - 1 - Dist(t)
    /\ sched_policy = "PRI" /\ EffectivePriority(t) > 0 => waited[t] <= boost[t]
    /\ sched_policy = "PRI" /\ EffectivePriority(t) = 0
         => waited[t] <= priority[t] + MaxGThreads - 1 - Dist(t)

IInv ==
  /\ TypeOK
  /\ OneRunner
  /\ ReadyResumable
  /\ TickGate
  /\ WaitInv
  /\ MainExitsLast

-----------------------------------------------------------------------------
(* Lemmas on the operators.                                                 *)

(* Whatever the policy, the thread chosen is a Ready one.                   *)
LEMMA NextReadyIsReady ==
  ASSUME NEW p \in Slots, NextReady(p)
  PROVE  p \in ReadySlots
BY DEF NextReady, NextReadyRR, NextReadyByPriority, NextReadyLottery, LotteryWinner

(* The circular distance from the running slot to another one is between 1  *)
(* and MaxGThreads - 1.                                                     *)
LEMMA DistRange ==
  ASSUME TypeOK, NEW t \in Slots, t # current
  PROVE  Dist(t) \in 1 .. MaxGThreads - 1
BY SlotsAssumption DEF TypeOK, Dist, Slots

(* Going to a slot that is met earlier brings every later slot closer.      *)
LEMMA DistShrinks ==
  ASSUME TypeOK, NEW p \in Slots, NEW t \in Slots,
         p # current, t # current, t # p,
         current' = p, Dist(p) <= Dist(t)
  PROVE  Dist(t)' \in Int /\ Dist(t)' <= Dist(t) - 1
BY SlotsAssumption DEF TypeOK, Dist, Slots

(* A clamped argument is a priority.                                        *)
LEMMA ClampInRange ==
  ASSUME NEW prio \in Priorities
  PROVE  ClampPriority(prio) \in GtPriorityHighest .. GtPriorityLowest
BY LowestAssumption, PrioritiesAssumption DEF ClampPriority, GtPriorityHighest

(* The effective priority never passes the base priority or the strongest.  *)
LEMMA EffectiveRange ==
  ASSUME TypeOK, NEW t \in Slots
  PROVE  /\ EffectivePriority(t) \in Nat
         /\ EffectivePriority(t) > 0 => boost[t] < priority[t]
BY LowestAssumption DEF TypeOK, EffectivePriority, GtPriorityHighest

(* A running thread is not a Ready one.                                     *)
LEMMA CurrentNotReady ==
  ASSUME OneRunner, TypeOK
  PROVE  current \notin ReadySlots
BY DEF OneRunner, TypeOK, ReadySlots

(* The bound on waiting that a reader wants, from the inductive one.        *)
LEMMA WaitInvBounds ==
  ASSUME TypeOK, OneRunner, WaitInv
  PROVE  BoundedWait
<1> SUFFICES ASSUME NEW t \in ReadySlots
             PROVE  /\ sched_policy = "RR" => waited[t] <= MaxGThreads - 2
                    /\ sched_policy = "PRI" =>
                         waited[t] <= priority[t] + MaxGThreads - 2
  BY DEF BoundedWait
<1>1. t \in Slots /\ t # current
  BY CurrentNotReady DEF ReadySlots
<1>2. Dist(t) \in 1 .. MaxGThreads - 1
  BY <1>1, DistRange
<1>3. /\ waited[t] \in Nat /\ priority[t] \in Nat /\ boost[t] \in Nat
      /\ MaxGThreads \in Nat
  BY <1>1, SlotsAssumption, LowestAssumption DEF TypeOK, GtPriorityHighest
<1>4. CASE sched_policy = "RR"
  BY <1>2, <1>3, <1>4 DEF WaitInv
<1>5. CASE sched_policy = "PRI"
  <2>1. EffectivePriority(t) \in Nat /\ (EffectivePriority(t) > 0 => boost[t] < priority[t])
    BY <1>1, EffectiveRange
  <2>2. CASE EffectivePriority(t) > 0
    <3>1. waited[t] <= boost[t] /\ boost[t] < priority[t]
      BY <2>1, <2>2, <1>5 DEF WaitInv
    <3>2. MaxGThreads >= 2
      BY <1>2, <1>3
    <3> QED BY <3>1, <3>2, <1>3, <1>5
  <2>3. CASE EffectivePriority(t) = 0
    BY <2>3, <1>2, <1>3, <1>5 DEF WaitInv
  <2> QED BY <2>1, <2>2, <2>3
<1> QED BY <1>4, <1>5

-----------------------------------------------------------------------------
(* Switching preserves the invariant: the heart of the proof, one lemma per *)
(* conjunct.                                                                *)

(* What every caller of gt_schedule_internal guarantees when it switches.   *)
Switching(p, next, how) ==
  /\ p \in ReadySlots
  /\ NextReady(p)
  /\ SwitchTo(p, next, how)
  /\ \/ next = "Ready" /\ how = "call"
     \/ next = "Ready" /\ how = "tick" /\ ~alarm_blocked
     \/ next = "Unused" /\ how = "exit" /\ current # 0
  /\ exited = "no"

(* A wait counted once more is at most one longer.                          *)
LEMMA CountWaitStep ==
  ASSUME NEW n \in Nat
  PROVE  CountWait(n) \in Nat /\ CountWait(n) <= n + 1
BY SlotsAssumption, LowestAssumption DEF CountWait, WaitBound

(* Types are preserved by a switch.                                         *)
LEMMA SwitchType ==
  ASSUME TypeOK, OneRunner, NEW p \in Slots, NEW next, NEW how,
         Switching(p, next, how)
  PROVE  TypeOK'
<1>1. boost' \in [Slots -> 0 .. GtPriorityLowest]
  BY LowestAssumption
  DEF Switching, SwitchTo, AgeReadyThreads, TypeOK, GtPriorityHighest
<1>2. waited' \in [Slots -> Nat]
  <2>1. \A t \in Slots : CountWait(waited[t]) \in Nat
    BY CountWaitStep DEF TypeOK
  <2> QED BY <2>1 DEF Switching, SwitchTo, TypeOK, ReadySlots
<1>3. in_schedule' \in BOOLEAN /\ alarm_blocked' \in BOOLEAN
  BY DEF Switching, SwitchTo, ResumeFrom
<1>4. /\ state' \in [Slots -> {"Unused", "Running", "Ready"}]
      /\ saved' \in [Slots -> {"fresh", "call", "tick", "exit"}]
      /\ current' \in Slots
  BY DEF Switching, SwitchTo, TypeOK
<1> QED BY <1>1, <1>2, <1>3, <1>4 DEF TypeOK, Switching, SwitchTo, Slots, Policies

(* The new gt_current is the one Running thread.                            *)
LEMMA SwitchOneRunner ==
  ASSUME TypeOK, OneRunner, NEW p \in Slots, NEW next, NEW how,
         Switching(p, next, how)
  PROVE  OneRunner'
<1>1. p # current /\ current \in Slots
  BY CurrentNotReady DEF Switching, TypeOK
<1>2. /\ state' = [state EXCEPT ![current] = next, ![p] = "Running"]
      /\ current' = p
      /\ next # "Running"
      /\ next = "Unused" => current # 0
  BY DEF Switching, SwitchTo
<1>3. \A t \in Slots : state'[t] = IF t = p THEN "Running"
                                   ELSE IF t = current THEN next ELSE state[t]
  BY <1>1, <1>2 DEF TypeOK
<1>4. 0 \in Slots
  BY SlotsAssumption DEF Slots
<1> QED BY <1>1, <1>2, <1>3, <1>4 DEF OneRunner

(* Who is Ready after a switch, and where each such thread stopped.         *)
LEMMA SwitchReady ==
  ASSUME TypeOK, OneRunner, NEW p \in Slots, NEW next, NEW how,
         Switching(p, next, how)
  PROVE  /\ ReadySlots' = (ReadySlots \ {p}) \cup (IF next = "Ready" THEN {current} ELSE {})
         /\ \A t \in Slots : saved'[t] = IF t = current THEN how ELSE saved[t]
         /\ p # current
         /\ current \in Slots
<1>1. p # current /\ current \in Slots
  BY CurrentNotReady DEF Switching, TypeOK
<1>2. /\ state' = [state EXCEPT ![current] = next, ![p] = "Running"]
      /\ saved' = [saved EXCEPT ![current] = how]
      /\ next \in {"Ready", "Unused"}
  BY DEF Switching, SwitchTo
<1>3. \A t \in Slots : state'[t] = IF t = p THEN "Running"
                                   ELSE IF t = current THEN next ELSE state[t]
  BY <1>1, <1>2 DEF TypeOK
<1>4. \A t \in Slots : saved'[t] = IF t = current THEN how ELSE saved[t]
  BY <1>1, <1>2 DEF TypeOK
<1>5. state[current] # "Ready"
  BY <1>1, CurrentNotReady DEF ReadySlots
<1>6. \A t \in Slots : state'[t] = "Ready" <=>
           \/ state[t] = "Ready" /\ t # p
           \/ t = current /\ next = "Ready"
  BY <1>1, <1>3, <1>5
<1>7. ReadySlots' = (ReadySlots \ {p}) \cup (IF next = "Ready" THEN {current} ELSE {})
  <2>1. ReadySlots' = {t \in Slots : state'[t] = "Ready"}
    BY DEF ReadySlots
  <2> QED BY <1>1, <1>6, <2>1 DEF ReadySlots
<1> QED BY <1>1, <1>4, <1>7

(* No thread becomes Ready in the frame of gt_exit.                         *)
LEMMA SwitchResumable ==
  ASSUME TypeOK, OneRunner, ReadyResumable, NEW p \in Slots, NEW next, NEW how,
         Switching(p, next, how)
  PROVE  ReadyResumable'
<1>1. next = "Ready" => how # "exit"
  BY DEF Switching
<1>2. ReadySlots \subseteq Slots
  BY DEF ReadySlots
<1>3. \A t \in ReadySlots' : t \in ReadySlots \/ (t = current /\ next = "Ready")
  BY SwitchReady
<1>4. \A t \in Slots : saved'[t] = IF t = current THEN how ELSE saved[t]
  BY SwitchReady
<1>5. current \in Slots
  BY SwitchReady
<1> QED BY <1>1, <1>2, <1>3, <1>4, <1>5, CurrentNotReady DEF ReadyResumable

(* The flag, the signal mask and the preempted thread stay together.        *)
LEMMA SwitchTickGate ==
  ASSUME TypeOK, OneRunner, TickGate, NEW p \in Slots, NEW next, NEW how,
         Switching(p, next, how)
  PROVE  TickGate'
<1>1. /\ in_schedule' = ((in_schedule \/ how = "tick") /\ saved[p] # "tick")
      /\ alarm_blocked' = ((alarm_blocked \/ how = "tick") /\ saved[p] # "tick")
      /\ in_schedule \in BOOLEAN /\ alarm_blocked \in BOOLEAN
  BY DEF Switching, SwitchTo, ResumeFrom, TypeOK
<1>2. in_schedule' = alarm_blocked'
  BY <1>1 DEF TickGate
<1>3. ReadySlots \subseteq Slots /\ p \in ReadySlots
  BY DEF ReadySlots, Switching
<1>4. CASE how = "tick"
  <2>1. ~alarm_blocked /\ Preempted = {} /\ next = "Ready"
    BY <1>4, <1>1 DEF Switching, TickGate
  <2>2. saved[p] # "tick"
    BY <2>1, <1>3 DEF Preempted
  <2>3. Preempted' = {current}
    BY <2>1, <1>3, <1>4, SwitchReady DEF Preempted
  <2> QED BY <2>2, <2>3, <1>1, <1>2, <1>4 DEF TickGate
<1>5. CASE how # "tick"
  <2>1. Preempted' = Preempted \ {p}
    BY <1>3, <1>5, SwitchReady, CurrentNotReady DEF Preempted
  <2>2. CASE saved[p] = "tick"
    <3>1. Preempted = {p}
      BY <2>2, <1>3 DEF TickGate, Preempted
    <3> QED BY <3>1, <2>1, <2>2, <1>1, <1>2 DEF TickGate
  <2>3. CASE saved[p] # "tick"
    <3>1. Preempted' = Preempted
      BY <2>1, <2>3 DEF Preempted
    <3> QED BY <3>1, <2>3, <1>1, <1>2, <1>5 DEF TickGate
  <2> QED BY <2>2, <2>3
<1> QED BY <1>4, <1>5

(* Waiting stays bounded: whoever is passed over gains either a boost or a  *)
(* place in the circular search.                                            *)
LEMMA SwitchWait ==
  ASSUME TypeOK, OneRunner, WaitInv, NEW p \in Slots, NEW next, NEW how,
         Switching(p, next, how)
  PROVE  WaitInv'
<1> SUFFICES ASSUME NEW t \in ReadySlots'
             PROVE  /\ sched_policy' = "RR" => waited'[t] <= MaxGThreads - 1 - Dist(t)'
                    /\ sched_policy' = "PRI" /\ EffectivePriority(t)' > 0
                         => waited'[t] <= boost'[t]
                    /\ sched_policy' = "PRI" /\ EffectivePriority(t)' = 0
                         => waited'[t] <= priority'[t] + MaxGThreads - 1 - Dist(t)'
  BY DEF WaitInv
<1>1. TypeOK' /\ OneRunner'
  BY SwitchType, SwitchOneRunner
<1>2. /\ t \in Slots /\ t # p /\ current' = p /\ p # current /\ p \in ReadySlots
      /\ t = current \/ t \in ReadySlots
  <2>1. /\ ReadySlots' = (ReadySlots \ {p}) \cup (IF next = "Ready" THEN {current} ELSE {})
        /\ p # current /\ current \in Slots
    BY SwitchReady
  <2>2. p \in ReadySlots /\ current' = p
    BY DEF Switching, SwitchTo
  <2>3. ReadySlots \subseteq Slots
    BY DEF ReadySlots
  <2> QED BY <2>1, <2>2, <2>3
<1>3. Dist(t)' \in 1 .. MaxGThreads - 1
  <2>1. t \in 0 .. MaxGThreads - 1 /\ p \in 0 .. MaxGThreads - 1
    BY <1>2 DEF Slots
  <2>2. Dist(t)' = IF t > p THEN t - p ELSE t - p + MaxGThreads
    BY <1>2 DEF Dist
  <2> QED BY <1>2, <2>1, <2>2, SlotsAssumption
<1>4. /\ sched_policy' = sched_policy /\ priority' = priority
      /\ waited'[t] = IF t \in ReadySlots \ {p} /\ sched_policy # "LS"
                        THEN CountWait(waited[t]) ELSE 0
      /\ sched_policy = "PRI" => boost'[t] = IF t \in ReadySlots /\ boost[t] < GtPriorityLowest
                                              THEN boost[t] + 1 ELSE boost[t]
  BY <1>2, LowestAssumption
  DEF Switching, SwitchTo, AgeReadyThreads, GtPriorityHighest, TypeOK
<1>5. /\ waited[t] \in Nat /\ priority[t] \in Nat /\ boost[t] \in Nat
      /\ priority[t] <= GtPriorityLowest /\ boost[t] <= GtPriorityLowest
      /\ MaxGThreads \in Nat /\ GtPriorityLowest \in Nat /\ boost'[t] \in Nat
  BY <1>1, <1>2, SlotsAssumption, LowestAssumption DEF TypeOK, GtPriorityHighest, Slots
<1>6. CASE t \notin ReadySlots
  BY <1>3, <1>4, <1>5, <1>6
<1>7. CASE t \in ReadySlots /\ sched_policy = "RR"
  <2>1. Dist(p) <= Dist(t)
    BY <1>7 DEF Switching, NextReady, NextReadyRR
  <2>2. t # current
    BY <1>7, CurrentNotReady
  <2>3. Dist(t)' \in Int /\ Dist(t)' <= Dist(t) - 1
    BY <1>2, <2>1, <2>2, DistShrinks
  <2>4. Dist(t) \in 1 .. MaxGThreads - 1
    BY <1>2, <2>2, DistRange
  <2>5. waited[t] <= MaxGThreads - 1 - Dist(t)
    BY <1>7 DEF WaitInv
  <2>6. waited'[t] \in Nat /\ waited'[t] <= waited[t] + 1
    BY <1>2, <1>4, <1>5, <1>7, CountWaitStep
  <2> QED BY <1>2, <1>4, <1>5, <1>7, <2>3, <2>4, <2>5, <2>6
<1>8. CASE t \in ReadySlots /\ sched_policy = "PRI"
  <2>1. waited'[t] \in Nat /\ waited'[t] <= waited[t] + 1
    BY <1>2, <1>4, <1>5, <1>8, CountWaitStep
  <2>2. /\ EffectivePriority(t) = IF priority[t] - boost[t] < 0
                                    THEN 0 ELSE priority[t] - boost[t]
        /\ EffectivePriority(t)' = IF priority[t] - boost'[t] < 0
                                     THEN 0 ELSE priority[t] - boost'[t]
    BY <1>4 DEF EffectivePriority, GtPriorityHighest
  <2>3. t # current
    BY <1>8, CurrentNotReady
  <2>4. CASE EffectivePriority(t) > 0
    <3>1. waited[t] <= boost[t] /\ boost[t] < priority[t]
      BY <1>5, <1>8, <2>2, <2>4 DEF WaitInv
    <3>2. boost'[t] = boost[t] + 1
      BY <1>4, <1>5, <1>8, <3>1
    <3> QED BY <1>3, <1>4, <1>5, <1>8, <2>1, <2>2, <3>1, <3>2
  <2>5. CASE EffectivePriority(t) = 0
    <3>1. EffectivePriority(p) \in Nat
      BY EffectiveRange
    <3>2. Dist(p) <= Dist(t)
      BY <1>8, <2>5, <3>1 DEF Switching, NextReady, NextReadyByPriority
    <3>3. Dist(t)' \in Int /\ Dist(t)' <= Dist(t) - 1
      BY <1>2, <2>3, <3>2, DistShrinks
    <3>4. Dist(t) \in 1 .. MaxGThreads - 1
      BY <1>2, <2>3, DistRange
    <3>5. waited[t] <= priority[t] + MaxGThreads - 1 - Dist(t)
      BY <1>8, <2>5 DEF WaitInv
    <3>6. EffectivePriority(t)' = 0
      BY <1>4, <1>5, <1>8, <2>2, <2>5
    <3> QED BY <1>4, <1>5, <1>8, <2>1, <3>3, <3>4, <3>5, <3>6
  <2> QED BY <1>2, <2>4, <2>5, EffectiveRange
<1>9. CASE t \in ReadySlots /\ sched_policy = "LS"
  BY <1>4, <1>9
<1> QED BY <1>6, <1>7, <1>8, <1>9 DEF TypeOK, Policies

(* All together.                                                            *)
LEMMA SwitchStep ==
  ASSUME IInv, NEW p \in Slots, NEW next, NEW how, Switching(p, next, how)
  PROVE  IInv'
<1>1. TypeOK' /\ OneRunner' /\ ReadyResumable' /\ TickGate' /\ WaitInv'
  BY SwitchType, SwitchOneRunner, SwitchResumable, SwitchTickGate, SwitchWait DEF IInv
<1>2. MainExitsLast'
  BY DEF Switching, SwitchTo, MainExitsLast
<1> QED BY <1>1, <1>2 DEF IInv

(* With nobody Ready only the exiting thread's own slot could change, and   *)
(* the invariant says that the main thread would have been Ready.           *)
LEMMA ScheduleStep ==
  ASSUME IInv, NEW next, NEW how, Schedule(next, how), exited = "no",
         \/ next = "Ready" /\ how = "call"
         \/ next = "Ready" /\ how = "tick" /\ ~alarm_blocked
         \/ next = "Unused" /\ how = "exit" /\ current # 0
  PROVE  IInv'
<1>1. CASE ReadySlots # {}
  <2>1. PICK p \in Slots : NextReady(p) /\ SwitchTo(p, next, how)
    BY <1>1 DEF Schedule
  <2>2. Switching(p, next, how)
    BY <2>1, NextReadyIsReady DEF Switching
  <2> QED BY <2>2, SwitchStep
<1>2. CASE ReadySlots = {}
  <2>1. 0 \in Slots /\ (state[0] = "Running" <=> 0 = current) /\ state[0] # "Unused"
    BY SlotsAssumption DEF IInv, OneRunner, Slots
  <2>2. state[0] = "Running"
    BY <1>2, <2>1 DEF IInv, TypeOK, ReadySlots
  <2>3. next = "Ready"
    BY <2>1, <2>2
  <2>4. UNCHANGED vars
    BY <1>2, <2>3 DEF Schedule, IInv, TypeOK, vars
  <2> QED BY <2>4
      DEF IInv, vars, TypeOK, OneRunner, ReadyResumable, TickGate, Preempted, WaitInv,
          MainExitsLast, ReadySlots, Dist, EffectivePriority, Slots, Policies
<1> QED BY <1>1, <1>2

-----------------------------------------------------------------------------
(* The inductive invariant.                                                 *)

(* gt_init establishes it.                                                  *)
LEMMA InitIInv == Init => IInv
<1> SUFFICES ASSUME Init PROVE IInv
  OBVIOUS
<1>1. 0 \in Slots /\ ReadySlots = {}
  BY SlotsAssumption DEF Init, Slots, ReadySlots
<1>2. TypeOK
  <2>1. /\ priority \in [Slots -> GtPriorityHighest .. GtPriorityLowest]
        /\ boost \in [Slots -> 0 .. GtPriorityLowest]
    BY LowestAssumption DEF Init, GtPriorityHighest
  <2>2. /\ sched_policy \in Policies
        /\ current \in Slots
        /\ state \in [Slots -> {"Unused", "Running", "Ready"}]
        /\ saved \in [Slots -> {"fresh", "call", "tick", "exit"}]
        /\ waited \in [Slots -> Nat]
    BY <1>1, PoliciesAssumption DEF Init
  <2> QED BY <2>1, <2>2 DEF Init, TypeOK
<1>3. OneRunner
  BY <1>1 DEF Init, OneRunner
<1>4. ReadyResumable /\ TickGate /\ WaitInv
  BY <1>1 DEF Init, ReadyResumable, TickGate, Preempted, WaitInv
<1>5. MainExitsLast
  BY DEF Init, MainExitsLast
<1> QED BY <1>2, <1>3, <1>4, <1>5 DEF IInv

(* A new thread starts with nothing waited, in a slot that is not running.  *)
LEMMA CreateStep ==
  ASSUME IInv, NEW prio \in Priorities, CreateThread(prio)
  PROVE  IInv'
<1>1. PICK p \in FreeSlots :
        /\ state' = [state EXCEPT ![p] = "Ready"]
        /\ priority' = [priority EXCEPT ![p] = ClampPriority(prio)]
        /\ boost' = [boost EXCEPT ![p] = 0]
        /\ saved' = [saved EXCEPT ![p] = "fresh"]
        /\ waited' = [waited EXCEPT ![p] = 0]
  BY DEF CreateThread, FreshContext
<1>2. /\ UNCHANGED <<sched_policy, current, in_schedule, alarm_blocked, main_exiting, exited>>
      /\ exited = "no"
  BY DEF CreateThread, InThreadCode
<1>3. p \in Slots /\ p # 0 /\ state[p] = "Unused" /\ p # current /\ p \notin ReadySlots
  BY DEF FreeSlots, IInv, OneRunner, ReadySlots
<1>4. TypeOK'
  <2>1. boost' \in [Slots -> 0 .. GtPriorityLowest]
    BY <1>1, <1>3, LowestAssumption DEF IInv, TypeOK
  <2>2. priority' \in [Slots -> GtPriorityHighest .. GtPriorityLowest]
    BY <1>1, <1>3, ClampInRange DEF IInv, TypeOK
  <2>3. /\ state' \in [Slots -> {"Unused", "Running", "Ready"}]
        /\ saved' \in [Slots -> {"fresh", "call", "tick", "exit"}]
        /\ waited' \in [Slots -> Nat]
    BY <1>1, <1>3 DEF IInv, TypeOK
  <2> QED BY <1>2, <2>1, <2>2, <2>3 DEF IInv, TypeOK, Slots, Policies
<1>5. OneRunner'
  BY <1>1, <1>2, <1>3 DEF IInv, TypeOK, OneRunner
<1>6. ReadySlots' = ReadySlots \cup {p}
  BY <1>1, <1>3 DEF IInv, TypeOK, ReadySlots
<1>7. \A t \in Slots : /\ saved'[t] = IF t = p THEN "fresh" ELSE saved[t]
                       /\ t # p => /\ boost'[t] = boost[t]
                                   /\ priority'[t] = priority[t]
                                   /\ waited'[t] = waited[t]
  BY <1>1, <1>3 DEF IInv, TypeOK
<1>8. ReadySlots \subseteq Slots
  BY DEF ReadySlots
<1>9. ReadyResumable'
  BY <1>3, <1>6, <1>7, <1>8 DEF IInv, ReadyResumable
<1>10. Preempted' = Preempted
  BY <1>3, <1>6, <1>7, <1>8 DEF Preempted
<1>11. TickGate'
  BY <1>2, <1>10 DEF IInv, TickGate
<1>12. WaitInv'
  <2> SUFFICES ASSUME NEW t \in ReadySlots'
               PROVE  /\ sched_policy' = "RR" => waited'[t] <= MaxGThreads - 1 - Dist(t)'
                      /\ sched_policy' = "PRI" /\ EffectivePriority(t)' > 0
                           => waited'[t] <= boost'[t]
                      /\ sched_policy' = "PRI" /\ EffectivePriority(t)' = 0
                           => waited'[t] <= priority'[t] + MaxGThreads - 1 - Dist(t)'
    BY DEF WaitInv
  <2>1. Dist(t)' = Dist(t) /\ t \in Slots
    BY <1>2, <1>3, <1>6, <1>8 DEF Dist
  <2>2. CASE t # p
    <3>1. t \in ReadySlots
      BY <1>6, <2>2
    <3>2. EffectivePriority(t)' = EffectivePriority(t)
      BY <1>7, <2>1, <2>2 DEF EffectivePriority, GtPriorityHighest
    <3> QED BY <1>2, <1>7, <2>1, <2>2, <3>1, <3>2 DEF IInv, WaitInv
  <2>3. CASE t = p
    <3>1. waited'[t] = 0 /\ boost'[t] = 0
      BY <1>1, <1>3, <2>3 DEF IInv, TypeOK
    <3>2. Dist(t) \in 1 .. MaxGThreads - 1
      BY <1>3, <2>3, DistRange DEF IInv
    <3>3. priority'[t] \in Nat
      BY <1>4, <2>1, LowestAssumption DEF TypeOK, GtPriorityHighest, Slots
    <3> QED BY <2>1, <3>1, <3>2, <3>3, SlotsAssumption
  <2> QED BY <2>2, <2>3
<1>13. MainExitsLast'
  BY <1>2 DEF MainExitsLast
<1> QED BY <1>4, <1>5, <1>9, <1>11, <1>12, <1>13 DEF IInv

(* A change of policy starts the count of waited decisions afresh.          *)
LEMMA SetSchedulerStep ==
  ASSUME IInv, NEW policy, SetScheduler(policy)
  PROVE  IInv'
<1>1. /\ sched_policy' \in Policies
      /\ waited' = [t \in Slots |-> 0]
      /\ UNCHANGED <<state, priority, boost, saved, current, in_schedule,
                     alarm_blocked, main_exiting, exited>>
  BY DEF SetScheduler, Policies
<1>2. TypeOK'
  BY <1>1 DEF IInv, TypeOK, Slots, Policies
<1>3. OneRunner' /\ ReadyResumable' /\ TickGate' /\ MainExitsLast'
  BY <1>1 DEF IInv, OneRunner, ReadyResumable, TickGate, Preempted, ReadySlots, Slots,
             MainExitsLast
<1>4. WaitInv'
  <2> SUFFICES ASSUME NEW t \in ReadySlots
               PROVE  /\ waited'[t] <= MaxGThreads - 1 - Dist(t)
                      /\ waited'[t] <= boost[t]
                      /\ waited'[t] <= priority[t] + MaxGThreads - 1 - Dist(t)
    BY <1>1 DEF WaitInv, ReadySlots, Slots, Dist, EffectivePriority
  <2>1. t \in Slots /\ t # current /\ waited'[t] = 0
    BY <1>1, CurrentNotReady DEF IInv, ReadySlots
  <2>2. Dist(t) \in 1 .. MaxGThreads - 1
    BY <2>1, DistRange DEF IInv
  <2>3. boost[t] \in Nat /\ priority[t] \in Nat
    BY <2>1, LowestAssumption DEF IInv, TypeOK, GtPriorityHighest
  <2> QED BY <2>1, <2>2, <2>3, SlotsAssumption
<1> QED BY <1>2, <1>3, <1>4 DEF IInv

(* Steps that touch neither the table nor the gate.                         *)
LEMMA QuietStep ==
  ASSUME IInv, main_exiting' \in BOOLEAN,
         exited' \in {"no", "done", "sigint"},
         exited' = "done" => (ReadySlots = {} /\ current = 0) \/ exited = "done",
         UNCHANGED <<sched_policy, state, priority, boost, saved, current,
                     in_schedule, alarm_blocked, waited>>
  PROVE  IInv'
<1>1. TypeOK'
  BY DEF IInv, TypeOK, Slots, Policies
<1>2. OneRunner' /\ ReadyResumable' /\ TickGate' /\ WaitInv'
  BY DEF IInv, OneRunner, ReadyResumable, TickGate, Preempted, ReadySlots, Slots,
         WaitInv, Dist, EffectivePriority
<1>3. ASSUME ReadySlots = {}, current = 0
      PROVE  \A t \in Slots \ {0} : state[t] = "Unused"
  BY <1>3 DEF IInv, TypeOK, OneRunner, ReadySlots
<1>4. MainExitsLast'
  BY <1>3 DEF IInv, MainExitsLast, Slots
<1> QED BY <1>1, <1>2, <1>4 DEF IInv

(* Every step of the library and every signal preserves the invariant.      *)
LEMMA NextIInv == IInv /\ [Next]_vars => IInv'
<1> SUFFICES ASSUME IInv, [Next]_vars PROVE IInv'
  OBVIOUS
<1>1. ASSUME NEW prio \in Priorities, CreateThread(prio) PROVE IInv'
  BY <1>1, CreateStep
<1>2. ASSUME NEW policy \in RuntimePolicies, SetScheduler(policy) PROVE IInv'
  BY <1>2, SetSchedulerStep
<1>3. CASE Yield
  BY <1>3, ScheduleStep DEF Yield, InThreadCode
<1>4. CASE ExitThread
  BY <1>4, ScheduleStep DEF ExitThread, InThreadCode
<1>5. CASE MainExitLoop
  BY <1>5, ScheduleStep DEF MainExitLoop, InMainExitLoop
<1>6. CASE Tick
  <2>1. CASE in_schedule
    BY <1>6, <2>1 DEF Tick, IInv, TickGate
  <2>2. CASE ~in_schedule
    BY <1>6, <2>2, ScheduleStep DEF Tick
  <2> QED BY <2>1, <2>2
<1>7. CASE MainExit
  BY <1>7, QuietStep DEF MainExit, InThreadCode
<1>8. CASE PlatformExit
  BY <1>8, QuietStep DEF PlatformExit, InMainExitLoop, IInv, TypeOK
<1>9. CASE Sigint
  BY <1>9, QuietStep DEF Sigint, IInv, TypeOK
<1>10. CASE UNCHANGED vars
  BY <1>10, QuietStep DEF vars, IInv, TypeOK
<1> QED BY <1>1, <1>2, <1>3, <1>4, <1>5, <1>6, <1>7, <1>8, <1>9, <1>10
    DEF Next, CreateFails, Ended

(* The inductive invariant holds in every reachable state.                  *)
THEOREM Invariance == Spec => []IInv
BY InitIInv, NextIInv, PTL DEF Spec

-----------------------------------------------------------------------------
(* What a reader should know of.                                            *)

(* Every variable keeps its type: in particular the aging boost and the     *)
(* clamped priority never leave the range of priorities.                    *)
THEOREM TypeCorrect == Spec => []TypeOK
<1>1. IInv => TypeOK
  BY DEF IInv
<1> QED BY <1>1, Invariance, PTL

(* gt_current is always the only Running thread and the main thread's slot  *)
(* is never freed, for any table size and any policy.                       *)
THEOREM AlwaysOneRunner == Spec => []OneRunner
<1>1. IInv => OneRunner
  BY DEF IInv
<1> QED BY <1>1, Invariance, PTL

(* A thread that is picked never resumes in the frame of an earlier gt_exit.*)
THEOREM AlwaysResumable == Spec => []ReadyResumable
<1>1. IInv => ReadyResumable
  BY DEF IInv
<1> QED BY <1>1, Invariance, PTL

(* gt_in_schedule and the blocked SIGALRM always belong to one preempted    *)
(* thread that is Ready to give them back.                                  *)
THEOREM TickGateHolds == Spec => []TickGate
<1>1. IInv => TickGate
  BY DEF IInv
<1> QED BY <1>1, Invariance, PTL

(* Under round robin a Ready thread is passed over by at most               *)
(* MaxGThreads - 2 decisions, under priorities by at most its base priority *)
(* plus that: 6 and 16 with the constants of gthr.h.                        *)
THEOREM WaitIsBounded == Spec => []BoundedWait
<1>1. IInv => BoundedWait
  BY WaitInvBounds DEF IInv
<1> QED BY <1>1, Invariance, PTL

(* The process ends by the main thread's gt_exit only when no other thread  *)
(* is left.                                                                 *)
THEOREM MainWaitsForAll == Spec => []MainExitsLast
<1>1. IInv => MainExitsLast
  BY DEF IInv
<1> QED BY <1>1, Invariance, PTL

-----------------------------------------------------------------------------
(* The lottery, for any priorities and any tickets.  A sum over a set of    *)
(* slots is a recursive definition; it is reasoned about through a set that *)
(* has as many elements: the tickets themselves, pairs of a slot and a      *)
(* number.                                                                  *)

TicketsOf == [t \in Slots |-> TicketCount(t)]

Tickets(s) == Tokens(TicketsOf, GtPriorityLowest + 1, s)

LEMMA SlotsFinite == IsFiniteSet(Slots)
  BY FS_Interval, SlotsAssumption DEF Slots

LEMMA TicketCountPositive ==
  ASSUME TypeOK, NEW t \in Slots
  PROVE  TicketCount(t) \in 1 .. GtPriorityLowest + 1
  BY LowestAssumption DEF TypeOK, TicketCount, GtPriorityHighest

LEMMA TicketsOfType ==
  ASSUME TypeOK
  PROVE  /\ GtPriorityLowest + 1 \in Nat
         /\ TicketsOf \in [Slots -> 0 .. GtPriorityLowest + 1]
  BY TicketCountPositive, LowestAssumption DEF TicketsOf

LEMMA TicketsFinite ==
  ASSUME NEW s, s \subseteq Slots
  PROVE  IsFiniteSet(Tickets(s)) /\ Cardinality(Tickets(s)) \in Nat
<1>1. IsFiniteSet(s) /\ GtPriorityLowest + 1 \in Nat
  BY SlotsFinite, FS_Subset, LowestAssumption
<1>. QED
  BY <1>1, TokensFinite DEF Tickets

(* Taking a slot away takes away its tickets.                               *)
LEMMA TicketsWithout ==
  ASSUME TypeOK, NEW s, s \subseteq Slots, NEW t \in s
  PROVE  Cardinality(Tickets(s)) = TicketCount(t) + Cardinality(Tickets(s \ {t}))
<1>1. Cardinality(Tickets(s)) = TicketsOf[t] + Cardinality(Tickets(s \ {t}))
  BY SlotsFinite, TicketsOfType, TokensWithout DEF Tickets
<1>. QED
  BY <1>1 DEF TicketsOf

(* The sum the code computes in a loop is the number of tickets.            *)
LEMMA SumIsTicketNumber ==
  ASSUME TypeOK, NEW S, S \subseteq Slots
  PROVE  MapThenSumSet(TicketCount, S) = Cardinality(Tickets(S))
<1> DEFINE f == [t \in S |-> TicketCount(t)]
           Step(h) == [s \in SUBSET S |->
                         IF s = {} THEN 0
                         ELSE TicketCount(CHOOSE x \in s : TRUE)
                                + h[s \ {CHOOSE x \in s : TRUE}]]
           m == GtPriorityLowest + 1
<1>1. f \in [S -> 0 .. m] /\ IsFiniteSet(S) /\ m \in Nat
  BY TicketsOfType, TicketCountPositive, SlotsFinite, FS_Subset
<1>2. \A h : Step(h) = SumStep(f, S, h)
  <2>1. \A s \in SUBSET S : s # {} => (CHOOSE x \in s : TRUE) \in S
    OBVIOUS
  <2>. QED
    BY <2>1 DEF SumStep
<1>3. MapThenSumSet(TicketCount, S) = (CHOOSE h : h = Step(h))[S]
  BY DEF MapThenSumSet, MapThenFoldSet
<1>. HIDE DEF Step, f, m
<1>4. MapThenSumSet(TicketCount, S) = SumOf(f, S)
  BY <1>2, <1>3 DEF SumOf
<1>5. Tokens(f, m, S) = Tickets(S)
  BY DEF Tokens, Tickets, TicketsOf, f, m
<1>6. SumOf(f, S) = Cardinality(Tokens(f, m, S))
  BY <1>1, SumIsTokenNumber
<1>. QED
  BY <1>4, <1>5, <1>6

-----------------------------------------------------------------------------
(* The lottery.                                                             *)

(* Each Ready slot's cumulative count ends where its own tickets end, and   *)
(* these begin where the last Ready slot before it ended.                   *)
LEMMA CumulativeTicketsSplit ==
  ASSUME TypeOK, NEW t \in ReadySlots
  PROVE  \E low \in Nat :
           /\ CumulativeTickets(t) = low + TicketCount(t)
           /\ \A u \in ReadySlots : u < t => CumulativeTickets(u) <= low
           /\ \A draw \in Nat :
                (\A u \in ReadySlots : u < t => CumulativeTickets(u) <= draw) => low <= draw
<1> DEFINE before == {u \in ReadySlots : u < t}
           upto(u) == {v \in ReadySlots : v <= u}
           low == Cardinality(Tickets(before))
<1>1. \A u \in ReadySlots : upto(u) \subseteq Slots /\ u \in Slots
  BY DEF ReadySlots
<1>2. \A u \in ReadySlots : CumulativeTickets(u) = Cardinality(Tickets(upto(u)))
  BY <1>1, SumIsTicketNumber DEF CumulativeTickets
<1>3. before \subseteq Slots /\ low \in Nat
  BY TicketsFinite DEF ReadySlots
<1>4. CumulativeTickets(t) = low + TicketCount(t)
  <2>1. upto(t) \ {t} = before
    BY <1>1 DEF Slots
  <2>2. t \in upto(t)
    BY <1>1 DEF Slots
  <2>3. Cardinality(Tickets(upto(t))) =
          TicketCount(t) + Cardinality(Tickets(upto(t) \ {t}))
    BY <1>1, <2>2, TicketsWithout
  <2>4. TicketCount(t) \in Nat
    BY <1>1, TicketCountPositive
  <2>5. Cardinality(Tickets(upto(t) \ {t})) = low
    BY <2>1, Zenon
  <2>6. CumulativeTickets(t) = Cardinality(Tickets(upto(t)))
    BY <1>2
  <2>. HIDE DEF upto, low
  <2>. QED
    BY <1>3, <2>3, <2>4, <2>5, <2>6
<1>5. ASSUME NEW u \in ReadySlots, u < t PROVE CumulativeTickets(u) <= low
  <2>1. Tickets(upto(u)) \in SUBSET Tickets(before)
    BY <1>1, <1>5 DEF Tickets, Tokens, Slots
  <2>2. IsFiniteSet(Tickets(before))
    BY <1>3, TicketsFinite
  <2>3. Cardinality(Tickets(upto(u))) <= low
    BY <2>1, <2>2, FS_Subset
  <2>. QED
    BY <1>2, <2>3
<1>6. ASSUME NEW draw \in Nat, \A u \in ReadySlots : u < t => CumulativeTickets(u) <= draw
      PROVE  low <= draw
  <2>1. CASE before = {}
    <3>1. Tickets(before) = {}
      BY <2>1 DEF Tickets, Tokens
    <3>2. low = 0
      BY <3>1, FS_EmptySet
    <3>. QED
      BY <3>2
  <2>2. CASE before # {}
    <3>1. PICK u \in before : \A v \in before : v <= u
      <4>1. before \subseteq 0 .. MaxGThreads - 1 /\ MaxGThreads - 1 \in Nat
        BY <1>3, SlotsAssumption DEF Slots
      <4>. HIDE DEF before
      <4>. QED
        BY <2>2, <4>1, GreatestNumber
    <3>2. upto(u) = before
      BY <1>1, <3>1 DEF Slots
    <3>3. CumulativeTickets(u) = low
      BY <1>2, <3>1, <3>2
    <3>. QED
      BY <1>6, <3>1, <3>3
  <2>. QED
    BY <2>1, <2>2
<1>. QED
  BY <1>3, <1>4, <1>5, <1>6

(* A slot's cumulative count is at most that of all slots.                  *)
LEMMA CumulativeAtMostTotal ==
  ASSUME TypeOK, NEW t \in ReadySlots
  PROVE  TotalTickets \in Nat /\ CumulativeTickets(t) <= TotalTickets
<1> DEFINE upto(u) == {v \in ReadySlots : v <= u}
<1>1. upto(t) \subseteq upto(MaxGThreads - 1) /\ upto(MaxGThreads - 1) \subseteq Slots
  BY SlotsAssumption DEF ReadySlots, Slots
<1>2. CumulativeTickets(t) = Cardinality(Tickets(upto(t)))
  BY <1>1, SumIsTicketNumber DEF CumulativeTickets
<1>3. TotalTickets = Cardinality(Tickets(upto(MaxGThreads - 1)))
  BY <1>1, SumIsTicketNumber DEF TotalTickets, CumulativeTickets
<1>4. Tickets(upto(t)) \in SUBSET Tickets(upto(MaxGThreads - 1))
  BY <1>1 DEF Tickets, Tokens
<1>. HIDE DEF upto
<1>5. IsFiniteSet(Tickets(upto(MaxGThreads - 1)))
  BY <1>1, TicketsFinite
<1>. QED
  BY <1>1, <1>2, <1>3, <1>4, <1>5, FS_Subset, TicketsFinite

(* The draws a Ready slot wins are an interval as long as its tickets.      *)
LEMMA WinningDraws ==
  ASSUME TypeOK, NEW t \in ReadySlots
  PROVE  \E low \in Nat :
           {draw \in 0 .. TotalTickets - 1 : LotteryWinner(draw, t)}
             = low .. low + TicketCount(t) - 1
<1>1. PICK low \in Nat :
        /\ CumulativeTickets(t) = low + TicketCount(t)
        /\ \A u \in ReadySlots : u < t => CumulativeTickets(u) <= low
        /\ \A draw \in Nat :
             (\A u \in ReadySlots : u < t => CumulativeTickets(u) <= draw) => low <= draw
  BY CumulativeTicketsSplit
<1>2. TotalTickets \in Nat /\ CumulativeTickets(t) <= TotalTickets
  BY CumulativeAtMostTotal
<1>3. TicketCount(t) \in Nat
  BY TicketCountPositive DEF ReadySlots
<1>4. \A u \in ReadySlots : CumulativeTickets(u) \in Nat
  <2>1. \A u \in ReadySlots : {v \in ReadySlots : v <= u} \subseteq Slots
    BY DEF ReadySlots
  <2>. QED
    BY <2>1, SumIsTicketNumber, TicketsFinite DEF CumulativeTickets
<1>5. \A draw \in Nat : LotteryWinner(draw, t) <=> draw \in low .. low + TicketCount(t) - 1
  BY <1>1, <1>3, <1>4 DEF LotteryWinner
<1>. QED
  BY <1>1, <1>2, <1>3, <1>5

LEMMA DrawsAreTickets ==
  ASSUME TypeOK
  PROVE  LotteryProportional
<1> SUFFICES ASSUME NEW t \in ReadySlots
             PROVE  Cardinality({draw \in 0 .. TotalTickets - 1 : LotteryWinner(draw, t)})
                      = TicketCount(t)
  BY DEF LotteryProportional
<1>1. PICK low \in Nat :
        {draw \in 0 .. TotalTickets - 1 : LotteryWinner(draw, t)}
          = low .. low + TicketCount(t) - 1
  BY WinningDraws
<1>2. TicketCount(t) \in Nat
  BY TicketCountPositive DEF ReadySlots
<1>3. Cardinality(low .. low + TicketCount(t) - 1) = TicketCount(t)
  BY <1>2, FS_Interval
<1>. QED
  BY <1>1, <1>3

(* So a thread that is Ready can win, whatever tickets the others hold.     *)
LEMMA ReadyCanWin ==
  ASSUME TypeOK, NEW t \in ReadySlots
  PROVE  NextReadyLottery(t)
<1>1. PICK low \in Nat :
        {draw \in 0 .. TotalTickets - 1 : LotteryWinner(draw, t)}
          = low .. low + TicketCount(t) - 1
  BY WinningDraws
<1>2. low \in low .. low + TicketCount(t) - 1
  BY TicketCountPositive, LowestAssumption DEF ReadySlots
<1>. QED
  BY <1>1, <1>2 DEF NextReadyLottery

(* In every reachable state a Ready thread wins exactly as many draws as it *)
(* holds tickets, whatever the table and the priorities: the cumulative     *)
(* counts of gt_next_ready_lottery lose no draw and give none away.         *)
THEOREM LotteryIsProportional == Spec => []LotteryProportional
  BY TypeCorrect, DrawsAreTickets, PTL
=============================================================================
