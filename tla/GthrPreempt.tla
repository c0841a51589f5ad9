----------------------------- MODULE GthrPreempt -----------------------------
(***************************************************************************)
(* The same library one level down: gt_schedule_internal, gt_create and    *)
(* gt_exit step by step, and the SIGALRM handler that may interrupt them.  *)
(*                                                                         *)
(* Nothing in gthr.c blocks SIGALRM, so a tick can arrive at any step; the *)
(* constant TickPoints says at which ones it does.  With only SafePoints   *)
(* the module implements Gthr; with the others it shows what goes wrong.   *)
(*                                                                         *)
(* stack[t] is the call stack in gt_stacks[t] (the process's own for main),*)
(* a sequence of frames; exec is the stack the processor is on.  A context *)
(* is what gt_switch saves: a stack pointer, that is a stack and a depth.  *)
(* Memory above a stack pointer is not kept, and loading a pointer whose   *)
(* frames have been popped since is undefined: the process is "corrupt".   *)
(*                                                                         *)
(* The policy is the lottery, where any Ready thread may win: which one is *)
(* of no interest here.                                                    *)
(***************************************************************************)
EXTENDS Integers, Sequences, SequencesExt

CONSTANTS
  MaxGThreads,   \* slots of gt_table
  TickPoints     \* steps of the running thread where SIGALRM may arrive

Steps == {"tramp", "user", "create", "pick", "leave", "enter", "publish", "switch",
          "return", "handler", "exit", "mainexit"}
SafePoints == {"tramp", "user", "return", "mainexit"}

ASSUME PreemptSlotsAssumption == MaxGThreads \in Nat \ {0}
ASSUME TickPointsAssumption == TickPoints \subseteq Steps

Slots == 0 .. MaxGThreads - 1
None == -1

(* A frame is at step pc; p is the thread it has found or chosen, old the   *)
(* thread whose context gt_switch is going to write.                        *)
Frame(pc, p, old) == [pc |-> pc, p |-> p, old |-> old]
At(pc) == Frame(pc, None, None)

VARIABLES
  state,           \* gt_table[t].state
  ctx,             \* gt_table[t].ctx.rsp: [stack, depth]
  gt_current,      \* gt_current
  in_schedule,     \* gt_in_schedule
  alarm_blocked,   \* SIGALRM in the signal mask
  stack,           \* the call stacks
  exec,            \* the stack that is executing
  exited,          \* "no", "done", "sigint" or "corrupt"
  saved            \* history: where each context was saved, as in Gthr

vars == <<state, ctx, gt_current, in_schedule, alarm_blocked, stack, exec, exited, saved>>

Frames == [pc : Steps, p : Slots \cup {None}, old : Slots \cup {None}]

TypeOK ==
  /\ state \in [Slots -> {"Unused", "Running", "Ready"}]
  /\ ctx \in [Slots -> [stack : Slots, depth : 0 .. 4]]
  /\ gt_current \in Slots
  /\ in_schedule \in BOOLEAN
  /\ alarm_blocked \in BOOLEAN
  /\ \A t \in Slots : stack[t] \in Seq(Frames) /\ Len(stack[t]) <= 4
  /\ exec \in Slots
  /\ exited \in {"no", "done", "sigint", "corrupt"}
  /\ saved \in [Slots -> {"fresh", "call", "tick", "exit"}]

Init ==
  /\ state = [t \in Slots |-> IF t = 0 THEN "Running" ELSE "Unused"]
  /\ ctx = [t \in Slots |-> [stack |-> t, depth |-> 0]]
  /\ gt_current = 0
  /\ in_schedule = FALSE
  /\ alarm_blocked = FALSE
  /\ stack = [t \in Slots |-> IF t = 0 THEN <<At("user")>> ELSE <<>>]
  /\ exec = 0
  /\ exited = "no"
  /\ saved = [t \in Slots |-> "exit"]

-----------------------------------------------------------------------------
Top == Last(stack[exec])
Running(pc) == exited = "no" /\ Top.pc = pc

Push(frame) == [stack EXCEPT ![exec] = Append(@, frame)]
Pop == [stack EXCEPT ![exec] = Front(@)]
Replace(frame) == [stack EXCEPT ![exec] = Append(Front(@), frame)]

ReadySlots == {t \in Slots : state[t] = "Ready"}
FreeSlots == {t \in Slots \ {0} : state[t] = "Unused"}

-----------------------------------------------------------------------------
(* gt_create: find the first free slot, then fill it in and make it Ready.  *)
CreateFind ==
  /\ Running("user")
  /\ \E p \in FreeSlots :
       /\ \A q \in FreeSlots : p <= q
       /\ stack' = Push(Frame("create", p, None))
  /\ UNCHANGED <<state, ctx, gt_current, in_schedule, alarm_blocked, exec, exited, saved>>

CreateFill ==
  /\ Running("create")
  /\ LET p == Top.p IN
       /\ stack' = [Pop EXCEPT ![p] = <<At("tramp")>>]
       /\ ctx' = [ctx EXCEPT ![p] = [stack |-> p, depth |-> 1]]
       /\ state' = [state EXCEPT ![p] = "Ready"]
       /\ saved' = [saved EXCEPT ![p] = "fresh"]
  /\ UNCHANGED <<gt_current, in_schedule, alarm_blocked, exec, exited>>

(* gt_thread_trampoline calls the thread's entry function.                  *)
Start ==
  /\ Running("tramp")
  /\ stack' = Replace(At("user"))
  /\ UNCHANGED <<state, ctx, gt_current, in_schedule, alarm_blocked, exec, exited, saved>>

Yield ==
  /\ Running("user")
  /\ stack' = Push(At("pick"))
  /\ UNCHANGED <<state, ctx, gt_current, in_schedule, alarm_blocked, exec, exited, saved>>

FaultyExitThread ==
  /\ Running("user")
  /\ gt_current # 0
  /\ stack' = [stack EXCEPT ![exec] = <<At("exit"), At("pick")>>]
  /\ UNCHANGED <<state, ctx, gt_current, in_schedule, alarm_blocked, exec, exited, saved>>

(* gt_exit: free the slot, then call gt_schedule_internal.                  *)
ExitThread ==
  /\ Running("user")
  /\ gt_current # 0
  /\ state' = [state EXCEPT ![gt_current] = "Unused"]
  /\ stack' = [stack EXCEPT ![exec] = <<At("exit"), At("pick")>>]
  /\ UNCHANGED <<ctx, gt_current, in_schedule, alarm_blocked, exec, exited, saved>>

MainExit ==
  /\ Running("user")
  /\ gt_current = 0
  /\ stack' = Replace(At("mainexit"))
  /\ UNCHANGED <<state, ctx, gt_current, in_schedule, alarm_blocked, exec, exited, saved>>

MainExitLoop ==
  /\ Running("mainexit")
  /\ stack' = Push(At("pick"))
  /\ UNCHANGED <<state, ctx, gt_current, in_schedule, alarm_blocked, exec, exited, saved>>

-----------------------------------------------------------------------------
(* gt_schedule_internal.                                                    *)

Pick ==
  /\ Running("pick")
  /\ \E p \in ReadySlots : stack' = Replace(Frame("leave", p, None))
  /\ UNCHANGED <<state, ctx, gt_current, in_schedule, alarm_blocked, exec, exited, saved>>

(* It returns false; main's loop then ends the process.                     *)
PickNobody ==
  /\ Running("pick")
  /\ ReadySlots = {}
  /\ stack' = Pop
  /\ exited' = IF Last(Front(stack[exec])).pc = "mainexit" THEN "done" ELSE "no"
  /\ UNCHANGED <<state, ctx, gt_current, in_schedule, alarm_blocked, exec, saved>>

Leave ==
  /\ Running("leave")
  /\ state' = [state EXCEPT ![gt_current] = IF @ # "Unused" THEN "Ready" ELSE @]
  /\ stack' = Replace([Top EXCEPT !.pc = "enter"])
  /\ UNCHANGED <<ctx, gt_current, in_schedule, alarm_blocked, exec, exited, saved>>

Enter ==
  /\ Running("enter")
  /\ state' = [state EXCEPT ![Top.p] = "Running"]
  /\ stack' = Replace([Top EXCEPT !.pc = "publish"])
  /\ UNCHANGED <<ctx, gt_current, in_schedule, alarm_blocked, exec, exited, saved>>

Publish ==
  /\ Running("publish")
  /\ stack' = Replace(Frame("switch", Top.p, gt_current))
  /\ gt_current' = Top.p
  /\ UNCHANGED <<state, ctx, in_schedule, alarm_blocked, exec, exited, saved>>

HasFrame(s, pc) == \E i \in 1 .. Len(s) : s[i].pc = pc

SavedAt(s) ==
  IF HasFrame(s, "handler") THEN "tick" ELSE IF HasFrame(s, "exit") THEN "exit" ELSE "call"

(* gt_switch(old, new) saves the stack pointer in old's context and loads   *)
(* new's: execution goes on there, where gt_switch returns.                 *)
Switch ==
  /\ Running("switch")
  /\ LET old == Top.old
         left == Replace(At("return"))
         here == [stack |-> exec, depth |-> Len(left[exec])]
         saving == [ctx EXCEPT ![old] = here]
         to == saving[Top.p]
     IN /\ ctx' = saving
        /\ saved' = [saved EXCEPT ![old] = SavedAt(stack[exec])]
        /\ exec' = to.stack
        /\ IF to.depth \in 1 .. Len(left[to.stack])
             THEN /\ stack' = [left EXCEPT ![to.stack] = SubSeq(@, 1, to.depth)]
                  /\ UNCHANGED exited
             ELSE stack' = left /\ exited' = "corrupt"
  /\ UNCHANGED <<state, gt_current, in_schedule, alarm_blocked>>

Return ==
  /\ Running("return")
  /\ stack' = Pop
  /\ UNCHANGED <<state, ctx, gt_current, in_schedule, alarm_blocked, exec, exited, saved>>

-----------------------------------------------------------------------------
(* The signals.                                                             *)

FaultyTick ==
  /\ exited = "no"
  /\ Top.pc \in TickPoints
  /\ alarm_blocked' = TRUE
  /\ in_schedule' = TRUE
  /\ stack' = [stack EXCEPT ![exec] = @ \o <<At("handler"), At("pick")>>]
  /\ UNCHANGED <<state, ctx, gt_current, exec, exited, saved>>

(* SIGALRM is blocked during the handler.  scheduler_tick returns at once   *)
(* if gt_in_schedule is set.                                                *)
Tick ==
  /\ exited = "no"
  /\ ~alarm_blocked
  /\ Top.pc \in TickPoints
  /\ ~in_schedule
  /\ alarm_blocked' = TRUE
  /\ in_schedule' = TRUE
  /\ stack' = [stack EXCEPT ![exec] = @ \o <<At("handler"), At("pick")>>]
  /\ UNCHANGED <<state, ctx, gt_current, exec, exited, saved>>

FaultyHandlerReturn ==
  /\ Running("handler")
  /\ stack' = Pop
  /\ alarm_blocked' = FALSE
  /\ UNCHANGED <<state, ctx, gt_current, in_schedule, exec, exited, saved>>

(* scheduler_tick clears its flag, and the return from the handler restores *)
(* the signal mask.                                                         *)
HandlerReturn ==
  /\ Running("handler")
  /\ stack' = Pop
  /\ in_schedule' = FALSE
  /\ alarm_blocked' = FALSE
  /\ UNCHANGED <<state, ctx, gt_current, exec, exited, saved>>

Sigint ==
  /\ exited = "no"
  /\ exited' = "sigint"
  /\ UNCHANGED <<state, ctx, gt_current, in_schedule, alarm_blocked, stack, exec, saved>>

Ended == exited # "no" /\ UNCHANGED vars

Next ==
  \/ CreateFind \/ CreateFill \/ Start \/ Yield \/ ExitThread \/ MainExit \/ MainExitLoop
  \/ Pick \/ PickNobody \/ Leave \/ Enter \/ Publish \/ Switch \/ Return
  \/ Tick \/ HandlerReturn \/ Sigint
  \/ Ended

Spec == Init /\ [][Next]_vars

-----------------------------------------------------------------------------
(* A thread other than the executing one that was preempted and can be      *)
(* resumed: the one that is to release the flag and the signal mask.        *)
Preempted == {t \in Slots \ {exec} : state[t] # "Unused" /\ HasFrame(stack[t], "handler")}

(* Whenever a thread is in its own code, the flag and the mask say exactly  *)
(* whether some preempted thread is waiting to be resumed.                  *)
GateMatches ==
  exited = "no" /\ Top.pc = "user" =>
    /\ in_schedule <=> Preempted # {}
    /\ alarm_blocked = in_schedule

(* gt_current points to the thread whose stack executes, whenever that      *)
(* thread is in its own code or gt_switch has just returned to it.          *)
CurrentIsExecuting == exited = "no" /\ Top.pc \in {"user", "return"} => gt_current = exec

(* A thread that exits gives back what it holds: as long as the flag is     *)
(* set there is a live thread inside the handler that will clear it.        *)
(* TickPoints with "pick" break it: in gt_exit the slot is free by then     *)
(* (gthr.c:383), and the tick's frames are on a stack nobody resumes.       *)
PreemptionNotLost ==
  exited = "no" /\ in_schedule =>
    \E t \in Slots :
      /\ t = exec \/ state[t] # "Unused"
      /\ HasFrame(stack[t], "handler")

(* With ticks only at SafePoints the steps above add up to the atomic calls *)
(* of Gthr: until gt_switch the leaving thread still counts as running.     *)
Lottery == INSTANCE Gthr WITH
  GtPriorityLowest <- 0,
  Priorities <- {0},
  InitPolicies <- {"LS"},
  RuntimePolicies <- {},
  sched_policy <- "LS",
  state <- [t \in Slots |-> IF t = exec THEN "Running"
                            ELSE IF state[t] = "Running" THEN "Ready" ELSE state[t]],
  priority <- [t \in Slots |-> 0],
  boost <- [t \in Slots |-> 0],
  current <- exec,
  in_schedule <- Preempted # {},
  alarm_blocked <- Preempted # {},
  main_exiting <- HasFrame(stack[0], "mainexit"),
  waited <- [t \in Slots |-> 0]

RefinesGthr == Lottery!Spec
=============================================================================
