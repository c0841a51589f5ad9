------------------------- MODULE GthrPreempt_proofs -------------------------
(***************************************************************************)
(* Proofs about GthrPreempt for any number of slots, with ticks at safe    *)
(* points only.                                                            *)
(*                                                                         *)
(* The inductive invariant says what every stack looks like.  A tick may   *)
(* find the executing thread with one of the stacks in Callers; it puts a  *)
(* handler's frame on top.  gt_schedule_internal runs on one of the stacks *)
(* in Bases, and a live thread that is not executing was left by gt_switch *)
(* with one of the stacks in Suspended, or has never run.                  *)
(***************************************************************************)
EXTENDS GthrPreempt, LeastElements, SequenceTheorems

Calls == {<<At("user")>>, <<At("mainexit")>>}
Callers == {<<At("tramp")>>} \cup Calls \cup {Append(s, At("return")) : s \in Calls}
Handlers == {Append(s, At("handler")) : s \in Callers}
Exiting == <<At("exit")>>
Bases == Calls \cup {Exiting} \cup Handlers
Suspended == {<<At("tramp")>>} \cup {Append(s, At("return")) : s \in Calls \cup Handlers}
Resting == Callers \cup Handlers \cup {Append(s, At("return")) : s \in Handlers}

(* Nobody but the executing thread, and those in s, counts as running.      *)
OnlyRunning(s) == \A t \in Slots \ {exec} : state[t] = "Running" => t \in s

InUse == state[exec] = "Running" /\ OnlyRunning({}) /\ gt_current = exec

AtRest == stack[exec] \in Resting /\ InUse

Creating(p) ==
  /\ stack[exec] = Append(<<At("user")>>, Frame("create", p, None))
  /\ p \in FreeSlots /\ \A q \in FreeSlots : p <= q
  /\ InUse

(* The five steps of gt_schedule_internal on top of the frames b.           *)
Staying(b) == state[exec] = (IF b = Exiting THEN "Unused" ELSE "Running")
Leaving(b) == state[exec] = (IF b = Exiting THEN "Unused" ELSE "Ready")

Picking(b) ==
  /\ stack[exec] = Append(b, At("pick"))
  /\ Staying(b) /\ OnlyRunning({}) /\ gt_current = exec

AboutToLeave(b, p) ==
  /\ stack[exec] = Append(b, Frame("leave", p, None))
  /\ Staying(b) /\ OnlyRunning({}) /\ state[p] = "Ready" /\ gt_current = exec

AboutToEnter(b, p) ==
  /\ stack[exec] = Append(b, Frame("enter", p, None))
  /\ Leaving(b) /\ OnlyRunning({}) /\ state[p] = "Ready" /\ gt_current = exec

Publishing(b, p) ==
  /\ stack[exec] = Append(b, Frame("publish", p, None))
  /\ Leaving(b) /\ OnlyRunning({p}) /\ state[p] = "Running" /\ gt_current = exec

Switching(b, p) ==
  /\ stack[exec] = Append(b, Frame("switch", p, exec))
  /\ Leaving(b) /\ OnlyRunning({p}) /\ state[p] = "Running" /\ gt_current = p

Choosing(b, p) ==
  AboutToLeave(b, p) \/ AboutToEnter(b, p) \/ Publishing(b, p) \/ Switching(b, p)

ExecInv ==
  \/ AtRest
  \/ \E p \in Slots : Creating(p)
  \/ \E b \in Bases : Picking(b)
  \/ \E b \in Bases, p \in Slots \ {exec} : Choosing(b, p)

(* What gt_switch needs to resume t.                                        *)
Resumable(t) ==
  /\ stack[t] \in Suspended
  /\ ctx[t] = [stack |-> t, depth |-> Len(stack[t])]
  /\ saved[t] = "tick" <=> HasFrame(stack[t], "handler")

Held(t) == HasFrame(stack[t], "handler")

(* The flag and the mask are set exactly while one thread is in the handler.*)
GateInv ==
  /\ alarm_blocked = in_schedule
  /\ in_schedule <=> \E t \in Slots : Held(t)
  /\ \A t, u \in Slots : Held(t) /\ Held(u) => t = u
  /\ \A t \in Slots : state[t] = "Unused" => ~Held(t)

OthersInv ==
  /\ \A t \in Slots \ {exec} : state[t] # "Unused" => Resumable(t)
  /\ \A t \in Slots \ {0} : ~HasFrame(stack[t], "mainexit")
  /\ state[0] # "Unused"

IInv ==
  /\ TypeOK /\ stack \in [Slots -> Seq(Frames)]
  /\ exited # "corrupt"
  /\ ExecInv
  /\ OthersInv
  /\ GateInv

-----------------------------------------------------------------------------
(* Stacks and their frames.                                                 *)

LEMMA AtIsFrame == \A pc \in Steps : At(pc) \in Frames /\ At(pc).pc = pc
  BY DEF At, Frame, Frames, None

LEMMA AppendFrame ==
  ASSUME NEW s \in Seq(Frames), NEW f \in Frames
  PROVE  /\ Append(s, f) \in Seq(Frames) /\ Append(s, f) # <<>>
         /\ Len(Append(s, f)) = Len(s) + 1
         /\ Front(Append(s, f)) = s /\ Last(Append(s, f)) = f
<1> DEFINE a == Append(s, f)
<1>1. a \in Seq(Frames) /\ Len(a) = Len(s) + 1 /\ Len(s) \in Nat /\ a[Len(s) + 1] = f
  OBVIOUS
<1>2. a # <<>>
  BY <1>1
<1>3. Last(a) = f
  BY <1>1 DEF Last
<1>4. Front(a) = s
  <2>1. SubSeq(a, 1, Len(s)) = s
    OBVIOUS
  <2>. HIDE DEF a
  <2>. QED
    BY <1>1, <2>1 DEF Front
<1>. QED
  BY <1>1, <1>2, <1>3, <1>4

LEMMA HasFrameOfAppend ==
  ASSUME NEW s \in Seq(Frames), NEW f \in Frames, NEW pc
  PROVE  HasFrame(Append(s, f), pc) <=> HasFrame(s, pc) \/ f.pc = pc
<1> DEFINE a == Append(s, f)
<1>1. Len(a) = Len(s) + 1 /\ Len(s) \in Nat /\ a[Len(s) + 1] = f
      /\ \A i \in 1 .. Len(s) : a[i] = s[i]
  OBVIOUS
<1>. HIDE DEF a
<1>2. HasFrame(a, pc) <=> HasFrame(s, pc) \/ f.pc = pc
  BY <1>1 DEF HasFrame
<1>. QED
  BY <1>2 DEF a

LEMMA HasFrameOfOne ==
  ASSUME NEW f \in Frames, NEW pc
  PROVE  /\ <<f>> \in Seq(Frames) /\ Len(<<f>>) = 1 /\ <<f>> = Append(<<>>, f)
         /\ HasFrame(<<f>>, pc) <=> f.pc = pc
  BY DEF HasFrame

LEMMA HasFrameOfNone == \A pc : ~HasFrame(<<>>, pc)
  BY DEF HasFrame

(* The stack of one frame that is not suspended anywhere.                   *)
LEMMA OneStep ==
  ASSUME NEW pc \in Steps
  PROVE  /\ <<At(pc)>> \in Seq(Frames) /\ Len(<<At(pc)>>) = 1
         /\ Last(<<At(pc)>>) = At(pc) /\ Front(<<At(pc)>>) = <<>>
         /\ \A q : HasFrame(<<At(pc)>>, q) <=> pc = q
<1>1. At(pc) \in Frames /\ At(pc).pc = pc /\ <<>> \in Seq(Frames)
  BY AtIsFrame
<1>2. <<At(pc)>> = Append(<<>>, At(pc)) /\ <<At(pc)>> \in Seq(Frames) /\ Len(<<At(pc)>>) = 1
  BY <1>1, HasFrameOfOne
<1>3. Last(Append(<<>>, At(pc))) = At(pc) /\ Front(Append(<<>>, At(pc))) = <<>>
  BY <1>1, AppendFrame
<1>4. \A q : HasFrame(<<At(pc)>>, q) <=> pc = q
  BY <1>1, HasFrameOfOne
<1>. QED
  BY <1>2, <1>3, <1>4, Zenon

LEMMA CallStacks ==
  ASSUME NEW s \in Calls
  PROVE  /\ s \in Seq(Frames) /\ Len(s) = 1 /\ s # Exiting
         /\ ~HasFrame(s, "handler") /\ ~HasFrame(s, "exit")
         /\ Last(s) \in {At("user"), At("mainexit")}
<1>1. PICK pc \in {"user", "mainexit"} : s = <<At(pc)>>
  BY DEF Calls
<1>2. pc \in Steps /\ "exit" \in Steps
  BY DEF Steps
<1>3. s # Exiting
  BY <1>1, <1>2, OneStep DEF Exiting
<1>. QED
  BY <1>1, <1>2, <1>3, OneStep

LEMMA CallerStacks ==
  ASSUME NEW s \in Callers
  PROVE  /\ s \in Seq(Frames) /\ Len(s) \in 1 .. 2
         /\ ~HasFrame(s, "handler") /\ ~HasFrame(s, "exit")
<1>0. {"tramp", "return"} \subseteq Steps
  BY DEF Steps
<1>1. CASE s = <<At("tramp")>>
  BY <1>0, <1>1, OneStep
<1>2. CASE s \in Calls
  BY <1>2, CallStacks
<1>3. ASSUME NEW b \in Calls, s = Append(b, At("return"))
      PROVE  /\ s \in Seq(Frames) /\ Len(s) \in 1 .. 2
             /\ ~HasFrame(s, "handler") /\ ~HasFrame(s, "exit")
  <2>1. At("return") \in Frames /\ At("return").pc = "return"
    BY <1>0, AtIsFrame
  <2>2. b \in Seq(Frames) /\ Len(b) = 1 /\ ~HasFrame(b, "handler") /\ ~HasFrame(b, "exit")
    BY CallStacks
  <2>3. s \in Seq(Frames) /\ Len(s) = Len(b) + 1
    BY <1>3, <2>1, <2>2, AppendFrame
  <2>4. ~HasFrame(s, "handler") /\ ~HasFrame(s, "exit")
    BY <1>3, <2>1, <2>2, HasFrameOfAppend
  <2>. QED
    BY <2>2, <2>3, <2>4
<1>. QED
  BY <1>1, <1>2, <1>3 DEF Callers

LEMMA HandlerStacks ==
  ASSUME NEW s \in Handlers
  PROVE  /\ s \in Seq(Frames) /\ Len(s) \in 2 .. 3 /\ Last(s) = At("handler")
         /\ Front(s) \in Callers
         /\ HasFrame(s, "handler") /\ ~HasFrame(s, "exit") /\ s # Exiting
<1>1. PICK b \in Callers : s = Append(b, At("handler"))
  BY DEF Handlers
<1>2. At("handler") \in Frames /\ At("handler").pc = "handler" /\ "exit" \in Steps
  BY AtIsFrame DEF Steps
<1>3. b \in Seq(Frames) /\ Len(b) \in 1 .. 2 /\ ~HasFrame(b, "exit")
  BY CallerStacks
<1>4. /\ s \in Seq(Frames) /\ Len(s) = Len(b) + 1
      /\ Last(s) = At("handler") /\ Front(s) = b
  BY <1>1, <1>2, <1>3, AppendFrame
<1>5. HasFrame(s, "handler") /\ ~HasFrame(s, "exit")
  BY <1>1, <1>2, <1>3, HasFrameOfAppend
<1>6. s # Exiting
  BY <1>2, <1>5, OneStep DEF Exiting
<1>7. Len(s) \in 2 .. 3
  <2> DEFINE n == Len(b)
             m == Len(s)
  <2>1. n \in 1 .. 2 /\ m = n + 1
    BY <1>3, <1>4
  <2>. HIDE DEF n, m
  <2>2. m \in 2 .. 3
    BY <2>1
  <2>. QED
    BY <2>2 DEF m
<1>. QED
  BY <1>4, <1>5, <1>6, <1>7

LEMMA BaseStacks ==
  ASSUME NEW s \in Bases
  PROVE  /\ s \in Seq(Frames) /\ Len(s) \in 1 .. 3
         /\ HasFrame(s, "handler") <=> s \in Handlers
         /\ HasFrame(s, "exit") <=> s = Exiting
         /\ s # Exiting => s \in Calls \cup Handlers
<1>1. CASE s \in Calls
  <2>1. s \in Seq(Frames) /\ Len(s) = 1 /\ s # Exiting
        /\ ~HasFrame(s, "handler") /\ ~HasFrame(s, "exit")
    BY <1>1, CallStacks
  <2>2. s \notin Handlers
    BY <2>1, HandlerStacks
  <2>. QED
    BY <1>1, <2>1, <2>2
<1>2. CASE s = Exiting
  <2>1. s \in Seq(Frames) /\ Len(s) = 1 /\ HasFrame(s, "exit") /\ ~HasFrame(s, "handler")
    BY <1>2, OneStep DEF Exiting, Steps
  <2>2. s \notin Handlers
    BY <2>1, HandlerStacks
  <2>. QED
    BY <1>2, <2>1, <2>2
<1>3. CASE s \in Handlers
  BY <1>3, HandlerStacks
<1>. QED
  BY <1>1, <1>2, <1>3 DEF Bases

LEMMA ReturningStacks ==
  ASSUME NEW b \in Calls \cup Handlers, NEW s, s = Append(b, At("return"))
  PROVE  /\ s \in Seq(Frames) /\ Len(s) \in 2 .. 4 /\ Front(s) = b /\ Last(s) = At("return")
         /\ HasFrame(s, "handler") <=> HasFrame(b, "handler")
         /\ HasFrame(s, "mainexit") <=> HasFrame(b, "mainexit")
<1>1. At("return") \in Frames /\ At("return").pc = "return"
  BY AtIsFrame DEF Steps
<1>2. b \in Seq(Frames) /\ Len(b) \in 1 .. 3
  BY CallStacks, HandlerStacks
<1>3. s \in Seq(Frames) /\ Len(s) = Len(b) + 1 /\ Front(s) = b /\ Last(s) = At("return")
  BY <1>1, <1>2, AppendFrame
<1>4. \A pc : HasFrame(s, pc) <=> HasFrame(b, pc) \/ "return" = pc
  BY <1>1, <1>2, HasFrameOfAppend
<1>. QED
  BY <1>2, <1>3, <1>4

LEMMA FrameIs ==
  ASSUME NEW pc \in Steps, NEW p \in Slots \cup {None}, NEW old \in Slots \cup {None}
  PROVE  /\ Frame(pc, p, old) \in Frames
         /\ Frame(pc, p, old).pc = pc /\ Frame(pc, p, old).p = p /\ Frame(pc, p, old).old = old
  BY DEF Frame, Frames

(* What the top frame of a resting stack says of the rest of it.            *)
LEMMA RestingTop ==
  ASSUME NEW s \in Resting
  PROVE  \/ \E pc \in {"tramp", "user", "mainexit"} : s = <<At(pc)>> /\ Last(s).pc = pc
         \/ s \in {Append(b, At("return")) : b \in Calls \cup Handlers} /\ Last(s).pc = "return"
         \/ s \in Handlers /\ Last(s).pc = "handler"
<1>0. {"tramp", "user", "mainexit", "return", "handler"} \subseteq Steps
  BY DEF Steps
<1>1. CASE s \in {<<At("tramp")>>, <<At("user")>>, <<At("mainexit")>>}
  BY <1>0, <1>1, OneStep, AtIsFrame
<1>2. ASSUME NEW b \in Calls \cup Handlers, s = Append(b, At("return"))
      PROVE  s \in {Append(c, At("return")) : c \in Calls \cup Handlers} /\ Last(s).pc = "return"
  BY <1>0, <1>2, ReturningStacks, AtIsFrame
<1>3. CASE s \in Handlers
  BY <1>0, <1>3, HandlerStacks, AtIsFrame
<1>4. \/ s \in {<<At("tramp")>>, <<At("user")>>, <<At("mainexit")>>}
      \/ \E b \in Calls \cup Handlers : s = Append(b, At("return"))
      \/ s \in Handlers
  BY DEF Resting, Callers, Calls
<1>. QED
  BY <1>1, <1>2, <1>3, <1>4

LEMMA RestingStacks ==
  ASSUME NEW s \in Resting
  PROVE  s \in Seq(Frames) /\ Len(s) \in 1 .. 4 /\ ~HasFrame(s, "exit")
<1>1. CASE s \in Callers
  <2>1. s \in Seq(Frames) /\ Len(s) \in 1 .. 2 /\ ~HasFrame(s, "exit")
    BY <1>1, CallerStacks
  <2>. QED
    BY <2>1
<1>2. CASE s \in Handlers
  <2>1. s \in Seq(Frames) /\ Len(s) \in 2 .. 3 /\ ~HasFrame(s, "exit")
    BY <1>2, HandlerStacks
  <2>. QED
    BY <2>1
<1>3. ASSUME NEW b \in Handlers, s = Append(b, At("return"))
      PROVE  s \in Seq(Frames) /\ Len(s) \in 1 .. 4 /\ ~HasFrame(s, "exit")
  <2>1. At("return") \in Frames /\ At("return").pc = "return"
    BY AtIsFrame DEF Steps
  <2>2. b \in Seq(Frames) /\ ~HasFrame(b, "exit")
    BY HandlerStacks
  <2>3. ~HasFrame(s, "exit")
    BY <1>3, <2>1, <2>2, HasFrameOfAppend
  <2>4. s \in Seq(Frames) /\ Len(s) \in 2 .. 4
    BY <1>3, ReturningStacks
  <2>. QED
    BY <2>3, <2>4
<1>. QED
  BY <1>1, <1>2, <1>3 DEF Resting

(* The step the executing thread is at tells which case of ExecInv holds.   *)
LEMMA TopIs ==
  ASSUME NEW s \in Seq(Frames), NEW f \in Frames, stack[exec] = Append(s, f)
  PROVE  Top = f /\ Front(stack[exec]) = s
  BY AppendFrame DEF Top

LEMMA RestTop ==
  ASSUME AtRest
  PROVE  Top.pc \in {"tramp", "user", "mainexit", "return", "handler"}
  BY RestingTop DEF AtRest, Top

LEMMA CreatingTop ==
  ASSUME NEW p \in Slots, Creating(p)
  PROVE  /\ Top = Frame("create", p, None) /\ Top.pc = "create" /\ Top.p = p
         /\ Front(stack[exec]) = <<At("user")>>
<1>1. <<At("user")>> \in Seq(Frames) /\ "create" \in Steps
  BY OneStep DEF Steps
<1>2. Frame("create", p, None) \in Frames
      /\ Frame("create", p, None).pc = "create" /\ Frame("create", p, None).p = p
  BY <1>1, FrameIs
<1>. QED
  BY <1>1, <1>2, TopIs DEF Creating

LEMMA PickingTop ==
  ASSUME NEW b \in Bases, Picking(b)
  PROVE  Top.pc = "pick" /\ Front(stack[exec]) = b
<1>1. b \in Seq(Frames)
  BY BaseStacks
<1>2. At("pick") \in Frames /\ At("pick").pc = "pick"
  BY AtIsFrame DEF Steps
<1>. QED
  BY <1>1, <1>2, TopIs DEF Picking

LEMMA ChoosingTop ==
  ASSUME exec \in Slots, NEW b \in Bases, NEW p \in Slots \ {exec}, Choosing(b, p)
  PROVE  /\ Top \in Frames /\ Top.p = p /\ Front(stack[exec]) = b
         /\ Top.pc \in {"leave", "enter", "publish", "switch"}
         /\ Top.pc = "leave" => AboutToLeave(b, p)
         /\ Top.pc = "enter" => AboutToEnter(b, p)
         /\ Top.pc = "publish" => Publishing(b, p)
         /\ Top.pc = "switch" => Switching(b, p) /\ Top.old = exec
<1>1. b \in Seq(Frames) /\ {"leave", "enter", "publish", "switch"} \subseteq Steps
  BY BaseStacks DEF Steps
<1>2. CASE AboutToLeave(b, p)
  <2>1. Top = Frame("leave", p, None) /\ Front(stack[exec]) = b
    BY <1>1, <1>2, FrameIs, TopIs DEF AboutToLeave
  <2>. QED
    BY <1>1, <1>2, <2>1, FrameIs
<1>3. CASE AboutToEnter(b, p)
  <2>1. Top = Frame("enter", p, None) /\ Front(stack[exec]) = b
    BY <1>1, <1>3, FrameIs, TopIs DEF AboutToEnter
  <2>. QED
    BY <1>1, <1>3, <2>1, FrameIs
<1>4. CASE Publishing(b, p)
  <2>1. Top = Frame("publish", p, None) /\ Front(stack[exec]) = b
    BY <1>1, <1>4, FrameIs, TopIs DEF Publishing
  <2>. QED
    BY <1>1, <1>4, <2>1, FrameIs
<1>5. CASE Switching(b, p)
  <2>1. Top = Frame("switch", p, exec) /\ Front(stack[exec]) = b
    BY <1>1, <1>5, FrameIs, TopIs DEF Switching
  <2>. QED
    BY <1>1, <1>5, <2>1, FrameIs
<1>. QED
  BY <1>2, <1>3, <1>4, <1>5 DEF Choosing

-----------------------------------------------------------------------------
(* Steps that change one stack only, that of the executing thread.          *)

LEMMA ZeroIsSlot == 0 \in Slots
  BY PreemptSlotsAssumption DEF Slots

(* The executing thread's new stack is n.                                   *)
OwnStack(n) ==
  /\ stack' = [stack EXCEPT ![exec] = n] /\ UNCHANGED exec
  /\ n \in Seq(Frames) /\ Len(n) <= 4
  /\ exec # 0 => ~HasFrame(n, "mainexit")
  /\ state' \in [Slots -> {"Unused", "Running", "Ready"}]
  /\ \A t \in Slots \ {exec} : state'[t] = "Unused" <=> state[t] = "Unused"

LEMMA OwnStackIs ==
  ASSUME IInv, NEW n, OwnStack(n)
  PROVE  /\ exec \in Slots /\ exec' = exec /\ stack'[exec] = n
         /\ stack' \in [Slots -> Seq(Frames)]
         /\ \A t \in Slots \ {exec} : stack'[t] = stack[t]
<1>1. exec \in Slots /\ stack \in [Slots -> Seq(Frames)]
  BY DEF IInv, TypeOK
<1>. QED
  BY <1>1 DEF OwnStack

LEMMA OwnStackStep ==
  ASSUME IInv, NEW n, OwnStack(n), UNCHANGED <<ctx, saved>>,
         state'[exec] = "Unused" => exec # 0,
         gt_current' \in Slots, exited' \in {"no", "done", "sigint"},
         in_schedule' \in BOOLEAN, alarm_blocked' = in_schedule'
  PROVE  TypeOK' /\ stack' \in [Slots -> Seq(Frames)] /\ exited' # "corrupt" /\ OthersInv'
<1>1. /\ exec \in Slots /\ exec' = exec /\ stack'[exec] = n
      /\ stack' \in [Slots -> Seq(Frames)]
      /\ \A t \in Slots \ {exec} : stack'[t] = stack[t]
  BY OwnStackIs
<1>2. TypeOK /\ OthersInv
  BY DEF IInv
<1>3. TypeOK'
  <2>1. \A t \in Slots : stack'[t] \in Seq(Frames) /\ Len(stack'[t]) <= 4
    BY <1>1, <1>2 DEF TypeOK, OwnStack
  <2>. QED
    BY <1>1, <1>2, <2>1 DEF TypeOK, OwnStack
<1>4. ASSUME NEW t \in Slots \ {exec'}, state'[t] # "Unused"
      PROVE  Resumable(t)'
  <2>1. t \in Slots \ {exec} /\ state[t] # "Unused" /\ stack'[t] = stack[t]
    BY <1>1, <1>4 DEF OwnStack
  <2>2. Resumable(t)
    BY <1>2, <2>1 DEF OthersInv
  <2>. QED
    BY <2>1, <2>2 DEF Resumable
<1>5. ASSUME NEW t \in Slots \ {0}
      PROVE  ~HasFrame(stack'[t], "mainexit")
  <2>1. CASE t = exec
    BY <1>1, <2>1 DEF OwnStack
  <2>2. CASE t # exec
    BY <1>1, <1>2, <2>2 DEF OthersInv
  <2>. QED
    BY <2>1, <2>2
<1>6. state'[0] # "Unused"
  BY <1>2, ZeroIsSlot DEF OwnStack, OthersInv
<1>. QED
  BY <1>1, <1>3, <1>4, <1>5, <1>6 DEF OthersInv

LEMMA GateStep ==
  ASSUME IInv, NEW n, OwnStack(n), UNCHANGED <<in_schedule, alarm_blocked>>,
         HasFrame(n, "handler") <=> Held(exec),
         state'[exec] = "Unused" => ~HasFrame(n, "handler")
  PROVE  GateInv'
<1>1. /\ exec \in Slots /\ stack'[exec] = n
      /\ \A t \in Slots \ {exec} : stack'[t] = stack[t]
  BY OwnStackIs
<1>2. GateInv
  BY DEF IInv
<1>3. ASSUME NEW t \in Slots
      PROVE  Held(t)' <=> Held(t)
  <2>1. CASE t = exec
    BY <1>1, <2>1 DEF Held
  <2>2. CASE t # exec
    BY <1>1, <2>2 DEF Held
  <2>. QED
    BY <2>1, <2>2
<1>4. ASSUME NEW t \in Slots, state'[t] = "Unused"
      PROVE  ~Held(t)'
  <2>1. CASE t = exec
    BY <1>1, <1>4, <2>1 DEF Held
  <2>2. CASE t # exec
    BY <1>1, <1>2, <1>3, <1>4, <2>2 DEF GateInv, OwnStack
  <2>. QED
    BY <2>1, <2>2
<1>. QED
  BY <1>2, <1>3, <1>4 DEF GateInv

(* A step that pushes, pops or replaces the top frame and leaves the table, *)
(* the flag and the mask alone.                                             *)
LEMMA TopStep ==
  ASSUME IInv, NEW n \in Seq(Frames), Len(n) <= 4,
         stack' = [stack EXCEPT ![exec] = n],
         UNCHANGED <<exec, state, ctx, saved, gt_current, in_schedule, alarm_blocked>>,
         exited' \in {"no", "done", "sigint"},
         exec # 0 => ~HasFrame(n, "mainexit"),
         HasFrame(n, "handler") <=> Held(exec),
         ExecInv'
  PROVE  IInv'
<1>1. TypeOK /\ OthersInv /\ GateInv
  BY DEF IInv
<1>2. OwnStack(n)
  BY <1>1 DEF TypeOK, OwnStack
<1>3. state'[exec] = "Unused" => exec # 0 /\ ~HasFrame(n, "handler")
  BY <1>1 DEF OthersInv, GateInv, TypeOK
<1>4. gt_current' \in Slots /\ in_schedule' \in BOOLEAN /\ alarm_blocked' = in_schedule'
  BY <1>1 DEF TypeOK, GateInv
<1>5. TypeOK' /\ stack' \in [Slots -> Seq(Frames)] /\ exited' # "corrupt" /\ OthersInv'
  BY <1>2, <1>3, <1>4, OwnStackStep
<1>6. GateInv'
  BY <1>2, <1>3, GateStep
<1>. QED
  BY <1>5, <1>6 DEF IInv

(* No step but MainExit makes main's stack enter or leave gt_exit's loop.   *)
MainKept == HasFrame(stack'[0], "mainexit") <=> HasFrame(stack[0], "mainexit")

LEMMA MainSame ==
  ASSUME IInv, NEW n, stack' = [stack EXCEPT ![exec] = n],
         exec = 0 => (HasFrame(n, "mainexit") <=> HasFrame(stack[exec], "mainexit"))
  PROVE  MainKept
<1>1. stack \in [Slots -> Seq(Frames)]
  BY DEF IInv
<1>2. CASE exec = 0
  <2>1. stack'[0] = n
    BY <1>1, <1>2, ZeroIsSlot
  <2>. QED
    BY <1>2, <2>1 DEF MainKept
<1>3. CASE exec # 0
  <2>1. stack'[0] = stack[0]
    BY <1>1, <1>3, ZeroIsSlot
  <2>. QED
    BY <2>1 DEF MainKept
<1>. QED
  BY <1>2, <1>3

(* While the executing thread is in the table as before, so is InUse.       *)
LEMMA InUseKept ==
  ASSUME InUse, UNCHANGED <<exec, state, gt_current>>
  PROVE  InUse'
  BY DEF InUse, OnlyRunning

LEMMA Basics ==
  ASSUME IInv
  PROVE  /\ exec \in Slots /\ ExecInv /\ OthersInv /\ GateInv /\ TypeOK
         /\ stack \in [Slots -> Seq(Frames)] /\ stack[exec] \in Seq(Frames)
         /\ Len(stack[exec]) <= 4 /\ exited \in {"no", "done", "sigint"}
         /\ exec # 0 => ~HasFrame(stack[exec], "mainexit")
  BY DEF IInv, TypeOK, OthersInv

-----------------------------------------------------------------------------
(* The thread's own code, and its calls.                                    *)

OwnCode == {"tramp", "user", "mainexit"}

LEMMA InOwnCode ==
  ASSUME IInv, Top.pc \in OwnCode
  PROVE  stack[exec] = <<At(Top.pc)>> /\ InUse /\ ~Held(exec)
<1>1. AtRest
  <2>1. ~ \E p \in Slots : Creating(p)
    BY CreatingTop DEF OwnCode
  <2>2. ~ \E b \in Bases : Picking(b)
    BY PickingTop DEF OwnCode
  <2>3. ~ \E b \in Bases, p \in Slots \ {exec} : Choosing(b, p)
    BY Basics, ChoosingTop DEF OwnCode
  <2>. QED
    BY <2>1, <2>2, <2>3, Basics DEF ExecInv
<1>2. stack[exec] = <<At(Top.pc)>>
  BY <1>1, RestingTop DEF AtRest, Top, OwnCode
<1>3. ~HasFrame(<<At(Top.pc)>>, "handler")
  BY OneStep DEF OwnCode, Steps
<1>. QED
  BY <1>1, <1>2, <1>3 DEF AtRest, Held

LEMMA PushOnOwnCode ==
  ASSUME IInv, Top.pc \in OwnCode, NEW f \in Frames, f.pc \notin {"handler", "mainexit"}
  PROVE  /\ Append(stack[exec], f) \in Seq(Frames) /\ Len(Append(stack[exec], f)) <= 4
         /\ HasFrame(Append(stack[exec], f), "handler") <=> Held(exec)
         /\ HasFrame(Append(stack[exec], f), "mainexit") <=> HasFrame(stack[exec], "mainexit")
         /\ exec # 0 => ~HasFrame(Append(stack[exec], f), "mainexit")
<1>1. stack[exec] = <<At(Top.pc)>> /\ Top.pc \in Steps
  BY InOwnCode DEF OwnCode, Steps
<1>2. stack[exec] \in Seq(Frames) /\ Len(stack[exec]) = 1
  BY <1>1, OneStep
<1>3. \A pc : HasFrame(Append(stack[exec], f), pc) <=> HasFrame(stack[exec], pc) \/ f.pc = pc
  BY <1>2, HasFrameOfAppend
<1>4. Append(stack[exec], f) \in Seq(Frames)
      /\ Len(Append(stack[exec], f)) = Len(stack[exec]) + 1
  BY <1>2, AppendFrame
<1>. QED
  BY <1>2, <1>3, <1>4, Basics DEF Held

LEMMA CreateFindStep ==
  ASSUME IInv, CreateFind
  PROVE  IInv' /\ MainKept
<1>1. PICK p \in FreeSlots : /\ \A q \in FreeSlots : p <= q
                             /\ stack' = Push(Frame("create", p, None))
  BY DEF CreateFind
<1> DEFINE f == Frame("create", p, None)
           n == Append(stack[exec], f)
<1>2. p \in Slots /\ f \in Frames /\ f.pc = "create"
  BY FrameIs DEF FreeSlots, Steps
<1>3. Top.pc = "user"
  BY DEF CreateFind, Running
<1>4. stack[exec] = <<At("user")>> /\ InUse
  BY <1>3, InOwnCode DEF OwnCode
<1>5. /\ n \in Seq(Frames) /\ Len(n) <= 4
      /\ HasFrame(n, "handler") <=> Held(exec)
      /\ HasFrame(n, "mainexit") <=> HasFrame(stack[exec], "mainexit")
      /\ exec # 0 => ~HasFrame(n, "mainexit")
  BY <1>2, <1>3, PushOnOwnCode DEF OwnCode
<1>6. stack' = [stack EXCEPT ![exec] = n] /\ stack'[exec'] = n
  BY <1>1, Basics DEF Push, CreateFind
<1>7. Creating(p)'
  <2>1. InUse'
    BY <1>4, InUseKept DEF CreateFind
  <2>. QED
    BY <1>1, <1>4, <1>6, <2>1 DEF Creating, FreeSlots, CreateFind
<1>8. ExecInv'
  BY <1>2, <1>7 DEF ExecInv
<1>. HIDE DEF n
<1>9. MainKept
  BY <1>5, <1>6, MainSame
<1>. QED
  BY <1>9, <1>5, <1>6, <1>8, TopStep, Basics DEF CreateFind

LEMMA PushPickStep ==
  ASSUME IInv, Top.pc \in {"user", "mainexit"}, stack' = Push(At("pick")),
         UNCHANGED <<exec, state, ctx, saved, gt_current, in_schedule, alarm_blocked, exited>>
  PROVE  IInv' /\ MainKept
<1>0. PICK b : b = stack[exec]
  OBVIOUS
<1> DEFINE n == Append(b, At("pick"))
<1>1. At("pick") \in Frames /\ At("pick").pc = "pick"
  BY AtIsFrame DEF Steps
<1>2. b \in Calls /\ InUse
  BY <1>0, InOwnCode DEF OwnCode, Calls
<1>3. /\ n \in Seq(Frames) /\ Len(n) <= 4
      /\ HasFrame(n, "handler") <=> Held(exec)
      /\ HasFrame(n, "mainexit") <=> HasFrame(stack[exec], "mainexit")
      /\ exec # 0 => ~HasFrame(n, "mainexit")
  BY <1>0, <1>1, PushOnOwnCode DEF OwnCode
<1>4. stack' = [stack EXCEPT ![exec] = n] /\ stack'[exec'] = n
  BY <1>0, Basics DEF Push
<1>5. ExecInv'
  <2>1. b \in Bases /\ b # Exiting
    BY <1>2, CallStacks DEF Bases
  <2>2. Picking(b)'
    BY <1>2, <1>4, <2>1 DEF Picking, Staying, InUse, OnlyRunning
  <2>3. \E c \in Bases : Picking(c)'
    BY <2>1, <2>2
  <2>. QED
    BY <2>3 DEF ExecInv
<1>. HIDE DEF n
<1>6. MainKept
  BY <1>0, <1>3, <1>4, MainSame
<1>. QED
  BY <1>6, <1>3, <1>4, <1>5, TopStep, Basics

(* The bottom frame alone, at another step of the thread's own code.        *)
LEMMA OwnCodeStep ==
  ASSUME IInv, Top.pc \in OwnCode, NEW pc \in OwnCode, stack' = Replace(At(pc)),
         pc = "mainexit" => exec = 0,
         UNCHANGED <<exec, state, ctx, saved, gt_current, in_schedule, alarm_blocked, exited>>
  PROVE  IInv'
<1> DEFINE n == <<At(pc)>>
<1>1. stack[exec] = <<At(Top.pc)>> /\ InUse /\ ~Held(exec)
  BY InOwnCode
<1>2. {pc, Top.pc} \subseteq Steps /\ At(pc) \in Frames
  BY AtIsFrame DEF OwnCode, Steps
<1>3. Front(stack[exec]) = <<>>
  BY <1>1, <1>2, OneStep
<1>4. /\ n \in Seq(Frames) /\ Len(n) = 1 /\ ~HasFrame(n, "handler")
      /\ exec # 0 => ~HasFrame(n, "mainexit")
  BY <1>2, OneStep DEF OwnCode
<1>5. Append(<<>>, At(pc)) = n
  BY <1>2, HasFrameOfOne
<1>6. stack' = [stack EXCEPT ![exec] = n] /\ stack'[exec'] = n
  BY <1>3, <1>5, Basics DEF Replace
<1>7. AtRest'
  <2>1. InUse'
    BY <1>1, InUseKept
  <2>2. n \in Resting
    BY DEF OwnCode, Resting, Callers, Calls
  <2>. QED
    BY <1>6, <2>1, <2>2 DEF AtRest
<1>8. ExecInv'
  BY <1>7 DEF ExecInv
<1>. HIDE DEF n
<1>. QED
  BY <1>1, <1>4, <1>6, <1>8, TopStep, Basics

LEMMA ReturnStep ==
  ASSUME IInv, Return
  PROVE  IInv' /\ MainKept
<1> DEFINE n == Front(stack[exec])
<1>1. Top.pc = "return"
  BY DEF Return, Running
<1>2. AtRest
  <2>1. ~ \E p \in Slots : Creating(p)
    BY <1>1, CreatingTop
  <2>2. ~ \E b \in Bases : Picking(b)
    BY <1>1, PickingTop
  <2>3. ~ \E b \in Bases, p \in Slots \ {exec} : Choosing(b, p)
    BY <1>1, Basics, ChoosingTop
  <2>. QED
    BY <2>1, <2>2, <2>3, Basics DEF ExecInv
<1>3. PICK b \in Calls \cup Handlers : stack[exec] = Append(b, At("return"))
  BY <1>1, <1>2, RestingTop DEF AtRest, Top
<1>4. n = b /\ (HasFrame(b, "handler") <=> Held(exec))
      /\ (HasFrame(b, "mainexit") <=> HasFrame(stack[exec], "mainexit"))
  BY <1>3, ReturningStacks DEF Held
<1>5. b \in Resting
  BY DEF Resting, Callers
<1>6. b \in Seq(Frames) /\ Len(b) <= 4
  <2>1. b \in Seq(Frames) /\ Len(b) \in 1 .. 4
    BY <1>5, RestingStacks
  <2> DEFINE m == Len(b)
  <2>2. m \in 1 .. 4
    BY <2>1
  <2>. HIDE DEF m
  <2>3. m <= 4
    BY <2>2
  <2>. QED
    BY <2>1, <2>3 DEF m
<1>7. stack' = [stack EXCEPT ![exec] = b] /\ stack'[exec'] = b
  BY <1>4, Basics DEF Pop, Return
<1>8. AtRest'
  BY <1>2, <1>5, <1>7, InUseKept DEF AtRest, Return
<1>9. ExecInv'
  BY <1>8 DEF ExecInv
<1>10. MainKept
  BY <1>4, <1>7, MainSame
<1>. QED
  BY <1>10, <1>4, <1>6, <1>7, <1>9, TopStep, Basics DEF Return

-----------------------------------------------------------------------------
(* gt_schedule_internal.                                                    *)

ScheduleSteps == {"pick", "leave", "enter", "publish", "switch"}

LEMMA OnBase ==
  ASSUME NEW b \in Bases, NEW f \in Frames, f.pc \notin {"handler", "mainexit"}
  PROVE  /\ Append(b, f) \in Seq(Frames) /\ Len(Append(b, f)) \in 2 .. 4
         /\ HasFrame(Append(b, f), "handler") <=> HasFrame(b, "handler")
         /\ HasFrame(Append(b, f), "mainexit") <=> HasFrame(b, "mainexit")
<1>1. b \in Seq(Frames) /\ Len(b) \in 1 .. 3
  BY BaseStacks
<1>2. Append(b, f) \in Seq(Frames) /\ Len(Append(b, f)) = Len(b) + 1
  BY <1>1, AppendFrame
<1>3. \A pc : HasFrame(Append(b, f), pc) <=> HasFrame(b, pc) \/ f.pc = pc
  BY <1>1, HasFrameOfAppend
<1>4. Len(Append(b, f)) \in 2 .. 4
  <2> DEFINE n == Len(b)
             m == Len(Append(b, f))
  <2>1. n \in 1 .. 3 /\ m = n + 1
    BY <1>1, <1>2
  <2>. HIDE DEF n, m
  <2>2. m \in 2 .. 4
    BY <2>1
  <2>. QED
    BY <2>2 DEF m
<1>. QED
  BY <1>2, <1>3, <1>4

(* Another frame of gt_schedule_internal on the same base.                  *)
LEMMA ReplaceOnBase ==
  ASSUME IInv, NEW b \in Bases, NEW f \in Frames, NEW g \in Frames,
         stack[exec] = Append(b, f), {f.pc, g.pc} \cap {"handler", "mainexit"} = {}
  PROVE  /\ Append(b, g) \in Seq(Frames) /\ Len(Append(b, g)) <= 4
         /\ HasFrame(Append(b, g), "handler") <=> Held(exec)
         /\ HasFrame(Append(b, g), "mainexit") <=> HasFrame(stack[exec], "mainexit")
         /\ exec # 0 => ~HasFrame(Append(b, g), "mainexit")
<1>1. /\ HasFrame(stack[exec], "handler") <=> HasFrame(b, "handler")
      /\ HasFrame(stack[exec], "mainexit") <=> HasFrame(b, "mainexit")
  <2>1. f.pc \notin {"handler", "mainexit"}
    OBVIOUS
  <2>2. /\ HasFrame(Append(b, f), "handler") <=> HasFrame(b, "handler")
        /\ HasFrame(Append(b, f), "mainexit") <=> HasFrame(b, "mainexit")
    BY <2>1, OnBase
  <2>. QED
    BY <2>2, Zenon
<1> DEFINE n == Append(b, g)
           m == Len(n)
<1>2. /\ n \in Seq(Frames) /\ m \in 2 .. 4
      /\ HasFrame(n, "handler") <=> HasFrame(b, "handler")
      /\ HasFrame(n, "mainexit") <=> HasFrame(b, "mainexit")
  BY OnBase
<1>3. m <= 4
  <2>. HIDE DEF m
  <2>. QED
    BY <1>2
<1>. QED
  BY <1>1, <1>2, <1>3, Basics DEF Held

LEMMA TableStep ==
  ASSUME IInv, NEW n, OwnStack(n),
         UNCHANGED <<ctx, saved, in_schedule, alarm_blocked, exited>>,
         state'[exec] = "Unused" => state[exec] = "Unused",
         gt_current' \in Slots, HasFrame(n, "handler") <=> Held(exec), ExecInv'
  PROVE  IInv'
<1>1. TypeOK /\ OthersInv /\ GateInv
  BY DEF IInv
<1>2. state'[exec] = "Unused" => exec # 0 /\ ~HasFrame(n, "handler")
  BY <1>1 DEF OthersInv, GateInv, TypeOK
<1>3. exited' \in {"no", "done", "sigint"} /\ in_schedule' \in BOOLEAN
      /\ alarm_blocked' = in_schedule'
  BY <1>1, Basics DEF TypeOK, GateInv
<1>4. TypeOK' /\ stack' \in [Slots -> Seq(Frames)] /\ exited' # "corrupt" /\ OthersInv'
  BY <1>2, <1>3, OwnStackStep
<1>5. GateInv'
  BY <1>2, GateStep
<1>. QED
  BY <1>4, <1>5 DEF IInv

LEMMA PickIs ==
  ASSUME IInv, Top.pc = "pick"
  PROVE  \E b \in Bases : Picking(b) /\ Front(stack[exec]) = b
<1>1. ~AtRest
  BY RestTop
<1>2. ~ \E p \in Slots : Creating(p)
  BY CreatingTop
<1>3. ~ \E b \in Bases, p \in Slots \ {exec} : Choosing(b, p)
  BY Basics, ChoosingTop
<1>. QED
  BY <1>1, <1>2, <1>3, Basics, PickingTop DEF ExecInv

LEMMA ChoosingIs ==
  ASSUME IInv, Top.pc \in {"leave", "enter", "publish", "switch"}
  PROVE  Top.p \in Slots \ {exec} /\ \E b \in Bases : Choosing(b, Top.p)
<1>1. ~AtRest
  BY RestTop
<1>2. ~ \E p \in Slots : Creating(p)
  BY CreatingTop
<1>3. ~ \E b \in Bases : Picking(b)
  BY PickingTop
<1>4. PICK b \in Bases, p \in Slots \ {exec} : Choosing(b, p)
  BY <1>1, <1>2, <1>3, Basics DEF ExecInv
<1>5. Top.p = p
  BY <1>4, Basics, ChoosingTop
<1>. QED
  BY <1>4, <1>5

LEMMA PickStep ==
  ASSUME IInv, Pick
  PROVE  IInv' /\ MainKept
<1>1. PICK b \in Bases : Picking(b) /\ Front(stack[exec]) = b
  BY PickIs DEF Pick, Running
<1>2. PICK p \in ReadySlots : stack' = Replace(Frame("leave", p, None))
  BY DEF Pick
<1> DEFINE f == Frame("leave", p, None)
           n == Append(b, f)
<1>3. p \in Slots \ {exec} /\ state[p] = "Ready"
  BY <1>1, <1>2, Basics DEF Picking, Staying, ReadySlots
<1>4. f \in Frames /\ f.pc = "leave" /\ At("pick") \in Frames /\ At("pick").pc = "pick"
  BY <1>3, FrameIs, AtIsFrame DEF Steps
<1>5. /\ n \in Seq(Frames) /\ Len(n) <= 4
      /\ HasFrame(n, "handler") <=> Held(exec)
      /\ HasFrame(n, "mainexit") <=> HasFrame(stack[exec], "mainexit")
      /\ exec # 0 => ~HasFrame(n, "mainexit")
  BY <1>1, <1>4, ReplaceOnBase DEF Picking
<1>6. stack' = [stack EXCEPT ![exec] = n] /\ stack'[exec'] = n
  BY <1>1, <1>2, Basics DEF Replace, Pick
<1>7. AboutToLeave(b, p)'
  BY <1>1, <1>3, <1>6 DEF AboutToLeave, Picking, Staying, OnlyRunning, Pick
<1>8. ExecInv'
  BY <1>3, <1>7 DEF ExecInv, Choosing, Pick
<1>. HIDE DEF n
<1>9. MainKept
  BY <1>5, <1>6, MainSame
<1>. QED
  BY <1>9, <1>5, <1>6, <1>8, TopStep, Basics DEF Pick

(* While a thread exits, main is Ready: somebody can be picked.             *)
LEMMA SomebodyReady ==
  ASSUME IInv, NEW b \in Bases, Picking(b), ReadySlots = {}
  PROVE  b # Exiting
<1>. SUFFICES ASSUME b = Exiting PROVE FALSE
  OBVIOUS
<1>1. state[exec] = "Unused" /\ state[0] # "Unused"
  BY Basics DEF Picking, Staying, OthersInv
<1>2. state[0] # "Running"
  BY <1>1, ZeroIsSlot DEF Picking, OnlyRunning
<1>. QED
  BY <1>1, <1>2, ZeroIsSlot, Basics DEF TypeOK, ReadySlots

LEMMA PickNobodyStep ==
  ASSUME IInv, PickNobody
  PROVE  IInv' /\ MainKept
<1>1. PICK b \in Bases : Picking(b) /\ Front(stack[exec]) = b
  BY PickIs DEF PickNobody, Running
<1>2. b # Exiting /\ b \in Calls \cup Handlers
  BY <1>1, SomebodyReady, BaseStacks DEF PickNobody
<1>3. b \in Resting
  BY <1>2 DEF Resting, Callers
<1>4. At("pick") \in Frames /\ At("pick").pc = "pick"
  BY AtIsFrame DEF Steps
<1>5. /\ HasFrame(b, "handler") <=> Held(exec)
      /\ HasFrame(b, "mainexit") <=> HasFrame(stack[exec], "mainexit")
      /\ exec # 0 => ~HasFrame(b, "mainexit")
  <2>1. /\ HasFrame(Append(b, At("pick")), "handler") <=> HasFrame(b, "handler")
        /\ HasFrame(Append(b, At("pick")), "mainexit") <=> HasFrame(b, "mainexit")
    BY <1>4, OnBase
  <2>. QED
    BY <1>1, <2>1, Basics DEF Held, Picking
<1>6. b \in Seq(Frames) /\ Len(b) <= 4
  <2> DEFINE m == Len(b)
  <2>1. b \in Seq(Frames) /\ m \in 1 .. 3
    BY BaseStacks
  <2>. HIDE DEF m
  <2>2. m <= 4
    BY <2>1
  <2>. QED
    BY <2>1, <2>2 DEF m
<1>7. stack' = [stack EXCEPT ![exec] = b] /\ stack'[exec'] = b
  BY <1>1, Basics DEF Pop, PickNobody
<1>8. AtRest'
  BY <1>1, <1>2, <1>3, <1>7 DEF AtRest, InUse, Picking, Staying, OnlyRunning, PickNobody
<1>9. ExecInv'
  BY <1>8 DEF ExecInv
<1>10. exited' \in {"no", "done", "sigint"}
  BY DEF PickNobody
<1>11. MainKept
  BY <1>5, <1>7, MainSame
<1>. QED
  BY <1>11, <1>5, <1>6, <1>7, <1>9, <1>10, TopStep, Basics DEF PickNobody

LEMMA LeaveStep ==
  ASSUME IInv, Leave
  PROVE  IInv' /\ MainKept
<1>1. PICK p \in Slots \ {exec} : p = Top.p
  BY ChoosingIs DEF Leave, Running
<1>2. PICK b \in Bases : AboutToLeave(b, p) /\ Front(stack[exec]) = b /\ Top \in Frames
  BY <1>1, ChoosingIs, ChoosingTop, Basics DEF Leave, Running
<1> DEFINE f == Frame("leave", p, None)
           g == Frame("enter", p, None)
           n == Append(b, g)
<1>3. f \in Frames /\ f.pc = "leave" /\ g \in Frames /\ g.pc = "enter"
  BY FrameIs DEF Steps
<1>4. Top = f
  BY <1>2, <1>3, TopIs, BaseStacks DEF AboutToLeave
<1>5. [Top EXCEPT !.pc = "enter"] = g
  BY <1>4 DEF Frame
<1>6. /\ n \in Seq(Frames) /\ Len(n) <= 4
      /\ HasFrame(n, "handler") <=> Held(exec)
      /\ HasFrame(n, "mainexit") <=> HasFrame(stack[exec], "mainexit")
      /\ exec # 0 => ~HasFrame(n, "mainexit")
  BY <1>2, <1>3, ReplaceOnBase DEF AboutToLeave
<1>7. stack' = [stack EXCEPT ![exec] = n] /\ stack'[exec'] = n
  BY <1>2, <1>5, Basics DEF Replace, Leave
<1>8. /\ state' \in [Slots -> {"Unused", "Running", "Ready"}]
      /\ state'[exec] = (IF b = Exiting THEN "Unused" ELSE "Ready")
      /\ \A t \in Slots \ {exec} : state'[t] = state[t]
  BY <1>2, Basics DEF Leave, AboutToLeave, Staying, TypeOK
<1>9. AboutToEnter(b, p)'
  BY <1>2, <1>7, <1>8 DEF AboutToEnter, AboutToLeave, Leaving, OnlyRunning, Leave
<1>10. ExecInv'
  BY <1>9 DEF ExecInv, Choosing, Leave
<1>11. OwnStack(n)
  BY <1>6, <1>7, <1>8 DEF OwnStack, Leave
<1>12. state'[exec] = "Unused" => state[exec] = "Unused"
  BY <1>2, <1>8 DEF AboutToLeave, Staying
<1>13. gt_current' \in Slots
  BY Basics DEF TypeOK, Leave
<1>. HIDE DEF n
<1>14. MainKept
  BY <1>6, <1>7, MainSame
<1>. QED
  BY <1>14, <1>6, <1>10, <1>11, <1>12, <1>13, TableStep DEF Leave

LEMMA EnterStep ==
  ASSUME IInv, Enter
  PROVE  IInv' /\ MainKept
<1>1. PICK p \in Slots \ {exec} : p = Top.p
  BY ChoosingIs DEF Enter, Running
<1>2. PICK b \in Bases : AboutToEnter(b, p) /\ Front(stack[exec]) = b /\ Top \in Frames
  BY <1>1, ChoosingIs, ChoosingTop, Basics DEF Enter, Running
<1> DEFINE f == Frame("enter", p, None)
           g == Frame("publish", p, None)
           n == Append(b, g)
<1>3. f \in Frames /\ f.pc = "enter" /\ g \in Frames /\ g.pc = "publish"
  BY FrameIs DEF Steps
<1>4. Top = f
  BY <1>2, <1>3, TopIs, BaseStacks DEF AboutToEnter
<1>5. [Top EXCEPT !.pc = "publish"] = g
  BY <1>4 DEF Frame
<1>6. /\ n \in Seq(Frames) /\ Len(n) <= 4
      /\ HasFrame(n, "handler") <=> Held(exec)
      /\ HasFrame(n, "mainexit") <=> HasFrame(stack[exec], "mainexit")
      /\ exec # 0 => ~HasFrame(n, "mainexit")
  BY <1>2, <1>3, ReplaceOnBase DEF AboutToEnter
<1>7. stack' = [stack EXCEPT ![exec] = n] /\ stack'[exec'] = n
  BY <1>2, <1>5, Basics DEF Replace, Enter
<1>8. /\ state' \in [Slots -> {"Unused", "Running", "Ready"}]
      /\ state'[p] = "Running" /\ state[p] = "Ready"
      /\ \A t \in Slots \ {p} : state'[t] = state[t]
  BY <1>1, <1>2, Basics DEF Enter, AboutToEnter, TypeOK
<1>9. Publishing(b, p)'
  BY <1>2, <1>7, <1>8, Basics DEF Publishing, AboutToEnter, Leaving, OnlyRunning, Enter
<1>10. ExecInv'
  BY <1>9 DEF ExecInv, Choosing, Enter
<1>11. OwnStack(n)
  BY <1>6, <1>7, <1>8 DEF OwnStack, Enter
<1>12. state'[exec] = "Unused" => state[exec] = "Unused"
  BY <1>8, Basics
<1>13. gt_current' \in Slots
  BY Basics DEF TypeOK, Enter
<1>. HIDE DEF n
<1>14. MainKept
  BY <1>6, <1>7, MainSame
<1>. QED
  BY <1>14, <1>6, <1>10, <1>11, <1>12, <1>13, TableStep DEF Enter

LEMMA PublishStep ==
  ASSUME IInv, Publish
  PROVE  IInv' /\ MainKept
<1>1. PICK p \in Slots \ {exec} : p = Top.p
  BY ChoosingIs DEF Publish, Running
<1>2. PICK b \in Bases : Publishing(b, p) /\ Front(stack[exec]) = b /\ Top \in Frames
  BY <1>1, ChoosingIs, ChoosingTop, Basics DEF Publish, Running
<1> DEFINE f == Frame("publish", p, None)
           g == Frame("switch", p, exec)
           n == Append(b, g)
<1>3. f \in Frames /\ f.pc = "publish" /\ g \in Frames /\ g.pc = "switch"
  BY FrameIs, Basics DEF Steps
<1>4. /\ n \in Seq(Frames) /\ Len(n) <= 4
      /\ HasFrame(n, "handler") <=> Held(exec)
      /\ HasFrame(n, "mainexit") <=> HasFrame(stack[exec], "mainexit")
      /\ exec # 0 => ~HasFrame(n, "mainexit")
  BY <1>2, <1>3, ReplaceOnBase DEF Publishing
<1>5. gt_current = exec /\ gt_current' = p /\ UNCHANGED <<state, exec>>
  BY <1>1, <1>2 DEF Publish, Publishing
<1>6. stack' = [stack EXCEPT ![exec] = n] /\ stack'[exec'] = n
  BY <1>1, <1>2, <1>5, Basics DEF Replace, Publish
<1>7. Switching(b, p)'
  BY <1>2, <1>5, <1>6 DEF Publishing, Switching, Leaving, OnlyRunning
<1>8. ExecInv'
  BY <1>5, <1>7 DEF ExecInv, Choosing
<1>9. OwnStack(n)
  BY <1>4, <1>5, <1>6, Basics DEF OwnStack, TypeOK
<1>. HIDE DEF n
<1>10. MainKept
  BY <1>4, <1>6, MainSame
<1>. QED
  BY <1>10, <1>4, <1>5, <1>8, <1>9, TableStep DEF Publish

LEMMA ExitStep ==
  ASSUME IInv, ExitThread
  PROVE  IInv' /\ MainKept
<1> DEFINE n == Append(Exiting, At("pick"))
<1>1. stack[exec] = <<At("user")>> /\ InUse /\ ~Held(exec)
  BY InOwnCode DEF ExitThread, Running, OwnCode
<1>2. exec # 0 /\ gt_current = exec
  BY <1>1 DEF InUse, ExitThread
<1>3. At("pick") \in Frames /\ At("pick").pc = "pick" /\ Exiting \in Bases
  BY AtIsFrame DEF Steps, Bases
<1>4. ~HasFrame(Exiting, "handler") /\ ~HasFrame(Exiting, "mainexit")
  BY OneStep DEF Exiting, Steps
<1>5. /\ n \in Seq(Frames) /\ Len(n) <= 4
      /\ ~HasFrame(n, "handler") /\ ~HasFrame(n, "mainexit")
  <2> DEFINE m == Len(n)
  <2>1. /\ n \in Seq(Frames) /\ m \in 2 .. 4
        /\ ~HasFrame(n, "handler") /\ ~HasFrame(n, "mainexit")
    BY <1>3, <1>4, OnBase
  <2>2. m <= 4
    <3>. HIDE DEF m
    <3>. QED
      BY <2>1
  <2>. QED
    BY <2>1, <2>2
<1>6. <<At("exit"), At("pick")>> = n
  BY DEF Exiting
<1>7. stack' = [stack EXCEPT ![exec] = n] /\ stack'[exec'] = n
  BY <1>6, Basics DEF ExitThread
<1>8. /\ state' \in [Slots -> {"Unused", "Running", "Ready"}]
      /\ state'[exec] = "Unused"
      /\ \A t \in Slots \ {exec} : state'[t] = state[t]
  BY <1>2, Basics DEF ExitThread, TypeOK
<1>9. Picking(Exiting)'
  BY <1>1, <1>2, <1>7, <1>8 DEF Picking, Staying, InUse, OnlyRunning, ExitThread, Exiting
<1>10. ExecInv'
  BY <1>3, <1>9 DEF ExecInv
<1>11. OwnStack(n)
  BY <1>5, <1>7, <1>8 DEF OwnStack, ExitThread
<1>12. gt_current' \in Slots /\ exited' \in {"no", "done", "sigint"}
       /\ in_schedule' \in BOOLEAN /\ alarm_blocked' = in_schedule'
  BY Basics DEF TypeOK, GateInv, ExitThread
<1>. HIDE DEF n
<1>13. TypeOK' /\ stack' \in [Slots -> Seq(Frames)] /\ exited' # "corrupt" /\ OthersInv'
  BY <1>2, <1>11, <1>12, OwnStackStep DEF ExitThread
<1>14. GateInv'
  BY <1>1, <1>5, <1>11, GateStep DEF ExitThread
<1>15. MainKept
  BY <1>2, <1>7, MainSame
<1>. QED
  BY <1>15, <1>10, <1>13, <1>14 DEF IInv

(* gt_create's second step: the slot found is still free, and its new       *)
(* thread can be resumed at the trampoline.                                 *)
LEMMA CreateFillStep ==
  ASSUME IInv, CreateFill
  PROVE  IInv' /\ MainKept
<1>1. PICK p \in Slots : p = Top.p /\ Creating(p)
  <2>1. ~AtRest
    BY RestTop DEF CreateFill, Running
  <2>2. ~ \E b \in Bases : Picking(b)
    BY PickingTop DEF CreateFill, Running
  <2>3. ~ \E b \in Bases, p \in Slots \ {exec} : Choosing(b, p)
    BY Basics, ChoosingTop DEF CreateFill, Running
  <2>. QED
    BY <2>1, <2>2, <2>3, Basics, CreatingTop DEF ExecInv
<1>2. InUse /\ state[p] = "Unused" /\ p # exec /\ p # 0
  BY <1>1 DEF Creating, InUse, FreeSlots
<1> DEFINE f == Frame("create", p, None)
<1>3. f \in Frames /\ f.pc = "create" /\ <<At("user")>> \in Calls
  BY FrameIs DEF Steps, Calls
<1>4. <<At("user")>> \in Bases /\ <<At("user")>> \in Resting
  BY <1>3 DEF Bases, Resting, Callers
<1>5. /\ HasFrame(stack[exec], "handler") <=> HasFrame(<<At("user")>>, "handler")
      /\ HasFrame(stack[exec], "mainexit") <=> HasFrame(<<At("user")>>, "mainexit")
  <2>1. stack[exec] = Append(<<At("user")>>, f)
    BY <1>1 DEF Creating
  <2>. QED
    BY <1>3, <1>4, <2>1, OnBase
<1>6. Front(stack[exec]) = <<At("user")>>
  BY <1>1, CreatingTop
<1>7. /\ <<At("tramp")>> \in Seq(Frames) /\ Len(<<At("tramp")>>) = 1
      /\ ~HasFrame(<<At("tramp")>>, "handler") /\ ~HasFrame(<<At("tramp")>>, "mainexit")
      /\ <<At("user")>> \in Seq(Frames) /\ Len(<<At("user")>>) = 1
  BY OneStep DEF Steps
<1>8. /\ stack' \in [Slots -> Seq(Frames)] /\ exec' = exec
      /\ stack'[exec] = <<At("user")>> /\ stack'[p] = <<At("tramp")>>
      /\ \A t \in Slots \ {exec, p} : stack'[t] = stack[t]
  <2>1. stack' = [[stack EXCEPT ![exec] = Front(@)] EXCEPT ![p] = <<At("tramp")>>]
    BY <1>1 DEF CreateFill, Pop
  <2> DEFINE u == <<At("user")>>
             w == <<At("tramp")>>
  <2>2. stack' = [[stack EXCEPT ![exec] = u] EXCEPT ![p] = w]
    BY <1>6, <2>1
  <2>3. u \in Seq(Frames) /\ w \in Seq(Frames) /\ p # exec /\ exec' = exec
    BY <1>2, <1>7 DEF CreateFill
  <2>. HIDE DEF u, w
  <2>4. /\ stack' \in [Slots -> Seq(Frames)] /\ stack'[exec] = u /\ stack'[p] = w
        /\ \A t \in Slots \ {exec, p} : stack'[t] = stack[t]
    BY <2>2, <2>3, Basics
  <2>. QED
    BY <2>3, <2>4 DEF u, w
<1>9. /\ state' \in [Slots -> {"Unused", "Running", "Ready"}] /\ state'[p] = "Ready"
      /\ \A t \in Slots \ {p} : state'[t] = state[t]
      /\ saved' \in [Slots -> {"fresh", "call", "tick", "exit"}] /\ saved'[p] = "fresh"
      /\ \A t \in Slots \ {p} : saved'[t] = saved[t]
      /\ ctx' \in [Slots -> [stack : Slots, depth : 0 .. 4]]
      /\ ctx'[p] = [stack |-> p, depth |-> 1]
      /\ \A t \in Slots \ {p} : ctx'[t] = ctx[t]
  BY <1>1, Basics DEF CreateFill, TypeOK
<1>10. TypeOK'
  <2>1. ASSUME NEW t \in Slots
        PROVE  stack'[t] \in Seq(Frames) /\ Len(stack'[t]) <= 4
    <3>1. CASE t \notin {exec, p}
      BY <1>8, <3>1, Basics DEF TypeOK
    <3>2. Len(stack'[exec]) = 1 /\ Len(stack'[p]) = 1
      BY <1>7, <1>8, Zenon
    <3>3. t \in {exec, p} => Len(stack'[t]) = 1
      BY <3>2, Zenon
    <3>4. t \in {exec, p} => Len(stack'[t]) <= 4
      <4> DEFINE m == Len(stack'[t])
      <4>. HIDE DEF m
      <4>1. m = 1 => m <= 4
        OBVIOUS
      <4>. QED
        BY <3>3, <4>1, Zenon DEF m
    <3>5. stack'[t] \in Seq(Frames)
      BY <1>8
    <3>. QED
      BY <3>1, <3>4, <3>5, Zenon
  <2>. QED
    BY <1>9, <2>1, Basics DEF TypeOK, CreateFill
<1>11. AtRest'
  <2>1. stack'[exec'] \in Resting
    BY <1>4, <1>8
  <2>2. InUse'
    BY <1>2, <1>8, <1>9, Basics DEF InUse, OnlyRunning, CreateFill
  <2>. QED
    BY <2>1, <2>2 DEF AtRest
<1>12. ASSUME NEW t \in Slots \ {exec'}, state'[t] # "Unused"
       PROVE  Resumable(t)'
  <2>1. CASE t = p
    <3>1. <<At("tramp")>> \in Suspended
      BY DEF Suspended
    <3>2. /\ stack'[t] = <<At("tramp")>> /\ ctx'[t] = [stack |-> t, depth |-> 1]
          /\ saved'[t] = "fresh"
      BY <1>8, <1>9, <2>1
    <3>. QED
      BY <1>7, <3>1, <3>2 DEF Resumable
  <2>2. CASE t # p
    <3>1. /\ t \in Slots \ {exec} /\ stack'[t] = stack[t] /\ ctx'[t] = ctx[t]
          /\ saved'[t] = saved[t] /\ state[t] # "Unused"
      BY <1>8, <1>9, <1>12, <2>2
    <3>2. Resumable(t)
      BY <3>1, Basics DEF OthersInv
    <3>. QED
      BY <3>1, <3>2 DEF Resumable
  <2>. QED
    BY <2>1, <2>2
<1>13. ASSUME NEW t \in Slots \ {0}
       PROVE  ~HasFrame(stack'[t], "mainexit")
  <2>1. CASE t = exec
    BY <1>5, <1>8, <2>1, Basics
  <2>2. CASE t = p
    BY <1>7, <1>8, <2>2
  <2>3. CASE t \notin {exec, p}
    BY <1>8, <2>3, Basics DEF OthersInv
  <2>. QED
    BY <2>1, <2>2, <2>3
<1>14. OthersInv'
  BY <1>2, <1>9, <1>12, <1>13, ZeroIsSlot, Basics DEF OthersInv
<1>15. GateInv'
  <2>1. ASSUME NEW t \in Slots
        PROVE  Held(t)' <=> Held(t)
    <3>1. CASE t = exec
      BY <1>5, <1>8, <3>1 DEF Held
    <3>2. CASE t = p
      BY <1>2, <1>7, <1>8, <3>2, Basics DEF Held, GateInv
    <3>3. CASE t \notin {exec, p}
      BY <1>8, <3>3 DEF Held
    <3>. QED
      BY <3>1, <3>2, <3>3
  <2>2. \A t \in Slots : state'[t] = "Unused" => state[t] = "Unused"
    BY <1>9
  <2>. QED
    BY <2>1, <2>2, Basics DEF GateInv, CreateFill
<1>16. MainKept
  <2>1. CASE exec = 0
    BY <1>5, <1>8, <2>1 DEF MainKept
  <2>2. CASE exec # 0
    BY <1>2, <1>8, <2>2, ZeroIsSlot DEF MainKept
  <2>. QED
    BY <2>1, <2>2
<1>. QED
  BY <1>16, <1>8, <1>10, <1>11, <1>14, <1>15, Basics DEF IInv, ExecInv, CreateFill

-----------------------------------------------------------------------------
(* The handler.                                                             *)

(* A safe point outside the handler: the stack is one a tick may find.      *)
LEMMA AtSafePoint ==
  ASSUME IInv, Top.pc \in SafePoints, ~Held(exec)
  PROVE  stack[exec] \in Callers /\ InUse
<1>1. AtRest
  <2>1. ~ \E p \in Slots : Creating(p)
    BY CreatingTop DEF SafePoints
  <2>2. ~ \E b \in Bases : Picking(b)
    BY PickingTop DEF SafePoints
  <2>3. ~ \E b \in Bases, p \in Slots \ {exec} : Choosing(b, p)
    BY Basics, ChoosingTop DEF SafePoints
  <2>. QED
    BY <2>1, <2>2, <2>3, Basics DEF ExecInv
<1>2. stack[exec] \notin Handlers
  BY HandlerStacks DEF Held
<1>3. ASSUME NEW b \in Handlers
      PROVE  stack[exec] # Append(b, At("return"))
  <2>1. HasFrame(Append(b, At("return")), "handler")
    BY HandlerStacks, ReturningStacks
  <2>. QED
    BY <2>1 DEF Held
<1>. QED
  BY <1>1, <1>2, <1>3 DEF AtRest, Resting

LEMMA AppendTwo ==
  ASSUME NEW s \in Seq(Frames), NEW f \in Frames, NEW g \in Frames
  PROVE  s \o <<f, g>> = Append(Append(s, f), g)
  OBVIOUS

LEMMA TickStep ==
  ASSUME IInv, Tick, TickPoints \subseteq SafePoints
  PROVE  IInv' /\ MainKept
<1>1. ~in_schedule /\ \A t \in Slots : ~Held(t)
  BY Basics DEF Tick, GateInv
<1>2. PICK c \in Callers : c = stack[exec] /\ InUse
  BY <1>1, AtSafePoint, Basics DEF Tick
<1> DEFINE b == Append(c, At("handler"))
           n == Append(b, At("pick"))
<1>3. At("handler") \in Frames /\ At("pick") \in Frames
      /\ At("handler").pc = "handler" /\ At("pick").pc = "pick"
  BY AtIsFrame DEF Steps
<1>4. c \in Seq(Frames) /\ b \in Handlers /\ b \in Bases
  BY CallerStacks DEF Handlers, Bases
<1>5. b \in Seq(Frames) /\ b # Exiting /\ HasFrame(b, "handler")
      /\ (HasFrame(b, "mainexit") <=> HasFrame(c, "mainexit"))
  BY <1>3, <1>4, HandlerStacks, HasFrameOfAppend
<1>6. stack[exec] \o <<At("handler"), At("pick")>> = n
  BY <1>2, <1>3, <1>4, AppendTwo
<1>7. stack' = [stack EXCEPT ![exec] = n] /\ stack'[exec'] = n /\ exec' = exec
  BY <1>6, Basics DEF Tick
<1>. HIDE DEF b
<1>8. /\ n \in Seq(Frames) /\ Len(n) <= 4
      /\ HasFrame(n, "handler")
      /\ HasFrame(n, "mainexit") <=> HasFrame(stack[exec], "mainexit")
      /\ exec # 0 => ~HasFrame(n, "mainexit")
  <2> DEFINE m == Len(n)
  <2>1. /\ n \in Seq(Frames) /\ m \in 2 .. 4
        /\ HasFrame(n, "handler") <=> HasFrame(b, "handler")
        /\ HasFrame(n, "mainexit") <=> HasFrame(b, "mainexit")
    BY <1>3, <1>4, OnBase
  <2>2. m <= 4
    <3>. HIDE DEF m
    <3>. QED
      BY <2>1
  <2>. QED
    BY <1>2, <1>5, <2>1, <2>2, Basics
<1>9. Picking(b)'
  BY <1>2, <1>5, <1>7 DEF Picking, Staying, InUse, OnlyRunning, Tick
<1>10. ExecInv'
  BY <1>4, <1>9 DEF ExecInv
<1>. HIDE DEF n
<1>11. OwnStack(n)
  BY <1>7, <1>8, Basics DEF OwnStack, TypeOK, Tick
<1>12. TypeOK' /\ stack' \in [Slots -> Seq(Frames)] /\ exited' # "corrupt" /\ OthersInv'
  <2>1. state'[exec] = "Unused" => exec # 0
    BY <1>2 DEF InUse, Tick
  <2>2. gt_current' \in Slots /\ exited' \in {"no", "done", "sigint"}
        /\ in_schedule' \in BOOLEAN /\ alarm_blocked' = in_schedule'
    BY Basics DEF TypeOK, Tick
  <2>. QED
    BY <1>11, <2>1, <2>2, OwnStackStep DEF Tick
<1>13. GateInv'
  <2>1. Held(exec)' /\ \A t \in Slots \ {exec} : ~Held(t)'
    BY <1>1, <1>8, <1>11, OwnStackIs DEF Held
  <2>2. state'[exec] # "Unused" /\ in_schedule' = TRUE /\ alarm_blocked' = TRUE /\ exec' \in Slots
    BY <1>2, <1>7, Basics DEF InUse, Tick
  <2>. QED
    BY <1>7, <2>1, <2>2 DEF GateInv
<1>14. MainKept
  BY <1>7, <1>8, MainSame
<1>. QED
  BY <1>14, <1>10, <1>12, <1>13 DEF IInv

LEMMA HandlerReturnStep ==
  ASSUME IInv, HandlerReturn
  PROVE  IInv' /\ MainKept
<1>1. Top.pc = "handler"
  BY DEF HandlerReturn, Running
<1>2. AtRest
  <2>1. ~ \E p \in Slots : Creating(p)
    BY <1>1, CreatingTop
  <2>2. ~ \E b \in Bases : Picking(b)
    BY <1>1, PickingTop
  <2>3. ~ \E b \in Bases, p \in Slots \ {exec} : Choosing(b, p)
    BY <1>1, Basics, ChoosingTop
  <2>. QED
    BY <2>1, <2>2, <2>3, Basics DEF ExecInv
<1>3. stack[exec] \in Handlers
  BY <1>1, <1>2, RestingTop DEF AtRest, Top
<1>4. PICK n \in Callers : n = Front(stack[exec])
  BY <1>3, HandlerStacks
<1>5. n \in Resting /\ ~HasFrame(n, "handler")
  BY CallerStacks DEF Resting
<1>6. n \in Seq(Frames) /\ Len(n) <= 4
  <2> DEFINE m == Len(n)
  <2>1. n \in Seq(Frames) /\ m \in 1 .. 2
    BY CallerStacks
  <2>2. m <= 4
    <3>. HIDE DEF m
    <3>. QED
      BY <2>1
  <2>. QED
    BY <2>1, <2>2
<1>7. /\ HasFrame(n, "mainexit") <=> HasFrame(stack[exec], "mainexit")
      /\ exec # 0 => ~HasFrame(n, "mainexit")
  <2>1. PICK c \in Callers : stack[exec] = Append(c, At("handler"))
    BY <1>3 DEF Handlers
  <2>2. At("handler") \in Frames /\ At("handler").pc = "handler" /\ c \in Seq(Frames)
    BY AtIsFrame, CallerStacks DEF Steps
  <2>3. n = c
    BY <1>4, <2>1, <2>2, AppendFrame
  <2>4. HasFrame(n, "mainexit") <=> HasFrame(stack[exec], "mainexit")
    BY <2>1, <2>2, <2>3, HasFrameOfAppend
  <2>. QED
    BY <2>4, Basics
<1>8. stack' = [stack EXCEPT ![exec] = n] /\ stack'[exec'] = n /\ exec' = exec
  BY <1>4, Basics DEF Pop, HandlerReturn
<1>9. ExecInv'
  <2>1. AtRest'
    BY <1>2, <1>5, <1>8, InUseKept DEF AtRest, HandlerReturn
  <2>. QED
    BY <2>1 DEF ExecInv
<1>10. OwnStack(n)
  BY <1>6, <1>7, <1>8, Basics DEF OwnStack, TypeOK, HandlerReturn
<1>11. TypeOK' /\ stack' \in [Slots -> Seq(Frames)] /\ exited' # "corrupt" /\ OthersInv'
  <2>1. state'[exec] = "Unused" => exec # 0
    BY <1>2 DEF AtRest, InUse, HandlerReturn
  <2>2. gt_current' \in Slots /\ exited' \in {"no", "done", "sigint"}
        /\ in_schedule' \in BOOLEAN /\ alarm_blocked' = in_schedule'
    BY Basics DEF TypeOK, HandlerReturn
  <2>. QED
    BY <1>10, <2>1, <2>2, OwnStackStep DEF HandlerReturn
<1>12. GateInv'
  <2>1. Held(exec) /\ \A t \in Slots \ {exec} : ~Held(t)
    BY <1>3, HandlerStacks, Basics DEF Held, GateInv
  <2>2. \A t \in Slots : ~Held(t)'
    BY <1>5, <1>10, <2>1, OwnStackIs DEF Held
  <2>3. in_schedule' = FALSE /\ alarm_blocked' = FALSE
    BY DEF HandlerReturn
  <2>. QED
    BY <2>2, <2>3 DEF GateInv
<1>13. MainKept
  BY <1>7, <1>8, MainSame
<1>. QED
  BY <1>13, <1>9, <1>11, <1>12 DEF IInv

-----------------------------------------------------------------------------
(* gt_switch.                                                               *)

(* What it leaves: the executing thread's stack ends where gt_switch will   *)
(* return, its context points there, and p goes on with the stack it has.   *)
Switched(b, p) ==
  /\ exec' = p /\ UNCHANGED <<state, gt_current, in_schedule, alarm_blocked, exited>>
  /\ stack' \in [Slots -> Seq(Frames)] /\ stack'[exec] = Append(b, At("return"))
  /\ \A t \in Slots \ {exec} : stack'[t] = stack[t]
  /\ ctx' = [ctx EXCEPT ![exec] =
               [stack |-> exec, depth |-> Len(Append(b, At("return")))]]
  /\ saved' = [saved EXCEPT ![exec] = SavedAt(stack[exec])]

LEMMA SuspendedStacks ==
  ASSUME NEW s \in Suspended
  PROVE  s \in Resting /\ s \in Seq(Frames) /\ Len(s) \in 1 .. 4
<1>1. s \in Resting
  BY DEF Suspended, Resting, Callers
<1>. QED
  BY <1>1, RestingStacks

LEMMA SwitchIs ==
  ASSUME IInv, Switch
  PROVE  \E b \in Bases, p \in Slots \ {exec} : Switching(b, p) /\ Switched(b, p)
<1>1. PICK p \in Slots \ {exec} : p = Top.p
  BY ChoosingIs DEF Switch, Running
<1>2. PICK b \in Bases : Switching(b, p) /\ Front(stack[exec]) = b /\ Top.old = exec
  BY <1>1, ChoosingIs, ChoosingTop, Basics DEF Switch, Running
<1> DEFINE n == Append(b, At("return"))
           left == Replace(At("return"))
           here == [stack |-> exec, depth |-> Len(left[exec])]
           saving == [ctx EXCEPT ![exec] = here]
           to == saving[p]
<1>3. n \in Seq(Frames)
  BY OnBase, AtIsFrame DEF Steps
<1>4. /\ left \in [Slots -> Seq(Frames)] /\ left[exec] = n
      /\ \A t \in Slots \ {exec} : left[t] = stack[t]
  BY <1>2, <1>3, Basics DEF Replace
<1>5. Resumable(p) /\ state[p] = "Running"
  BY <1>2, Basics DEF Switching, OthersInv
<1>6. to = ctx[p]
  BY Basics DEF TypeOK
<1> DEFINE m == Len(stack[p])
<1>7. to.stack = p /\ to.depth = m
  BY <1>5, <1>6 DEF Resumable
<1>8. stack[p] \in Seq(Frames) /\ m \in 1 .. 4
  BY <1>5, SuspendedStacks DEF Resumable
<1>9. left[p] = stack[p]
  BY <1>1, <1>4
<1>10. to.depth \in 1 .. Len(left[to.stack])
  <2>1. m \in 1 .. m
    <3>. HIDE DEF m
    <3>. QED
      BY <1>8
  <2>2. Len(left[to.stack]) = m
    BY <1>7, <1>9
  <2>. HIDE DEF to, left, m
  <2>. QED
    BY <1>7, <2>1, <2>2
<1>11. /\ ctx' = saving /\ saved' = [saved EXCEPT ![exec] = SavedAt(stack[exec])]
       /\ exec' = to.stack /\ UNCHANGED <<state, gt_current, in_schedule, alarm_blocked>>
       /\ IF to.depth \in 1 .. Len(left[to.stack])
            THEN /\ stack' = [left EXCEPT ![to.stack] = SubSeq(@, 1, to.depth)]
                 /\ UNCHANGED exited
            ELSE stack' = left /\ exited' = "corrupt"
  BY <1>1, <1>2 DEF Switch
<1>12. exited' = exited /\ stack' = [left EXCEPT ![p] = SubSeq(left[p], 1, m)]
  <2>. HIDE DEF to, left, m
  <2>. QED
    BY <1>7, <1>10, <1>11
<1>13. SubSeq(left[p], 1, m) = left[p]
  BY <1>8, <1>9
<1>14. stack' = left
  <2>. HIDE DEF left, m
  <2>. QED
    BY <1>4, <1>12, <1>13
<1>15. here = [stack |-> exec, depth |-> Len(n)]
  BY <1>4
<1>16. exec' = p
  BY <1>7, <1>11
<1>17. Switched(b, p)
  <2>. HIDE DEF left, to
  <2>. QED
    BY <1>4, <1>11, <1>12, <1>14, <1>15, <1>16 DEF Switched
<1>. QED
  BY <1>2, <1>17

LEMMA SwitchStep ==
  ASSUME IInv, Switch
  PROVE  IInv' /\ MainKept
<1>1. PICK b \in Bases, p \in Slots \ {exec} : Switching(b, p) /\ Switched(b, p)
  BY SwitchIs
<1> DEFINE n == Append(b, At("return"))
           m == Len(n)
<1>2. Resumable(p) /\ state[p] = "Running"
  BY <1>1, Basics DEF Switching, OthersInv
<1>3. At("return") \in Frames /\ At("return").pc = "return" /\ Frame("switch", p, exec) \in Frames
      /\ Frame("switch", p, exec).pc = "switch"
  BY AtIsFrame, FrameIs, Basics DEF Steps
<1>4. /\ n \in Seq(Frames) /\ m \in 2 .. 4
      /\ HasFrame(n, "handler") <=> HasFrame(b, "handler")
      /\ HasFrame(n, "mainexit") <=> HasFrame(b, "mainexit")
  BY <1>3, OnBase
<1>5. /\ HasFrame(stack[exec], "handler") <=> HasFrame(b, "handler")
      /\ HasFrame(stack[exec], "mainexit") <=> HasFrame(b, "mainexit")
  BY <1>1, <1>3, OnBase DEF Switching
<1>6. /\ stack'[exec] = n /\ exec' = p /\ state' = state /\ stack' \in [Slots -> Seq(Frames)]
      /\ \A t \in Slots \ {exec} : stack'[t] = stack[t]
  BY <1>1 DEF Switched
<1>7. /\ ctx' \in [Slots -> [stack : Slots, depth : 0 .. 4]]
      /\ ctx'[exec] = [stack |-> exec, depth |-> m]
      /\ \A t \in Slots \ {exec} : ctx'[t] = ctx[t]
  <2>1. m \in 0 .. 4
    <3>. HIDE DEF m
    <3>. QED
      BY <1>4
  <2>. HIDE DEF n
  <2>2. [stack |-> exec, depth |-> m] \in [stack : Slots, depth : 0 .. 4]
    BY <2>1, Basics
  <2>. QED
    BY <1>1, <2>2, Basics DEF Switched, TypeOK, n
<1>8. /\ saved' \in [Slots -> {"fresh", "call", "tick", "exit"}]
      /\ saved'[exec] = SavedAt(stack[exec])
      /\ \A t \in Slots \ {exec} : saved'[t] = saved[t]
  <2>1. SavedAt(stack[exec]) \in {"fresh", "call", "tick", "exit"}
    BY DEF SavedAt
  <2>. QED
    BY <1>1, <2>1, Basics DEF Switched, TypeOK
<1>9. ASSUME NEW t \in Slots
      PROVE  stack'[t] \in Seq(Frames) /\ Len(stack'[t]) <= 4
  <2>1. m <= 4
    <3>. HIDE DEF m
    <3>. QED
      BY <1>4
  <2>2. CASE t = exec
    BY <1>4, <1>6, <2>1, <2>2, Zenon
  <2>3. CASE t # exec
    BY <1>6, <2>3, Basics DEF TypeOK
  <2>. QED
    BY <2>2, <2>3
<1>10. TypeOK'
  BY <1>1, <1>6, <1>7, <1>8, <1>9, Basics DEF TypeOK, Switched
<1>11. AtRest'
  <2>1. stack'[exec'] \in Resting
    BY <1>2, <1>6, SuspendedStacks DEF Resumable
  <2>2. InUse'
    BY <1>1, <1>2, <1>6, Basics DEF InUse, OnlyRunning, Switching, Switched, Leaving
  <2>. QED
    BY <2>1, <2>2 DEF AtRest
<1>12. ASSUME NEW t \in Slots \ {exec'}, state'[t] # "Unused"
       PROVE  Resumable(t)'
  <2>1. CASE t = exec
    <3>1. b # Exiting
      BY <1>1, <1>6, <1>12, <2>1 DEF Switching, Leaving
    <3>2. n \in Suspended
      BY <3>1, BaseStacks DEF Suspended
    <3>3. saved'[exec] = "tick" <=> HasFrame(n, "handler")
      BY <1>4, <1>5, <1>8 DEF SavedAt
    <3>. HIDE DEF n
    <3>4. stack'[t] = n /\ ctx'[t] = [stack |-> t, depth |-> Len(n)]
      BY <1>6, <1>7, <2>1
    <3>. QED
      BY <2>1, <3>2, <3>3, <3>4 DEF Resumable
  <2>2. CASE t # exec
    <3>1. /\ stack'[t] = stack[t] /\ ctx'[t] = ctx[t] /\ saved'[t] = saved[t]
          /\ state[t] # "Unused"
      BY <1>6, <1>7, <1>8, <1>12, <2>2
    <3>2. Resumable(t)
      BY <2>2, <3>1, Basics DEF OthersInv
    <3>. QED
      BY <3>1, <3>2 DEF Resumable
  <2>. QED
    BY <2>1, <2>2
<1>13. ASSUME NEW t \in Slots \ {0}
       PROVE  ~HasFrame(stack'[t], "mainexit")
  <2>1. CASE t = exec
    BY <1>4, <1>5, <1>6, <2>1, Basics
  <2>2. CASE t # exec
    BY <1>6, <2>2, Basics DEF OthersInv
  <2>. QED
    BY <2>1, <2>2
<1>14. OthersInv'
  BY <1>6, <1>12, <1>13, Basics DEF OthersInv
<1>15. GateInv'
  <2>1. ASSUME NEW t \in Slots
        PROVE  Held(t)' <=> Held(t)
    <3>1. CASE t = exec
      BY <1>4, <1>5, <1>6, <3>1 DEF Held
    <3>2. CASE t # exec
      BY <1>6, <3>2 DEF Held
    <3>. QED
      BY <3>1, <3>2
  <2>. QED
    BY <1>1, <2>1, Basics DEF GateInv, Switched
<1>16. MainKept
  <2>1. CASE exec = 0
    BY <1>4, <1>5, <1>6, <2>1 DEF MainKept
  <2>2. CASE exec # 0
    BY <1>6, <2>2, ZeroIsSlot DEF MainKept
  <2>. QED
    BY <2>1, <2>2
<1>. QED
  BY <1>16, <1>1, <1>6, <1>10, <1>11, <1>14, <1>15 DEF IInv, ExecInv, Switched

-----------------------------------------------------------------------------
(* The invariant.                                                           *)

LEMMA InitHolds == Init => IInv
<1>. SUFFICES ASSUME Init PROVE IInv
  OBVIOUS
<1>1. /\ <<At("user")>> \in Seq(Frames) /\ Len(<<At("user")>>) = 1
      /\ ~HasFrame(<<At("user")>>, "handler")
      /\ <<>> \in Seq(Frames) /\ Len(<<>>) = 0
  BY OneStep DEF Steps
<1>2. /\ stack \in [Slots -> Seq(Frames)] /\ stack[0] = <<At("user")>>
      /\ \A t \in Slots \ {0} : stack[t] = <<>>
  BY <1>1, ZeroIsSlot DEF Init
<1>3. \A t \in Slots : stack[t] \in Seq(Frames) /\ Len(stack[t]) <= 4
  BY <1>1, <1>2
<1>4. TypeOK
  BY <1>3, ZeroIsSlot DEF Init, TypeOK
<1>5. AtRest
  <2>1. <<At("user")>> \in Resting
    BY DEF Resting, Callers, Calls
  <2>. QED
    BY <1>2, <2>1, ZeroIsSlot DEF Init, AtRest, InUse, OnlyRunning
<1>6. \A t \in Slots : ~Held(t)
  BY <1>1, <1>2, HasFrameOfNone DEF Held
<1>7. OthersInv
  BY <1>2, HasFrameOfNone, ZeroIsSlot DEF Init, OthersInv
<1>8. GateInv
  BY <1>6 DEF Init, GateInv
<1>. QED
  BY <1>2, <1>4, <1>5, <1>7, <1>8 DEF Init, IInv, ExecInv

LEMMA StillStep ==
  ASSUME IInv, exited' \in {"no", "done", "sigint"},
         UNCHANGED <<state, ctx, gt_current, in_schedule, alarm_blocked, stack, exec, saved>>
  PROVE  IInv' /\ MainKept
<1>1. TypeOK' /\ MainKept
  BY DEF IInv, TypeOK, MainKept
<1>2. ExecInv'
  <2>1. CASE AtRest
    BY <2>1 DEF ExecInv, AtRest, InUse, OnlyRunning
  <2>2. ASSUME NEW p \in Slots, Creating(p)
        PROVE  Creating(p)'
    BY <2>2 DEF Creating, FreeSlots, InUse, OnlyRunning
  <2>3. ASSUME NEW b \in Bases, Picking(b)
        PROVE  Picking(b)'
    BY <2>3 DEF Picking, Staying, OnlyRunning
  <2>4. ASSUME NEW b \in Bases, NEW p \in Slots \ {exec}, Choosing(b, p)
        PROVE  Choosing(b, p)'
    BY <2>4 DEF Choosing, AboutToLeave, AboutToEnter, Publishing, Switching, Staying, Leaving,
                OnlyRunning
  <2>. QED
    BY <2>1, <2>2, <2>3, <2>4 DEF IInv, ExecInv
<1>3. OthersInv'
  BY DEF IInv, OthersInv, Resumable
<1>4. GateInv'
  BY DEF IInv, GateInv, Held
<1>. QED
  BY <1>1, <1>2, <1>3, <1>4 DEF IInv

(* Every step but MainExit keeps the invariant, and main's stack as it was  *)
(* with respect to gt_exit's loop.                                          *)
LEMMA OtherSteps ==
  ASSUME TickPoints \subseteq SafePoints, IInv, [Next]_vars, ~MainExit
  PROVE  IInv' /\ MainKept
<1>1. CASE CreateFind
  BY <1>1, CreateFindStep
<1>2. CASE CreateFill
  BY <1>2, CreateFillStep
<1>3. CASE Start
  <2>1. Top.pc = "tramp" /\ stack[exec] = <<At("tramp")>>
    BY <1>3, InOwnCode DEF Start, Running, OwnCode
  <2>2. IInv'
    BY <1>3, <2>1, OwnCodeStep DEF Start, OwnCode
  <2>3. stack' = [stack EXCEPT ![exec] = Append(Front(stack[exec]), At("user"))]
    BY <1>3, Basics DEF Start, Replace
  <2>4. Append(Front(stack[exec]), At("user")) = <<At("user")>>
    BY <2>1, OneStep, HasFrameOfOne, AtIsFrame DEF Steps
  <2>5. /\ HasFrame(<<At("user")>>, "mainexit") <=> HasFrame(<<At("tramp")>>, "mainexit")
    BY OneStep DEF Steps
  <2>6. MainKept
    BY <2>1, <2>3, <2>4, <2>5, MainSame
  <2>. QED
    BY <2>2, <2>6
<1>4. CASE Yield
  BY <1>4, PushPickStep DEF Yield, Running
<1>5. CASE ExitThread
  BY <1>5, ExitStep
<1>6. CASE MainExitLoop
  BY <1>6, PushPickStep DEF MainExitLoop, Running
<1>7. CASE Pick
  BY <1>7, PickStep
<1>8. CASE PickNobody
  BY <1>8, PickNobodyStep
<1>9. CASE Leave
  BY <1>9, LeaveStep
<1>10. CASE Enter
  BY <1>10, EnterStep
<1>11. CASE Publish
  BY <1>11, PublishStep
<1>12. CASE Switch
  BY <1>12, SwitchStep
<1>13. CASE Return
  BY <1>13, ReturnStep
<1>14. CASE Tick
  BY <1>14, TickStep
<1>15. CASE HandlerReturn
  BY <1>15, HandlerReturnStep
<1>16. CASE Sigint
  <2>1. UNCHANGED <<state, ctx, gt_current, in_schedule, alarm_blocked, stack, exec, saved>>
        /\ exited' = "sigint"
    BY <1>16 DEF Sigint
  <2>. QED
    BY <2>1, StillStep
<1>17. CASE Ended \/ UNCHANGED vars
  <2>1. UNCHANGED vars
    BY <1>17 DEF Ended
  <2>. QED
    BY <2>1, Basics, StillStep DEF vars, IInv
<1>. QED
  BY <1>1, <1>2, <1>3, <1>4, <1>5, <1>6, <1>7, <1>8, <1>9, <1>10, <1>11, <1>12, <1>13, <1>14,
     <1>15, <1>16, <1>17 DEF Next

LEMMA StepHolds ==
  ASSUME TickPoints \subseteq SafePoints
  PROVE  IInv /\ [Next]_vars => IInv'
<1>. SUFFICES ASSUME IInv, [Next]_vars PROVE IInv'
  OBVIOUS
<1>1. CASE MainExit
  <2>1. Top.pc = "user" /\ exec = 0
    BY <1>1, InOwnCode DEF MainExit, Running, OwnCode, InUse
  <2>. QED
    BY <1>1, <2>1, OwnCodeStep DEF MainExit, OwnCode
<1>. QED
  BY <1>1, OtherSteps

LEMMA Invariance ==
  ASSUME TickPoints \subseteq SafePoints
  PROVE  Spec => []IInv
  BY InitHolds, StepHolds, PTL DEF Spec

-----------------------------------------------------------------------------
(* No stack is deeper than four frames and no context is loaded that has    *)
(* been overrun: with ticks at safe points the process is never "corrupt".  *)
THEOREM TypeCorrect ==
  ASSUME TickPoints \subseteq SafePoints
  PROVE  Spec => []TypeOK
<1>1. IInv => TypeOK
  BY DEF IInv
<1>. QED
  BY <1>1, Invariance, PTL

(* Back in its own code a thread finds gt_in_schedule and the signal mask   *)
(* as the preempted threads left them (gthr.c:293, gthr.c:310).             *)
THEOREM GateAlwaysMatches ==
  ASSUME TickPoints \subseteq SafePoints
  PROVE  Spec => []GateMatches
<1>1. IInv => GateMatches
  <2>. SUFFICES ASSUME IInv, Top.pc = "user"
                PROVE  (in_schedule <=> Preempted # {}) /\ alarm_blocked = in_schedule
    BY DEF GateMatches
  <2>1. ~Held(exec) /\ exec \in Slots
    BY InOwnCode, Basics DEF OwnCode
  <2>2. /\ alarm_blocked = in_schedule
        /\ in_schedule <=> \E t \in Slots : Held(t)
        /\ \A t \in Slots : Held(t) => state[t] # "Unused"
    BY Basics DEF GateInv
  <2>3. Preempted # {} <=> \E t \in Slots : Held(t)
    BY <2>1, <2>2 DEF Preempted, Held
  <2>. QED
    BY <2>2, <2>3
<1>. QED
  BY <1>1, Invariance, PTL

(* While gt_in_schedule is set some live thread is inside the handler and   *)
(* will clear it: preemption is never switched off for good (gthr.c:383).   *)
THEOREM PreemptionNeverLost ==
  ASSUME TickPoints \subseteq SafePoints
  PROVE  Spec => []PreemptionNotLost
<1>1. IInv => PreemptionNotLost
  BY Basics DEF PreemptionNotLost, GateInv, Held
<1>. QED
  BY <1>1, Invariance, PTL

-----------------------------------------------------------------------------
(* The refinement.                                                          *)

LEMMA InitRefines == Init => Lottery!Init
<1>. SUFFICES ASSUME Init PROVE Lottery!Init
  OBVIOUS
<1>1. exec = 0 /\ exited = "no" /\ saved = [t \in Slots |-> "exit"]
  BY DEF Init
<1>2. Lottery!Slots = Slots
  BY DEF Lottery!Slots, Slots
<1>3. Preempted = {}
  BY HasFrameOfNone DEF Init, Preempted
<1>4. HasFrame(stack[0], "mainexit") = FALSE
  <2>1. stack[0] = <<At("user")>>
    BY ZeroIsSlot DEF Init
  <2>2. ~HasFrame(<<At("user")>>, "mainexit")
    BY OneStep DEF Steps
  <2>. QED
    BY <2>1, <2>2 DEF HasFrame
<1>5. [t \in Slots |-> IF t = exec THEN "Running"
                       ELSE IF state[t] = "Running" THEN "Ready" ELSE state[t]]
        = [t \in Slots |-> IF t = 0 THEN "Running" ELSE "Unused"]
  BY DEF Init
<1>. QED
  BY <1>1, <1>2, <1>3, <1>4, <1>5 DEF Lottery!Init

(* The table as Gthr sees it, and what a step that Gthr does not see leaves.*)
Seen(t) ==
  IF t = exec THEN "Running" ELSE IF state[t] = "Running" THEN "Ready" ELSE state[t]

OthersKept ==
  /\ UNCHANGED <<exec, saved>>
  /\ \A t \in Slots \ {exec} : stack'[t] = stack[t] /\ Seen(t)' = Seen(t)

LEMMA SeenKept ==
  ASSUME IInv, OthersKept
  PROVE  /\ [t \in Slots |-> Seen(t)]' = [t \in Slots |-> Seen(t)]
         /\ Preempted' = Preempted
<1>1. exec' = exec /\ \A t \in Slots : Seen(t)' = Seen(t)
  BY DEF OthersKept, Seen
<1>2. \A t \in Slots \ {exec} : state[t] = "Unused" <=> Seen(t) = "Unused"
  BY DEF Seen
<1>3. \A t \in Slots \ {exec} : state'[t] = "Unused" <=> Seen(t)' = "Unused"
  BY <1>1 DEF Seen
<1>4. Preempted' = Preempted
  BY <1>1, <1>2, <1>3 DEF OthersKept, Preempted
<1>. QED
  BY <1>1, <1>4

LEMMA Unseen ==
  ASSUME IInv, OthersKept, MainKept, UNCHANGED exited
  PROVE  UNCHANGED Lottery!vars
<1>1. /\ [t \in Slots |-> Seen(t)]' = [t \in Slots |-> Seen(t)]
      /\ Preempted' = Preempted
  BY SeenKept
<1>2. HasFrame(stack[0], "mainexit")' = HasFrame(stack[0], "mainexit")
  BY DEF MainKept, HasFrame
<1>3. saved' = saved /\ exec' = exec
  BY DEF OthersKept
<1>. QED
  BY <1>1, <1>2, <1>3 DEF Lottery!vars, Seen

(* In the lottery every thread that is not executing and not free may win.  *)
SeenReady == {t \in Slots : Seen(t) = "Ready"}
Upto(t) == {u \in SeenReady : u <= t}
OneTicket == [t \in Slots |-> 1]
Tickets(s) == Tokens(OneTicket, 1, s)

LEMMA SlotsFinite == IsFiniteSet(Slots)
  BY FS_Interval, PreemptSlotsAssumption DEF Slots

LEMMA SeenTables ==
  /\ Lottery!Slots = Slots
  /\ Lottery!ReadySlots = SeenReady
  /\ \A t \in Slots : Lottery!TicketCount(t) = 1
  BY DEF Lottery!Slots, Lottery!ReadySlots, Lottery!TicketCount, Slots, SeenReady, Seen

LEMMA CumulativeIs ==
  ASSUME NEW t
  PROVE  Lottery!CumulativeTickets(t) = Cardinality(Tickets(Upto(t)))
<1> DEFINE S == Upto(t)
           f == [u \in S |-> 1]
           Step(h) == [s \in SUBSET S |->
                         IF s = {} THEN 0
                         ELSE Lottery!TicketCount(CHOOSE x \in s : TRUE)
                                + h[s \ {CHOOSE x \in s : TRUE}]]
<1>1. S \subseteq Slots /\ f \in [S -> 0 .. 1] /\ IsFiniteSet(S)
  BY SlotsFinite, FS_Subset DEF Upto, SeenReady
<1>2. \A h : Step(h) = SumStep(f, S, h)
  <2>1. \A s \in SUBSET S : s # {} => (CHOOSE x \in s : TRUE) \in S
    OBVIOUS
  <2>2. \A u \in S : Lottery!TicketCount(u) = f[u]
    BY <1>1, SeenTables
  <2>. HIDE DEF f, S
  <2>. QED
    BY <2>1, <2>2 DEF SumStep
<1>3. Lottery!CumulativeTickets(t) = (CHOOSE h : h = Step(h))[S]
  BY SeenTables DEF Lottery!CumulativeTickets, Lottery!MapThenSumSet, Lottery!MapThenFoldSet,
     Upto
<1>4. Tokens(f, 1, S) = Tickets(S)
  BY <1>1 DEF Tokens, Tickets, OneTicket
<1>. HIDE DEF Step, f, S
<1>5. Lottery!CumulativeTickets(t) = SumOf(f, S)
  BY <1>2, <1>3 DEF SumOf
<1>6. SumOf(f, S) = Cardinality(Tokens(f, 1, S))
  BY <1>1, SumIsTokenNumber
<1>. QED
  BY <1>4, <1>5, <1>6 DEF S

LEMMA ReadyCanWin ==
  ASSUME NEW p \in SeenReady
  PROVE  Lottery!NextReady(p)
<1> DEFINE c(t) == Cardinality(Tickets(Upto(t)))
           low == Cardinality(Tickets(Upto(p) \ {p}))
<1>1. \A t : Upto(t) \subseteq Slots /\ IsFiniteSet(Upto(t)) /\ IsFiniteSet(Tickets(Upto(t)))
              /\ c(t) \in Nat
  BY SlotsFinite, FS_Subset, TokensFinite DEF Upto, SeenReady, Tickets
<1>2. IsFiniteSet(Tickets(Upto(p) \ {p})) /\ low \in Nat
  <2>1. IsFiniteSet(Upto(p) \ {p})
    BY <1>1, FS_Difference
  <2>. QED
    BY <2>1, TokensFinite DEF Tickets
<1>3. c(p) = 1 + low
  <2>1. p \in Upto(p) /\ OneTicket \in [Slots -> 0 .. 1] /\ OneTicket[p] = 1
    BY DEF Upto, SeenReady, Slots, OneTicket
  <2>. QED
    BY <1>1, <2>1, SlotsFinite, TokensWithout DEF Tickets
<1>4. ASSUME NEW u \in SeenReady, u < p
      PROVE  c(u) <= low
  <2>1. Tickets(Upto(u)) \in SUBSET Tickets(Upto(p) \ {p})
    BY <1>4 DEF Tickets, Tokens, Upto, SeenReady, Slots
  <2>. QED
    BY <1>2, <2>1, FS_Subset
<1>5. c(p) <= c(MaxGThreads - 1)
  <2>1. Tickets(Upto(p)) \in SUBSET Tickets(Upto(MaxGThreads - 1))
    BY PreemptSlotsAssumption DEF Tickets, Tokens, Upto, SeenReady, Slots
  <2>. QED
    BY <1>1, <2>1, FS_Subset
<1>6. c(MaxGThreads - 1) \in Nat /\ Lottery!TotalTickets = c(MaxGThreads - 1)
  BY <1>1, CumulativeIs DEF Lottery!TotalTickets
<1>7. /\ Lottery!CumulativeTickets(p) = c(p)
      /\ \A u \in SeenReady : Lottery!CumulativeTickets(u) = c(u)
  BY CumulativeIs
<1>. HIDE DEF c, low
<1>8. low \in 0 .. Lottery!TotalTickets - 1
  BY <1>2, <1>3, <1>5, <1>6
<1>9. Lottery!LotteryWinner(low, p)
  BY <1>2, <1>3, <1>4, <1>7, SeenTables DEF Lottery!LotteryWinner
<1>. QED
  BY <1>8, <1>9 DEF Lottery!NextReady, Lottery!NextReadyLottery

(* A step of gt_create, of gt_exit or of gt_schedule_internal before        *)
(* gt_switch: the table seen is as before.                                  *)
LEMMA OthersStep ==
  ASSUME IInv,
         \/ CreateFind \/ Start \/ Yield \/ ExitThread \/ MainExit \/ MainExitLoop
         \/ Pick \/ PickNobody \/ Leave \/ Enter \/ Publish \/ Return \/ Tick \/ HandlerReturn
  PROVE  OthersKept
<1>1. exec' = exec /\ saved' = saved
  BY DEF CreateFind, Start, Yield, ExitThread, MainExit, MainExitLoop, Pick, PickNobody, Leave,
         Enter, Publish, Return, Tick, HandlerReturn
<1>2. \E n : stack' = [stack EXCEPT ![exec] = n]
  BY DEF CreateFind, Start, Yield, ExitThread, MainExit, MainExitLoop, Pick, PickNobody, Leave,
         Enter, Publish, Return, Tick, HandlerReturn, Push, Pop, Replace
<1>3. \A t \in Slots \ {exec} : stack'[t] = stack[t]
  BY <1>2, Basics
<1>4. \A t \in Slots \ {exec} : Seen(t)' = Seen(t)
  <2>1. CASE ExitThread
    <3>1. gt_current = exec
      BY <2>1, InOwnCode DEF ExitThread, Running, OwnCode, InUse
    <3>2. \A t \in Slots \ {exec} : state'[t] = state[t]
      BY <2>1, <3>1, Basics DEF ExitThread, TypeOK
    <3>. QED
      BY <1>1, <3>2 DEF Seen
  <2>2. CASE Leave
    <3>1. PICK b \in Bases : AboutToLeave(b, Top.p)
      BY <2>2, ChoosingIs, ChoosingTop, Basics DEF Leave, Running
    <3>2. \A t \in Slots \ {exec} : state'[t] = state[t]
      BY <2>2, <3>1, Basics DEF Leave, AboutToLeave, TypeOK
    <3>. QED
      BY <1>1, <3>2 DEF Seen
  <2>3. CASE Enter
    <3>1. PICK p \in Slots \ {exec} : p = Top.p
      BY <2>3, ChoosingIs DEF Enter, Running
    <3>2. PICK b \in Bases : AboutToEnter(b, p)
      BY <2>3, <3>1, ChoosingIs, ChoosingTop, Basics DEF Enter, Running
    <3>3. /\ state[p] = "Ready" /\ state'[p] = "Running"
          /\ \A t \in Slots \ {p} : state'[t] = state[t]
      BY <2>3, <3>1, <3>2, Basics DEF Enter, AboutToEnter, TypeOK
    <3>. QED
      BY <1>1, <3>3 DEF Seen
  <2>4. CASE state' = state
    BY <1>1, <2>4 DEF Seen
  <2>. QED
    BY <2>1, <2>2, <2>3, <2>4
    DEF CreateFind, Start, Yield, MainExit, MainExitLoop, Pick, PickNobody, Publish, Return,
        Tick, HandlerReturn
<1>. QED
  BY <1>1, <1>3, <1>4 DEF OthersKept

(* What Gthr sees of main: whether its stack is in the loop of gt_exit.     *)
LEMMA MainSeen ==
  ASSUME IInv, exec = 0, stack[exec] = <<At(Top.pc)>>, Top.pc \in Steps
  PROVE  HasFrame(stack[0], "mainexit") <=> Top.pc = "mainexit"
  BY OneStep

(* gt_create takes effect at its second step.                               *)
LEMMA CreateRefines ==
  ASSUME IInv, MainKept, CreateFill
  PROVE  Lottery!Next
<1>1. PICK p \in Slots : p = Top.p /\ Creating(p)
  <2>1. ~AtRest
    BY RestTop DEF CreateFill, Running
  <2>2. ~ \E b \in Bases : Picking(b)
    BY PickingTop DEF CreateFill, Running
  <2>3. ~ \E b \in Bases, p \in Slots \ {exec} : Choosing(b, p)
    BY Basics, ChoosingTop DEF CreateFill, Running
  <2>. QED
    BY <2>1, <2>2, <2>3, Basics, CreatingTop DEF ExecInv
<1>2. state[exec] = "Running" /\ state[p] = "Unused" /\ p # exec /\ p # 0
  BY <1>1 DEF Creating, InUse, FreeSlots
<1>3. exited = "no" /\ exited' = exited /\ exec' = exec
  BY DEF CreateFill, Running
<1>4. ~HasFrame(stack[exec], "mainexit")
  <2>1. Frame("create", p, None) \in Frames /\ Frame("create", p, None).pc = "create"
    BY FrameIs DEF Steps
  <2>2. <<At("user")>> \in Seq(Frames) /\ ~HasFrame(<<At("user")>>, "mainexit")
    BY OneStep DEF Steps
  <2>3. stack[exec] = Append(<<At("user")>>, Frame("create", p, None))
    BY <1>1 DEF Creating
  <2>. QED
    BY <2>1, <2>2, <2>3, HasFrameOfAppend
<1>5. HasFrame(stack[0], "mainexit")' = HasFrame(stack[0], "mainexit")
  BY DEF MainKept, HasFrame
<1>6. Lottery!FreeSlots = FreeSlots
  BY <1>2, SeenTables DEF Lottery!FreeSlots, FreeSlots
<1>7. /\ state' = [state EXCEPT ![p] = "Ready"] /\ saved' = [saved EXCEPT ![p] = "fresh"]
      /\ state \in [Slots -> {"Unused", "Running", "Ready"}]
  BY <1>1, Basics DEF CreateFill, TypeOK
<1>8. [t \in Slots |-> Seen(t)]' = [[t \in Slots |-> Seen(t)] EXCEPT ![p] = "Ready"]
  BY <1>2, <1>3, <1>7 DEF Seen
<1>9. Preempted' = Preempted
  <2>1. /\ stack'[p] = <<At("tramp")>>
        /\ \A t \in Slots \ {exec, p} : stack'[t] = stack[t]
    BY <1>1, <1>2, Basics DEF CreateFill, Pop
  <2>2. ~HasFrame(<<At("tramp")>>, "handler")
    BY OneStep DEF Steps
  <2>. QED
    BY <1>2, <1>3, <1>7, <2>1, <2>2 DEF Preempted
<1>10. Lottery!InThreadCode
  BY <1>3, <1>4 DEF Lottery!InThreadCode
<1>11. p \in FreeSlots /\ \A q \in FreeSlots : p <= q
  BY <1>1 DEF Creating
<1>12. Lottery!CreateThread(0)
  BY <1>3, <1>5, <1>6, <1>7, <1>8, <1>9, <1>10, <1>11
  DEF Lottery!CreateThread, Lottery!FreshContext, Lottery!ClampPriority,
      Lottery!GtPriorityHighest, Seen
<1>. QED
  BY <1>12 DEF Lottery!Next

(* gt_switch takes the whole decision into effect.                          *)
LEMMA SwitchedHeld ==
  ASSUME IInv, NEW b \in Bases, NEW p \in Slots \ {exec}, Switching(b, p), Switched(b, p)
  PROVE  /\ Held(exec) <=> b \in Handlers
         /\ HasFrame(stack[exec], "exit") <=> b = Exiting
         /\ HasFrame(stack[exec], "mainexit") <=> HasFrame(b, "mainexit")
         /\ \A t \in Slots : Held(t)' <=> Held(t)
<1> DEFINE f == Frame("switch", p, exec)
<1>1. /\ f \in Frames /\ f.pc = "switch"
      /\ At("return") \in Frames /\ At("return").pc = "return"
  BY AtIsFrame, FrameIs, Basics DEF Steps
<1>2. b \in Seq(Frames) /\ (HasFrame(b, "handler") <=> b \in Handlers)
      /\ (HasFrame(b, "exit") <=> b = Exiting)
  BY BaseStacks
<1>3. stack[exec] = Append(b, f)
  BY DEF Switching
<1>4. \A pc : HasFrame(stack[exec], pc) <=> HasFrame(b, pc) \/ pc = "switch"
  BY <1>1, <1>2, <1>3, HasFrameOfAppend
<1>5. \A pc : HasFrame(stack'[exec], pc) <=> HasFrame(b, pc) \/ pc = "return"
  BY <1>1, <1>2, HasFrameOfAppend DEF Switched
<1>6. ASSUME NEW t \in Slots
      PROVE  Held(t)' <=> Held(t)
  <2>1. CASE t = exec
    BY <1>4, <1>5, <2>1 DEF Held
  <2>2. CASE t # exec
    BY <2>2 DEF Held, Switched
  <2>. QED
    BY <2>1, <2>2
<1>. QED
  BY <1>2, <1>4, <1>6 DEF Held

LEMMA SwitchedGate ==
  ASSUME IInv, NEW b \in Bases, NEW p \in Slots \ {exec}, Switching(b, p), Switched(b, p)
  PROVE  Preempted' # {} <=>
           (Preempted # {} \/ SavedAt(stack[exec]) = "tick") /\ saved[p] # "tick"
<1>1. /\ \A t \in Slots : Held(t)' <=> Held(t)
      /\ \A t, u \in Slots : Held(t) /\ Held(u) => t = u
      /\ \A t \in Slots : Held(t) => state[t] # "Unused"
  BY SwitchedHeld, Basics DEF GateInv
<1>2. saved[p] = "tick" <=> Held(p)
  BY Basics DEF Switching, OthersInv, Resumable, Held
<1>3. SavedAt(stack[exec]) = "tick" <=> Held(exec)
  BY DEF SavedAt, Held
<1>4. Preempted = {t \in Slots \ {exec} : Held(t)}
  BY <1>1 DEF Preempted, Held
<1>5. Preempted' = {t \in Slots \ {p} : Held(t)'}
  BY <1>1 DEF Preempted, Held, Switched
<1>. QED
  BY <1>1, <1>2, <1>3, <1>4, <1>5, Basics

LEMMA SwitchRefines ==
  ASSUME IInv, MainKept, Switch
  PROVE  Lottery!Next
<1>1. PICK b \in Bases, p \in Slots \ {exec} : Switching(b, p) /\ Switched(b, p)
  BY SwitchIs
<1> DEFINE how == SavedAt(stack[exec])
           next == state[exec]
<1>2. /\ p \in SeenReady /\ exec' = p /\ exited = "no" /\ exited' = exited
      /\ state' = state /\ saved' = [saved EXCEPT ![exec] = how]
  BY <1>1 DEF SeenReady, Seen, Switching, Switched, Switch, Running
<1>3. [t \in Slots |-> Seen(t)]' =
        [[t \in Slots |-> Seen(t)] EXCEPT ![exec] = next, ![p] = "Running"]
  <2>1. next # "Running" /\ \A t \in Slots \ {exec, p} : state[t] # "Running"
    BY <1>1 DEF Switching, Leaving, OnlyRunning
  <2>. QED
    BY <1>2, <2>1, Basics DEF Seen
<1>4. HasFrame(stack[0], "mainexit")' = HasFrame(stack[0], "mainexit")
  BY DEF MainKept, HasFrame
<1>5. Lottery!NextReady(p) /\ Lottery!ReadySlots # {} /\ Lottery!Slots = Slots
  BY <1>2, ReadyCanWin, SeenTables
<1>6. Preempted' # {} <=> (Preempted # {} \/ how = "tick") /\ saved[p] # "tick"
  BY <1>1, SwitchedGate
<1>7. ASSUME NEW nx, NEW hw, nx = next, hw = how
      PROVE  Lottery!SwitchTo(p, nx, hw)
  <2>. HIDE DEF how, next
  <2>1. (Preempted # {})' = ((Preempted # {} \/ hw = "tick") /\ saved[p] # "tick")
    BY <1>6, <1>7
  <2>2. Lottery!ResumeFrom(p, hw)
    BY <2>1 DEF Lottery!ResumeFrom
  <2>3. Lottery!AgeReadyThreads(p)
    BY <1>5 DEF Lottery!AgeReadyThreads
  <2>. QED
    BY <1>2, <1>3, <1>4, <1>5, <1>7, <2>2, <2>3 DEF Lottery!SwitchTo, Seen
<1>8. ASSUME NEW nx, NEW hw, nx = next, hw = how
      PROVE  Lottery!Schedule(nx, hw)
  <2>1. Lottery!SwitchTo(p, nx, hw)
    BY <1>7, <1>8
  <2>. HIDE DEF how, next
  <2>. QED
    BY <1>5, <2>1 DEF Lottery!Schedule
<1>9. /\ Held(exec) <=> b \in Handlers
      /\ HasFrame(stack[exec], "exit") <=> b = Exiting
      /\ HasFrame(stack[exec], "mainexit") <=> HasFrame(b, "mainexit")
  BY <1>1, SwitchedHeld
<1>10. next = IF b = Exiting THEN "Unused" ELSE "Ready"
  BY <1>1 DEF Switching, Leaving
<1>11. CASE b = <<At("user")>>
  <2>1. b \in Calls
    BY <1>11 DEF Calls
  <2>2. b # Exiting /\ b \notin Handlers /\ ~HasFrame(b, "mainexit")
    BY <1>11, <2>1, CallStacks, HandlerStacks, OneStep DEF Steps
  <2>3. how = "call" /\ next = "Ready"
    BY <1>9, <1>10, <2>2 DEF SavedAt, Held
  <2>4. Lottery!InThreadCode
    BY <1>2, <1>9, <2>2 DEF Lottery!InThreadCode
  <2>. HIDE DEF how, next
  <2>5. Lottery!Schedule("Ready", "call")
    BY <1>8, <2>3, Zenon
  <2>6. Lottery!Yield
    BY <2>4, <2>5, Zenon DEF Lottery!Yield
  <2>. QED
    BY <2>6 DEF Lottery!Next
<1>12. CASE b = <<At("mainexit")>>
  <2>1. b \in Calls
    BY <1>12 DEF Calls
  <2>2. b # Exiting /\ b \notin Handlers /\ HasFrame(b, "mainexit")
    BY <1>12, <2>1, CallStacks, HandlerStacks, OneStep DEF Steps
  <2>3. how = "call" /\ next = "Ready"
    BY <1>9, <1>10, <2>2 DEF SavedAt, Held
  <2>4. exec = 0 /\ HasFrame(stack[0], "mainexit")
    BY <1>9, <2>2, Basics
  <2>5. Lottery!InMainExitLoop
    BY <1>2, <2>4 DEF Lottery!InMainExitLoop
  <2>. HIDE DEF how, next
  <2>6. Lottery!Schedule("Ready", "call")
    BY <1>8, <2>3, Zenon
  <2>7. Lottery!MainExitLoop
    BY <1>5, <2>5, <2>6, Zenon DEF Lottery!MainExitLoop
  <2>. QED
    BY <2>7 DEF Lottery!Next
<1>13. CASE b = Exiting
  <2>1. b \notin Handlers
    BY <1>13, HandlerStacks
  <2>2. how = "exit" /\ next = "Unused"
    BY <1>9, <1>10, <1>13, <2>1 DEF SavedAt, Held
  <2>3. exec # 0
    BY <2>2, Basics DEF OthersInv
  <2>4. Lottery!InThreadCode
    BY <1>2, <2>3 DEF Lottery!InThreadCode
  <2>. HIDE DEF how, next
  <2>5. Lottery!Schedule("Unused", "exit")
    BY <1>8, <2>2, Zenon
  <2>6. Lottery!ExitThread
    BY <2>3, <2>4, <2>5, Zenon DEF Lottery!ExitThread
  <2>. QED
    BY <2>6 DEF Lottery!Next
<1>14. CASE b \in Handlers
  <2>1. b # Exiting
    BY <1>14, HandlerStacks
  <2>2. how = "tick" /\ next = "Ready"
    BY <1>9, <1>10, <1>14, <2>1 DEF SavedAt, Held
  <2>3. Preempted = {}
    BY <1>9, <1>14, Basics DEF Preempted, GateInv, Held
  <2>. HIDE DEF how, next
  <2>4. Lottery!Schedule("Ready", "tick")
    BY <1>8, <2>2, Zenon
  <2>5. Lottery!Tick
    BY <1>2, <2>3, <2>4, Zenon DEF Lottery!Tick
  <2>. QED
    BY <2>5 DEF Lottery!Next
<1>. QED
  BY <1>11, <1>12, <1>13, <1>14 DEF Bases, Calls

(* The main thread enters the loop of gt_exit.                              *)
LEMMA MainExitRefines ==
  ASSUME IInv, MainExit
  PROVE  Lottery!Next
<1>1. Top.pc = "user" /\ exec = 0 /\ stack[exec] = <<At("user")>>
  BY InOwnCode DEF MainExit, Running, OwnCode, InUse
<1>2. ~HasFrame(stack[0], "mainexit")
  BY <1>1, OneStep DEF Steps
<1>3. HasFrame(stack[0], "mainexit")' = TRUE
  <2>1. Front(<<At("user")>>) = <<>> /\ HasFrame(<<At("mainexit")>>, "mainexit")
    BY OneStep DEF Steps
  <2>2. Append(<<>>, At("mainexit")) = <<At("mainexit")>>
    OBVIOUS
  <2>3. stack'[0] = <<At("mainexit")>>
    BY <1>1, <2>1, <2>2, Basics DEF MainExit, Replace
  <2>. QED
    BY <2>1, <2>3 DEF HasFrame
<1>4. OthersKept
  BY OthersStep
<1>5. /\ [t \in Slots |-> Seen(t)]' = [t \in Slots |-> Seen(t)]
      /\ Preempted' = Preempted /\ saved' = saved /\ exec' = exec
  BY <1>4, SeenKept DEF OthersKept
<1>6. exited = "no" /\ exited' = exited
  BY DEF MainExit, Running
<1>7. Lottery!InThreadCode
  BY <1>2, <1>6 DEF Lottery!InThreadCode
<1>8. Lottery!MainExit
  BY <1>1, <1>3, <1>5, <1>6, <1>7 DEF Lottery!MainExit, Seen
<1>. QED
  BY <1>8 DEF Lottery!Next

(* gt_schedule_internal returns false, and the main thread ends its loop.   *)
LEMMA PickNobodyRefines ==
  ASSUME IInv, MainKept, PickNobody
  PROVE  [Lottery!Next]_(Lottery!vars)
<1>1. OthersKept /\ exited = "no"
  BY OthersStep DEF PickNobody, Running
<1>2. CASE exited' = "no"
  <2>1. UNCHANGED Lottery!vars
    BY <1>1, <1>2, Unseen
  <2>. QED
    BY <2>1
<1>3. CASE exited' # "no"
  <2>1. PICK b \in Bases : Picking(b) /\ Front(stack[exec]) = b
    BY PickIs DEF PickNobody, Running
  <2>2. exited' = "done" /\ Last(b).pc = "mainexit"
    BY <1>3, <2>1 DEF PickNobody
  <2>3. b # Exiting
    BY <2>1, SomebodyReady DEF PickNobody
  <2>4. b \in Calls
    <3>1. b \notin Handlers
      BY <2>2, HandlerStacks, AtIsFrame DEF Steps
    <3>. QED
      BY <2>3, <3>1 DEF Bases
  <2>5. b = <<At("mainexit")>>
    BY <2>2, <2>4, OneStep, AtIsFrame DEF Calls, Steps
  <2>6. HasFrame(stack[exec], "mainexit")
    <3>1. At("pick") \in Frames /\ <<At("mainexit")>> \in Seq(Frames)
          /\ HasFrame(<<At("mainexit")>>, "mainexit")
      BY AtIsFrame, OneStep DEF Steps
    <3>. QED
      BY <2>1, <2>5, <3>1, HasFrameOfAppend DEF Picking
  <2>7. exec = 0
    BY <2>6, Basics
  <2>8. Lottery!InMainExitLoop
    BY <1>1, <2>6, <2>7 DEF Lottery!InMainExitLoop
  <2>9. Lottery!ReadySlots = {}
    <3>1. SeenReady = {}
      BY <2>1 DEF SeenReady, Seen, Picking, OnlyRunning, ReadySlots, PickNobody
    <3>. QED
      BY <3>1, SeenTables
  <2>10. /\ [t \in Slots |-> Seen(t)]' = [t \in Slots |-> Seen(t)]
         /\ Preempted' = Preempted /\ saved' = saved /\ exec' = exec
    BY <1>1, SeenKept DEF OthersKept
  <2>11. HasFrame(stack[0], "mainexit")' = HasFrame(stack[0], "mainexit")
    BY DEF MainKept, HasFrame
  <2>12. Lottery!PlatformExit
    BY <2>2, <2>8, <2>9, <2>10, <2>11 DEF Lottery!PlatformExit, Seen
  <2>. QED
    BY <2>12 DEF Lottery!Next
<1>. QED
  BY <1>2, <1>3

LEMMA StepRefines ==
  ASSUME TickPoints \subseteq SafePoints, IInv, [Next]_vars
  PROVE  [Lottery!Next]_(Lottery!vars)
<1>1. CASE MainExit
  BY <1>1, MainExitRefines
<1>2. CASE ~MainExit
  <2>0. MainKept
    BY <1>2, OtherSteps
  <2>1. CASE CreateFill
    BY <2>0, <2>1, CreateRefines
  <2>2. CASE Switch
    BY <2>0, <2>2, SwitchRefines
  <2>3. CASE PickNobody
    BY <2>0, <2>3, PickNobodyRefines
  <2>4. CASE \/ CreateFind \/ Start \/ Yield \/ ExitThread \/ MainExitLoop
             \/ Pick \/ Leave \/ Enter \/ Publish \/ Return \/ Tick \/ HandlerReturn
    <3>1. OthersKept
      BY <2>4, OthersStep
    <3>2. exited' = exited
      BY <2>4 DEF CreateFind, Start, Yield, ExitThread, MainExitLoop, Pick, Leave, Enter,
         Publish, Return, Tick, HandlerReturn
    <3>3. UNCHANGED Lottery!vars
      BY <2>0, <3>1, <3>2, Unseen
    <3>. QED
      BY <3>3
  <2>5. CASE Sigint
    <3>1. OthersKept
      BY <2>5 DEF Sigint, OthersKept, Seen
    <3>2. /\ [t \in Slots |-> Seen(t)]' = [t \in Slots |-> Seen(t)]
          /\ Preempted' = Preempted /\ saved' = saved /\ exec' = exec
      BY <3>1, SeenKept DEF OthersKept
    <3>3. HasFrame(stack[0], "mainexit")' = HasFrame(stack[0], "mainexit")
      BY <2>0 DEF MainKept, HasFrame
    <3>4. Lottery!Sigint
      BY <2>5, <3>2, <3>3 DEF Sigint, Lottery!Sigint, Seen
    <3>. QED
      BY <3>4 DEF Lottery!Next
  <2>6. CASE Ended \/ UNCHANGED vars
    <3>1. UNCHANGED vars
      BY <2>6 DEF Ended
    <3>2. OthersKept /\ exited' = exited
      BY <3>1 DEF vars, OthersKept, Seen
    <3>3. UNCHANGED Lottery!vars
      BY <2>0, <3>2, Unseen
    <3>. QED
      BY <3>3
  <2>. QED
    BY <1>2, <2>1, <2>2, <2>3, <2>4, <2>5, <2>6 DEF Next
<1>. QED
  BY <1>1, <1>2

(* The steps of gt_create, gt_yield, gt_exit and scheduler_tick, with every *)
(* interleaving of ticks at safe points, add up to the atomic calls of Gthr *)
(* under the lottery: what is proved of Gthr holds of the steps.            *)
THEOREM ImplementsGthr ==
  ASSUME TickPoints \subseteq SafePoints
  PROVE  Spec => RefinesGthr
<1>1. Spec => []IInv
  BY Invariance
<1>2. IInv /\ [Next]_vars => [Lottery!Next]_(Lottery!vars)
  BY StepRefines
<1>. QED
  BY <1>1, <1>2, InitRefines, PTL DEF Spec, RefinesGthr, Lottery!Spec
=============================================================================
