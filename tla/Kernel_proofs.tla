---------------------------- MODULE Kernel_proofs ----------------------------
(***************************************************************************)
(* Proofs about Kernel and the disk driver it extends, for every set of    *)
(* sector numbers and values and every number of slots.                    *)
(*                                                                         *)
(* The driver's part of the inductive invariant says what the device may   *)
(* still do for the pending call.  The sector number is written when the   *)
(* device is not busy; if it does not ask for data either it hears the     *)
(* number and the command, and from then on every answer is an answer to   *)
(* that command.  If it does ask for data, an earlier call has given up on *)
(* that request (Owed), and the pending call is late.  The table's part    *)
(* says that exec loads the first slot above the current one, which is     *)
(* therefore unused.                                                       *)
(***************************************************************************)
EXTENDS Kernel, TLAPS

\* A call has a sector number and a write has data, and only a write goes
\* past the data.
CallShape ==
  /\ (call.op = "none") <=> (call.pc = "idle")
  /\ (call.pc = "idle") <=> (call = NoCall)
  /\ call.pc # "idle" => call.lba \in Lbas
  /\ call.op = "write" => call.data \in Values
  /\ call.pc \in {"flush", "stored"} => call.op = "write"

\* The device has the number of the call's sector.
Addressed ==
  /\ call.pc \notin {"idle", "check"} => call.lba \in Sectors
  /\ call.pc \in {"command", "drq", "flush", "stored"} /\ ~late => latched = call.lba
  /\ call.pc = "command" => status \in {"ready", "drq"}

\* A request for data, made or still to be made, is the pending call's or
\* one an earlier call gave up on.
Owed ==
  /\ status = "drq" => command \in {"read", "write"}
  /\ status \in {"busy", "drq"} /\ command \in {"read", "write"} => call.pc = "drq" \/ late

\* What the device shows while the driver waits for DRQ is about this call.
Answered ==
  call.pc = "drq" /\ ~late =>
    \/ status = "busy" /\ command = call.op
    \/ status = "drq" /\ command = call.op /\ (call.op = "read" => buffer = disk[call.lba])
    \/ status = "error"

\* The data is on its way to the medium, or there, or the device failed.
Written ==
  call.pc \in {"flush", "stored"} /\ ~late =>
    \/ status = "busy" /\ command = "store" /\ buffer = call.data
    \/ /\ status # "drq" /\ command \in {"none", "flush"}
       /\ failed \/ disk[call.lba] = call.data

ResultHasData == result.rc = 0 => result.data \in Values

DriverInv ==
  IdeTypeOK /\ CallShape /\ Addressed /\ Owed /\ Answered /\ Written /\ ResultHasData

TableTypeOK ==
  /\ slot_state \in [Slots -> {"unused", "ready", "running"}]
  /\ gt_current \in Slots \cup {NoSlot}
  /\ memory \in [Slots -> Values]
  /\ sector \in Values
  /\ cli \in [cmd : {"none", "read", "write", "exec", "load", "loaded"},
              to : Slots \cup {NoSlot, BufferAddr}]

\* exec fills the first unused slot.
FillsNext ==
  cli.cmd \in {"exec", "load", "loaded"} => cli.to \in Slots /\ cli.to = gt_current + 1

TableInv == TableTypeOK /\ OneRunning /\ FillsNext

IInv == DriverInv /\ TableInv

-----------------------------------------------------------------------------
(* The driver and the device.                                               *)

LEMMA DriverStarts == IdeInit => DriverInv
<1> SUFFICES ASSUME IdeInit PROVE DriverInv
  OBVIOUS
<1>1. IdeTypeOK
  BY DEF IdeInit, IdeTypeOK, NoCall, NoResult, NoData
<1>2. CallShape /\ Addressed /\ Owed
  BY DEF IdeInit, CallShape, Addressed, Owed, NoCall
<1>3. Answered /\ Written /\ ResultHasData
  BY DEF IdeInit, Answered, Written, ResultHasData, NoCall, NoResult
<1>. QED
  BY <1>1, <1>2, <1>3 DEF DriverInv

(* A call with a sector number and, for a write, data.                      *)
LEMMA CallKeepsDriverInv ==
  ASSUME DriverInv,
         NEW op \in {"read", "write"}, NEW lba \in Lbas, NEW data \in Values \cup {NoData},
         op = "write" => data \in Values,
         Call(op, lba, data)
  PROVE  DriverInv'
<1>1. IdeTypeOK'
  BY DEF DriverInv, Call, IdeTypeOK, NoResult, NoData
<1>2. call'.op = op /\ call'.lba = lba /\ call'.data = data /\ call'.pc = "check"
  BY DEF Call
<1>3. CallShape' /\ Addressed' /\ Owed'
  BY <1>2 DEF DriverInv, CallShape, Addressed, Owed, Call, NoCall
<1>4. Answered' /\ Written' /\ ResultHasData'
  BY <1>2 DEF Call, Answered, Written, ResultHasData, NoResult
<1>. QED
  BY <1>1, <1>3, <1>4 DEF DriverInv

LEMMA DriverStepKeepsDriverInv ==
  ASSUME DriverInv, IdeCallStep
  PROVE  DriverInv'
<1> USE DEF DriverInv, IdeTypeOK, CallShape, Addressed, Owed, Answered, Written, ResultHasData,
            NoCall, NoData, At
<1>1. CASE CheckLba
  BY <1>1, LbasAssumption DEF CheckLba, Return, Goto, Sectors
<1>2. CASE Select
  BY <1>2 DEF Select, Hears, Goto
<1>3. CASE SendCommand
  BY <1>3 DEF SendCommand, Send, Hears, Goto
<1>4. CASE ReadData
  BY <1>4 DEF ReadData, Return
<1>5. CASE WriteData
  BY <1>5 DEF WriteData, Goto
<1>6. CASE SendFlush
  BY <1>6 DEF SendFlush, Send, Hears, Goto
<1>7. CASE WriteEnds
  BY <1>7 DEF WriteEnds, Return
<1>8. CASE GiveUp
  <2>1. /\ call' = NoCall /\ result'.rc = -1
        /\ result' \in [op : {"none", "read", "write"}, lba : Lbas \cup {0},
                       data : Values \cup {NoData}, rc : {0, -1}]
        /\ UNCHANGED <<disk, status, latched, command, buffer, failed>>
    BY <1>8 DEF GiveUp, Return
  <2>2. /\ late' \in BOOLEAN /\ (late => late')
        /\ call.pc = "drq" /\ status = "busy" => late'
    BY <1>8 DEF GiveUp
  <2>3. call.pc = "drq" => status # "drq"
    BY <1>8 DEF GiveUp, Waiting
  <2>4. IdeTypeOK' /\ CallShape' /\ Addressed' /\ Answered' /\ Written' /\ ResultHasData'
    BY <2>1, <2>2
  <2>5. Owed'
    BY <2>1, <2>2, <2>3
  <2>. QED
    BY <2>4, <2>5
<1>. QED
  BY <1>1, <1>2, <1>3, <1>4, <1>5, <1>6, <1>7, <1>8 DEF IdeCallStep

LEMMA DeviceStepKeepsDriverInv ==
  ASSUME DriverInv, Device
  PROVE  DriverInv'
<1> USE DEF DriverInv, IdeTypeOK, CallShape, Addressed, Owed, Answered, Written, ResultHasData
<1>1. CASE DeviceReads
  BY <1>1 DEF DeviceReads
<1>2. CASE DeviceAsksForData
  BY <1>2 DEF DeviceAsksForData
<1>3. CASE DeviceStores
  BY <1>3 DEF DeviceStores
<1>4. CASE DeviceFlushes
  BY <1>4 DEF DeviceFlushes
<1>5. CASE DeviceFails
  <2>1. /\ status = "busy" /\ status' = "error" /\ command' = "none"
        /\ UNCHANGED <<disk, latched, buffer, call, result, late>>
    BY <1>5 DEF DeviceFails
  <2>2. failed' \in BOOLEAN /\ (failed => failed') /\ (command = "store" => failed')
    BY <1>5 DEF DeviceFails
  <2>3. IdeTypeOK'
    BY <2>1, <2>2
  <2>4. CallShape' /\ Addressed' /\ Owed' /\ Answered' /\ ResultHasData'
    BY <2>1
  <2>5. Written'
    BY <2>1, <2>2
  <2>. QED
    BY <2>3, <2>4, <2>5
<1>. QED
  BY <1>1, <1>2, <1>3, <1>4, <1>5 DEF Device

LEMMA StutterKeepsDriverInv == DriverInv /\ UNCHANGED ideVars => DriverInv'
  BY DEF DriverInv, IdeTypeOK, CallShape, Addressed, Owed, Answered, Written, ResultHasData, ideVars

-----------------------------------------------------------------------------
(* The table and the commands.                                              *)

LEMMA TableStarts == Init => TableInv
<1> SUFFICES ASSUME Init PROVE TableInv
  OBVIOUS
<1>1. TableTypeOK
  BY DEF Init, TableTypeOK, Prompt, NoSlot, BufferAddr
<1>2. OneRunning
  BY ProcessesAssumption DEF Init, OneRunning, Slots, NoSlot
<1>3. FillsNext
  BY DEF Init, FillsNext, Prompt
<1>. QED
  BY <1>1, <1>2, <1>3 DEF TableInv

(* A command that leaves the table alone, and is not an exec.               *)
LEMMA CommandKeepsTableInv ==
  ASSUME TableInv, UNCHANGED <<slot_state, gt_current>>,
         memory' \in [Slots -> Values], sector' \in Values,
         cli' \in [cmd : {"none", "read", "write"}, to : Slots \cup {NoSlot, BufferAddr}]
  PROVE  TableInv'
<1>1. TableTypeOK'
  BY DEF TableInv, TableTypeOK
<1>2. OneRunning' /\ FillsNext'
  BY DEF TableInv, OneRunning, FillsNext
<1>. QED
  BY <1>1, <1>2 DEF TableInv

(* The slot find_free_slot returns is the one above the current one.        *)
LEMMA FreeSlotIsNext ==
  ASSUME TableInv, NEW s \in Slots, FindFreeSlot(s)
  PROVE  s = gt_current + 1
<1>1. s > gt_current
  BY DEF TableInv, OneRunning, FindFreeSlot
<1>2. gt_current \in Int /\ gt_current >= -1 /\ s \in Int
  BY ProcessesAssumption DEF TableInv, TableTypeOK, Slots, NoSlot
<1>3. CASE gt_current + 1 < s
  <2>1. gt_current + 1 \in Slots
    BY <1>2, <1>3, ProcessesAssumption DEF Slots
  <2>2. slot_state[gt_current + 1] # "unused"
    BY <1>3, <2>1 DEF FindFreeSlot
  <2>. QED
    BY <1>2, <2>1, <2>2 DEF TableInv, OneRunning
<1>. QED
  BY <1>1, <1>2, <1>3

(* The search of scheduler_tick meets the slot just filled before any other *)
(* ready slot: those are all below the current one.                         *)
LEMMA TickRunsFilledSlot ==
  ASSUME TableInv, NEW s \in Slots, s = gt_current + 1, Tick(CreateSlot(s))
  PROVE  /\ gt_current' = s
         /\ slot_state' = [r \in Slots |-> IF r = s THEN "running"
                                           ELSE IF r = gt_current THEN "ready"
                                           ELSE slot_state[r]]
<1> DEFINE table == CreateSlot(s)
           ready == {r \in Slots : table[r] = "ready"}
<1>1. /\ table \in [Slots -> {"unused", "ready", "running"}]
      /\ table[s] = "ready"
      /\ \A r \in Slots : r # s => table[r] = slot_state[r]
  BY DEF TableInv, TableTypeOK, CreateSlot
<1>2. PICK next \in ready \ {gt_current} :
        /\ NextReady(ready, next)
        /\ slot_state' = [r \in Slots |->
                             IF r = next THEN "running"
                             ELSE IF r = gt_current /\ table[r] = "running" THEN "ready"
                             ELSE table[r]]
        /\ gt_current' = next
  BY DEF Tick
<1>3. Dist(next) <= Dist(s)
  BY <1>1, <1>2 DEF NextReady
<1>4. next # s => next < gt_current
  <2>1. next # s => slot_state[next] = "ready"
    BY <1>1, <1>2
  <2>. QED
    BY <1>2, <2>1, ProcessesAssumption
    DEF TableInv, TableTypeOK, OneRunning, Slots, NoSlot
<1>5. next = s
  BY <1>2, <1>3, <1>4, ProcessesAssumption
  DEF TableInv, TableTypeOK, Dist, Slots, NoSlot
<1>6. \A r \in Slots : r = gt_current => r # s /\ slot_state[r] = "running"
  BY ProcessesAssumption DEF TableInv, TableTypeOK, OneRunning, Slots, NoSlot
<1>. QED
  BY <1>1, <1>2, <1>5, <1>6

LEMMA ExecEndsKeepsTableInv ==
  ASSUME TableInv, ExecEnds
  PROVE  TableInv'
<1> DEFINE s == cli.to
<1>1. s \in Slots /\ s = gt_current + 1
  BY DEF ExecEnds, TableInv, FillsNext
<1>2. /\ gt_current' = s
      /\ slot_state' = [r \in Slots |-> IF r = s THEN "running"
                                        ELSE IF r = gt_current THEN "ready"
                                        ELSE slot_state[r]]
  BY <1>1, TickRunsFilledSlot DEF ExecEnds
<1>3. TableTypeOK'
  BY <1>1, <1>2 DEF ExecEnds, TableInv, TableTypeOK, Prompt, NoSlot
<1>4. OneRunning'
  BY <1>1, <1>2, ProcessesAssumption
  DEF TableInv, TableTypeOK, OneRunning, Slots, NoSlot
<1>5. FillsNext'
  BY DEF ExecEnds, FillsNext, Prompt
<1>. QED
  BY <1>3, <1>4, <1>5 DEF TableInv

-----------------------------------------------------------------------------
(* Every command keeps both parts.                                          *)

LEMMA StartReadKeepsIInv ==
  ASSUME IInv, NEW number \in Numbers, NEW to \in Slots \cup {BufferAddr}, StartRead(number, to)
  PROVE  IInv'
<1>1. ParseU32(number) \in Lbas
  BY ParsedAssumption DEF StartRead
<1>2. DriverInv'
  <2>1. NoData \in Values \cup {NoData} /\ Call("read", ParseU32(number), NoData)
    BY DEF StartRead
  <2>. QED
    BY <1>1, <2>1, CallKeepsDriverInv DEF IInv
<1>3. TableInv'
  BY CommandKeepsTableInv DEF StartRead, IInv, TableInv, TableTypeOK
<1>. QED
  BY <1>2, <1>3 DEF IInv

LEMMA StartWriteKeepsIInv ==
  ASSUME IInv, NEW number \in Numbers, StartWrite(number)
  PROVE  IInv'
<1>1. ParseU32(number) \in Lbas
  BY ParsedAssumption DEF StartWrite
<1>2. DriverInv'
  <2>1. sector \in Values /\ Call("write", ParseU32(number), sector)
    BY DEF StartWrite, IInv, TableInv, TableTypeOK
  <2>. QED
    BY <1>1, <2>1, CallKeepsDriverInv DEF IInv
<1>3. TableInv'
  BY CommandKeepsTableInv DEF StartWrite, IInv, TableInv, TableTypeOK
<1>. QED
  BY <1>2, <1>3 DEF IInv

LEMMA ReadEndsKeepsIInv == IInv /\ ReadEnds => IInv'
<1> SUFFICES ASSUME IInv, ReadEnds PROVE IInv'
  OBVIOUS
<1>1. DriverInv'
  BY StutterKeepsDriverInv DEF IInv, ReadEnds
<1>2. result.rc = 0 => result.data \in Values
  BY DEF IInv, DriverInv, ResultHasData
<1>3. memory' \in [Slots -> Values] /\ sector' \in Values
  BY <1>2 DEF ReadEnds, IInv, TableInv, TableTypeOK
<1>4. TableInv'
  BY <1>3, CommandKeepsTableInv DEF ReadEnds, IInv, Prompt
<1>. QED
  BY <1>1, <1>4 DEF IInv

LEMMA LoadSectorKeepsIInv ==
  ASSUME IInv, NEW lba \in Lbas, LoadSector(lba)
  PROVE  IInv'
<1>1. DriverInv'
  <2>1. NoData \in Values \cup {NoData} /\ Call("read", lba, NoData)
    BY DEF LoadSector
  <2>. QED
    BY <2>1, CallKeepsDriverInv DEF IInv
<1>2. TableInv'
  BY DEF LoadSector, IInv, TableInv, TableTypeOK, OneRunning, FillsNext
<1>. QED
  BY <1>1, <1>2 DEF IInv

LEMMA SectorEndsKeepsIInv == IInv /\ SectorEnds => IInv'
<1> SUFFICES ASSUME IInv, SectorEnds PROVE IInv'
  OBVIOUS
<1>1. DriverInv'
  BY StutterKeepsDriverInv DEF IInv, SectorEnds
<1>2. memory' \in [Slots -> Values]
  BY DEF SectorEnds, IInv, DriverInv, ResultHasData, TableInv, TableTypeOK
<1>3. TableInv'
  BY <1>2 DEF SectorEnds, IInv, TableInv, TableTypeOK, OneRunning, FillsNext
<1>. QED
  BY <1>1, <1>3 DEF IInv

LEMMA StartExecKeepsIInv == IInv /\ StartExec => IInv'
<1> SUFFICES ASSUME IInv, StartExec PROVE IInv'
  OBVIOUS
<1>1. DriverInv'
  BY StutterKeepsDriverInv DEF IInv, StartExec
<1>2. PICK s \in Slots : FindFreeSlot(s) /\ cli' = [cmd |-> "exec", to |-> s]
  BY DEF StartExec
<1>3. s = gt_current + 1
  BY <1>2, FreeSlotIsNext DEF IInv
<1>4. TableInv'
  BY <1>2, <1>3 DEF StartExec, IInv, TableInv, TableTypeOK, OneRunning, FillsNext
<1>. QED
  BY <1>1, <1>4 DEF IInv

LEMMA StartKeepsIInv == Init => IInv
  BY DriverStarts, TableStarts DEF Init, IInv

LEMMA NextKeepsIInv == IInv /\ [Next]_vars => IInv'
<1> SUFFICES ASSUME IInv, [Next]_vars PROVE IInv'
  OBVIOUS
<1>1. ASSUME NEW number \in Numbers, ReadCommand(number) \/ LoadCommand(number) PROVE IInv'
  BY <1>1, StartReadKeepsIInv DEF ReadCommand, LoadCommand
<1>2. ASSUME NEW number \in Numbers, StartWrite(number) PROVE IInv'
  BY <1>2, StartWriteKeepsIInv
<1>3. ASSUME NEW lba \in Lbas, LoadSector(lba) PROVE IInv'
  BY <1>3, LoadSectorKeepsIInv
<1>4. CASE ReadEnds \/ StartExec \/ SectorEnds
  BY <1>4, ReadEndsKeepsIInv, StartExecKeepsIInv, SectorEndsKeepsIInv
<1>5. CASE WriteEnded \/ LoadFails
  <2>1. DriverInv'
    BY <1>5, StutterKeepsDriverInv DEF IInv, WriteEnded, LoadFails
  <2>2. TableInv'
    BY <1>5, CommandKeepsTableInv
    DEF WriteEnded, LoadFails, IInv, TableInv, TableTypeOK, Prompt
  <2>. QED
    BY <2>1, <2>2 DEF IInv
<1>6. CASE ExecEnds
  <2>1. DriverInv'
    BY <1>6, StutterKeepsDriverInv DEF IInv, ExecEnds
  <2>. QED
    BY <1>6, <2>1, ExecEndsKeepsTableInv DEF IInv
<1>7. CASE UNCHANGED vars
  <2>1. DriverInv'
    BY <1>7, StutterKeepsDriverInv DEF IInv, vars
  <2>2. TableInv'
    BY <1>7 DEF vars, kernelVars, IInv, TableInv, TableTypeOK, OneRunning, FillsNext
  <2>. QED
    BY <2>1, <2>2 DEF IInv
<1>8. CASE (IdeCallStep \/ Device) /\ UNCHANGED kernelVars
  <2>1. DriverInv'
    BY <1>8, DriverStepKeepsDriverInv, DeviceStepKeepsDriverInv DEF IInv
  <2>2. TableInv'
    BY <1>8 DEF kernelVars, IInv, TableInv, TableTypeOK, OneRunning, FillsNext
  <2>. QED
    BY <2>1, <2>2 DEF IInv
<1>. QED
  BY <1>1, <1>2, <1>3, <1>4, <1>5, <1>6, <1>7, <1>8 DEF Next, Command, Usage, ExecRefused

THEOREM Invariance == Spec => []IInv
  BY StartKeepsIInv, NextKeepsIInv, PTL DEF Spec

-----------------------------------------------------------------------------
(* Each variable keeps its type; in particular a sector that is read into   *)
(* memory comes from a call that returned one.                              *)
THEOREM TypeCorrect == Spec => []TypeOK
<1>1. IInv => TypeOK
  BY DEF IInv, DriverInv, TableInv, TableTypeOK, TypeOK
<1>. QED
  BY <1>1, Invariance, PTL

(* However many programs exec starts, the table marks one as running, the   *)
(* one scheduler_tick chose last, and the slots above it are unused.        *)
THEOREM OneRunningHolds == Spec => []OneRunning
<1>1. IInv => OneRunning
  BY DEF IInv, TableInv
<1>. QED
  BY <1>1, Invariance, PTL

(* exec and the load command never write into a program already started,    *)
(* other than the one a load names.                                         *)
THEOREM LiveMemoryIsKept == Spec => LiveMemoryKept
<1> DEFINE A == \A s \in Slots :
                  slot_state[s] # "unused" /\ cli # [cmd |-> "read", to |-> s] =>
                    memory'[s] = memory[s]
<1>1. ASSUME IInv, SectorEnds PROVE A
  <2>1. slot_state[cli.to] = "unused"
    BY <1>1, ProcessesAssumption
    DEF SectorEnds, IInv, TableInv, TableTypeOK, OneRunning, FillsNext, Slots, NoSlot
  <2>. QED
    BY <1>1, <2>1 DEF SectorEnds, IInv, TableInv, TableTypeOK
<1>2. ASSUME IInv, ReadEnds PROVE A
  <2>1. \A s \in Slots : cli.to = s => cli = [cmd |-> "read", to |-> s]
    BY <1>2 DEF ReadEnds, IInv, TableInv, TableTypeOK
  <2>. QED
    BY <1>2, <2>1 DEF ReadEnds, IInv, TableInv, TableTypeOK
<1>3. ASSUME Next, ~SectorEnds, ~ReadEnds PROVE UNCHANGED memory
  BY <1>3
  DEF Next, Command, ReadCommand, LoadCommand, StartRead, StartWrite, Usage, LoadSector,
      WriteEnded, StartExec, ExecRefused, LoadFails, ExecEnds, kernelVars, vars
<1>4. IInv /\ [Next]_vars => [A]_vars
  BY <1>1, <1>2, <1>3
<1>. QED
  BY <1>4, Invariance, PTL DEF Spec, LiveMemoryKept

-----------------------------------------------------------------------------
(* What a command other than a driver step does to the driver's variables:  *)
(* nothing, or a call, which has no result yet.                             *)
LEMMA CommandReturnsNothing ==
  ASSUME Next, ~IdeCallStep
  PROVE  UNCHANGED result \/ result' = NoResult
<1>1. CASE Command
  BY <1>1
  DEF Command, ReadCommand, LoadCommand, StartRead, StartWrite, Usage, LoadSector, ReadEnds,
      WriteEnded, StartExec, ExecRefused, SectorEnds, LoadFails, ExecEnds, Call, ideVars, vars
<1>2. CASE Device
  BY <1>2
  DEF Device, DeviceReads, DeviceAsksForData, DeviceStores, DeviceFlushes, DeviceFails
<1>. QED
  BY <1>1, <1>2 DEF Next

(* The driver's own steps: which of them return 0, and what then holds.     *)
LEMMA ReturnsAreRight ==
  ASSUME IInv, IdeCallStep, result # result', result'.rc = 0
  PROVE  late \/ (ReadRight /\ WriteRight)
<1>. USE DEF ReadRight, WriteRight
<1>1. CASE ReadData
  BY <1>1 DEF ReadData, Return, At, IInv, DriverInv, Answered
<1>2. CASE WriteEnds
  BY <1>2 DEF WriteEnds, Return, At, IInv, DriverInv, CallShape, Written
<1>3. CASE CheckLba \/ GiveUp
  BY <1>3 DEF CheckLba, GiveUp, Return, Goto
<1>4. CASE Select \/ SendCommand \/ WriteData \/ SendFlush
  BY <1>4 DEF Select, SendCommand, WriteData, SendFlush, Goto
<1>. QED
  BY <1>1, <1>2, <1>3, <1>4 DEF IdeCallStep

LEMMA EveryReturnIsRight ==
  ASSUME IInv, [Next]_vars, result # result', result'.rc = 0
  PROVE  late \/ (ReadRight /\ WriteRight)
<1>1. CASE Next /\ ~IdeCallStep
  BY <1>1, CommandReturnsNothing DEF NoResult, ReadRight, WriteRight
<1>2. CASE IdeCallStep
  BY <1>2, ReturnsAreRight
<1>3. CASE UNCHANGED vars
  BY <1>3 DEF vars, ideVars
<1>. QED
  BY <1>1, <1>2, <1>3

(* ide_read_sector returns 0 only with the sector it was asked for, unless  *)
(* an earlier call gave up on a data request and this one found the device  *)
(* still making it.                                                         *)
THEOREM ReadsAreRequested == Spec => ReadReturnsRequested
<1>1. IInv /\ [Next]_vars => [Succeeds => late \/ ReadRight]_ideVars
  BY EveryReturnIsRight DEF Succeeds
<1>. QED
  BY <1>1, Invariance, PTL DEF Spec, ReadReturnsRequested

(* ide_write_sector returns 0 only when its data is on the medium, or the   *)
(* device reported a failure that the flush hid, with the same exception.   *)
THEOREM WritesAreStored == Spec => WriteOkStored
<1>1. IInv /\ [Next]_vars => [Succeeds => late \/ WriteRight]_ideVars
  BY EveryReturnIsRight DEF Succeeds
<1>. QED
  BY <1>1, Invariance, PTL DEF Spec, WriteOkStored
=============================================================================
