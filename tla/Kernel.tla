------------------------------- MODULE Kernel -------------------------------
(***************************************************************************)
(* The kernel of src/kernel as start_kernel leaves it: the command loop is *)
(* the only thing that executes, the disk device works on its own beside   *)
(* it, and the process table is changed by exec alone.  The calls that     *)
(* would load the IDT, program the timer and enable interrupts are         *)
(* commented out in start_kernel, so isr_handler never runs.               *)
(*                                                                         *)
(* The commands are those that reach the disk or the process table: read,  *)
(* write, load and exec.  load_file is external: it reads some sectors     *)
(* into the slot it is given and succeeds or not.  A sector of a slot      *)
(* stands for the slot's memory.                                           *)
(* An operator named Faulty... is a plausible bug in the definition that   *)
(* follows it, kept to show that a property would notice it.               *)
(***************************************************************************)
EXTENDS IdeDriver, Sequences, SequencesExt

CONSTANTS
  MaxProcesses,   \* MAX_PROCESSES (8)
  WordSize,       \* 2^32: one past the largest u32
  Numbers         \* typed numbers: whether they start with 0x, and their digits

ASSUME ProcessesAssumption == MaxProcesses \in Nat \ {0}
ASSUME NumbersAssumption ==
  /\ WordSize \in Nat \ {0}
  /\ Numbers \subseteq [hex : BOOLEAN, digits : Seq(Nat)]

Slots == 0 .. MaxProcesses - 1
NoSlot == -1
BufferAddr == -2             \* CLI_DEFAULT_BUFFER_ADDR, outside every slot

VARIABLES
  slot_state,   \* gt_table[s].state
  gt_current,   \* NoSlot, or a slot
  memory,       \* what the memory of each slot holds
  sector,       \* the sector at CLI_DEFAULT_BUFFER_ADDR
  cli           \* the command that runs, and where its sectors go

kernelVars == <<slot_state, gt_current, memory, sector, cli>>
vars == <<ideVars, kernelVars>>

Prompt == [cmd |-> "none", to |-> NoSlot]

TypeOK ==
  /\ IdeTypeOK
  /\ slot_state \in [Slots -> {"unused", "ready", "running"}]
  /\ gt_current \in Slots \cup {NoSlot}
  /\ memory \in [Slots -> Values]
  /\ sector \in Values
  /\ cli \in [cmd : {"none", "read", "write", "exec", "load", "loaded"},
              to : Slots \cup {NoSlot, BufferAddr}]

(* partition_init and scheduler_init.                                       *)
Init ==
  /\ IdeInit
  /\ slot_state = [s \in Slots |-> "unused"]
  /\ gt_current = NoSlot
  /\ memory \in [Slots -> Values]
  /\ sector \in Values
  /\ cli = Prompt

-----------------------------------------------------------------------------
(* The commands read, write and load, which name a sector by a number.      *)

NoNumber == -1

(* cli_parse_u32.  A digit that the base does not have, or none at all, is  *)
(* refused; a number that does not fit in 32 bits is not, and wraps.        *)
ParseU32(number) ==
  LET base == IF number.hex THEN 16 ELSE 10
      Add(value, d) == (value * base + d) % WordSize
  IN  IF number.digits = <<>> \/ \E d \in ToSet(number.digits) : d >= base
      THEN NoNumber
      ELSE FoldLeft(Add, 0, number.digits)

\* Lbas has every number that can be typed.
ASSUME ParsedAssumption == \A number \in Numbers : ParseU32(number) \in Lbas \cup {NoNumber}

StartRead(number, to) ==
  /\ cli = Prompt
  /\ ParseU32(number) # NoNumber
  /\ Call("read", ParseU32(number), NoData)
  /\ cli' = [cmd |-> "read", to |-> to]
  /\ UNCHANGED <<slot_state, gt_current, memory, sector>>

(* read <lba> goes through one buffer, load <lba> <addr> wherever the user  *)
(* says, over a program too.                                                *)
ReadCommand(number) == StartRead(number, BufferAddr)
LoadCommand(number) == \E s \in Slots : StartRead(number, s)

ReadEnds ==
  /\ cli.cmd = "read" /\ call = NoCall
  /\ sector' = IF result.rc = 0 /\ cli.to = BufferAddr THEN result.data ELSE sector
  /\ memory' = [s \in Slots |-> IF result.rc = 0 /\ cli.to = s THEN result.data ELSE memory[s]]
  /\ cli' = Prompt
  /\ UNCHANGED <<ideVars, slot_state, gt_current>>

StartWrite(number) ==
  /\ cli = Prompt
  /\ ParseU32(number) # NoNumber
  /\ Call("write", ParseU32(number), sector)
  /\ cli' = [cmd |-> "write", to |-> NoSlot]
  /\ UNCHANGED <<slot_state, gt_current, memory, sector>>

WriteEnded ==
  /\ cli.cmd = "write" /\ call = NoCall
  /\ cli' = Prompt
  /\ UNCHANGED <<ideVars, slot_state, gt_current, memory, sector>>

Usage(number) ==
  /\ cli = Prompt
  /\ ParseU32(number) = NoNumber
  /\ UNCHANGED vars

-----------------------------------------------------------------------------
(* exec.                                                                    *)

FaultyFindFreeSlot(s) ==
  /\ slot_state[s] # "running"
  /\ \A r \in Slots : r < s => slot_state[r] = "running"

FindFreeSlot(s) ==
  /\ slot_state[s] = "unused"
  /\ \A r \in Slots : r < s => slot_state[r] # "unused"

StartExec ==
  /\ cli = Prompt
  /\ \E s \in Slots : FindFreeSlot(s) /\ cli' = [cmd |-> "exec", to |-> s]
  /\ UNCHANGED <<ideVars, slot_state, gt_current, memory, sector>>

(* No slot is ever given back.                                              *)
ExecRefused ==
  /\ cli = Prompt
  /\ \A s \in Slots : slot_state[s] # "unused"
  /\ UNCHANGED vars

LoadSector(lba) ==
  /\ cli.cmd \in {"exec", "loaded"}
  /\ Call("read", lba, NoData)
  /\ cli' = [cli EXCEPT !.cmd = "load"]
  /\ UNCHANGED <<slot_state, gt_current, memory, sector>>

(* The sector goes straight into the memory of the slot.                    *)
SectorEnds ==
  /\ cli.cmd = "load" /\ call = NoCall
  /\ memory' = IF result.rc = 0 THEN [memory EXCEPT ![cli.to] = result.data] ELSE memory
  /\ cli' = [cli EXCEPT !.cmd = "loaded"]
  /\ UNCHANGED <<ideVars, slot_state, gt_current, sector>>

(* Also an empty file.                                                      *)
LoadFails ==
  /\ cli.cmd \in {"exec", "loaded"}
  /\ cli' = Prompt
  /\ UNCHANGED <<ideVars, slot_state, gt_current, memory, sector>>

(* How far the circular search of scheduler_tick walks before it meets s.   *)
Dist(s) ==
  LET start == IF gt_current = NoSlot THEN 0 ELSE gt_current
  IN  IF s > start THEN s - start ELSE s - start + MaxProcesses

NextReady(ready, s) == s \in ready /\ \A r \in ready : Dist(s) <= Dist(r)

FaultyTick(table) ==
  LET ready == {s \in Slots : table[s] = "ready"}
  IN  \E next \in ready :
        /\ NextReady(ready, next)
        /\ slot_state' = [table EXCEPT ![next] = "running"]
        /\ gt_current' = next

(* scheduler_tick on the table that scheduler_create_slot left: there is a  *)
(* ready slot other than the current one.                                   *)
Tick(table) ==
  LET ready == {s \in Slots : table[s] = "ready"}
      left(s) == s = gt_current /\ table[s] = "running"
  IN  \E next \in ready \ {gt_current} :
        /\ NextReady(ready, next)
        /\ slot_state' = [s \in Slots |-> IF s = next THEN "running"
                                          ELSE IF left(s) THEN "ready" ELSE table[s]]
        /\ gt_current' = next

(* scheduler_create_slot; the frame it prepares is never switched to.       *)
CreateSlot(s) == [slot_state EXCEPT ![s] = "ready"]

(* load_file succeeded.                                                     *)
ExecEnds ==
  /\ cli.cmd = "loaded"
  /\ Tick(CreateSlot(cli.to))
  /\ cli' = Prompt
  /\ UNCHANGED <<ideVars, memory, sector>>

-----------------------------------------------------------------------------
Command ==
  \/ \E number \in Numbers :
       ReadCommand(number) \/ LoadCommand(number) \/ StartWrite(number) \/ Usage(number)
  \/ \E lba \in Lbas : LoadSector(lba)
  \/ ReadEnds \/ WriteEnded
  \/ StartExec \/ ExecRefused \/ SectorEnds \/ LoadFails \/ ExecEnds

Next ==
  \/ Command
  \/ (IdeCallStep \/ Device) /\ UNCHANGED kernelVars

Spec == Init /\ [][Next]_vars

(* The command loop is the only thing that executes: a call that was made   *)
(* goes on.  Nothing is assumed of the device or of the user.               *)
FairSpec == Spec /\ WF_vars(IdeCallStep /\ UNCHANGED kernelVars)

-----------------------------------------------------------------------------
(* The memory of a program that is already in the process table is written  *)
(* only by a load that names it: exec never touches it, whatever the disk   *)
(* answers and however many programs were started, and neither does a load  *)
(* into another slot.                                                       *)
LiveMemoryKept ==
  [][\A s \in Slots :
       slot_state[s] # "unused" /\ cli # [cmd |-> "read", to |-> s] =>
         memory'[s] = memory[s]]_vars

(* The table marks one process as running, the one gt_current points to,    *)
(* and that is the program exec started last.                               *)
OneRunning ==
  /\ \A s \in Slots : slot_state[s] = "running" <=> s = gt_current
  /\ \A s \in Slots : slot_state[s] = "unused" <=> s > gt_current
=============================================================================
