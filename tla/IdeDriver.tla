------------------------------ MODULE IdeDriver ------------------------------
(***************************************************************************)
(* The polling disk driver of src/kernel/drivers/ide.c and the device it   *)
(* talks to.  ide_read_sector and ide_write_sector wait for the device,    *)
(* give it a sector number and a command, wait for its data request, and   *)
(* move the sector; every wait may give up after ATA_WAIT_TIMEOUT polls,   *)
(* while the device still works on the command.                            *)
(*                                                                         *)
(* The device is external, and behaves as that of QEMU, which the Makefile *)
(* runs.  It answers after any delay, may fail any command, and keeps its  *)
(* error bit (ERR or DF) until the next command.  It is busy as soon as it *)
(* has a command, and ignores what is written to its registers while it is *)
(* busy or asks for data; the driver looks only at the busy bit.  A whole  *)
(* sector moves in one step: the processor does nothing else meanwhile.    *)
(* An operator named Faulty... is a plausible bug in the definition that   *)
(* follows it, kept to show that a property would notice it.               *)
(***************************************************************************)
EXTENDS Integers

CONSTANTS
  Lbas,      \* sector numbers of the calls
  MaxLba,    \* 0x0FFFFFFF: the last sector number of a 28-bit address
  Values     \* what a sector may contain

ASSUME LbasAssumption == Lbas \subseteq Nat /\ MaxLba \in Nat
ASSUME ValuesAssumption == Values \subseteq Nat

Sectors == {lba \in Lbas : lba <= MaxLba}

VARIABLES
  disk,      \* the sectors on the medium
  status,    \* "ready", "busy", "drq" or "error": BSY, DRQ and ERR or DF
  latched,   \* the sector number in the device's registers
  command,   \* the command it works on: "none", "read", "write", "store" or "flush"
  buffer,    \* the sector it hands over, or was handed
  call,      \* the driver's call: operation, sector, data and where it is
  result,    \* what the last call returned, and for which sector
  failed,    \* history: the device failed to store what the call gave it
  late       \* history: a call gave up on a data request still to come, and
             \* since then no call has found the device without one

ideVars == <<disk, status, latched, command, buffer, call, result, failed, late>>

NoData == -1
NoCall == [op |-> "none", lba |-> 0, data |-> NoData, pc |-> "idle"]
NoResult == [op |-> "none", lba |-> 0, data |-> NoData, rc |-> -1]

IdeTypeOK ==
  /\ disk \in [Sectors -> Values]
  /\ status \in {"ready", "busy", "drq", "error"}
  /\ latched \in Sectors
  /\ command \in {"none", "read", "write", "store", "flush"}
  /\ buffer \in Values
  /\ call \in [op : {"none", "read", "write"}, lba : Lbas \cup {0}, data : Values \cup {NoData},
               pc : {"idle", "check", "select", "command", "drq", "flush", "stored"}]
  /\ result \in [op : {"none", "read", "write"}, lba : Lbas \cup {0}, data : Values \cup {NoData},
                 rc : {0, -1}]
  /\ failed \in BOOLEAN /\ late \in BOOLEAN

IdeInit ==
  /\ disk \in [Sectors -> Values]
  /\ status = "ready"
  /\ latched \in Sectors
  /\ command = "none"
  /\ buffer \in Values
  /\ call = NoCall
  /\ result = NoResult
  /\ failed = FALSE
  /\ late = FALSE

-----------------------------------------------------------------------------
(* The driver.                                                              *)

Call(op, lba, data) ==
  /\ call = NoCall
  /\ call' = [op |-> op, lba |-> lba, data |-> data, pc |-> "check"]
  /\ result' = NoResult
  /\ failed' = FALSE
  /\ UNCHANGED <<disk, status, latched, command, buffer, late>>

Return(rc, data) ==
  /\ result' = [op |-> call.op, lba |-> call.lba, data |-> data, rc |-> rc]
  /\ call' = NoCall

At(pc) == call.pc = pc
Goto(pc) == call' = [call EXCEPT !.pc = pc] /\ UNCHANGED result

\* Whether the device takes what is written to its registers.
Hears == status \notin {"busy", "drq"}

FaultyCheckLba ==
  /\ At("check")
  /\ Goto("select")
  /\ UNCHANGED <<disk, status, latched, command, buffer, failed, late>>

(* ata_select_lba28 refuses a number that does not fit in 28 bits.          *)
CheckLba ==
  /\ At("check")
  /\ IF call.lba > MaxLba THEN Return(-1, NoData) ELSE Goto("select")
  /\ UNCHANGED <<disk, status, latched, command, buffer, failed, late>>

FaultySelect ==
  /\ At("select")
  /\ latched' = IF Hears THEN call.lba ELSE latched
  /\ late' = (late /\ status # "ready")
  /\ Goto("command")
  /\ UNCHANGED <<disk, status, command, buffer, failed>>

(* ata_wait_not_busy, then the sector number: the device must not be busy   *)
(* nor have its error bit set.  That it may ask for data is not tested.     *)
Select ==
  /\ At("select")
  /\ status \in {"ready", "drq"}
  /\ latched' = IF Hears THEN call.lba ELSE latched
  /\ late' = (late /\ status # "ready")
  /\ Goto("command")
  /\ UNCHANGED <<disk, status, command, buffer, failed>>

(* The command register.                                                    *)
Send(cmd) ==
  IF Hears THEN status' = "busy" /\ command' = cmd ELSE UNCHANGED <<status, command>>

SendCommand ==
  /\ At("command")
  /\ Send(call.op)
  /\ Goto("drq")
  /\ UNCHANGED <<disk, latched, buffer, failed, late>>

(* ata_wait_drq succeeds and the 256 words are read.  A device that asks    *)
(* for a sector to store gives no meaningful words, and goes on asking.     *)
ReadData ==
  /\ At("drq") /\ call.op = "read"
  /\ status = "drq"
  /\ \/ /\ command = "read"
        /\ Return(0, buffer)
        /\ status' = "ready" /\ command' = "none"
     \/ /\ command = "write"
        /\ \E v \in Values : Return(0, v)
        /\ UNCHANGED <<status, command>>
  /\ UNCHANGED <<disk, latched, buffer, failed, late>>

(* The 256 words are written and the device starts to store them.  A device *)
(* that has a sector to hand over ignores them.                             *)
WriteData ==
  /\ At("drq") /\ call.op = "write"
  /\ status = "drq"
  /\ \/ /\ command = "write"
        /\ buffer' = call.data
        /\ status' = "busy" /\ command' = "store"
     \/ command = "read" /\ UNCHANGED <<buffer, status, command>>
  /\ Goto("flush")
  /\ UNCHANGED <<disk, latched, failed, late>>

(* CACHE_FLUSH is sent without waiting for that.  If the device has already *)
(* failed to store the data, the command clears its error bit.              *)
SendFlush ==
  /\ At("flush")
  /\ Send("flush")
  /\ Goto("stored")
  /\ UNCHANGED <<disk, latched, buffer, failed, late>>

FaultyWriteEnds ==
  /\ At("stored")
  /\ Return(0, call.data)
  /\ UNCHANGED <<disk, status, latched, command, buffer, failed, late>>

(* ata_wait_not_busy again: since the device did not hear a flush sent      *)
(* while it was busy, this may be the wait for the data itself.             *)
WriteEnds ==
  /\ At("stored")
  /\ status \in {"ready", "drq"}
  /\ Return(0, call.data)
  /\ UNCHANGED <<disk, status, latched, command, buffer, failed, late>>

Waiting == \/ At("select") /\ status \in {"busy", "error"}
           \/ At("drq")    /\ status # "drq"
           \/ At("stored") /\ status \in {"busy", "error"}

FaultyGiveUp ==
  /\ Waiting
  /\ At("drq") => status = "error"
  /\ Return(-1, NoData)
  /\ UNCHANGED <<disk, status, latched, command, buffer, failed, late>>

(* A wait sees the error bit, or has polled ATA_WAIT_TIMEOUT times.         *)
GiveUp ==
  /\ Waiting
  /\ Return(-1, NoData)
  /\ late' = (late \/ (At("drq") /\ status = "busy"))
  /\ UNCHANGED <<disk, status, latched, command, buffer, failed>>

IdeCallStep ==
  \/ CheckLba \/ Select \/ SendCommand \/ ReadData \/ WriteData
  \/ SendFlush \/ WriteEnds \/ GiveUp

-----------------------------------------------------------------------------
(* The device.                                                              *)

DeviceReads ==
  /\ status = "busy" /\ command = "read"
  /\ status' = "drq"
  /\ buffer' = disk[latched]
  /\ UNCHANGED <<disk, latched, command, call, result, failed, late>>

DeviceAsksForData ==
  /\ status = "busy" /\ command = "write"
  /\ status' = "drq"
  /\ UNCHANGED <<disk, latched, command, buffer, call, result, failed, late>>

DeviceStores ==
  /\ status = "busy" /\ command = "store"
  /\ disk' = [disk EXCEPT ![latched] = buffer]
  /\ status' = "ready" /\ command' = "none"
  /\ UNCHANGED <<latched, buffer, call, result, failed, late>>

DeviceFlushes ==
  /\ status = "busy" /\ command = "flush"
  /\ status' = "ready" /\ command' = "none"
  /\ UNCHANGED <<disk, latched, buffer, call, result, failed, late>>

DeviceFails ==
  /\ status = "busy"
  /\ status' = "error" /\ command' = "none"
  /\ failed' = (failed \/ command = "store")
  /\ UNCHANGED <<disk, latched, buffer, call, result, late>>

Device ==
  DeviceReads \/ DeviceAsksForData \/ DeviceStores \/ DeviceFlushes \/ DeviceFails

-----------------------------------------------------------------------------
(* What it means that a call which returns 0 did what it was asked.  The    *)
(* driver does not look at the error bit between data and flush, so a write *)
(* may also return 0 when the device failed to store the data.              *)
ReadRight == result'.op = "read" => result'.data = disk[result'.lba]
WriteRight == result'.op = "write" => failed \/ disk[result'.lba] = result'.data
Succeeds == result'.rc = 0 /\ result # result'

(* A read that returns 0 has returned the sector it was asked for, although *)
(* earlier calls gave up on a device that goes on working.  The exception   *)
(* is a call that found the device still asking for data: it takes the      *)
(* request of an earlier call, which gave up on it, for its own             *)
(* (ide.c:48 tests only BSY).  The next call that finds no request left is  *)
(* right again.                                                             *)
ReadReturnsRequested == [][Succeeds => late \/ ReadRight]_ideVars

(* A write that returns 0 has left its data on the medium, with the same    *)
(* exception, whatever earlier writes the device is still storing and       *)
(* although it may not hear the flush.                                      *)
WriteOkStored == [][Succeeds => late \/ WriteRight]_ideVars

(* Every call comes back, also from a device that answers nothing or the    *)
(* wrong thing: no wait of the driver is without its own time-out.          *)
DriverReturns == call # NoCall ~> call = NoCall
=============================================================================
