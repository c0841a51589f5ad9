# Verification of Implementation-of-OS

TLA+ modules, TLC configurations and TLAPS proofs for the three programs of the
repository: a library of user-level threads (`src/gthreads`), a FAT16 library with a
command line and a FUSE file system (`src/fat`), and a small 32-bit kernel (`src/kernel`).
`PROJECT.json` maps every definition to the lines it models and lists the runs, the
mutants, the findings and the hazards.

## 1. The system

| component | state | operations | what is hard |
|---|---|---|---|
| **gthreads: scheduling** `gthr.c` | `gt_table[8]` (state, priority, boost, context), `gt_current`, `gt_in_schedule`, the policy; SIGALRM in the signal mask | `gt_init`, `gt_create`, `gt_set_scheduler`, `gt_yield`, `gt_exit`, `scheduler_tick`, SIGINT | cooperative and preemptive switches mix; the flag and the mask are held by a suspended thread; starvation; slot reuse |
| **gthreads: switch and signals** `gthr_switch.S`, `gthr_platform_linux.c` | a stack for each thread, the saved registers | `gt_switch`, the SIGALRM handler, the trampoline | nothing masks SIGALRM inside the library |
| **gthreads: statistics** | times and slice sums for each thread | accounting in schedule, exit, dump | clock steps, overflow |
| **FAT: names** `fat_rw.c`, `fat_search.c` | – | `format_83_name`, `name_match` | prefixes, dots, case, fields that are full |
| **FAT: files** `fat_rw.c`, `fat_disk.c`, `fat_file.c` | FAT copies, directory sectors, data clusters, one shared `sector_buffer` | `write`, `delete`, `read_file` | full disk, cluster boundaries, crashes between sector writes |
| **FAT: directories and paths** `fat_dir.c`, `fat_tree.c`, `fat_search.c`, `fat_common.c` | `cwd_cluster`, the path | `cd`, `pwd`, `ls`, `tree` | `..`, chains of directory clusters |
| **FAT: FUSE** `fat_fuse.c` | none of its own | getattr, readdir, open, read | ranges that start and end anywhere; several threads over one buffer and one file position |
| **kernel: console** `vga.c`, `keyboard.c`, `cli.c` | video memory, hardware cursor, line buffer | putchar, backspace, scroll, readline, command loop | scrolling under an edited line, limits of buffer and screen |
| **kernel: IDE driver** `ide.c` | the device's registers and medium | read and write a sector by polling | time-outs followed by late answers, errors |
| **kernel: process table** `scheduler.c`, `cli.c` | `gt_table[8]`, `gt_current`, a memory slot each | find slot, create, tick; `exec` | loading over a live program |
| **kernel: interrupts** `arch/*` | IDT, PIC, tick counter | `isr_handler`, timer | its set-up is commented out in `start_kernel` |
| adapters, serial port, boot code, payloads, tests | – | I/O | – |

Interaction. The running thread calls the gthreads library; the timer calls it through a
signal handler on the same stack; the library hands the processor to another stack. The FAT
commands call each other in sequence over a device of sectors, which in the kernel is the
IDE driver. The kernel's command loop reads keys, edits a line on the screen, and runs a
command that may use the disk and the process table; the disk device works concurrently.

## 2. Modules

| module | models | composes |
|---|---|---|
| `Gthr` | the thread library, one action per library call or signal | – |
| `Gthr_proofs` | theorems about `Gthr` and its lottery | `Gthr` |
| `GthrPreempt` | the same library step by step, with call stacks and the handler | refines `Gthr` |
| `GthrPreempt_proofs` | theorems about the steps, and that they implement `Gthr` | `GthrPreempt` |
| `GthrTime` | run and waiting times, slice statistics, the report | extends `Gthr` |
| `GthrTime_proofs` | theorems about the accounting | `GthrTime`, `Gthr_proofs` |
| `FatNames` | the 8.3 conversions | – |
| `FileStore` | abstract: a directory of whole files | – |
| `FatVolume` | one directory of a FAT16 volume, sector write by sector write | `FatNames`; refines `FileStore` |
| `FatVolume_proofs` | theorems about files, chains and copies, and that they implement `FileStore` | `FatVolume` |
| `FatLayout` | where a FAT16 volume keeps what, and what a reader should find there | `FatNames` |
| `FatReader` | cd, ls, tree, read_file and the FUSE calls, sector by sector | `FatLayout` |
| `FatReader_proofs` | theorems about what those calls answer to one thread | `FatReader` |
| `Console` | screen, line editor, command loop, payload programs | – |
| `Console_proofs` | theorems about the line editor | `Console` |
| `IdeDriver` | the polling driver and the device | – |
| `Kernel` | read, write, load and exec over the driver and the process table | `IdeDriver` |
| `Kernel_proofs` | theorems about `Kernel` and its driver | `Kernel` |
| `LeastElements` | lemmas the proofs share: least elements, counting the tokens of a sum | – |
| `MC...` | the instances TLC checks | |

An operator named `Faulty...` is a plausible bug in the definition that follows it; put in
its place it makes TLC find one of the properties violated, which shows that the property
would notice that bug. No specification uses one.

### Gthr

`state`, `priority`, `boost`, `current`, `in_schedule` and `sched_policy` are the fields and
globals of `gthr.c`. A context is abstracted to where its thread goes on when it is resumed
(`saved`): in the trampoline, returning from a call, inside the tick handler, or in the
`for (;;)` of `gt_exit`. This is what decides whether the flag and the signal mask are
released at a switch (`ResumeFrom`). Each action is a whole call: `SwitchTo` contains the
aging, the state changes, the reset of the boost and the context switch of
`gt_schedule_internal`, in any of the three policies. The circular searches are stated by
distance (`Dist`): the one chosen is the nearest Ready slot (of the strongest effective
priority). The lottery's draw is any number below the ticket total. `waited` is a history
variable for `BoundedWait`; it starts again when the policy is set, because the bound is a
promise of a policy in force, and stops at `WaitBound`, one past every wait the property allows.

Ticks here fall in the thread's own code. That this is what the steps add up to, and only
under that condition, is the subject of `GthrPreempt`.

### GthrPreempt

Every thread has a stack of frames; `gt_switch` writes a context (a stack and a depth) and
loads another. A tick pushes the handler and a call of the scheduler on whatever stack is
executing. `TickPoints` says at which steps a tick may arrive. With `SafePoints` (the thread's
own code, the trampoline, main's exit loop between two calls, and after `gt_switch` returned)
every step implements a step or a stutter of `Gthr` with the lottery policy: the switch is the
step that counts, and between `Leave` and `Switch` the leaving thread still counts as running.
With `"switch"` among them a run shows the library's race; `"pick"` shows another one (section 4).
Resuming a stack
pointer whose frames were popped is undefined behaviour and ends in `"corrupt"`.

### GthrTime

Each action is an action of `Gthr` conjoined with what the code adds to the clocks and sums of the
threads (`ScheduleTimes`, `HandOver`, `GoOn`). Times are words modulo `Word`; a difference with a clock
that was set back wraps, as it does in C. `run_start` is 0 for "not running", so the clock starts at 1.
`gt_exit` reads the clock twice, before the slice is closed and in `gt_schedule_internal`, and the
clock may move in between (`TimedExitThread`). `born` and `set_back` are history. `slice_sum_us` is left out: it is
always equal to `run_total_us`.

### FatNames and FatVolume

`Format83` and `NameMatch` translate the two conversions over widths that are parameters.
`FatVolume` has the FAT copies, the directory slots and the data clusters of one directory;
a step writes at most one sector, so `Crash` may fall between any two sector writes: between
the copies of one FAT entry (`todo`), between allocation, link, data and entry. `op` holds the
local variables of the running command. A sector's content is abstracted to the file it was
written for, its index and its length. `ReadFile` follows the chain as `read_file` does.

The refinement says that `write` and `delete` are atomic: reading the directory shows each file
whole or not at all, a write takes effect when its entry is written, and a delete, as seen
by its user, when its first sector is. So a file being deleted, or whose delete was
interrupted (`torn`), does not count as a file.

### FatLayout and FatReader

Nothing is written here, so `Fat` and `Dir`, the volume, are constants and a buffer is represented by the number of
the sector that was read into it. This is what makes sharing visible: a scan that goes on in the
wrong sector goes on with another number. `call[t]` holds the local variables of the call that thread
`t` is in; a step seeks, reads, or handles one sector (one entry in `tree`). `sector_buffer` and
`position` belong to all threads; `fat_read` alone has a buffer of its own for data. The recursion of
`print_tree_dir` is a stack of frames, each with its saved sector.

The second half of `FatLayout` says what commands should find, from the chains and entries themselves and without
scanning (`FileRange`, `Directory`, `Follow`, `Resolution`, `TreeLines`). A name means the entry stored
under what `format_83_name` makes of it, and `..` the entry of that name.

### Console, IdeDriver and Kernel

`Console` keeps the screen as a row of cells. `PutChar` is `vga_putchar` including the scroll.
`run` starts one of the two payload programs that paint the screen behind the console's back: `scroll_text`, which
returns when Q is pressed, and `hello_sector`, which never does.
The line editor's three tests (room in the buffer, something to erase, cursor behind the
start) are guards of its actions.

`IdeDriver` has one action per register access of the driver, and the device's own steps in
between. Each wait may give up at any moment while what it waits for has not come
(`ATA_WAIT_TIMEOUT` polls have no fixed length in time). The device is external, and that of QEMU, which `src/kernel/Makefile:125` runs:
it ignores register writes while it is busy or asks for data (BSY or DRQ), may fail any command, and answers after any delay.
Words read from it while it waits for a sector to store mean nothing, and words written to it while it has a sector to hand over are
ignored; in both cases it goes on asking. It shows BSY as soon as it has a command, so the settling time
after a command, which `ide.c` does not wait for, plays no part. `failed` and `late` are history: the
device failed to store what this call gave it; a call gave up on a data request that was still to come, and since then no
call has found the device without one. `late` is cleared by the first call that does.

`Kernel` composes it with the commands that use the disk, and with the process table as `exec`
uses it. Interrupts are never enabled in this build (`kernel.c:61`), so `scheduler_tick` runs
only at the end of `exec`. `load_file` has no source in the repository: it is any sequence of
sector reads into the chosen slot, ending in success or failure. Numbers are typed as digits in base 10 or 16 and
wrap at `WordSize` (`ParseU32`); `load` may name the memory of any slot.

## 3. Runs

| run | cfg | result | states |
|---|---|---|---|
| `gthr` | `MCGthr.cfg` | holds | 633 539 |
| `gthr_fair` | `MCGthrFair.cfg` | holds | 69 910 |
| `gthr_steps` | `MCGthrPreemptSafe.cfg` | holds | 9 973 |
| `gthr_tick_in_switch` | `MCGthrPreemptSwitch.cfg` | violated, finding 1 | |
| `gthr_time` | `MCGthrTime.cfg` | holds | 2 716 005 |
| `fat_volume` | `MCFatVolume.cfg` | holds | 432 472 |
| `fat_area` | `MCFatArea.cfg` | violated, finding 2 | |
| `fat_reader` | `MCFatReader.cfg` | holds | 24 698 |
| `fat_lookup` | `MCFatLookup.cfg` | violated, finding 3 | |
| `fuse_threads` | `MCFuseThreads.cfg` | violated, finding 4 | |
| `console` | `MCConsole.cfg` | holds | 125 491 |
| `kernel_disk` | `MCKernel.cfg` | holds | 229 192 |

What they show:

* `gthr`: the table always names one running thread, so an exiting thread always finds
  another one (`OneRunner`); a thread that can be picked can go on, although slots are reused
  (`ReadyResumable`); flag and signal mask belong to one preempted thread that can still
  be resumed (`TickGate`); under round robin a ready thread is passed over at most
  `MaxGThreads - 2` times, under priorities `priority` times more (`BoundedWait`); the lottery gives
  each thread exactly its tickets (`LotteryProportional`); the process ends after all threads
  (`MainExitsLast`).
* `gthr_fair`: the same as liveness, and preemption always comes back.
* `gthr_steps`: the step-by-step code implements `Gthr` (`RefinesGthr`), in a thread's own
  code the flag and the mask are right (`GateMatches`), and whoever set the flag lives to clear it
  (`PreemptionNotLost`).
* `gthr_time`: what the report prints as run and waiting time adds up to the thread's age at every moment, even
  when the clock is set back and single figures wrap (`DumpAddsUp`); while it only advances, the average lies
  between the shortest and the longest slice and the variance does not wrap (`SpreadSound`). It may be
  too large by what truncating the average loses (`gthr.c:231`).
* `fat_volume`: chains are disjoint, long enough and ended (`ChainsSound`), the copies of the
  FAT agree on every file's chain even after a crash in a write (`MirrorsAgree`), a failed write gives
  back its clusters (`NoSpaceLost`), files read back as written (`FilesIntact`) and appear and vanish whole
  (`RefinesFileStore`), and the loops over chains end (`CommandsEnd`). Its two
  names are not prefixes of each other, so that they may be written in either order and chains get interleaved. With
  `A` and `AB` (`MCPrefixNames`), where `delete A` may find `AB`, all of it holds too (98 579 states).
* `fat_reader`: paths lead where the entries say (`PathsFollowed`), a read returns the bytes asked for across
  sectors, clusters and the end of the file (`ReadReturnsRange`), listings (`ListsWhole`) and the recursive tree over one shared
  buffer (`TreeListsAll`) name each entry once, and every walk ends (`CallsEnd`). `PathsFollowed` is checked
  with names that are not prefixes of others, in upper case at the command line, and `..` only where the parent
  is the root; `fat_lookup` has the others. `ls` in the root is left out of `ListsWhole`: `dir_listing` sets its `done` flag
  before it scans the root (`fat_dir.c:62`) and prints only the first sector.
* `console`: the line the command gets is what the user sees in front of the cursor
  (`EchoMatches`), and the prompt is never erased (`PromptKept`), although the start position the editor
  compares with is not corrected when the screen scrolls: the one effect is that
  a character may refuse its backspace. A program that painted the screen changes neither.
* `kernel_disk`: a read that succeeds returned the sector it asked for (`ReadReturnsRequested`), and a write that succeeds left
  its data on the medium unless the device failed to store it (`WriteOkStored`), although earlier calls may have given up on a
  device that is still reading, storing or flushing, and although the flush is sent to a busy device that ignores it. The one exception is a
  call that finds the data request of an earlier call still set (`late`); after it the driver is in step again.
  Section 4 says what such a call returns. Only a
  `load` that names it writes over a program in the table (`LiveMemoryKept`), exec keeps the table
  consistent (`OneRunning`), and every call comes back, also from a device that never answers (`DriverReturns`).

Bounds. Four thread slots are the fewest where, beside main, one thread can be passed over
by two others; the lowest priority is 1 (2 in the liveness run, so that aging takes two steps),
and `gt_create` is called with values one or two outside the range on each side. Three slots are
enough for the races: the interrupted thread, the one it was switching to and the one the
tick switches to. `gthr_time` has three slots, round robin, times 1 to 3, three slices in all (`MaxSlices`) and words of
16 values, so that wrapped sums happen. The FAT volume has two-byte sectors, two of them to a cluster, three clusters,
two FAT copies and two directory slots: lengths 0, 4 and 5 are no cluster, exactly one, and one
byte more, so both cluster boundaries and a full disk are reached, and two writes compete for space. One
crash in a behaviour, in `write` (`CrashOps`). The volume of `fat_reader` (drawn in `MCFatReader`) has three levels of directories; one fills
its clusters without an end mark, one has two clusters, and there are deleted entries, a label, files of no, one, two and three clusters,
and FAT entries in more than one FAT sector; offsets and sizes fall on and beside sector and cluster boundaries and the end of
the file. The screen of 4 by 3 cells scrolls after a few characters, with lines that wrap.
The kernel has two sectors and one number outside the 28-bit range, two sector values, two slots,
so that `exec` is also refused, and typed numbers among which one wraps and two are refused. No run uses symmetry. Deadlock is checked in every run: an
ended process stutters (`Ended`).

Fairness. `Gthr!FairSpec` assumes weak fairness of `Yield` and of main's exit loop: the
threads of `main.c` call `gt_yield` in their loops, and its `main` ends in `gt_return`. Nothing is
assumed of the timer. The lottery is left out of that run: it can starve a thread.
`FatVolume!FairSpec` assumes that a command that was started takes its next step: the
program is sequential. It does not require that a crash or another command ever happens. `FatReader!Spec` assumes the same
of each thread's call. `Kernel!FairSpec` assumes that a call of the driver goes on: the command loop is the only
thing that executes, and a wait ends after `ATA_WAIT_TIMEOUT` polls. Nothing is assumed of the device.

## 4. Findings

1. A tick between `gt_current = p` and `gt_switch` (`gthr.c:289`) makes the tick treat `p` as the
   thread that executes: the old thread's stack is saved in `p`'s context
   (`CurrentIsExecuting`).
2. `find_free_cluster` counts FAT entries, not data clusters: on the repository's `sd.img` clusters
   above 7656 lie outside the data area (`AllocatesDataClusters`).
3. `name_match` accepts a prefix, is case sensitive, and takes the dots of `..` for the extension
   separator: `cd /C` enters `CB`, `cd b` does not find `B`, and `cd ..` leads to the root from any depth (`PathsFollowed`).
   `write` and `delete` use the same look-up: with a file `AB` and no `A`, `delete A` erases `AB`.
4. Two FUSE requests at once share `sector_buffer` and the file position; nothing locks, and a read
   returns bytes of another place (`ReadReturnsRange`).

Three more are reached by changing a run that holds:

* `"pick"` in `TickPoints` of `gthr_steps` violates `PreemptionNotLost`: a tick in `gt_exit` after the slot was freed
  (`gthr.c:383`) leaves `gt_in_schedule` and the blocked SIGALRM behind for ever.
* `"delete"` in `CrashOps` of `fat_volume` violates `FilesIntact`: `delete` frees the chain before it erases the entry
  (`fat_rw.c:275`); after a crash in between another file gets the clusters, and a repeated delete
  frees them under it.
* Without `late \/` TLC violates `ReadReturnsRequested` and `WriteOkStored` in `kernel_disk`. When a call gives up on DRQ and the
  device asks for data later, the next call takes that request for the answer to its own command, which the device did
  not hear. `cli.c:311` prints "Read OK" with the sector of the earlier call, or with none when that was a write; `cli.c:328`
  prints "Write OK" with the data nowhere, or in the sector of the earlier write. `ata_wait_not_busy` looks at BSY, ERR and DF,
  and nothing looks at DRQ before the command. That QEMU ignores a command while DRQ is set is not in the repository.

## 5. Proofs

Every safety invariant and action property of a run that holds is also a theorem,
and so are the two refinements. A theorem holds for every value of the constants that satisfies the named
`ASSUME`s of its module, and the hypotheses given here.

**`Gthr_proofs`** proves, for every `MaxGThreads >= 1`, every `GtPriorityLowest`, every set of
integer arguments and every set of policies: `TypeOK`, `OneRunner`, `ReadyResumable`, `TickGate`,
`BoundedWait` and `MainExitsLast`. The assumptions are the named `ASSUME`s of `Gthr`.

The inductive invariant `IInv` is the conjunction of these with `WaitInv` in the place of
`BoundedWait`. `BoundedWait` alone is not inductive: it does not say why a thread that has waited
its limit is chosen next. `WaitInv` does. Under round robin a thread at circular distance `d` from
`gt_current` has been passed over at most `MaxGThreads - 1 - d` times, since every decision
that passes it over brings `gt_current` closer (`DistShrinks`). Under priorities, while aging has
still to lift it, its boost counts every decision; once its effective priority is 0, whoever is
chosen before it is also at 0 and nearer, and the distance argument applies. `SwitchStep`
has one lemma for each conjunct; `CreateStep`, `SetSchedulerStep` and `QuietStep` are the other actions.

It also proves `LotteryProportional`. A draw chooses the thread at which the running sum of tickets
passes it. `Tokens` replaces a sum by a set that has as many elements, one pair (thread, number) for each ticket
(`SumIsTokenNumber`); `DrawsAreTickets` maps the tickets of a thread one to one to the draws that choose it.

**`GthrPreempt_proofs`** proves `TypeOK`, `GateMatches`, `PreemptionNotLost` and that the steps implement `Gthr`, for every
number of slots, under `TickPoints \subseteq SafePoints`: findings 1 and the one about `"pick"` (section 4) are what happens
without it. The inductive invariant lists the shapes a stack can have. The executing one is at rest, or in `gt_create` with
the lowest free slot in its local variable, or at one of the steps of `gt_schedule_internal` with what has been assigned by then (`ExecInv`);
any other live thread has yet to start or was left by `gt_switch`, and its saved stack pointer still fits its frames
(`Resumable`); and flag and mask are set exactly while one live thread, and only one, holds a handler's frame (`GateInv`). No
stack is deeper than four frames. In the refinement `Switch`, `CreateFill`, `MainExit`, `Sigint` and a
schedule that finds nobody (`PickNobody`) are the steps that count; all others are stutters of `Gthr` (`StepRefines`).

**`GthrTime_proofs`** proves `TimeTypeOK` and `DumpAddsUp` for every word and every clock, set back or not. `AgesAddUp` is the
invariant behind it: at the moment the thread's state last began, its totals added up to the age it had then. Adding or
subtracting two words gives the exact result or is off by one `Word`, and that is all the proof needs of modular
arithmetic. `SpreadSound` is proved under `(MaxTime - 1) * (MaxTime - 1) < Word`, that is, while the sum of squares of the slices
of one session fits in its word. The slices themselves are not kept, so `Slices` says what their sums determine: with
`n` slices of sum `r` and square sum `q`, `n * min <= r <= n * max`, `r * r <= n * q`, and
`q + n * min * max <= (min + max) * r`; this is kept by adding a slice, and gives the bounds on average and
variance by arithmetic on truncated quotients. `AccountingOnlyWatches` shows that the accounting adds no behaviour, so that every theorem
about `Gthr` holds with it.

**`Console_proofs`** proves `TypeOK`, `EchoMatches` and `PromptKept` for every screen, set of keys, text and message.
`EchoMatches` is stated by what is read from the screen; the invariant `LineShown` says where prompt and line stand
relative to the cursor. One `PutChar` moves all of it by nothing or by one row, and `LineAssumption` (a full line and its prompt fit
above the last row; 128 characters on 80 by 25 in the code) is what keeps a scroll from taking the head of the line with it.
The start position takes no part in it: that the line is not empty already keeps a backspace from the prompt.

**`Kernel_proofs`** proves, for every `MaxProcesses >= 1`, every set of sector numbers and values and every
set of typed numbers: `TypeOK`, `OneRunning`, `LiveMemoryKept`, `ReadReturnsRequested` and `WriteOkStored`. It uses the
named `ASSUME`s of `IdeDriver` and `Kernel`; `ParsedAssumption` says that `Lbas` has every number that
can be typed, so that what `FoldLeft` computes need not be known. The inductive invariant has two parts.
`DriverInv` says what the device may still do for the pending call. `Select` waits until the device is not busy, so
a device that does not ask for data hears the sector number and the command (`Addressed`), any answer from then on is an answer to this command
(`Answered`), and after the data was handed over it is on its way to the medium, or there, or `failed`
(`Written`). A device that does ask for data makes a request that some call gave up on (`Owed`), so the pending call
is `late`, and nothing is claimed of it. What a device does with registers written while DRQ is set, which ATA leaves open, is therefore of no
consequence to the two theorems; it decides only what the excepted calls return.
`TableInv` adds to `OneRunning` that `exec` fills the slot just above the current one (`FillsNext`). From this follows that
`scheduler_tick` picks that slot (`TickRunsFilledSlot`: the other ready slots are all below the current one,
and so farther in the circular search), and that loading never touches a slot in use.

**`FatVolume_proofs`** proves, for every geometry, every set of lengths and every set of names, `TypeOK`, `ChainsSound`, `MirrorsAgree`,
`NoSpaceLost`, `FilesIntact` and that the volume implements `FileStore`. None of the first five is inductive: they speak of
chains that are read out of the FAT, and in the middle of a command the FAT does not show them. The inductive invariant
`IInv` says that there is an assignment `own` of a sequence of clusters to each file, and to the running command (`own[0]`),
in which no cluster occurs twice (`Apart`), each copy of the FAT shows each of these chains or will when the sectors in `todo` are written
(`Linked`), what is in `todo` concerns only the running command's chain or a cluster nobody owns (`PendingWrites`), a file's chain has as many clusters as
its size needs (`Fits`), the data written so far is in them (`FilesStored`, `Writing`), and, unless there was a crash, a cluster
that is not free has an owner or is about to be freed (`NothingLost`). Each step says what becomes of `own`: a
cluster is appended to `own[0]`, `own[0]` loses its head or becomes the file's chain. `ClusterAt` is a recursive function;
that it follows `own` (`FileChain`) is shown on the least index at which it would not. `FatEntries <= 65528` keeps
cluster numbers below the end marks, as FAT16 requires.

Its theorems have the hypothesis `"delete" \notin CrashOps`: with a crash in `delete` `FilesIntact` is violated (section 4). The refinement also needs
that each name matches its own entry and that no two names share one (`NamesApart`), which is false of names in lower case and of two
longer than 8.3 that are stored alike. One may be a prefix of another: the look-up may then find the longer name's file, but it always finds one when there is one (`NothingFound`).
The others hold for all names, also when a command takes one name for another.

**`FatReader_proofs`** proves `TypeOK`, `PathsFollowed`, `ReadReturnsRange`, `ListsWhole` and `TreeListsAll` for every geometry, every volume that satisfies
the `ASSUME`s of `FatLayout`, and every set of paths, names, offsets and sizes. Those `ASSUME`s are what a consistent volume keeps: cluster numbers
below the end marks, chains that end, files no larger than their chains, directories that lie on the volume, apart from the files, and form a tree.
All its theorems have the hypothesis `OneThread`; the run `fuse_threads` shows what becomes of them with two. All but `TypeOK` and `TreeListsAll` also have the
hypothesis `Exact`: every look-up that one of the given paths or names leads to finds the entry the name denotes, if there is one, and no other.
Where look-ups are not exact the properties are false of the code (finding 3). `MCFatReader` checks, in an `ASSUME`, that the names
of `fat_reader` are exact, so the hypothesis can be met.

The inductive invariant `IndInv` is a proof outline of the C code: for each place a call can be at, `Good` says what the call has done
so far and still has to do. On a path (`OnPath`, `Looked`): what it took of the path leads to the directory it is in. In a scan (`Scanning`, `Spot`): the
sector it is about to treat is the next one of the directory's chain, no sector before it held what it looks for or an end mark, and what it
listed are the entries of the sectors before it. In a file (`CopyData`, `CopyChain`): the clusters still to be skipped lead to the cluster of the offset, and
what was copied is the range up to the byte that comes next. `Buffered` says that the shared buffer, or the position of the file,
is that of the sector the call takes it for. In `tree` the stack of the recursion has one frame for each directory above the one that is scanned.
`TreeSo` says that there are the directories on that way (`Descent`) such that each frame holds the place its caller goes on at, the
sector it must read again and the next entry in it (`Held`), and such that what was printed so far is, for each of them from the root down, the lines of
the entries before that place. `TreeAssumption` gives each directory a depth; with it `TreeOf` is what the definition prints below a directory, and the recursion has as
many frames as the directory is deep.

The definitions of the second half of `FatLayout` say nothing about scanning, so the lemmas about them
carry the weight: a chain has one length and no cluster twice, a directory's entries up to its end mark are those of its sectors up to the one with the
mark, a byte of a file is in the sector that offset and chain give.

`LeastElements` is what stands in for induction: a set of counterexamples that is not empty has a least one, which is refuted.

Only model-checked: the liveness properties (`NoStarvation`, `PreemptionReturns`, `CommandsEnd`, `CallsEnd`, `DriverReturns`: liveness
under fairness is outside TLAPS).

## 6. What is not modelled

* Failing sector reads and writes in `src/fat`: the library ignores their results everywhere but in two places of FUSE,
  no doc says what should happen, and the models assume success.
* Writing in sub-directories: `write` and `delete` work in the current directory; `FatVolume` has one of two slots.
* What a listing looks like: dates, sizes, columns, indentation. Times of the files.
* A clock that reads 0, and the width of the statistics: a real counter does not wrap in practice, the model's does.
* The 65536-entry FAT on which `find_free_cluster` would not end (`fat_rw.c:162`).
* The kernel's interrupt code (`arch/*`), which the build never enables, and the frame a new process would
  start from. `load` to an address outside the slots, or so near a slot's end that the sector reaches into the next one: a load
  writes one slot. `stat_file` and `load_file`, which the CLI calls, have no source here.
* The 400 ns a disk may take to show BSY after a command, and data moved word by word (`ide.c:111`).
* Serial port, boot code, `spinner`, the start-up of `fuse_main`, `hello.c` (libfuse's example): straight-line I/O or not part of the programs.

## 7. Plan

1. Done: `Gthr` and its proofs, `GthrPreempt`, `GthrTime`, `FatVolume` over `FatNames` with `FileStore`,
   `FatReader` over `FatLayout`, `Console`, `IdeDriver`, `Kernel`.
2. Proofs. Done: every safety invariant and action property of the runs that hold, and both refinements.
3. Failing sector reads in `FatReader`, for the calls that check them.
