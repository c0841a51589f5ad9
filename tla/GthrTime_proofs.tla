--------------------------- MODULE GthrTime_proofs ---------------------------
(***************************************************************************)
(* Proofs about GthrTime for any table, any word and any clock.            *)
(*                                                                         *)
(* Differences of clock readings are taken modulo Word.  Everything the    *)
(* proofs need of that is what one addition or subtraction of words gives: *)
(* the exact result, or the exact result one Word off.                     *)
(*                                                                         *)
(* The slice columns are sums over slices nobody keeps.  Slices says what  *)
(* the sums determine: the length of a slice lies between min and max, and *)
(* the sum of squares is between the least and the most that slices of     *)
(* these bounds and this sum can have.                                     *)
(***************************************************************************)
EXTENDS GthrTime, Gthr_proofs, LeastElements

Words == 0 .. Word - 1

LEMMA WordPositive ==
  /\ Word \in Nat /\ 1 < Word /\ MaxTime \in Nat /\ 1 <= MaxTime /\ MaxTime < Word
  /\ MaxSlices \in Nat
  BY WordAssumption, MaxSlicesAssumption

LEMMA Remainder ==
  ASSUME NEW a \in Int
  PROVE  a % Word \in Words
  BY WordPositive DEF Words

LEMMA PlusIs ==
  ASSUME NEW a \in Words, NEW b \in Words
  PROVE  Plus(a, b) \in Words /\ Plus(a, b) = IF a + b < Word THEN a + b ELSE a + b - Word
  BY WordPositive DEF Words, Plus

LEMMA MinusIs ==
  ASSUME NEW a \in Words, NEW b \in Words
  PROVE  Minus(a, b) \in Words /\ Minus(a, b) = IF a >= b THEN a - b ELSE a - b + Word
  BY WordPositive DEF Words, Minus

(* Time that is added to either column makes the age longer by as much.     *)
LEMMA RunGrows ==
  ASSUME NEW run \in Words, NEW wait \in Words, NEW from \in Words, NEW to \in Words,
         NEW b \in Words, Plus(run, wait) = Minus(from, b)
  PROVE  Plus(Plus(run, Minus(to, from)), wait) = Minus(to, b)
<1> DEFINE d == Minus(to, from)
           r == Plus(run, d)
           u == Plus(run, wait)
           x == Plus(r, wait)
           y == Minus(to, b)
<1>1. Word \in Nat /\ {run, wait, from, to, b} \subseteq 0 .. Word - 1
  BY WordPositive DEF Words
<1>2. d \in 0 .. Word - 1 /\ d = IF to >= from THEN to - from ELSE to - from + Word
  BY MinusIs DEF Words
<1>3. r \in 0 .. Word - 1 /\ r = IF run + d < Word THEN run + d ELSE run + d - Word
  <2>. HIDE DEF d
  <2>. QED
    BY <1>2, PlusIs DEF Words
<1>4. u = IF run + wait < Word THEN run + wait ELSE run + wait - Word
  BY PlusIs
<1>5. u = IF from >= b THEN from - b ELSE from - b + Word
  BY MinusIs
<1>6. x \in 0 .. Word - 1 /\ x = IF r + wait < Word THEN r + wait ELSE r + wait - Word
  <2>. HIDE DEF r
  <2>. QED
    BY <1>3, PlusIs DEF Words
<1>7. y \in 0 .. Word - 1 /\ y = IF to >= b THEN to - b ELSE to - b + Word
  BY MinusIs DEF Words
<1>. HIDE DEF d, r, u, x, y
<1>8. x = y
  BY <1>1, <1>2, <1>3, <1>4, <1>5, <1>6, <1>7
<1>. QED
  BY <1>8 DEF x, y, r, d

LEMMA WaitGrows ==
  ASSUME NEW run \in Words, NEW wait \in Words, NEW from \in Words, NEW to \in Words,
         NEW b \in Words, Plus(run, wait) = Minus(from, b)
  PROVE  Plus(run, Plus(wait, Minus(to, from))) = Minus(to, b)
<1>1. \A x, y : Plus(x, y) = (x + y) % Word
  BY DEF Plus
<1>2. \A x, y \in Words : Plus(x, y) = Plus(y, x)
  BY <1>1 DEF Words
<1> DEFINE w == Plus(wait, Minus(to, from))
<1>3. w \in Words
  BY MinusIs, PlusIs
<1>4. Plus(wait, run) = Minus(from, b)
  BY <1>2
<1>5. Plus(w, run) = Minus(to, b)
  BY <1>4, RunGrows
<1>. HIDE DEF w
<1>. QED
  BY <1>2, <1>3, <1>5 DEF w

-----------------------------------------------------------------------------
(* A step of GthrTime is a step of Gthr, or leaves its variables alone.     *)

LEMMA TimedStepIsStep == [TimeNext]_<<vars, timevars>> => [Next]_vars
<1>. SUFFICES ASSUME [TimeNext]_<<vars, timevars>> PROVE [Next]_vars
  OBVIOUS
<1>1. CASE Clock
  BY <1>1 DEF Clock
<1>2. CASE \E prio \in Priorities : TimedCreate(prio)
  BY <1>2 DEF TimedCreate, Next
<1>3. CASE TimedYield \/ TimedExitThread \/ TimedMainExitLoop \/ TimedPlatformExit \/ TimedTick
  BY <1>3 DEF TimedYield, TimedExitThread, TimedMainExitLoop, TimedPlatformExit, TimedTick, Next
<1>4. CASE Untimed
  BY <1>4 DEF Untimed, Next
<1>. QED
  BY <1>1, <1>2, <1>3, <1>4 DEF TimeNext

(* No thread has run more slices than all of them together.                 *)
LEMMA CountBelowBound ==
  ASSUME TimeTypeOK, WithinBound, NEW t \in Slots
  PROVE  stats[t].count < MaxSlices
<1> DEFINE f == [u \in Slots |-> stats[u].count]
           Step(h) == [s \in SUBSET Slots |->
                         IF s = {} THEN 0
                         ELSE stats[CHOOSE x \in s : TRUE].count
                                + h[s \ {CHOOSE x \in s : TRUE}]]
<1>1. f \in [Slots -> 0 .. MaxSlices] /\ IsFiniteSet(Slots) /\ MaxSlices \in Nat
  <2>1. \A u \in Slots : stats[u].count \in 0 .. MaxSlices
    BY DEF TimeTypeOK, Stats
  <2>. QED
    BY <2>1, SlotsAssumption, FS_Interval, WordPositive DEF Slots
<1>2. \A h : Step(h) = SumStep(f, Slots, h)
  <2>1. \A s \in SUBSET Slots : s # {} => (CHOOSE x \in s : TRUE) \in Slots
    OBVIOUS
  <2>. QED
    BY <2>1 DEF SumStep
<1>3. MapThenSumSet(LAMBDA u : stats[u].count, Slots) = (CHOOSE h : h = Step(h))[Slots]
  BY DEF MapThenSumSet, MapThenFoldSet
<1>4. f[t] = stats[t].count
  OBVIOUS
<1>. HIDE DEF Step, f
<1>5. MapThenSumSet(LAMBDA u : stats[u].count, Slots) = SumOf(f, Slots)
  BY <1>2, <1>3 DEF SumOf
<1>6. SumOf(f, Slots) < MaxSlices
  BY <1>5 DEF WithinBound
<1>7. SumOf(f, Slots) \in Nat /\ f[t] <= SumOf(f, Slots) /\ f[t] \in 0 .. MaxSlices
  BY <1>1, SumAtLeast
<1>. QED
  BY <1>1, <1>4, <1>6, <1>7

-----------------------------------------------------------------------------
(* What an accounting step leaves.                                          *)

LEMMA TimesAreWords == Times \subseteq Words /\ 0 .. MaxTime \subseteq Words /\ 0 \notin Times
  BY WordPositive DEF Times, Words

LEMMA Accounted ==
  ASSUME TypeOK, OneRunner, TimeTypeOK, WithinBound, NEW now \in Times,
         NEW d, d = Minus(now, run_start[current]),
         NEW r, r = AccountRunningSlice(current, now),
         NEW s, s = stats[current]
  PROVE  /\ d \in Words /\ r \in Stats /\ s \in Stats
         /\ r.run = Plus(s.run, d) /\ r.wait = s.wait /\ r.count = s.count + 1
         /\ r.sq = Plus(s.sq, d * d)
         /\ r.min = (IF d < s.min THEN d ELSE s.min)
         /\ r.max = (IF d > s.max THEN d ELSE s.max)
<1>1. current \in Slots /\ state[current] = "Running"
  BY DEF TypeOK, OneRunner
<1>2. run_start[current] # 0 /\ run_start[current] \in 0 .. MaxTime
  BY <1>1 DEF TimeTypeOK
<1>3. d \in Words
  BY <1>2, TimesAreWords, MinusIs
<1>4. s \in Stats /\ s.count < MaxSlices
  BY <1>1, CountBelowBound DEF TimeTypeOK
<1>5. r = [s EXCEPT !.run = Plus(@, d), !.count = @ + 1, !.sq = Plus(@, d * d),
                    !.min = IF d < @ THEN d ELSE @, !.max = IF d > @ THEN d ELSE @]
  BY <1>1, <1>2 DEF AccountRunningSlice
<1>6. /\ r.run = Plus(s.run, d) /\ r.wait = s.wait /\ r.count = s.count + 1
      /\ r.sq = Plus(s.sq, d * d)
      /\ r.min = (IF d < s.min THEN d ELSE s.min)
      /\ r.max = (IF d > s.max THEN d ELSE s.max)
      /\ r = [run |-> r.run, wait |-> r.wait, count |-> r.count,
              min |-> r.min, max |-> r.max, sq |-> r.sq]
  BY <1>4, <1>5 DEF Stats
<1>7. Plus(s.run, d) \in Words /\ Plus(s.sq, d * d) \in Words
  <2>1. s.run + d \in Int /\ s.sq + d * d \in Int
    BY <1>3, <1>4, WordPositive DEF Words, Stats
  <2>. QED
    BY <2>1, Remainder DEF Plus
<1>8. s.count + 1 \in 0 .. MaxSlices /\ s.wait \in Words /\ r.min \in Words /\ r.max \in Words
  BY <1>3, <1>4, <1>6, WordPositive DEF Stats, Words
<1>9. r \in Stats
  <2> DEFINE a == r.run
             b == r.wait
             c == r.count
             e == r.min
             f == r.max
             g == r.sq
  <2>1. /\ a \in Words /\ b \in Words /\ c \in 0 .. MaxSlices
        /\ e \in Words /\ f \in Words /\ g \in Words
    BY <1>6, <1>7, <1>8
  <2>2. r = [run |-> a, wait |-> b, count |-> c, min |-> e, max |-> f, sq |-> g]
    BY <1>6
  <2>. HIDE DEF a, b, c, e, f, g
  <2>. QED
    BY <2>1, <2>2 DEF Stats, Words
<1>. QED
  BY <1>3, <1>4, <1>6, <1>9

LEMMA WaitAdded ==
  ASSUME NEW s \in Stats, NEW d \in Words, NEW r, r = [s EXCEPT !.wait = Plus(@, d)]
  PROVE  /\ r \in Stats /\ r.wait = Plus(s.wait, d)
         /\ r.run = s.run /\ r.count = s.count /\ r.min = s.min /\ r.max = s.max /\ r.sq = s.sq
<1>1. s.wait \in Words
  BY DEF Stats, Words
<1>2. Plus(s.wait, d) \in Words
  BY <1>1, PlusIs
<1>. QED
  BY <1>2 DEF Stats, Words

(* What a hand-over leaves in the tables, slot by slot.                     *)
LEMMA HandedOver ==
  ASSUME TypeOK, OneRunner, TimeTypeOK, NEW now \in Times, NEW later \in Times,
         HandOver(now, later), NEW p \in ReadySlots, current' = p
  PROVE  /\ p \in Slots /\ p # current /\ current \in Slots
         /\ DOMAIN stats' = Slots /\ stats' = [t \in Slots |-> stats'[t]]
         /\ stats'[current] = AccountRunningSlice(current, now)
         /\ stats'[p] = [stats[p] EXCEPT !.wait = Plus(@, Minus(later, change[p]))]
         /\ \A t \in Slots \ {current, p} : stats'[t] = stats[t]
         /\ change' \in [Slots -> Times] /\ change'[current] = now /\ change'[p] = later
         /\ \A t \in Slots \ {current, p} : change'[t] = change[t]
         /\ run_start' \in [Slots -> 0 .. MaxTime]
         /\ run_start'[current] = 0 /\ run_start'[p] = later
         /\ \A t \in Slots \ {current, p} : run_start'[t] = run_start[t]
<1>1. p \in Slots /\ p # current /\ current \in Slots
  BY CurrentNotReady DEF ReadySlots, TypeOK
<1>2. 0 \in 0 .. MaxTime /\ later \in 0 .. MaxTime
  BY WordPositive DEF Times
<1>3. /\ change' = [change EXCEPT ![current] = now, ![p] = later]
      /\ run_start' = [run_start EXCEPT ![current] = 0, ![p] = later]
      /\ stats' = [stats EXCEPT ![current] = AccountRunningSlice(current, now),
                                ![p].wait = Plus(@, Minus(later, change[p]))]
  BY DEF HandOver
<1>4. /\ stats \in [Slots -> Stats] /\ change \in [Slots -> Times]
      /\ run_start \in [Slots -> 0 .. MaxTime]
  BY DEF TimeTypeOK
<1>5. /\ DOMAIN stats' = Slots /\ stats' = [t \in Slots |-> stats'[t]]
      /\ stats'[current] = AccountRunningSlice(current, now)
      /\ stats'[p] = [stats[p] EXCEPT !.wait = Plus(@, Minus(later, change[p]))]
      /\ \A t \in Slots \ {current, p} : stats'[t] = stats[t]
  BY <1>1, <1>3, <1>4
<1>. QED
  BY <1>1, <1>2, <1>3, <1>4, <1>5

-----------------------------------------------------------------------------
(* The inductive invariant: the two columns add up to a thread's age when   *)
(* its present state began.                                                 *)

Since(t) == IF state[t] = "Running" THEN run_start[t] ELSE change[t]

AgesAddUp ==
  \A t \in Slots : Plus(stats[t].run, stats[t].wait) = Minus(Since(t), born[t])

TimeInv == IInv /\ TimeTypeOK /\ AgesAddUp

LEMMA SlotTimes ==
  ASSUME TimeTypeOK, NEW t \in Slots
  PROVE  /\ stats[t] \in Stats /\ stats[t].run \in Words /\ stats[t].wait \in Words
         /\ born[t] \in Words /\ change[t] \in Words /\ run_start[t] \in Words
         /\ clock \in Words
  BY TimesAreWords DEF TimeTypeOK, Stats, Words

(* The state and the columns stay, only the clock may move.                 *)
LEMMA StillStep ==
  ASSUME TimeTypeOK, AgesAddUp, state' = state,
         UNCHANGED <<born, change, run_start, stats>>,
         clock' \in Times, set_back' \in BOOLEAN
  PROVE  TimeTypeOK' /\ AgesAddUp'
<1>1. TimeTypeOK'
  BY DEF TimeTypeOK
<1>2. AgesAddUp'
  BY DEF AgesAddUp, Since
<1>. QED
  BY <1>1, <1>2

LEMMA GoOnStep ==
  ASSUME TypeOK, OneRunner, TimeTypeOK, AgesAddUp, WithinBound, GoOn(clock),
         state' = state, UNCHANGED <<clock, born, set_back>>
  PROVE  TimeTypeOK' /\ AgesAddUp'
<1> DEFINE c == current
           d == Minus(clock, run_start[current])
           r == AccountRunningSlice(current, clock)
           s == stats[current]
<1>1. clock \in Times /\ c \in Slots /\ state[c] = "Running"
  BY DEF TimeTypeOK, TypeOK, OneRunner
<1>2. /\ d \in Words /\ r \in Stats /\ s \in Stats
      /\ r.run = Plus(s.run, d) /\ r.wait = s.wait
  BY <1>1, Accounted
<1>3. /\ stats' = [stats EXCEPT ![c] = r] /\ run_start' = [run_start EXCEPT ![c] = clock]
      /\ change' = change
  BY DEF GoOn
<1>. HIDE DEF c, r
<1>4. /\ stats' \in [Slots -> Stats] /\ stats'[c] = r
      /\ \A t \in Slots \ {c} : stats'[t] = stats[t]
  BY <1>1, <1>2, <1>3 DEF TimeTypeOK
<1>5. /\ run_start' \in [Slots -> 0 .. MaxTime] /\ run_start'[c] = clock
      /\ \A t \in Slots \ {c} : run_start'[t] = run_start[t]
  <2>1. clock \in 0 .. MaxTime
    BY <1>1 DEF Times
  <2>. QED
    BY <1>1, <1>3, <2>1 DEF TimeTypeOK
<1>6. clock # 0
  BY <1>1 DEF Times
<1>7. TimeTypeOK'
  BY <1>1, <1>3, <1>4, <1>5, <1>6 DEF TimeTypeOK
<1>8. Plus(r.run, r.wait) = Minus(clock, born[c])
  <2>1. Plus(s.run, s.wait) = Minus(run_start[c], born[c])
    BY <1>1 DEF AgesAddUp, Since, c
  <2>2. /\ s.run \in Words /\ s.wait \in Words /\ run_start[c] \in Words
        /\ clock \in Words /\ born[c] \in Words
    BY <1>1, SlotTimes DEF c
  <2>3. d = Minus(clock, run_start[c])
    BY DEF c
  <2>. HIDE DEF s, d
  <2>. QED
    BY <1>2, <2>1, <2>2, <2>3, RunGrows
<1>9. AgesAddUp'
  BY <1>1, <1>3, <1>4, <1>5, <1>8 DEF AgesAddUp, Since
<1>. QED
  BY <1>7, <1>9

LEMMA HandOverStep ==
  ASSUME TypeOK, OneRunner, TimeTypeOK, AgesAddUp, WithinBound,
         NEW later \in Times, HandOver(clock, later),
         NEW p \in ReadySlots, current' = p, NEW next \in {"Ready", "Unused"},
         state' = [state EXCEPT ![current] = next, ![p] = "Running"],
         clock' \in Times, set_back' \in BOOLEAN, born' = born
  PROVE  TimeTypeOK' /\ AgesAddUp'
<1> DEFINE c == current
           d == Minus(clock, run_start[current])
           r == AccountRunningSlice(current, clock)
           s == stats[current]
           w == Minus(later, change[p])
           q == [stats[p] EXCEPT !.wait = Plus(@, w)]
<1>1. /\ clock \in Times /\ c \in Slots /\ state[c] = "Running"
      /\ p \in Slots /\ p # c /\ state[p] = "Ready"
  BY CurrentNotReady DEF TimeTypeOK, TypeOK, OneRunner, ReadySlots
<1>2. /\ d \in Words /\ r \in Stats /\ s \in Stats
      /\ r.run = Plus(s.run, d) /\ r.wait = s.wait
  BY <1>1, Accounted
<1>3. w \in Words /\ stats[p] \in Stats
  BY <1>1, SlotTimes, TimesAreWords, MinusIs
<1>4. q \in Stats /\ q.run = stats[p].run /\ q.wait = Plus(stats[p].wait, w)
  <2>. HIDE DEF w
  <2>. QED
    BY <1>3, WaitAdded
<1>5. /\ DOMAIN stats' = Slots /\ stats' = [t \in Slots |-> stats'[t]]
      /\ stats'[c] = r /\ stats'[p] = q
      /\ \A t \in Slots \ {c, p} : stats'[t] = stats[t]
      /\ change' \in [Slots -> Times] /\ change'[c] = clock /\ change'[p] = later
      /\ \A t \in Slots \ {c, p} : change'[t] = change[t]
      /\ run_start' \in [Slots -> 0 .. MaxTime]
      /\ run_start'[c] = 0 /\ run_start'[p] = later
      /\ \A t \in Slots \ {c, p} : run_start'[t] = run_start[t]
  BY <1>1, HandedOver
<1>6. /\ state'[c] = next /\ state'[p] = "Running"
      /\ \A t \in Slots \ {c, p} : state'[t] = state[t]
  BY <1>1 DEF TypeOK
<1>. HIDE DEF c, r, q
<1>7. stats' \in [Slots -> Stats]
  <2>1. \A t \in Slots : stats'[t] \in Stats
    BY <1>2, <1>4, <1>5 DEF TimeTypeOK
  <2>. QED
    BY <1>5, <2>1
<1>8. TimeTypeOK'
  <2>1. \A t \in Slots : run_start'[t] # 0 <=> state'[t] = "Running"
    <3>1. later # 0
      BY DEF Times
    <3>2. \A t \in Slots : run_start[t] # 0 <=> state[t] = "Running"
      BY DEF TimeTypeOK
    <3>3. ASSUME NEW t \in Slots
          PROVE  run_start'[t] # 0 <=> state'[t] = "Running"
      <4>1. CASE t = c
        BY <1>5, <1>6, <4>1
      <4>2. CASE t = p
        <5>1. run_start'[p] = later /\ state'[p] = "Running"
          BY <1>5, <1>6
        <5>2. run_start'[t] = later /\ state'[t] = "Running"
          BY <4>2, <5>1, Zenon
        <5>. QED
          BY <3>1, <5>2, Zenon
      <4>3. CASE t \notin {c, p}
        <5>1. t \in Slots \ {c, p}
          BY <4>3, Zenon
        <5>2. run_start'[t] = run_start[t] /\ state'[t] = state[t]
          BY <1>5, <1>6, <5>1, Zenon
        <5>. QED
          BY <3>2, <5>2, Zenon
      <4>. QED
        BY <4>1, <4>2, <4>3
    <3>. QED
      BY <3>3
  <2>. QED
    BY <1>5, <1>7, <2>1 DEF TimeTypeOK
<1>9. Plus(r.run, r.wait) = Minus(clock, born[c])
  <2>1. Plus(s.run, s.wait) = Minus(run_start[c], born[c])
    BY <1>1 DEF AgesAddUp, Since, c
  <2>2. /\ s.run \in Words /\ s.wait \in Words /\ run_start[c] \in Words
        /\ clock \in Words /\ born[c] \in Words
    BY <1>1, SlotTimes DEF c
  <2>3. d = Minus(clock, run_start[c])
    BY DEF c
  <2>. HIDE DEF s, d
  <2>. QED
    BY <1>2, <2>1, <2>2, <2>3, RunGrows
<1>10. Plus(q.run, q.wait) = Minus(later, born[p])
  <2> DEFINE s2 == stats[p]
  <2>1. Plus(s2.run, s2.wait) = Minus(change[p], born[p])
    BY <1>1 DEF AgesAddUp, Since
  <2>2. /\ s2.run \in Words /\ s2.wait \in Words /\ change[p] \in Words
        /\ later \in Words /\ born[p] \in Words
    BY <1>1, SlotTimes, TimesAreWords
  <2>. HIDE DEF s2
  <2>3. Plus(s2.run, Plus(s2.wait, Minus(later, change[p]))) = Minus(later, born[p])
    BY <2>1, <2>2, WaitGrows
  <2>. QED
    BY <1>4, <2>3 DEF s2
<1>11. ASSUME NEW t \in Slots
       PROVE  (Plus(stats[t].run, stats[t].wait) = Minus(Since(t), born[t]))'
  <2>1. CASE t = c
    BY <1>5, <1>6, <1>9, <2>1 DEF Since
  <2>2. CASE t = p
    <3>1. stats'[p] = q /\ state'[p] = "Running" /\ run_start'[p] = later
      BY <1>5, <1>6
    <3>2. stats'[t] = q /\ state'[t] = "Running" /\ run_start'[t] = later /\ born'[t] = born[p]
      BY <2>2, <3>1, Zenon
    <3>3. Since(t)' = later
      BY <3>2, Zenon DEF Since
    <3>. QED
      BY <1>10, <3>2, <3>3, Zenon DEF Plus, Minus
  <2>3. CASE t \notin {c, p}
    <3>1. t \in Slots \ {c, p}
      BY <2>3, Zenon
    <3>2. /\ stats'[t] = stats[t] /\ state'[t] = state[t] /\ born'[t] = born[t]
          /\ run_start'[t] = run_start[t] /\ change'[t] = change[t]
      BY <1>5, <1>6, <3>1, Zenon
    <3>3. Since(t)' = Since(t)
      BY <3>2, Zenon DEF Since
    <3>4. Plus(stats[t].run, stats[t].wait) = Minus(Since(t), born[t])
      BY Zenon DEF AgesAddUp
    <3>. QED
      BY <3>2, <3>3, <3>4, Zenon DEF Plus, Minus
  <2>. QED
    BY <2>1, <2>2, <2>3
<1>. QED
  BY <1>8, <1>11 DEF AgesAddUp

(* A scheduling decision that is accounted for at one reading of the clock. *)
LEMMA ScheduleTimesStep ==
  ASSUME TimeInv, NEW how, Schedule("Ready", how), ScheduleTimes
  PROVE  TimeTypeOK' /\ AgesAddUp'
<1>1. TypeOK /\ OneRunner /\ TimeTypeOK /\ AgesAddUp /\ WithinBound
      /\ UNCHANGED <<clock, born, set_back>> /\ clock \in Times /\ set_back \in BOOLEAN
  BY DEF TimeInv, IInv, ScheduleTimes, TimeTypeOK
<1>2. CASE ReadySlots = {}
  <2>1. state' = state
    BY <1>1, <1>2 DEF Schedule, TypeOK
  <2>. QED
    BY <1>1, <1>2, <2>1, GoOnStep DEF ScheduleTimes
<1>3. CASE ReadySlots # {}
  <2>1. PICK p \in Slots : NextReady(p) /\ SwitchTo(p, "Ready", how)
    BY <1>3 DEF Schedule
  <2>2. p \in ReadySlots /\ current' = p
        /\ state' = [state EXCEPT ![current] = "Ready", ![p] = "Running"]
    BY <2>1, NextReadyIsReady DEF SwitchTo
  <2>3. HandOver(clock, clock)
    BY <1>3 DEF ScheduleTimes
  <2>. QED
    BY <1>1, <2>2, <2>3, HandOverStep
<1>. QED
  BY <1>2, <1>3

(* The thread that exits hands over to somebody: main has not exited.       *)
LEMMA ExitStep ==
  ASSUME TimeInv, TimedExitThread
  PROVE  TimeTypeOK' /\ AgesAddUp'
<1>1. /\ TypeOK /\ OneRunner /\ TimeTypeOK /\ AgesAddUp /\ WithinBound
      /\ born' = born /\ clock \in Times /\ set_back \in BOOLEAN
  BY DEF TimeInv, IInv, TimedExitThread, TimeTypeOK
<1>2. 0 \in ReadySlots
  <2>1. 0 \in Slots /\ 0 # current
    BY SlotsAssumption DEF Slots, TimedExitThread, ExitThread
  <2>. QED
    BY <1>1, <2>1 DEF OneRunner, TypeOK, ReadySlots
<1>3. PICK p \in Slots : NextReady(p) /\ SwitchTo(p, "Unused", "exit")
  BY <1>2 DEF TimedExitThread, ExitThread, Schedule
<1>4. p \in ReadySlots /\ current' = p
      /\ state' = [state EXCEPT ![current] = "Unused", ![p] = "Running"]
  BY <1>3, NextReadyIsReady DEF SwitchTo
<1>5. PICK later \in Times : MoveClock(later) /\ HandOver(clock, later)
  BY DEF TimedExitThread
<1>6. clock' \in Times /\ set_back' \in BOOLEAN
  BY <1>1, <1>5 DEF MoveClock
<1>. QED
  BY <1>1, <1>4, <1>5, <1>6, HandOverStep

LEMMA NewStatsType ==
  /\ NewStats \in Stats
  /\ \A b \in Words : Plus(NewStats.run, NewStats.wait) = Minus(b, b)
<1>1. 0 \in Words /\ Word - 1 \in 0 .. Word - 1 /\ 0 \in 0 .. MaxSlices /\ 0 \in 0 .. Word - 1
  BY WordPositive DEF Words
<1>2. Plus(0, 0) = 0
  BY <1>1, PlusIs, WordPositive
<1>3. \A b \in Words : Minus(b, b) = 0
  BY MinusIs, WordPositive DEF Words
<1>. QED
  BY <1>1, <1>2, <1>3 DEF NewStats, Stats

LEMMA TimedCreateStep ==
  ASSUME TimeInv, NEW prio \in Priorities, TimedCreate(prio)
  PROVE  TimeTypeOK' /\ AgesAddUp'
<1>1. PICK p \in FreeSlots : state' = [state EXCEPT ![p] = "Ready"]
  BY DEF TimedCreate, CreateThread
<1>2. TypeOK /\ OneRunner /\ TimeTypeOK /\ AgesAddUp
  BY DEF TimeInv, IInv
<1>3. p \in Slots /\ state[p] = "Unused" /\ state'[p] = "Ready"
      /\ \A t \in Slots \ {p} : state'[t] = state[t]
  BY <1>1, <1>2 DEF FreeSlots, TypeOK
<1>4. \A t \in Slots : t \in {u \in Slots : state[u] = "Unused" /\ state'[u] = "Ready"} <=> t = p
  BY <1>3
<1>5. /\ born' = [t \in Slots |-> IF t = p THEN clock ELSE born[t]]
      /\ change' = [t \in Slots |-> IF t = p THEN clock ELSE change[t]]
      /\ stats' = [t \in Slots |-> IF t = p THEN NewStats ELSE stats[t]]
      /\ UNCHANGED <<clock, run_start, set_back>>
  BY <1>4 DEF TimedCreate
<1>6. TimeTypeOK'
  <2>1. /\ born' \in [Slots -> Times] /\ change' \in [Slots -> Times]
        /\ stats' \in [Slots -> Stats]
    BY <1>2, <1>5, NewStatsType DEF TimeTypeOK
  <2>. QED
    BY <1>2, <1>3, <1>5, <2>1 DEF TimeTypeOK
<1>7. ASSUME NEW t \in Slots
      PROVE  (Plus(stats[t].run, stats[t].wait) = Minus(Since(t), born[t]))'
  <2>1. CASE t = p
    <3>1. stats'[t] = NewStats /\ state'[t] = "Ready" /\ change'[t] = clock /\ born'[t] = clock
      BY <1>3, <1>5, <2>1
    <3>2. clock \in Words
      BY <1>2, SlotTimes
    <3>. QED
      BY <3>1, <3>2, NewStatsType DEF Since
  <2>2. CASE t # p
    BY <1>2, <1>3, <1>5, <2>2 DEF Since, AgesAddUp
  <2>. QED
    BY <2>1, <2>2
<1>. QED
  BY <1>6, <1>7 DEF AgesAddUp

LEMMA TimeInitHolds == TimeInit => TimeInv
<1>. SUFFICES ASSUME TimeInit PROVE TimeInv
  OBVIOUS
<1>1. IInv
  BY InitIInv DEF TimeInit
<1>2. clock \in Times /\ clock \in 0 .. MaxTime /\ 0 \in 0 .. MaxTime /\ clock # 0 /\ clock \in Words
  BY TimesAreWords, WordPositive DEF TimeInit, Times
<1>3. TimeTypeOK
  BY <1>2, NewStatsType DEF TimeInit, TimeTypeOK, Init
<1>4. AgesAddUp
  BY <1>2, NewStatsType DEF TimeInit, AgesAddUp, Since, Init
<1>. QED
  BY <1>1, <1>3, <1>4 DEF TimeInv

LEMMA TimeStepHolds == TimeInv /\ [TimeNext]_<<vars, timevars>> => TimeInv'
<1>. SUFFICES ASSUME TimeInv, [TimeNext]_<<vars, timevars>> PROVE TimeInv'
  OBVIOUS
<1>1. IInv'
  BY TimedStepIsStep, NextIInv DEF TimeInv
<1>2. /\ TypeOK /\ OneRunner /\ TimeTypeOK /\ AgesAddUp
      /\ clock \in Times /\ set_back \in BOOLEAN
  BY DEF TimeInv, IInv, TimeTypeOK
<1>3. CASE Clock
  <2>1. clock' \in Times /\ set_back' \in BOOLEAN /\ state' = state
        /\ UNCHANGED <<born, change, run_start, stats>>
    BY <1>2, <1>3 DEF Clock, MoveClock, vars
  <2>. QED
    BY <1>1, <1>2, <2>1, StillStep DEF TimeInv
<1>4. ASSUME NEW prio \in Priorities, TimedCreate(prio) PROVE TimeInv'
  BY <1>1, <1>4, TimedCreateStep DEF TimeInv
<1>5. CASE TimedYield
  BY <1>1, <1>5, ScheduleTimesStep DEF TimedYield, Yield, TimeInv
<1>6. CASE TimedMainExitLoop
  BY <1>1, <1>6, ScheduleTimesStep DEF TimedMainExitLoop, MainExitLoop, TimeInv
<1>7. CASE TimedExitThread
  BY <1>1, <1>7, ExitStep DEF TimeInv
<1>8. CASE TimedPlatformExit
  <2>1. state' = state /\ WithinBound /\ GoOn(clock) /\ UNCHANGED <<clock, born, set_back>>
    BY <1>8 DEF TimedPlatformExit, PlatformExit
  <2>. QED
    BY <1>1, <1>2, <2>1, GoOnStep DEF TimeInv
<1>9. CASE TimedTick
  <2>1. CASE in_schedule
    <3>1. state' = state /\ UNCHANGED timevars
      BY <1>9, <2>1 DEF TimedTick, Tick, vars
    <3>. QED
      BY <1>1, <1>2, <3>1, StillStep DEF TimeInv, timevars
  <2>2. CASE ~in_schedule
    BY <1>1, <1>9, <2>2, ScheduleTimesStep DEF TimedTick, Tick, TimeInv
  <2>. QED
    BY <2>1, <2>2
<1>10. CASE Untimed \/ UNCHANGED <<vars, timevars>>
  <2>1. state' = state /\ UNCHANGED timevars
    BY <1>10 DEF Untimed, CreateFails, SetScheduler, MainExit, Sigint, Ended, vars
  <2>. QED
    BY <1>1, <1>2, <2>1, StillStep DEF TimeInv, timevars
<1>. QED
  BY <1>3, <1>4, <1>5, <1>6, <1>7, <1>8, <1>9, <1>10 DEF TimeNext

LEMMA TimeInvariance == TimeSpec => []TimeInv
  BY TimeInitHolds, TimeStepHolds, PTL DEF TimeSpec

-----------------------------------------------------------------------------
(* The types of the accounting's state; only the Running thread's slice is  *)
(* being measured (gthr.c:150).                                             *)
THEOREM TimeTypeCorrect == TimeSpec => []TimeTypeOK
<1>1. TimeInv => TimeTypeOK
  BY DEF TimeInv
<1>. QED
  BY <1>1, TimeInvariance, PTL

(* A report's run time and waiting time add up to the age of the thread,    *)
(* however often it was scheduled and whatever the clock did in between,    *)
(* the setting back of the clock and the wrapping of the totals included    *)
(* (gthr.c:161, gthr.c:266, gthr.c:278).                                    *)
THEOREM DumpAlwaysAddsUp == TimeSpec => []DumpAddsUp
<1>1. TimeInv => DumpAddsUp
  <2>. SUFFICES ASSUME TimeInv, NEW t \in Slots
                PROVE  Plus(DumpRun(t), DumpWait(t)) =
                         Minus(IF state[t] = "Unused" THEN change[t] ELSE clock, born[t])
    BY DEF DumpAddsUp
  <2> DEFINE x == stats[t].run
             y == stats[t].wait
  <2>1. TypeOK /\ TimeTypeOK /\ AgesAddUp
    BY DEF TimeInv, IInv
  <2>2. /\ x \in Words /\ y \in Words /\ born[t] \in Words /\ change[t] \in Words
        /\ run_start[t] \in Words /\ clock \in Words
    BY <2>1, SlotTimes
  <2>3. Plus(x, y) = Minus(Since(t), born[t])
    BY <2>1 DEF AgesAddUp
  <2>4. state[t] \in {"Unused", "Ready", "Running"}
    BY <2>1 DEF TypeOK
  <2>5. CASE state[t] = "Running"
    <3>1. run_start[t] # 0
      BY <2>1, <2>5 DEF TimeTypeOK
    <3>2. Plus(x, y) = Minus(run_start[t], born[t])
      BY <2>3, <2>5 DEF Since
    <3>3. DumpRun(t) = Plus(x, Minus(clock, run_start[t])) /\ DumpWait(t) = y
      BY <2>5, <3>1 DEF DumpRun, DumpWait
    <3>. HIDE DEF x, y
    <3>4. Plus(Plus(x, Minus(clock, run_start[t])), y) = Minus(clock, born[t])
      BY <2>2, <3>2, RunGrows
    <3>. QED
      BY <2>5, <3>3, <3>4
  <2>6. CASE state[t] = "Ready"
    <3>2. Plus(x, y) = Minus(change[t], born[t])
      BY <2>3, <2>6 DEF Since
    <3>3. DumpRun(t) = x /\ DumpWait(t) = Plus(y, Minus(clock, change[t]))
      BY <2>6 DEF DumpRun, DumpWait
    <3>. HIDE DEF x, y
    <3>4. Plus(x, Plus(y, Minus(clock, change[t]))) = Minus(clock, born[t])
      BY <2>2, <3>2, WaitGrows
    <3>. QED
      BY <2>6, <3>3, <3>4
  <2>7. CASE state[t] = "Unused"
    BY <2>3, <2>7 DEF DumpRun, DumpWait, Since
  <2>. QED
    BY <2>4, <2>5, <2>6, <2>7
<1>. QED
  BY <1>1, TimeInvariance, PTL

(* The accounting only watches: it adds no behaviour to the scheduler's and *)
(* every theorem about Gthr holds with it.                                  *)
THEOREM AccountingOnlyWatches == TimeSpec => Spec
<1>1. TimeInit => Init
  BY DEF TimeInit
<1>. QED
  BY <1>1, TimedStepIsStep, PTL DEF TimeSpec, Spec

-----------------------------------------------------------------------------
(* Arithmetic of sums and sums of squares.                                  *)

LEMMA ProductNat == \A x, y \in Nat : x * y \in Nat
  OBVIOUS

LEMMA SquareNat == \A x \in Int : x * x >= 0
  OBVIOUS

LEMMA CancelFactor ==
  ASSUME NEW n \in Nat \ {0}, NEW x \in Int, NEW y \in Int, n * x <= n * y
  PROVE  x <= y
<1>1. CASE x > y
  <2>1. x - y - 1 \in Nat /\ n \in Nat
    BY <1>1
  <2>2. n * (x - y - 1) >= 0
    BY <2>1, ProductNat
  <2>3. n * (x - y - 1) = n * x - n * y - n
    OBVIOUS
  <2>. QED
    BY <2>2, <2>3
<1>. QED
  BY <1>1

(* The sum of squares is at least what slices of equal length would have.   *)
LEMMA SquaresAtLeast ==
  ASSUME NEW n \in Nat \ {0}, NEW sum \in Nat, NEW sq \in Nat, NEW d \in Nat,
         sum * sum <= n * sq
  PROVE  (sum + d) * (sum + d) <= (n + 1) * (sq + d * d)
<1> DEFINE x == n * (d * d) - 2 * (sum * d) + sq
           e == n * d - sum
<1>1. e \in Int /\ e * e >= 0
  BY SquareNat
<1>2. e * e = n * (n * (d * d) - 2 * (sum * d)) + sum * sum
  OBVIOUS
<1>3. n * x = n * (n * (d * d) - 2 * (sum * d)) + n * sq
  OBVIOUS
<1>4. n * x >= 0 /\ x \in Int
  <2>. DEFINE a == n * (n * (d * d) - 2 * (sum * d))
              b == e * e
              f == n * x
              g == n * sq
              h == sum * sum
  <2>1. /\ b = a + h /\ f = a + g /\ b >= 0 /\ h <= g
        /\ a \in Int /\ h \in Int /\ g \in Int /\ b \in Int /\ f \in Int
    BY <1>1, <1>2, <1>3
  <2>2. f >= 0
    <3>. HIDE DEF a, b, f, g, h
    <3>. QED
      BY <2>1
  <2>3. x \in Int
    OBVIOUS
  <2>. QED
    BY <2>2, <2>3
<1>5. 0 <= x
  <2>. HIDE DEF x
  <2>1. n * 0 <= n * x
    BY <1>4
  <2>. QED
    BY <1>4, <2>1, CancelFactor
<1>6. (n + 1) * (sq + d * d) - (sum + d) * (sum + d) = (n * sq - sum * sum) + x
  OBVIOUS
<1>. QED
  <2>. DEFINE a == (n + 1) * (sq + d * d)
              b == (sum + d) * (sum + d)
              g == n * sq
              h == sum * sum
  <2>1. a \in Int /\ b \in Int /\ g \in Int /\ h \in Int /\ x \in Int
    OBVIOUS
  <2>2. a - b = (g - h) + x /\ h <= g
    BY <1>6
  <2>3. b <= a
    <3>. HIDE DEF a, b, g, h, x
    <3>. QED
      BY <2>1, <2>2, <1>5
  <2>. QED
    BY <2>3

(* Slices between min and max have no more than this sum of squares.        *)
LEMMA SquaresAtMost ==
  ASSUME NEW n \in Nat \ {0}, NEW sum \in Nat, NEW sq \in Nat, NEW d \in Nat,
         NEW m \in Nat, NEW l \in Nat, NEW m2 \in Nat, NEW l2 \in Nat,
         n * m <= sum, sum <= n * l, sq + n * (m * l) <= (m + l) * sum,
         m2 <= m, l <= l2, m2 <= d, d <= l2
  PROVE  (sq + d * d) + (n + 1) * (m2 * l2) <= (m2 + l2) * (sum + d)
<1> DEFINE u == (m - m2) * (n * l - sum)
           v == (l2 - l) * (sum - n * m)
           w == (l2 - l) * (n * (m - m2))
           z == (d - m2) * (l2 - d)
<1>1. u >= 0 /\ u \in Int
  <2>1. m - m2 \in Nat /\ n * l - sum \in Nat
    OBVIOUS
  <2>. QED
    BY <2>1, ProductNat
<1>2. v >= 0 /\ v \in Int
  <2>1. l2 - l \in Nat /\ sum - n * m \in Nat
    OBVIOUS
  <2>. QED
    BY <2>1, ProductNat
<1>3. w >= 0 /\ w \in Int
  <2>1. l2 - l \in Nat /\ m - m2 \in Nat
    OBVIOUS
  <2>2. n * (m - m2) \in Nat
    BY <2>1, ProductNat
  <2>. QED
    BY <2>1, <2>2, ProductNat
<1>4. z >= 0 /\ z \in Int
  <2>1. d - m2 \in Nat /\ l2 - d \in Nat
    OBVIOUS
  <2>. QED
    BY <2>1, ProductNat
<1> DEFINE a == (m2 + l2) * (sum + d)
           b == (sq + d * d) + (n + 1) * (m2 * l2)
           e == (m + l) * sum
           f == sq + n * (m * l)
<1>5. a - b = (e - f) + u + v + w + z
  OBVIOUS
<1>6. a \in Int /\ b \in Int /\ e \in Int /\ f \in Int /\ f <= e
  OBVIOUS
<1>. HIDE DEF a, b, e, f, u, v, w, z
<1>7. b <= a
  BY <1>1, <1>2, <1>3, <1>4, <1>5, <1>6
<1>. QED
  BY <1>7 DEF a, b

LEMMA Quotient ==
  ASSUME NEW n \in Nat \ {0}, NEW s \in Nat, NEW a, a = s \div n
  PROVE  a \in Nat /\ n * a <= s /\ s < n * (a + 1)
<1>1. a \in Nat
  OBVIOUS
<1>2. n * (s \div n) <= s /\ s < n * (s \div n) + n
  BY SMTT(30)
<1>3. n * (a + 1) = n * a + n
  BY <1>1
<1>. QED
  BY <1>1, <1>2, <1>3

LEMMA SquaresKeepOrder ==
  ASSUME NEW x \in Nat, NEW y \in Nat, x <= y
  PROVE  x * x <= y * y
<1>1. (y - x) * (y + x) \in Nat
  BY ProductNat
<1>2. (y - x) * (y + x) = y * y - x * x
  OBVIOUS
<1>. QED
  BY <1>1, <1>2

(* What the report computes from one thread's slices.                       *)
LEMMA SpreadOf ==
  ASSUME NEW n \in Nat \ {0}, NEW sum \in Nat, NEW sq \in Nat, NEW m \in Nat, NEW l \in Nat,
         n * m <= sum, sum <= n * l, sum * sum <= n * sq,
         sq + n * (m * l) <= (m + l) * sum,
         NEW a, a = sum \div n, NEW q, q = sq \div n
  PROVE  /\ a \in Nat /\ q \in Nat /\ m <= a /\ a <= l /\ a * a <= q /\ q <= sq
         /\ 4 * (q - a * a) <= (l - m) * (l - m) + 4 * (2 * a + 1)
<1>1. a \in Nat /\ n * a <= sum /\ sum < n * (a + 1)
  BY Quotient
<1>2. q \in Nat /\ n * q <= sq /\ sq < n * (q + 1)
  BY Quotient
<1>3. m <= a
  <2>1. n * m < n * (a + 1)
    <3>. DEFINE x == n * m
                y == n * (a + 1)
    <3>1. x \in Int /\ y \in Int
      BY <1>1
    <3>2. x <= sum /\ sum < y
      BY <1>1
    <3>. HIDE DEF x, y
    <3>3. x < y
      BY <3>1, <3>2
    <3>. QED
      BY <3>3 DEF x, y
  <2>2. CASE a + 1 <= m
    <3>1. (m - (a + 1)) * n \in Nat
      BY <1>1, <2>2, ProductNat
    <3>. QED
      BY <1>1, <2>1, <3>1
  <2>. QED
    BY <1>1, <2>2
<1>4. a <= l
  <2>1. n * a <= n * l
    <3>. DEFINE x == n * a
                y == n * l
    <3>1. x \in Int /\ y \in Int /\ x <= sum /\ sum <= y
      BY <1>1
    <3>. HIDE DEF x, y
    <3>2. x <= y
      BY <3>1
    <3>. QED
      BY <3>2 DEF x, y
  <2>. QED
    BY <1>1, <2>1, CancelFactor
<1>5. a * a <= q
  <2>1. (n * a) * (n * a) <= sum * sum
    BY <1>1, ProductNat, SquaresKeepOrder
  <2>2. n * (n * (a * a)) = (n * a) * (n * a)
    BY <1>1
  <2>3. n * (n * (a * a)) <= n * sq
    <3>. DEFINE x == n * (n * (a * a))
                y == n * sq
                z == sum * sum
    <3>1. x \in Int /\ y \in Int /\ z \in Int /\ x <= z /\ z <= y
      BY <1>1, <2>1, <2>2
    <3>. HIDE DEF x, y, z
    <3>2. x <= y
      BY <3>1
    <3>. QED
      BY <3>2 DEF x, y
  <2>4. n * (a * a) <= sq
    <3>1. n * (a * a) \in Int
      BY <1>1
    <3>. QED
      BY <2>3, <3>1, CancelFactor
  <2>5. n * (a * a) < n * (q + 1)
    <3>. DEFINE x == n * (a * a)
                y == n * (q + 1)
    <3>1. x \in Int /\ y \in Int /\ x <= sq /\ sq < y
      BY <1>1, <1>2, <2>4
    <3>. HIDE DEF x, y
    <3>2. x < y
      BY <3>1
    <3>. QED
      BY <3>2 DEF x, y
  <2>6. CASE q + 1 <= a * a
    <3>1. a * a - (q + 1) \in Nat
      BY <1>1, <1>2, <2>6
    <3>2. n * (a * a - (q + 1)) \in Nat
      BY <3>1, ProductNat
    <3>3. n * (a * a - (q + 1)) = n * (a * a) - n * (q + 1)
      BY <1>1, <1>2
    <3>4. n * (a * a) \in Int /\ n * (q + 1) \in Int
      BY <1>1, <1>2
    <3>. QED
      BY <2>5, <3>2, <3>3, <3>4
  <2>. QED
    BY <1>1, <1>2, <2>6
<1>6. q <= sq
  <2>1. (n - 1) * q \in Nat
    BY <1>2, ProductNat
  <2>2. (n - 1) * q = n * q - q
    BY <1>2
  <2>3. n * q \in Int
    BY <1>2
  <2>. QED
    BY <1>2, <2>1, <2>2, <2>3
<1>7. 4 * (q - a * a) <= (l - m) * (l - m) + 4 * (2 * a + 1)
  <2> DEFINE k == m + l
             w == (l - m) * (l - m)
             b == a + 1
             e == 2 * sum - k * n
             x == n * (n * (4 * q))
             y == n * (n * (w + 4 * (b * b)))
  <2>1. n * (n * q) <= n * sq
    <3>1. sq - n * q \in Nat /\ n * q \in Nat
      BY <1>2, ProductNat
    <3>2. n * (sq - n * q) \in Nat
      BY <3>1, ProductNat
    <3>. QED
      BY <3>1, <3>2
  <2>2. n * (sq + n * (m * l)) <= n * (k * sum)
    <3>1. k * sum - (sq + n * (m * l)) \in Nat
      OBVIOUS
    <3>2. n * (k * sum - (sq + n * (m * l))) \in Nat
      BY <3>1, ProductNat
    <3>. QED
      BY <3>2
  <2>3. sum * sum <= (n * b) * (n * b)
    BY <1>1, ProductNat, SquaresKeepOrder
  <2>4. e * e >= 0
    BY SquareNat
  <2>5. e * e = 4 * (sum * sum) - 4 * (n * (k * sum)) + (n * k) * (n * k)
    OBVIOUS
  <2>6. (n * k) * (n * k) = n * (n * w) + 4 * (n * (n * (m * l)))
    OBVIOUS
  <2>7. y = n * (n * w) + 4 * ((n * b) * (n * b))
    BY <1>1
  <2>8. n * (sq + n * (m * l)) = n * sq + n * (n * (m * l)) /\ x = 4 * (n * (n * q))
    BY <1>2
  <2>9. x <= y
    <3> DEFINE A == n * (n * q)
               B == n * sq
               C == n * (n * (m * l))
               D == n * (k * sum)
               E == sum * sum
               F == (n * b) * (n * b)
               G == e * e
               H == (n * k) * (n * k)
               J == n * (n * w)
    <3>1. /\ A \in Int /\ B \in Int /\ C \in Int /\ D \in Int /\ E \in Int /\ F \in Int
          /\ G \in Int /\ H \in Int /\ J \in Int
      BY <1>1, <1>2
    <3>2. A <= B /\ B + C <= D /\ E <= F /\ G >= 0
      BY <2>1, <2>2, <2>3, <2>4, <2>8
    <3>3. G = 4 * E - 4 * D + H /\ H = J + 4 * C /\ y = J + 4 * F /\ x = 4 * A
      BY <2>5, <2>6, <2>7, <2>8
    <3>. HIDE DEF A, B, C, D, E, F, G, H, J, x, y
    <3>. QED
      BY <3>1, <3>2, <3>3
  <2>10. n * (4 * q) <= n * (w + 4 * (b * b))
    <3>1. n * (4 * q) \in Int /\ n * (w + 4 * (b * b)) \in Int
      BY <1>1, <1>2
    <3>. HIDE DEF w, b
    <3>. QED
      BY <2>9, <3>1, CancelFactor DEF x, y
  <2>11. 4 * q <= w + 4 * (b * b)
    <3>1. 4 * q \in Int /\ w + 4 * (b * b) \in Int
      BY <1>1, <1>2
    <3>. HIDE DEF w, b
    <3>. QED
      BY <2>10, <3>1, CancelFactor
  <2>12. b * b = a * a + 2 * a + 1
    BY <1>1
  <2>. QED
    BY <1>1, <1>2, <2>11, <2>12
<1>. QED
  BY <1>1, <1>2, <1>3, <1>4, <1>5, <1>6, <1>7

-----------------------------------------------------------------------------
(* What the columns of one thread say of the lengths of its slices.         *)
SliceInv(s) ==
  IF s.count = 0 THEN s.run = 0 /\ s.sq = 0 /\ s.max = 0 /\ s.min = Word - 1
  ELSE /\ s.count * s.min <= s.run /\ s.run <= s.count * s.max
       /\ s.run * s.run <= s.count * s.sq
       /\ s.sq + s.count * (s.min * s.max) <= (s.min + s.max) * s.run
       /\ s.sq <= s.run * s.run

(* A thread's slices do not overlap and are all in the past.                *)
InThePast(t) == stats[t].run < Since(t) /\ Since(t) <= clock

Slices == set_back \/ \A t \in Slots : SliceInv(stats[t]) /\ InThePast(t)

LEMMA SliceAdded ==
  ASSUME (MaxTime - 1) * (MaxTime - 1) < Word,
         NEW s \in Stats, NEW r \in Stats, NEW d \in Nat, SliceInv(s), s.run + d < MaxTime,
         r.run = Plus(s.run, d), r.count = s.count + 1, r.sq = Plus(s.sq, d * d),
         r.min = (IF d < s.min THEN d ELSE s.min),
         r.max = (IF d > s.max THEN d ELSE s.max)
  PROVE  SliceInv(r) /\ r.run = s.run + d
<1> DEFINE n == s.count
           sum == s.run
           sq == s.sq
           m == s.min
           l == s.max
           m2 == r.min
           l2 == r.max
<1>1. /\ n \in Nat /\ sum \in Words /\ sq \in Words /\ m \in Words /\ l \in Words
      /\ m2 \in Words /\ l2 \in Words
      /\ Word \in Nat /\ MaxTime \in Nat /\ MaxTime < Word
  BY WordPositive DEF Stats, Words
<1>2. /\ r.run = Plus(sum, d) /\ r.count = n + 1 /\ r.sq = Plus(sq, d * d) /\ sum + d < MaxTime
      /\ m2 = (IF d < m THEN d ELSE m) /\ l2 = (IF d > l THEN d ELSE l)
  OBVIOUS
<1>3. \/ n = 0 /\ sum = 0 /\ sq = 0 /\ l = 0 /\ m = Word - 1
      \/ /\ n # 0 /\ n * m <= sum /\ sum <= n * l /\ sum * sum <= n * sq
         /\ sq + n * (m * l) <= (m + l) * sum /\ sq <= sum * sum
  BY DEF SliceInv
<1>4. SliceInv(r) <=> /\ r.count # 0 => /\ r.count * m2 <= r.run /\ r.run <= r.count * l2
                                        /\ r.run * r.run <= r.count * r.sq
                                        /\ r.sq + r.count * (m2 * l2) <= (m2 + l2) * r.run
                                        /\ r.sq <= r.run * r.run
                      /\ r.count = 0 => r.run = 0 /\ r.sq = 0 /\ l2 = 0 /\ m2 = Word - 1
  BY DEF SliceInv
<1>. HIDE DEF n, sum, sq, m, l, m2, l2
<1>5. r.run = sum + d
  BY <1>1, <1>2, PlusIs DEF Words
<1>6. /\ sum \in Nat /\ sq \in Nat /\ m \in Nat /\ l \in Nat /\ m2 \in Nat /\ l2 \in Nat
      /\ m2 <= d /\ d <= l2 /\ m2 <= m /\ l <= l2
  BY <1>1, <1>2 DEF Words
<1>7. d * d \in Nat /\ (sum + d) * (sum + d) < Word
  <2>1. (sum + d) * (sum + d) <= (MaxTime - 1) * (MaxTime - 1)
    <3>1. sum + d \in Nat /\ MaxTime - 1 \in Nat /\ sum + d <= MaxTime - 1
      BY <1>1, <1>2, <1>6
    <3>. QED
      BY <3>1, SquaresKeepOrder
  <2>2. (sum + d) * (sum + d) \in Int /\ (MaxTime - 1) * (MaxTime - 1) \in Int
    BY <1>1, <1>6
  <2>3. d * d \in Nat
    BY ProductNat
  <2>. DEFINE x == (sum + d) * (sum + d)
              y == (MaxTime - 1) * (MaxTime - 1)
  <2>. HIDE DEF x, y
  <2>4. x < Word
    BY <1>1, <2>1, <2>2 DEF x, y
  <2>. QED
    BY <2>3, <2>4 DEF x
<1>8. sq + d * d <= (sum + d) * (sum + d)
  <2>1. sq <= sum * sum
    BY <1>3, <1>6
  <2>2. sum * d \in Nat /\ d * d \in Nat /\ sum * sum \in Nat
    BY <1>6, ProductNat
  <2>3. (sum + d) * (sum + d) = sum * sum + 2 * (sum * d) + d * d
    BY <1>6
  <2>. QED
    BY <1>6, <2>1, <2>2, <2>3
<1>9. r.sq = sq + d * d
  <2> DEFINE dd == d * d
             tt == (sum + d) * (sum + d)
  <2>1. dd \in Nat /\ tt \in Int /\ tt < Word /\ sq + dd <= tt /\ r.sq = Plus(sq, dd)
    BY <1>2, <1>6, <1>7, <1>8
  <2>. HIDE DEF dd, tt
  <2>2. dd \in Words /\ sq + dd < Word
    BY <1>1, <1>6, <2>1 DEF Words
  <2>3. r.sq = sq + dd
    BY <1>1, <2>1, <2>2, PlusIs
  <2>. QED
    BY <2>3 DEF dd
<1>10. ASSUME n = 0 PROVE SliceInv(r)
  <2>1. sum = 0 /\ sq = 0 /\ l2 = d /\ m2 = d /\ r.count = 1 /\ r.run = d /\ r.sq = d * d
    <3>1. sum = 0 /\ sq = 0 /\ l = 0 /\ m = Word - 1
      BY <1>3, <1>10
    <3>2. r.run = d /\ r.sq = d * d /\ r.count = 1
      BY <1>2, <1>5, <1>7, <1>9, <1>10, <3>1
    <3>3. d < Word - 1 \/ d = Word - 1
      BY <1>1, <1>2, <3>1
    <3>. QED
      BY <1>1, <1>2, <3>1, <3>2, <3>3
  <2>2. d * d \in Nat /\ 1 * (d * d) = d * d /\ 1 * d = d
    BY <1>7
  <2>3. (d + d) * d = d * d + d * d
    OBVIOUS
  <2>. QED
    BY <1>4, <2>1, <2>2, <2>3
<1>11. ASSUME n # 0 PROVE SliceInv(r)
  <2>1. /\ n \in Nat \ {0} /\ n * m <= sum /\ sum <= n * l /\ sum * sum <= n * sq
        /\ sq + n * (m * l) <= (m + l) * sum
    BY <1>1, <1>3, <1>11
  <2>2. (sum + d) * (sum + d) <= (n + 1) * (sq + d * d)
    BY <1>6, <2>1, SquaresAtLeast
  <2>3. (sq + d * d) + (n + 1) * (m2 * l2) <= (m2 + l2) * (sum + d)
    BY <1>6, <2>1, SquaresAtMost
  <2>4. (n + 1) * m2 <= sum + d
    <3>1. n * (m - m2) \in Nat
      BY <1>6, <2>1, ProductNat
    <3>2. n * (m - m2) = n * m - n * m2 /\ (n + 1) * m2 = n * m2 + m2
      BY <1>6, <2>1
    <3>3. n * m \in Int /\ n * m2 \in Int
      BY <1>6, <2>1
    <3>. QED
      BY <1>6, <2>1, <3>1, <3>2, <3>3
  <2>5. sum + d <= (n + 1) * l2
    <3>1. n * (l2 - l) \in Nat
      BY <1>6, <2>1, ProductNat
    <3>2. n * (l2 - l) = n * l2 - n * l /\ (n + 1) * l2 = n * l2 + l2
      BY <1>6, <2>1
    <3>3. n * l \in Int /\ n * l2 \in Int
      BY <1>6, <2>1
    <3>. QED
      BY <1>6, <2>1, <3>1, <3>2, <3>3
  <2>6. r.count = n + 1 /\ n + 1 # 0
    BY <1>2, <2>1
  <2>. QED
    BY <1>4, <1>5, <1>8, <1>9, <2>2, <2>3, <2>4, <2>5, <2>6
<1>. QED
  BY <1>5, <1>10, <1>11 DEF sum

LEMMA NewSlices == SliceInv(NewStats) /\ NewStats.run = 0
  BY DEF NewStats, SliceInv

(* The slice that ends now began at the thread's run_start.                 *)
LEMMA SliceEnds ==
  ASSUME (MaxTime - 1) * (MaxTime - 1) < Word,
         TypeOK, OneRunner, TimeTypeOK, WithinBound,
         SliceInv(stats[current]), InThePast(current),
         NEW r, r = AccountRunningSlice(current, clock)
  PROVE  SliceInv(r) /\ r.run < clock
<1> DEFINE d == Minus(clock, run_start[current])
           s == stats[current]
<1>1. /\ d \in Words /\ r \in Stats /\ s \in Stats
      /\ r.run = Plus(s.run, d) /\ r.count = s.count + 1 /\ r.sq = Plus(s.sq, d * d)
      /\ r.min = (IF d < s.min THEN d ELSE s.min)
      /\ r.max = (IF d > s.max THEN d ELSE s.max)
  <2>1. clock \in Times
    BY DEF TimeTypeOK
  <2>. QED
    BY <2>1, Accounted
<1>2. s.run < run_start[current] /\ run_start[current] <= clock /\ SliceInv(s)
  BY DEF InThePast, Since, OneRunner, TypeOK
<1>3. clock \in Words /\ run_start[current] \in Words /\ clock \in 1 .. MaxTime
  BY SlotTimes DEF TypeOK, TimeTypeOK, Times
<1>4. d = clock - run_start[current]
  BY <1>2, <1>3, MinusIs DEF Words
<1>5. s.run \in Nat /\ MaxTime \in Nat
  BY <1>1, WordPositive DEF Stats
<1>. HIDE DEF d, s
<1>6. d \in Nat /\ s.run + d < clock /\ s.run + d < MaxTime
  BY <1>2, <1>3, <1>4, <1>5 DEF Words
<1>. QED
  BY <1>1, <1>2, <1>6, SliceAdded

LEMMA SlicesStill ==
  ASSUME TypeOK, TimeTypeOK, Slices, state' = state, UNCHANGED <<change, run_start, stats>>,
         clock' \in Times, set_back' = (set_back \/ clock' < clock)
  PROVE  Slices'
<1>. SUFFICES ASSUME ~set_back', NEW t \in Slots PROVE (SliceInv(stats[t]) /\ InThePast(t))'
  BY DEF Slices
<1>1. ~set_back /\ SliceInv(stats[t]) /\ InThePast(t) /\ clock' >= clock
  <2>1. ~set_back /\ ~(clock' < clock)
    BY Zenon
  <2>. QED
    BY <2>1 DEF Slices, TimeTypeOK, Times
<1>2. SliceInv(stats[t])'
  BY <1>1 DEF SliceInv
<1>3. Since(t)' = Since(t) /\ Since(t) \in Nat /\ clock \in Nat /\ clock' \in Nat
  BY DEF Since, TimeTypeOK, Times
<1>. QED
  BY <1>1, <1>2, <1>3 DEF InThePast

LEMMA SlicesGoOn ==
  ASSUME (MaxTime - 1) * (MaxTime - 1) < Word,
         TypeOK, OneRunner, TimeTypeOK, Slices, WithinBound, GoOn(clock), state' = state,
         UNCHANGED <<clock, set_back>>
  PROVE  Slices'
<1>. SUFFICES ASSUME ~set_back', NEW t \in Slots PROVE (SliceInv(stats[t]) /\ InThePast(t))'
  BY DEF Slices
<1>1. \A u \in Slots : SliceInv(stats[u]) /\ InThePast(u)
  BY DEF Slices
<1>2. current \in Slots /\ state[current] = "Running" /\ clock \in Nat
  BY DEF TypeOK, OneRunner, TimeTypeOK, Times
<1>3. PICK r : r = AccountRunningSlice(current, clock)
  OBVIOUS
<1>4. SliceInv(r) /\ r.run < clock
  BY <1>1, <1>2, <1>3, SliceEnds
<1>5. /\ stats' = [stats EXCEPT ![current] = r] /\ run_start' = [run_start EXCEPT ![current] = clock]
      /\ change' = change
  BY <1>3 DEF GoOn
<1>6. CASE t = current
  <2>1. stats'[t] = r /\ run_start'[t] = clock
    BY <1>2, <1>5, <1>6 DEF TimeTypeOK
  <2>2. Since(t)' = clock /\ clock' = clock
    BY <1>2, <1>6, <2>1 DEF Since
  <2>3. SliceInv(stats[t])'
    BY <1>4, <2>1 DEF SliceInv
  <2>. QED
    BY <1>2, <1>4, <2>1, <2>2, <2>3 DEF InThePast
<1>7. CASE t # current
  <2>1. stats'[t] = stats[t] /\ run_start'[t] = run_start[t]
    BY <1>5, <1>7 DEF TimeTypeOK
  <2>2. SliceInv(stats[t]) /\ InThePast(t)
    BY <1>1
  <2>. QED
    BY <1>5, <2>1, <2>2 DEF SliceInv, InThePast, Since
<1>. QED
  BY <1>6, <1>7

LEMMA SlicesHandOver ==
  ASSUME (MaxTime - 1) * (MaxTime - 1) < Word,
         TypeOK, OneRunner, TimeTypeOK, Slices, WithinBound,
         NEW later \in Times, HandOver(clock, later),
         NEW p \in ReadySlots, current' = p, NEW next \in {"Ready", "Unused"},
         state' = [state EXCEPT ![current] = next, ![p] = "Running"],
         clock' = later, set_back' = (set_back \/ later < clock)
  PROVE  Slices'
<1>. SUFFICES ASSUME ~set_back', NEW t \in Slots PROVE (SliceInv(stats[t]) /\ InThePast(t))'
  BY DEF Slices
<1>1. (\A u \in Slots : SliceInv(stats[u]) /\ InThePast(u)) /\ clock <= later
  <2>1. ~set_back /\ ~(later < clock)
    BY Zenon
  <2>. QED
    BY <2>1 DEF Slices, TimeTypeOK, Times
<1>2. /\ current \in Slots /\ state[current] = "Running" /\ clock \in Times
      /\ p \in Slots /\ p # current /\ state[p] = "Ready"
      /\ clock \in Nat /\ later \in Nat
  BY CurrentNotReady DEF TypeOK, OneRunner, TimeTypeOK, Times, ReadySlots
<1>3. PICK r : r = AccountRunningSlice(current, clock)
  OBVIOUS
<1>4. SliceInv(r) /\ r.run < clock
  BY <1>1, <1>2, <1>3, SliceEnds
<1>5. PICK w : w = Minus(later, change[p])
  OBVIOUS
<1>6. w \in Words /\ stats[p] \in Stats
  BY <1>2, <1>5, SlotTimes, TimesAreWords, MinusIs
<1>7. PICK q : q = [stats[p] EXCEPT !.wait = Plus(@, w)]
  OBVIOUS
<1>8. /\ q.run = stats[p].run /\ q.count = stats[p].count /\ q.min = stats[p].min
      /\ q.max = stats[p].max /\ q.sq = stats[p].sq
  BY <1>6, <1>7, WaitAdded
<1>9. /\ stats'[current] = r /\ stats'[p] = q
      /\ \A u \in Slots \ {current, p} : stats'[u] = stats[u]
      /\ change'[current] = clock /\ change'[p] = later
      /\ \A u \in Slots \ {current, p} : change'[u] = change[u]
      /\ run_start'[p] = later
      /\ \A u \in Slots \ {current, p} : run_start'[u] = run_start[u]
  BY <1>2, <1>3, <1>5, <1>7, HandedOver
<1>10. /\ state'[current] = next /\ state'[p] = "Running"
       /\ \A u \in Slots \ {current, p} : state'[u] = state[u]
  BY <1>2 DEF TypeOK
<1>11. CASE t = current
  <2>1. stats'[t] = r /\ change'[t] = clock /\ state'[t] # "Running"
    BY <1>9, <1>10, <1>11
  <2>2. Since(t)' = clock
    BY <2>1 DEF Since
  <2>3. SliceInv(stats[t])'
    BY <1>4, <2>1 DEF SliceInv
  <2>. QED
    BY <1>1, <1>2, <1>4, <2>1, <2>2, <2>3 DEF InThePast
<1>12. CASE t = p
  <2>1. stats'[p] = q /\ run_start'[p] = later /\ state'[p] = "Running"
    BY <1>9, <1>10
  <2>2. stats'[t] = q /\ run_start'[t] = later /\ state'[t] = "Running"
    BY <1>12, <2>1, Zenon
  <2>3. Since(t)' = later
    BY <2>2, Zenon DEF Since
  <2>4. SliceInv(stats[p]) /\ InThePast(p) /\ Since(p) = change[p]
    BY <1>1, <1>2 DEF Since
  <2>5. SliceInv(stats[t])'
    BY <1>8, <2>2, <2>4 DEF SliceInv
  <2>6. q.run \in Nat /\ change[p] \in Nat
    BY <1>2, <1>6, <1>8 DEF TimeTypeOK, Times, Stats
  <2>7. q.run < later
    BY <1>1, <1>2, <1>8, <2>4, <2>6 DEF InThePast
  <2>. QED
    BY <1>2, <2>2, <2>3, <2>5, <2>7 DEF InThePast
<1>13. CASE t \notin {current, p}
  <2>1. t \in Slots \ {current, p}
    BY <1>13, Zenon
  <2>2. /\ stats'[t] = stats[t] /\ state'[t] = state[t]
        /\ run_start'[t] = run_start[t] /\ change'[t] = change[t]
    BY <1>9, <1>10, <2>1, Zenon
  <2>3. Since(t)' = Since(t)
    BY <2>2, Zenon DEF Since
  <2>4. SliceInv(stats[t]) /\ InThePast(t)
    BY <1>1
  <2>5. Since(t) \in Nat
    BY DEF TimeTypeOK, Times, Since
  <2>. QED
    BY <1>1, <1>2, <2>2, <2>3, <2>4, <2>5 DEF InThePast, SliceInv
<1>. QED
  BY <1>11, <1>12, <1>13

(* A scheduling decision that is accounted for at one reading of the clock. *)
LEMMA SlicesScheduled ==
  ASSUME (MaxTime - 1) * (MaxTime - 1) < Word,
         TimeInv, Slices, NEW how, Schedule("Ready", how), ScheduleTimes
  PROVE  Slices'
<1>1. /\ TypeOK /\ OneRunner /\ TimeTypeOK /\ WithinBound
      /\ UNCHANGED <<clock, set_back>> /\ clock \in Times
  BY DEF TimeInv, IInv, ScheduleTimes, TimeTypeOK
<1>2. CASE ReadySlots = {}
  <2>1. state' = state
    BY <1>1, <1>2 DEF Schedule, TypeOK
  <2>. QED
    BY <1>1, <1>2, <2>1, SlicesGoOn DEF ScheduleTimes
<1>3. CASE ReadySlots # {}
  <2>1. PICK p \in Slots : NextReady(p) /\ SwitchTo(p, "Ready", how)
    BY <1>3 DEF Schedule
  <2>2. p \in ReadySlots /\ current' = p
        /\ state' = [state EXCEPT ![current] = "Ready", ![p] = "Running"]
    BY <2>1, NextReadyIsReady DEF SwitchTo
  <2>3. HandOver(clock, clock)
    BY <1>3 DEF ScheduleTimes
  <2>4. set_back \in BOOLEAN /\ ~(clock < clock)
    BY <1>1 DEF TimeTypeOK, Times
  <2>5. set_back' = (set_back \/ clock < clock)
    BY <1>1, <2>4, Zenon
  <2>. QED
    BY <1>1, <2>2, <2>3, <2>5, SlicesHandOver
<1>. QED
  BY <1>2, <1>3

LEMMA SlicesExit ==
  ASSUME (MaxTime - 1) * (MaxTime - 1) < Word, TimeInv, Slices, TimedExitThread
  PROVE  Slices'
<1>1. TypeOK /\ OneRunner /\ TimeTypeOK /\ WithinBound
  BY DEF TimeInv, IInv, TimedExitThread
<1>2. 0 \in ReadySlots
  <2>1. 0 \in Slots /\ 0 # current
    BY SlotsAssumption DEF Slots, TimedExitThread, ExitThread
  <2>. QED
    BY <1>1, <2>1 DEF OneRunner, TypeOK, ReadySlots
<1>3. PICK p \in Slots : NextReady(p) /\ SwitchTo(p, "Unused", "exit")
  BY <1>2 DEF TimedExitThread, ExitThread, Schedule
<1>4. p \in ReadySlots /\ current' = p
      /\ state' = [state EXCEPT ![current] = "Unused", ![p] = "Running"]
  BY <1>3, NextReadyIsReady DEF SwitchTo
<1>5. PICK later \in Times : MoveClock(later) /\ HandOver(clock, later)
  BY DEF TimedExitThread
<1>6. clock' = later /\ set_back' = (set_back \/ later < clock)
  BY <1>5 DEF MoveClock
<1>. QED
  BY <1>1, <1>4, <1>5, <1>6, SlicesHandOver

LEMMA SlicesCreate ==
  ASSUME TimeInv, Slices, NEW prio \in Priorities, TimedCreate(prio)
  PROVE  Slices'
<1>1. PICK p \in FreeSlots : state' = [state EXCEPT ![p] = "Ready"]
  BY DEF TimedCreate, CreateThread
<1>2. TypeOK /\ OneRunner /\ TimeTypeOK
  BY DEF TimeInv, IInv
<1>3. p \in Slots /\ state[p] = "Unused" /\ state'[p] = "Ready"
      /\ \A t \in Slots \ {p} : state'[t] = state[t]
  BY <1>1, <1>2 DEF FreeSlots, TypeOK
<1>4. \A t \in Slots : t \in {u \in Slots : state[u] = "Unused" /\ state'[u] = "Ready"} <=> t = p
  BY <1>3
<1>5. /\ change' = [t \in Slots |-> IF t = p THEN clock ELSE change[t]]
      /\ stats' = [t \in Slots |-> IF t = p THEN NewStats ELSE stats[t]]
      /\ UNCHANGED <<clock, run_start, set_back>>
  BY <1>4 DEF TimedCreate
<1>. SUFFICES ASSUME ~set_back', NEW t \in Slots PROVE (SliceInv(stats[t]) /\ InThePast(t))'
  BY DEF Slices
<1>6. SliceInv(stats[t]) /\ InThePast(t)
  BY <1>5 DEF Slices
<1>7. CASE t = p
  <2>1. stats'[t] = NewStats /\ state'[t] = "Ready" /\ change'[t] = clock /\ clock' = clock
    BY <1>3, <1>5, <1>7
  <2>2. clock \in Nat /\ 0 < clock
    BY <1>2 DEF TimeTypeOK, Times
  <2>3. SliceInv(stats[t])'
    BY <2>1, NewSlices DEF SliceInv
  <2>. QED
    BY <2>1, <2>2, <2>3, NewSlices DEF InThePast, Since
<1>8. CASE t # p
  <2>1. stats'[t] = stats[t] /\ state'[t] = state[t] /\ change'[t] = change[t]
    BY <1>3, <1>5, <1>8
  <2>. QED
    BY <1>5, <1>6, <2>1 DEF SliceInv, InThePast, Since
<1>. QED
  BY <1>7, <1>8

LEMMA SlicesInit == TimeInit => Slices
<1>. SUFFICES ASSUME TimeInit, NEW t \in Slots PROVE SliceInv(stats[t]) /\ InThePast(t)
  BY DEF Slices
<1>1. stats[t] = NewStats /\ Since(t) = clock /\ clock \in Nat /\ 0 < clock
  BY DEF TimeInit, Init, Since, Times
<1>. QED
  BY <1>1, NewSlices DEF InThePast

LEMMA SlicesStep ==
  ASSUME (MaxTime - 1) * (MaxTime - 1) < Word,
         TimeInv, Slices, [TimeNext]_<<vars, timevars>>
  PROVE  Slices'
<1>1. /\ TypeOK /\ OneRunner /\ TimeTypeOK
      /\ clock \in Times /\ set_back \in BOOLEAN
  BY DEF TimeInv, IInv, TimeTypeOK
<1>2. CASE Clock
  <2>1. clock' \in Times /\ set_back' = (set_back \/ clock' < clock) /\ state' = state
        /\ UNCHANGED <<change, run_start, stats>>
    BY <1>1, <1>2 DEF Clock, MoveClock, vars
  <2>. QED
    BY <1>1, <2>1, SlicesStill
<1>3. ASSUME NEW prio \in Priorities, TimedCreate(prio) PROVE Slices'
  BY <1>3, SlicesCreate
<1>4. CASE TimedYield
  BY <1>4, SlicesScheduled DEF TimedYield, Yield
<1>5. CASE TimedMainExitLoop
  BY <1>5, SlicesScheduled DEF TimedMainExitLoop, MainExitLoop
<1>6. CASE TimedExitThread
  BY <1>6, SlicesExit
<1>7. CASE TimedPlatformExit
  <2>1. state' = state /\ WithinBound /\ GoOn(clock) /\ UNCHANGED <<clock, set_back>>
    BY <1>7 DEF TimedPlatformExit, PlatformExit
  <2>. QED
    BY <1>1, <2>1, SlicesGoOn
<1>8. ASSUME state' = state, UNCHANGED timevars PROVE Slices'
  <2>1. set_back' = set_back /\ clock' = clock /\ UNCHANGED <<change, run_start, stats>>
    BY <1>8 DEF timevars
  <2>2. ~(clock < clock)
    BY <1>1 DEF Times
  <2>3. set_back' = (set_back \/ clock' < clock)
    BY <1>1, <2>1, <2>2, Zenon
  <2>. QED
    BY <1>1, <1>8, <2>1, <2>3, SlicesStill
<1>9. CASE TimedTick
  <2>1. CASE in_schedule
    BY <1>8, <1>9, <2>1 DEF TimedTick, Tick, vars
  <2>2. CASE ~in_schedule
    BY <1>9, <2>2, SlicesScheduled DEF TimedTick, Tick
  <2>. QED
    BY <2>1, <2>2
<1>10. CASE Untimed \/ UNCHANGED <<vars, timevars>>
  BY <1>8, <1>10 DEF Untimed, CreateFails, SetScheduler, MainExit, Sigint, Ended, vars
<1>. QED
  BY <1>2, <1>3, <1>4, <1>5, <1>6, <1>7, <1>9, <1>10 DEF TimeNext

(* The slice columns of the report describe one set of slices: the average  *)
(* lies between the shortest and the longest, and the variance is not       *)
(* negative and at most that of such slices, but for the truncated average  *)
(* (gthr.c:222, gthr.c:232).  The hypothesis keeps the sum of squares of    *)
(* all slices within a word; with a longer session it wraps.                *)
THEOREM SpreadAlwaysSound ==
  ASSUME (MaxTime - 1) * (MaxTime - 1) < Word
  PROVE  TimeSpec => []SpreadSound
<1>1. TimeSpec => []Slices
  <2>1. TimeInv /\ Slices /\ [TimeNext]_<<vars, timevars>> => Slices'
    BY SlicesStep
  <2>. QED
    BY <2>1, SlicesInit, TimeInvariance, PTL DEF TimeSpec
<1>2. TimeInv /\ Slices => SpreadSound
  <2>. SUFFICES ASSUME TimeInv, ~set_back, NEW t \in Slots, stats[t].count > 0,
                       SliceInv(stats[t]), InThePast(t)
                PROVE  /\ stats[t].min <= Avg(t) /\ Avg(t) <= stats[t].max
                       /\ LET width == stats[t].max - stats[t].min
                          IN  4 * Var(t) <= width * width + 4 * (2 * Avg(t) + 1)
    BY DEF SpreadSound, Slices
  <2> DEFINE n == stats[t].count
             sum == stats[t].run
             sq == stats[t].sq
             m == stats[t].min
             l == stats[t].max
             a == sum \div n
             q == sq \div n
             v == Minus(q, a * a)
  <2>1. stats[t] \in Stats /\ Since(t) \in Times /\ clock \in Times
    BY DEF TimeInv, TimeTypeOK, Since, Times
  <2>2. /\ n \in Nat /\ n > 0 /\ sum \in Nat /\ sq \in Nat /\ m \in Nat /\ l \in Nat
        /\ sq < Word /\ Word \in Nat
    BY <2>1, WordPositive DEF Stats
  <2>3. /\ n * m <= sum /\ sum <= n * l /\ sum * sum <= n * sq
        /\ sq + n * (m * l) <= (m + l) * sum
    BY <2>2 DEF SliceInv
  <2>4. Avg(t) = a /\ Var(t) = v
    BY <2>2 DEF Avg, Var
  <2>. HIDE DEF n, sum, sq, m, l
  <2>5. /\ a \in Nat /\ q \in Nat /\ m <= a /\ a <= l /\ a * a <= q /\ q <= sq
        /\ 4 * (q - a * a) <= (l - m) * (l - m) + 4 * (2 * a + 1)
    <3>1. n \in Nat \ {0}
      BY <2>2
    <3>. QED
      BY <2>2, <2>3, <3>1, SpreadOf
  <2>. HIDE DEF a, q
  <2>6. v = q - a * a
    <3> DEFINE b == a * a
    <3>1. b \in Nat /\ b <= q /\ q < Word
      BY <2>2, <2>5, ProductNat
    <3>2. b \in Words /\ q \in Words
      BY <2>2, <2>5, <3>1 DEF Words
    <3>. HIDE DEF b
    <3>3. Minus(q, b) = q - b
      BY <2>5, <3>1, <3>2, MinusIs
    <3>. QED
      BY <3>3 DEF b
  <2>. HIDE DEF v
  <2>7. m <= a /\ a <= l /\ 4 * v <= (l - m) * (l - m) + 4 * (2 * a + 1)
    BY <2>5, <2>6
  <2>. QED
    BY <2>4, <2>7 DEF m, l
<1>. QED
  BY <1>1, <1>2, TimeInvariance, PTL
=============================================================================
