---------------------------- MODULE Console_proofs ----------------------------
(***************************************************************************)
(* Proofs about Console for any screen on which a full line fits above the *)
(* last row, any keys, any texts and any message.                          *)
(*                                                                         *)
(* The inductive invariant says where the prompt and the line stand on the *)
(* screen relative to the cursor.  A step of vga_putchar moves all of it   *)
(* by nothing or by one row, and a line never reaches as far back as a     *)
(* row that has scrolled away.                                             *)
(***************************************************************************)
EXTENDS Console, LeastElements, SequenceTheorems

Displays == [screen : [0 .. Cells - 1 -> Characters], cursor : 0 .. Cells - 1]

(* The prompt and the line stand right before the cursor.                   *)
LineShown ==
  /\ Len(line) + 2 <= cursor
  /\ screen[cursor - Len(line) - 2] = ">"
  /\ screen[cursor - Len(line) - 1] = " "
  /\ \A i \in 1 .. Len(line) : screen[cursor - Len(line) + i - 1] = line[i]

IInv == TypeOK /\ (pc = "readline" => LineShown)

-----------------------------------------------------------------------------
(* The screen's geometry.                                                   *)

LEMMA Geometry ==
  /\ Width \in Nat \ {0} /\ Height \in Nat \ {0} /\ MaxLength \in Nat \ {0}
  /\ Cells \in Nat /\ Width <= Cells /\ MaxLength + 1 <= Cells - Width
<1>1. Width \in Nat \ {0} /\ Height \in Nat \ {0} /\ MaxLength \in Nat \ {0}
  BY ScreenAssumption, LineAssumption
<1>2. Width * Height - Width = Width * (Height - 1) /\ Width <= Width * Height
  BY <1>1
<1>3. Len(Prompt) = 2
  BY DEF Prompt
<1>4. MaxLength + 1 <= Width * (Height - 1)
  BY <1>1, <1>3, LineAssumption
<1>. QED
  BY <1>1, <1>2, <1>4 DEF Cells

(* The row after the cursor's begins at a cell, or right after the last.    *)
LEMMA NextRow ==
  ASSUME NEW c \in 0 .. Cells - 1
  PROVE  (c \div Width + 1) * Width \in 0 .. Cells
<1> DEFINE q == c \div Width
<1>1. Width \in Nat \ {0} /\ Height \in Nat \ {0} /\ c \in Nat
  BY Geometry
<1>2. q \in Nat
  BY <1>1
<1>3. Width * q <= c
  BY <1>1, Z3T(20)
<1>. HIDE DEF q
<1>4. q * Width < Width * Height
  BY <1>1, <1>2, <1>3 DEF Cells
<1>5. q < Height
  BY <1>1, <1>2, <1>4
<1>6. (q + 1) * Width <= Height * Width
  BY <1>1, <1>2, <1>5
<1>7. (q + 1) * Width \in Nat /\ Height * Width = Cells
  BY <1>1, <1>2 DEF Cells
<1>. QED
  BY <1>6, <1>7 DEF q

-----------------------------------------------------------------------------
(* vga_putchar.                                                             *)

LEMMA HandleScrollKeepsType ==
  ASSUME NEW s \in [0 .. Cells - 1 -> Characters], NEW c \in 0 .. Cells
  PROVE  HandleScroll([screen |-> s, cursor |-> c]) \in Displays
<1> DEFINE moved == [x \in 0 .. Cells - 1 |-> IF x + Width < Cells THEN s[x + Width] ELSE " "]
<1>1. Cells \in Nat /\ Width \in Nat \ {0} /\ Width <= Cells
  BY Geometry
<1>2. CASE c < Cells
  <2>1. HandleScroll([screen |-> s, cursor |-> c]) = [screen |-> s, cursor |-> c]
    BY <1>2 DEF HandleScroll
  <2>2. c \in 0 .. Cells - 1
    BY <1>1, <1>2
  <2>. QED
    BY <2>1, <2>2 DEF Displays
<1>3. CASE ~(c < Cells)
  <2>1. HandleScroll([screen |-> s, cursor |-> c]) = [screen |-> moved, cursor |-> c - Width]
    BY <1>3 DEF HandleScroll
  <2>2. moved \in [0 .. Cells - 1 -> Characters]
    <3>1. \A x \in 0 .. Cells - 1 : x + Width < Cells => x + Width \in 0 .. Cells - 1
      BY <1>1
    <3>2. \A x \in 0 .. Cells - 1 : x + Width < Cells => s[x + Width] \in Characters
      BY <3>1
    <3>3. " " \in Characters
      BY DEF Characters
    <3>. QED
      BY <3>2, <3>3
  <2>3. c - Width \in 0 .. Cells - 1
    BY <1>1, <1>3
  <2>. HIDE DEF moved
  <2>. QED
    BY <2>1, <2>2, <2>3 DEF Displays
<1>. QED
  BY <1>2, <1>3

(* Display d shows screen s with cursor c, moved up by k cells.             *)
Shifted(d, s, c, k) ==
  /\ d.cursor = c - k
  /\ k = 0 \/ c = Cells
  /\ \A x \in 0 .. Cells - 1 : x + k < Cells => d.screen[x] = s[x + k]

LEMMA HandleScrollShifts ==
  ASSUME NEW s \in [0 .. Cells - 1 -> Characters], NEW c \in 0 .. Cells,
         NEW d, d = HandleScroll([screen |-> s, cursor |-> c])
  PROVE  \E k \in {0, Width} : Shifted(d, s, c, k)
<1> DEFINE moved == [x \in 0 .. Cells - 1 |-> IF x + Width < Cells THEN s[x + Width] ELSE " "]
<1>1. Cells \in Nat /\ Width \in Nat \ {0} /\ Width <= Cells
  BY Geometry
<1>2. CASE c < Cells
  <2>1. d.screen = s /\ d.cursor = c
    BY <1>2 DEF HandleScroll
  <2>2. \A x \in 0 .. Cells - 1 : x + 0 < Cells => d.screen[x] = s[x + 0]
    <3>1. \A x \in 0 .. Cells - 1 : x + 0 = x
      BY <1>1
    <3>. QED
      BY <2>1, <3>1
  <2>3. d.cursor = c - 0
    BY <2>1, <1>1
  <2>. QED
    BY <2>2, <2>3 DEF Shifted
<1>3. CASE ~(c < Cells)
  <2>1. d = [screen |-> moved, cursor |-> c - Width]
    BY <1>3 DEF HandleScroll
  <2>2. \A x \in 0 .. Cells - 1 : x + Width < Cells => moved[x] = s[x + Width]
    OBVIOUS
  <2>. HIDE DEF moved
  <2>3. d.screen = moved /\ d.cursor = c - Width
    BY <2>1
  <2>4. c = Cells
    BY <1>1, <1>3
  <2>. QED
    BY <2>2, <2>3, <2>4 DEF Shifted
<1>. QED
  BY <1>2, <1>3

LEMMA EraseKeepsType ==
  ASSUME NEW d \in Displays
  PROVE  Erase(d) \in Displays
<1>1. /\ d.screen \in [0 .. Cells - 1 -> Characters]
      /\ d.cursor \in 0 .. Cells - 1
      /\ Cells \in Nat
  BY Geometry DEF Displays
<1>2. CASE d.cursor = 0
  BY <1>2 DEF Erase
<1>3. CASE d.cursor # 0
  <2> DEFINE s == [d.screen EXCEPT ![d.cursor - 1] = " "]
  <2>1. Erase(d) = [screen |-> s, cursor |-> d.cursor - 1]
    BY <1>3 DEF Erase
  <2>2. s \in [0 .. Cells - 1 -> Characters]
    <3>1. " " \in Characters
      BY DEF Characters
    <3>. QED
      BY <1>1, <3>1
  <2>3. d.cursor - 1 \in 0 .. Cells - 1
    BY <1>1, <1>3
  <2>. HIDE DEF s
  <2>. QED
    BY <2>1, <2>2, <2>3 DEF Displays
<1>. QED
  BY <1>2, <1>3

(* vga_putchar leaves a screen and a cursor on it.                          *)
LEMMA PutCharKeepsType ==
  ASSUME NEW d \in Displays, NEW c \in Characters
  PROVE  PutChar(d, c) \in Displays
<1>1. /\ d.screen \in [0 .. Cells - 1 -> Characters]
      /\ d.cursor \in 0 .. Cells - 1
      /\ Cells \in Nat
  BY Geometry DEF Displays
<1>2. CASE c = LF
  <2>1. PutChar(d, c) = HandleScroll([screen |-> d.screen,
                                      cursor |-> (d.cursor \div Width + 1) * Width])
    BY <1>2 DEF PutChar
  <2>. QED
    BY <1>1, <2>1, NextRow, HandleScrollKeepsType
<1>3. CASE c = BS
  <2> DEFINE e == Erase(d)
  <2>1. e.screen \in [0 .. Cells - 1 -> Characters] /\ e.cursor \in 0 .. Cells
    BY <1>1, EraseKeepsType DEF Displays
  <2>2. e = [screen |-> e.screen, cursor |-> e.cursor]
    BY EraseKeepsType DEF Displays
  <2>3. PutChar(d, c) = HandleScroll(e)
    BY <1>3 DEF PutChar, BS, LF
  <2>. HIDE DEF e
  <2>4. HandleScroll([screen |-> e.screen, cursor |-> e.cursor]) \in Displays
    BY <2>1, HandleScrollKeepsType
  <2>. QED
    BY <2>2, <2>3, <2>4
<1>4. CASE c \notin {LF, BS}
  <2> DEFINE s == [d.screen EXCEPT ![d.cursor] = c]
  <2>1. PutChar(d, c) = HandleScroll([screen |-> s, cursor |-> d.cursor + 1])
    BY <1>4 DEF PutChar
  <2>2. s \in [0 .. Cells - 1 -> Characters] /\ d.cursor + 1 \in 0 .. Cells
    BY <1>1
  <2>. HIDE DEF s
  <2>. QED
    BY <2>1, <2>2, HandleScrollKeepsType
<1>. QED
  BY <1>2, <1>3, <1>4

(* An ordinary character goes to the cursor's cell; then everything moves   *)
(* up by k cells, nothing or one row.                                       *)
Typed(d, c, e, k) ==
  /\ e.cursor = d.cursor + 1 - k
  /\ k = 0 \/ d.cursor + 1 = Cells
  /\ \A x \in 0 .. Cells - 1 :
       x + k < Cells => e.screen[x] = IF x + k = d.cursor THEN c ELSE d.screen[x + k]

LEMMA PutCharShifts ==
  ASSUME NEW d \in Displays, NEW c \in Characters \ {LF, BS}
  PROVE  \E k \in {0, Width} : Typed(d, c, PutChar(d, c), k)
<1> DEFINE s == [d.screen EXCEPT ![d.cursor] = c]
           n == d.cursor + 1
           e == PutChar(d, c)
<1>1. /\ d.screen \in [0 .. Cells - 1 -> Characters]
      /\ d.cursor \in 0 .. Cells - 1
      /\ Cells \in Nat /\ Width \in Nat \ {0}
  BY Geometry DEF Displays
<1>2. e = HandleScroll([screen |-> s, cursor |-> n])
  BY DEF PutChar
<1>3. s \in [0 .. Cells - 1 -> Characters] /\ n \in 0 .. Cells
  BY <1>1
<1>4. \A x \in 0 .. Cells - 1 : s[x] = IF x = d.cursor THEN c ELSE d.screen[x]
  BY <1>1
<1>. HIDE DEF s, e, n
<1>5. PICK k \in {0, Width} : Shifted(e, s, n, k)
  BY <1>2, <1>3, HandleScrollShifts
<1>6. /\ e.cursor = n - k
      /\ k = 0 \/ n = Cells
      /\ \A x \in 0 .. Cells - 1 : x + k < Cells => e.screen[x] = s[x + k]
  BY <1>5 DEF Shifted
<1>7. ASSUME NEW x \in 0 .. Cells - 1, x + k < Cells
      PROVE  e.screen[x] = IF x + k = d.cursor THEN c ELSE d.screen[x + k]
  <2>1. x + k \in 0 .. Cells - 1
    BY <1>1, <1>7
  <2>. QED
    BY <1>4, <1>6, <1>7, <2>1
<1>8. Typed(d, c, e, k)
  <2>1. e.cursor = d.cursor + 1 - k /\ (k = 0 \/ d.cursor + 1 = Cells)
    BY <1>1, <1>6 DEF n
  <2>2. \A x \in 0 .. Cells - 1 :
          x + k < Cells => e.screen[x] = IF x + k = d.cursor THEN c ELSE d.screen[x + k]
    BY <1>7
  <2>. QED
    BY <2>1, <2>2 DEF Typed
<1>. QED
  BY <1>8 DEF e

-----------------------------------------------------------------------------
(* vga_print: the characters of a text one after the other.  FoldLeft is a  *)
(* recursive function on the subsets of the text's positions; it exists     *)
(* because it does for a set without its greatest element.                  *)

Prints(d, text, S, h) ==
  h = [u \in SUBSET S |-> IF u = {} THEN d ELSE PutChar(h[u \ {Max(u)}], text[Max(u)])]

LEMMA MaxOfNumbers ==
  ASSUME NEW n \in Nat, NEW S, S \subseteq 1 .. n, S # {}
  PROVE  Max(S) \in S /\ \A v \in S : v <= Max(S)
<1>1. PICK u \in S : \A v \in S : v <= u
  <2>1. S \subseteq 0 .. n
    OBVIOUS
  <2>. QED
    BY <2>1, GreatestNumber
<1>2. \A v \in S : u >= v
  BY <1>1
<1>3. Max(S) \in S /\ \A v \in S : Max(S) >= v
  BY <1>2, Zenon DEF Max
<1>. QED
  BY <1>3

LEMMA PrintsExists ==
  ASSUME NEW d, NEW n \in Nat, NEW text
  PROVE  \E h : Prints(d, text, 1 .. n, h)
<1> DEFINE D == 1 .. n
           Bad == {S \in SUBSET D : ~ \E h : Prints(d, text, S, h)}
<1>1. SUFFICES Bad = {}
  BY <1>1
<1>2. SUFFICES ASSUME Bad # {} PROVE FALSE
  OBVIOUS
<1>3. IsFiniteSet(D)
  BY FS_Interval
<1>4. PICK S \in Bad : \A V \in Bad : V \subseteq S => V = S
  <2>1. Bad \subseteq SUBSET D
    OBVIOUS
  <2>. HIDE DEF Bad, D
  <2>. QED
    BY <1>2, <1>3, <2>1, LeastSubset
<1>5. S # {}
  <2>1. Prints(d, text, {}, [u \in SUBSET {} |-> d])
    BY DEF Prints
  <2>. QED
    BY <2>1
<1> DEFINE x == Max(S)
<1>6. x \in S /\ \A v \in S : v <= x
  BY <1>5, MaxOfNumbers
<1>7. PICK h : Prints(d, text, S \ {x}, h)
  <2>1. S \ {x} \subseteq S /\ S \ {x} # S /\ S \ {x} \in SUBSET D
    BY <1>6
  <2>2. S \ {x} \notin Bad
    BY <1>4, <2>1, Zenon
  <2>. QED
    BY <2>1, <2>2
<1> DEFINE g == [u \in SUBSET S |-> IF x \in u THEN PutChar(h[u \ {x}], text[x]) ELSE h[u]]
<1>8. \A u \in SUBSET S : u # {} => Max(u) \in u /\ \A v \in u : v <= Max(u)
  BY MaxOfNumbers
<1>9. \A u \in SUBSET S : x \in u => Max(u) = x
  <2>. SUFFICES ASSUME NEW u \in SUBSET S, x \in u
                PROVE  Max(u) = x
    OBVIOUS
  <2>1. Max(u) \in u /\ x <= Max(u) /\ Max(u) <= x
    BY <1>6, <1>8
  <2>2. x \in 1 .. n /\ Max(u) \in 1 .. n
    BY <1>4, <1>6, <2>1
  <2>. QED
    BY <2>1, <2>2
<1>. HIDE DEF x
<1>10. \A u \in SUBSET S :
         g[u] = IF u = {} THEN d ELSE PutChar(g[u \ {Max(u)}], text[Max(u)])
  <2>. SUFFICES ASSUME NEW u \in SUBSET S
                PROVE  g[u] = IF u = {} THEN d ELSE PutChar(g[u \ {Max(u)}], text[Max(u)])
    OBVIOUS
  <2>1. CASE x \in u
    <3>1. Max(u) = x /\ u # {} /\ u \ {x} \in SUBSET S /\ x \notin u \ {x}
      BY <1>9, <2>1
    <3>2. g[u] = PutChar(h[u \ {x}], text[x]) /\ g[u \ {x}] = h[u \ {x}]
      BY <2>1, <3>1
    <3>. QED
      BY <3>1, <3>2
  <2>2. CASE x \notin u
    <3>1. u \in SUBSET (S \ {x}) /\ g[u] = h[u]
      BY <2>2
    <3>2. h[u] = IF u = {} THEN d ELSE PutChar(h[u \ {Max(u)}], text[Max(u)])
      BY <1>7, <3>1 DEF Prints
    <3>3. g[u \ {Max(u)}] = h[u \ {Max(u)}]
      BY <2>2
    <3>. QED
      BY <3>1, <3>2, <3>3
  <2>. QED
    BY <2>1, <2>2
<1>11. Prints(d, text, S, g)
  <2>1. g = [u \in SUBSET S |-> g[u]]
    OBVIOUS
  <2>. HIDE DEF g
  <2>. QED
    BY <1>10, <2>1 DEF Prints
<1>. QED
  BY <1>4, <1>11

LEMMA VgaPrintIsPrints ==
  ASSUME NEW d, NEW text \in Seq(Characters)
  PROVE  \E h : Prints(d, text, DOMAIN text, h) /\ VgaPrint(d, text) = h[DOMAIN text]
<1> DEFINE h == CHOOSE h : Prints(d, text, DOMAIN text, h)
<1>1. VgaPrint(d, text) = h[DOMAIN text]
  BY Zenon DEF VgaPrint, FoldLeft, MapThenFoldSet, Prints
<1>2. DOMAIN text = 1 .. Len(text) /\ Len(text) \in Nat
  OBVIOUS
<1>3. \E g : Prints(d, text, DOMAIN text, g)
  BY <1>2, PrintsExists
<1>4. Prints(d, text, DOMAIN text, h)
  BY <1>3, Zenon
<1>. QED
  BY <1>1, <1>4

LEMMA VgaPrintKeepsType ==
  ASSUME NEW d \in Displays, NEW text \in Seq(Characters)
  PROVE  VgaPrint(d, text) \in Displays
<1> DEFINE D == DOMAIN text
<1>1. PICK h : Prints(d, text, D, h) /\ VgaPrint(d, text) = h[D]
  BY VgaPrintIsPrints
<1> DEFINE Bad == {S \in SUBSET D : h[S] \notin Displays}
<1>2. SUFFICES ASSUME Bad # {} PROVE FALSE
  BY <1>1
<1>3. D = 1 .. Len(text) /\ Len(text) \in Nat /\ \A i \in D : text[i] \in Characters
  OBVIOUS
<1>4. IsFiniteSet(D)
  BY <1>3, FS_Interval
<1>5. PICK S \in Bad : \A V \in Bad : V \subseteq S => V = S
  <2>1. Bad \subseteq SUBSET D
    OBVIOUS
  <2>. HIDE DEF Bad, D
  <2>. QED
    BY <1>2, <1>4, <2>1, LeastSubset
<1>6. h[S] = IF S = {} THEN d ELSE PutChar(h[S \ {Max(S)}], text[Max(S)])
  BY <1>1 DEF Prints
<1>7. S # {}
  BY <1>6
<1>8. Max(S) \in S
  BY <1>3, <1>7, MaxOfNumbers
<1>9. h[S \ {Max(S)}] \in Displays
  <2>1. S \ {Max(S)} \in SUBSET D /\ S \ {Max(S)} \subseteq S /\ S \ {Max(S)} # S
    BY <1>8
  <2>. QED
    BY <1>5, <2>1
<1>10. text[Max(S)] \in Characters
  BY <1>3, <1>8
<1>11. h[S] \in Displays
  BY <1>6, <1>7, <1>9, <1>10, PutCharKeepsType
<1>. QED
  BY <1>11

LEMMA PromptPrinted ==
  ASSUME NEW d
  PROVE  VgaPrint(d, Prompt) = PutChar(PutChar(d, ">"), " ")
<1>1. Prompt \in Seq(Characters) /\ DOMAIN Prompt = {1, 2} /\ Prompt[1] = ">" /\ Prompt[2] = " "
  BY DEF Prompt, Characters
<1>2. PICK h : Prints(d, Prompt, {1, 2}, h) /\ VgaPrint(d, Prompt) = h[{1, 2}]
  BY <1>1, VgaPrintIsPrints
<1>3. Max({1, 2}) = 2 /\ Max({1}) = 1
  BY MaxOfNumbers
<1>4. {1, 2} \ {2} = {1} /\ {1} \ {1} = {} /\ {1, 2} # {} /\ {1} # {}
  OBVIOUS
<1>5. \A u \in SUBSET {1, 2} :
        h[u] = IF u = {} THEN d ELSE PutChar(h[u \ {Max(u)}], Prompt[Max(u)])
  BY <1>2 DEF Prints
<1>6. h[{}] = d
  BY <1>5
<1>7. h[{1}] = PutChar(d, ">")
  <2>1. h[{1}] = PutChar(h[{1} \ {Max({1})}], Prompt[Max({1})])
    BY <1>4, <1>5
  <2>. QED
    BY <1>1, <1>3, <1>4, <1>6, <2>1, Zenon
<1>8. h[{1, 2}] = PutChar(PutChar(d, ">"), " ")
  <2>1. h[{1, 2}] = PutChar(h[{1, 2} \ {Max({1, 2})}], Prompt[Max({1, 2})])
    BY <1>4, <1>5
  <2>. QED
    BY <1>1, <1>3, <1>4, <1>7, <2>1, Zenon
<1>. QED
  BY <1>2, <1>8

-----------------------------------------------------------------------------
(* The n cells before the cursor stay before it when a character is put     *)
(* there, the screen scrolled or not.                                       *)
KeepsBefore(d, c, e, n) ==
  /\ n + 1 <= e.cursor
  /\ e.screen[e.cursor - 1] = c
  /\ \A i \in 1 .. n : e.screen[e.cursor - 1 - i] = d.screen[d.cursor - i]

LEMMA PutCharKeepsBefore ==
  ASSUME NEW d \in Displays, NEW c \in Characters \ {LF, BS},
         NEW n \in Nat, n <= d.cursor, n <= MaxLength
  PROVE  KeepsBefore(d, c, PutChar(d, c), n)
<1> DEFINE e == PutChar(d, c)
<1>1. d.cursor \in 0 .. Cells - 1
  BY DEF Displays
<1>2. /\ Cells \in Nat /\ Width \in Nat \ {0} /\ MaxLength \in Nat \ {0}
      /\ MaxLength + 1 <= Cells - Width
  BY Geometry
<1>3. PICK k \in {0, Width} : Typed(d, c, e, k)
  BY PutCharShifts
<1>. HIDE DEF e
<1> DEFINE m == d.cursor
<1>4. e.cursor = m + 1 - k /\ (k = 0 \/ m + 1 = Cells)
  BY <1>3 DEF Typed
<1>5. \A x \in 0 .. Cells - 1 :
        x + k < Cells => e.screen[x] = IF x + k = m THEN c ELSE d.screen[x + k]
  BY <1>3 DEF Typed
<1>6. m \in 0 .. Cells - 1 /\ n <= m
  BY <1>1
<1>. HIDE DEF m
<1>7. k \in Nat /\ n <= m - k
  BY <1>2, <1>4, <1>6
<1>8. e.screen[m - k] = c
  <2> DEFINE x == m - k
  <2>1. x \in 0 .. Cells - 1 /\ x + k = m /\ m < Cells
    BY <1>2, <1>6, <1>7
  <2>. HIDE DEF x
  <2>2. e.screen[x] = c
    BY <1>5, <2>1
  <2>. QED
    BY <2>2 DEF x
<1>9. ASSUME NEW i \in 1 .. n
      PROVE  e.screen[m - k - i] = d.screen[m - i]
  <2>1. m - k - i \in 0 .. Cells - 1 /\ (m - k - i) + k = m - i /\ m - i # m /\ m - i < Cells
    BY <1>2, <1>6, <1>7
  <2>. QED
    BY <1>5, <2>1
<1>10. e.cursor - 1 = m - k /\ n + 1 <= e.cursor
  BY <1>4, <1>6, <1>7
<1>11. KeepsBefore(d, c, e, n)
  BY <1>8, <1>9, <1>10 DEF KeepsBefore, m
<1>. QED
  BY <1>11 DEF e

LEMMA DisplayType ==
  ASSUME TypeOK
  PROVE  Display \in Displays
  BY DEF TypeOK, Display, Displays

LEMMA ShowKeepsType ==
  ASSUME NEW d \in Displays, Show(d)
  PROVE  screen' \in [0 .. Cells - 1 -> Characters] /\ cursor' \in 0 .. Cells - 1
  BY DEF Show, Displays

LEMMA PrintPromptKeeps ==
  ASSUME IInv, PrintPrompt
  PROVE  IInv'
<1> DEFINE d1 == PutChar(Display, ">")
           d2 == PutChar(d1, " ")
<1>1. TypeOK /\ Display \in Displays
  BY DisplayType DEF IInv
<1>2. {">", " "} \subseteq Characters \ {LF, BS}
  BY DEF Characters, LF, BS
<1>3. d1 \in Displays /\ d2 \in Displays
  BY <1>1, <1>2, PutCharKeepsType
<1>4. Show(d2) /\ line' = <<>> /\ pc' = "readline" /\ start' = cursor' /\ offset' = offset
  BY PromptPrinted DEF PrintPrompt
<1>5. 1 <= d1.cursor /\ d1.screen[d1.cursor - 1] = ">"
  <2>1. 0 <= Display.cursor /\ 0 <= MaxLength
    BY <1>1, Geometry DEF Display, TypeOK
  <2>2. KeepsBefore(Display, ">", d1, 0)
    BY <1>1, <1>2, <2>1, PutCharKeepsBefore
  <2>. HIDE DEF d1
  <2>. QED
    BY <2>2 DEF KeepsBefore
<1>6. 2 <= d2.cursor /\ d2.screen[d2.cursor - 1] = " " /\ d2.screen[d2.cursor - 2] = ">"
  <2>. HIDE DEF d1, d2
  <2>1. 1 <= MaxLength
    BY Geometry
  <2>2. d1.cursor \in Nat /\ d2.cursor \in Nat
    BY <1>3, Geometry DEF Displays
  <2>3. KeepsBefore(d1, " ", d2, 1)
    BY <1>2, <1>3, <1>5, <2>1, PutCharKeepsBefore DEF d2
  <2>4. d2.screen[d2.cursor - 1] = " "
    BY <2>3 DEF KeepsBefore
  <2>5. d2.screen[d2.cursor - 1 - 1] = d1.screen[d1.cursor - 1]
    <3>1. 1 \in 1 .. 1
      OBVIOUS
    <3>. QED
      BY <2>3, <3>1, Zenon DEF KeepsBefore
  <2>6. 2 <= d2.cursor
    <3>1. 1 + 1 <= d2.cursor
      BY <2>3, Zenon DEF KeepsBefore
    <3>. QED
      BY <2>2, <3>1
  <2>7. d2.cursor - 1 - 1 = d2.cursor - 2
    BY <2>2
  <2>. QED
    BY <1>5, <2>4, <2>5, <2>6, <2>7
<1>. HIDE DEF d2
<1>7. TypeOK'
  BY <1>1, <1>3, <1>4, ShowKeepsType, Geometry DEF TypeOK
<1>8. LineShown'
  <2>1. screen' = d2.screen /\ cursor' = d2.cursor /\ Len(line') = 0 /\ cursor' \in Nat
    BY <1>3, <1>4, Geometry DEF Show, Displays
  <2>2. cursor' - 0 - 2 = cursor' - 2 /\ cursor' - 0 - 1 = cursor' - 1
        /\ 1 .. 0 = {} /\ 0 + 2 = 2
    BY <2>1
  <2>3. screen'[cursor' - 2] = ">" /\ screen'[cursor' - 1] = " " /\ 2 <= cursor'
    BY <1>6, <2>1
  <2>. QED
    BY <2>1, <2>2, <2>3, Zenon DEF LineShown
<1>. QED
  BY <1>4, <1>7, <1>8 DEF IInv

LEMMA TypeCharKeeps ==
  ASSUME IInv, NEW ch \in Keys, TypeChar(ch)
  PROVE  IInv'
<1> DEFINE d == PutChar(Display, ch)
           n == Len(line)
<1>1. TypeOK /\ Display \in Displays /\ LineShown
  BY DisplayType DEF IInv, TypeChar
<1>2. ch \in Characters \ {LF, BS}
  BY DEF Characters, TypeChar
<1>3. d \in Displays
  BY <1>1, <1>2, PutCharKeepsType
<1>4. /\ Show(d) /\ line' = Append(line, ch) /\ n < MaxLength - 1
      /\ UNCHANGED <<start, pc, offset>>
  BY DEF TypeChar
<1>5. n \in Nat /\ n + 2 <= cursor /\ n + 2 <= MaxLength /\ cursor \in Nat
  <2>1. n \in Nat /\ cursor \in Nat /\ MaxLength \in Nat
    BY <1>1, Geometry DEF TypeOK
  <2>2. n + 2 <= cursor
    BY <1>1 DEF LineShown
  <2>. QED
    BY <1>4, <2>1, <2>2
<1>6. /\ n + 3 <= d.cursor
      /\ d.screen[d.cursor - 1] = ch
      /\ \A i \in 1 .. n + 2 : d.screen[d.cursor - 1 - i] = screen[cursor - i]
  <2>1. Display.cursor = cursor /\ Display.screen = screen
    BY DEF Display
  <2>2. KeepsBefore(Display, ch, d, n + 2)
    BY <1>1, <1>2, <1>5, <2>1, PutCharKeepsBefore
  <2>3. (n + 2) + 1 = n + 3
    BY <1>5
  <2>. HIDE DEF d
  <2>. QED
    BY <2>1, <2>2, <2>3 DEF KeepsBefore
<1>. HIDE DEF d
<1>7. TypeOK'
  <2>1. Append(line, ch) \in Seq(Keys \ {BS, LF}) /\ Len(Append(line, ch)) = n + 1
    BY <1>1 DEF TypeOK, TypeChar
  <2>. QED
    BY <1>1, <1>3, <1>4, <1>5, <2>1, ShowKeepsType, Geometry DEF TypeOK
<1>8. LineShown'
  <2>1. /\ Len(line') = n + 1 /\ cursor' = d.cursor /\ screen' = d.screen
        /\ line'[n + 1] = ch /\ \A i \in 1 .. n : line'[i] = line[i]
        /\ d.cursor \in Nat
    BY <1>3, <1>4, <1>5 DEF Show, Displays
  <2>. HIDE DEF n
  <2>2. /\ screen[cursor - n - 2] = ">" /\ screen[cursor - n - 1] = " "
        /\ \A i \in 1 .. n : screen[cursor - n + i - 1] = line[i]
    BY <1>1 DEF LineShown, n
  <2>3. n + 1 + 2 <= cursor'
    BY <1>5, <1>6, <2>1
  <2>4. screen'[cursor' - (n + 1) - 2] = ">"
    <3>1. n + 2 \in 1 .. n + 2 /\ cursor - (n + 2) = cursor - n - 2
          /\ d.cursor - 1 - (n + 2) = d.cursor - (n + 1) - 2
      BY <1>5, <2>1
    <3>. QED
      BY <1>6, <2>1, <2>2, <3>1
  <2>5. screen'[cursor' - (n + 1) - 1] = " "
    <3>1. n + 1 \in 1 .. n + 2 /\ cursor - (n + 1) = cursor - n - 1
          /\ d.cursor - 1 - (n + 1) = d.cursor - (n + 1) - 1
      BY <1>5, <2>1
    <3>. QED
      BY <1>6, <2>1, <2>2, <3>1
  <2>6. ASSUME NEW i \in 1 .. n + 1
        PROVE  screen'[cursor' - (n + 1) + i - 1] = line'[i]
    <3>1. CASE i = n + 1
      <4>1. d.cursor - (n + 1) + i - 1 = d.cursor - 1
        BY <1>5, <2>1, <3>1
      <4>. QED
        BY <1>6, <2>1, <3>1, <4>1
    <3>2. CASE i \in 1 .. n
      <4>1. n + 1 - i \in 1 .. n + 2 /\ cursor - (n + 1 - i) = cursor - n + i - 1
            /\ d.cursor - 1 - (n + 1 - i) = d.cursor - (n + 1) + i - 1
        BY <1>5, <2>1, <3>2
      <4>. QED
        BY <1>6, <2>1, <2>2, <3>2, <4>1
    <3>. QED
      BY <1>5, <3>1, <3>2
  <2>. QED
    BY <2>1, <2>3, <2>4, <2>5, <2>6 DEF LineShown
<1>. QED
  BY <1>7, <1>8 DEF IInv

LEMMA BackspaceKeeps ==
  ASSUME IInv, Backspace
  PROVE  IInv'
<1> DEFINE n == Len(line)
<1>1. /\ TypeOK /\ LineShown /\ Display \in Displays
      /\ line # <<>> /\ line' = Front(line)
      /\ Show(Erase(Display)) /\ UNCHANGED <<start, pc, offset>>
  BY DisplayType DEF IInv, Backspace
<1>2. n \in Nat \ {0} /\ n + 2 <= cursor /\ cursor \in 0 .. Cells - 1 /\ Cells \in Nat
  <2>1. n \in Nat \ {0}
    BY <1>1 DEF TypeOK
  <2>2. n + 2 <= cursor
    BY <1>1 DEF LineShown
  <2>. QED
    BY <1>1, <2>1, <2>2, Geometry DEF TypeOK
<1>3. /\ Front(line) \in Seq(Keys \ {BS, LF}) /\ Len(Front(line)) = n - 1
      /\ \A i \in 1 .. n - 1 : Front(line)[i] = line[i]
  <2>1. \A i \in 1 .. n - 1 : line[i] \in Keys \ {BS, LF}
    BY <1>1, <1>2 DEF TypeOK
  <2>2. Front(line) = SubSeq(line, 1, n - 1)
    BY DEF Front
  <2>. HIDE DEF n
  <2> DEFINE m == n - 1
  <2>3. m \in Nat /\ m \in Int /\ 1 \in Int
    BY <1>2
  <2>4. \A i \in 1 .. m : line[i] \in Keys \ {BS, LF}
    BY <2>1
  <2>. HIDE DEF m
  <2>5. /\ SubSeq(line, 1, m) \in Seq(Keys \ {BS, LF})
        /\ Len(SubSeq(line, 1, m)) = IF 1 <= m THEN m - 1 + 1 ELSE 0
        /\ \A i \in 1 .. m - 1 + 1 : SubSeq(line, 1, m)[i] = line[1 + i - 1]
    BY <2>3, <2>4, SubSeqProperties
  <2>6. Len(SubSeq(line, 1, m)) = m
    BY <2>3, <2>5
  <2>7. \A i \in 1 .. m : SubSeq(line, 1, m)[i] = line[i]
    <3>1. \A i \in 1 .. m : i \in 1 .. m - 1 + 1 /\ 1 + i - 1 = i
      BY <2>3
    <3>. QED
      BY <2>5, <3>1
  <2>. QED
    BY <2>2, <2>5, <2>6, <2>7 DEF m
<1>4. /\ cursor' = cursor - 1 /\ screen' = [screen EXCEPT ![cursor - 1] = " "]
      /\ Erase(Display) \in Displays
  <2>1. Display.cursor = cursor /\ Display.screen = screen /\ cursor # 0
    BY <1>2 DEF Display
  <2> DEFINE s == [screen EXCEPT ![cursor - 1] = " "]
  <2>2. Erase(Display) = [screen |-> s, cursor |-> cursor - 1]
    BY <2>1 DEF Erase
  <2>. HIDE DEF s
  <2>3. cursor' = cursor - 1 /\ screen' = s
    BY <1>1, <2>2 DEF Show
  <2>. QED
    BY <1>1, <2>3, EraseKeepsType DEF s
<1>5. TypeOK'
  <2>1. screen' \in [0 .. Cells - 1 -> Characters] /\ cursor' \in 0 .. Cells - 1
    BY <1>1, <1>4, ShowKeepsType
  <2>2. Len(Front(line)) < MaxLength
    BY <1>1, <1>2, <1>3, Geometry DEF TypeOK
  <2>. QED
    BY <1>1, <1>3, <2>1, <2>2 DEF TypeOK
<1>6. LineShown'
  <2>1. \A x \in 0 .. Cells - 1 : x # cursor - 1 => screen'[x] = screen[x]
    BY <1>1, <1>4 DEF TypeOK
  <2>2. /\ screen[cursor - n - 2] = ">" /\ screen[cursor - n - 1] = " "
        /\ \A i \in 1 .. n : screen[cursor - n + i - 1] = line[i]
    BY <1>1 DEF LineShown
  <2>3. Len(line') = n - 1
    BY <1>1, <1>3
  <2> DEFINE e == cursor'
  <2>4. e = cursor - 1
    BY <1>4
  <2>. HIDE DEF n, e
  <2>5. n - 1 + 2 <= e
    BY <1>2, <2>4
  <2>6. screen'[e - (n - 1) - 2] = ">" /\ screen'[e - (n - 1) - 1] = " "
    <3>1. /\ e - (n - 1) - 2 = cursor - n - 2
          /\ e - (n - 1) - 1 = cursor - n - 1
          /\ cursor - n - 2 \in 0 .. Cells - 1 /\ cursor - n - 1 \in 0 .. Cells - 1
          /\ cursor - n - 2 # cursor - 1 /\ cursor - n - 1 # cursor - 1
      BY <1>2, <2>4
    <3>. QED
      BY <2>1, <2>2, <3>1
  <2>7. ASSUME NEW i \in 1 .. n - 1
        PROVE  screen'[e - (n - 1) + i - 1] = line'[i]
    <3>1. /\ e - (n - 1) + i - 1 = cursor - n + i - 1
          /\ cursor - n + i - 1 \in 0 .. Cells - 1 /\ cursor - n + i - 1 # cursor - 1
          /\ i \in 1 .. n
      BY <1>2, <2>4
    <3>2. line'[i] = line[i]
      BY <1>1, <1>3
    <3>. QED
      BY <2>1, <2>2, <3>1, <3>2
  <2>. QED
    BY <2>3, <2>5, <2>6, <2>7 DEF LineShown, e
<1>. QED
  BY <1>5, <1>6 DEF IInv

-----------------------------------------------------------------------------
LEMMA MessageType ==
  /\ Len(Message) \in Nat \ {0} /\ Len(Message) <= Cells
  /\ \A i \in 1 .. Len(Message) : Message[i] \in Characters
  /\ " " \in Characters /\ 0 \in 0 .. Len(Message) - 1
<1>1. Message \in Seq(Characters)
  BY TextsAssumption
<1>2. Len(Message) \in 1 .. Cells /\ Cells \in Nat
  BY MessageAssumption, Geometry
<1>3. " " \in Characters
  BY DEF Characters
<1>4. \A i \in 1 .. Len(Message) : Message[i] \in Characters
  BY <1>1
<1> DEFINE n == Len(Message)
<1>5. n \in Nat \ {0} /\ n <= Cells /\ 0 \in 0 .. n - 1
  <2>. HIDE DEF n
  <2>1. n \in 1 .. Cells
    BY <1>2 DEF n
  <2>. QED
    BY <1>2, <2>1
<1>. QED
  BY <1>3, <1>4, <1>5

LEMMA ScrollTextKeeps ==
  ASSUME TypeOK, ScrollText
  PROVE  TypeOK'
<1> DEFINE len == Len(Message)
           s == [c \in 0 .. Cells - 1 |->
                   IF c < Width THEN Message[((offset + c) % len) + 1] ELSE " "]
<1>1. len \in Nat \ {0} /\ offset \in 0 .. len - 1 /\ Cells \in Nat /\ Width \in Nat
  BY MessageType, Geometry DEF TypeOK
<1>2. \A k \in Nat : k % len \in 0 .. len - 1
  <2>. HIDE DEF len
  <2>. QED
    BY <1>1
<1>3. offset' \in 0 .. len - 1
  <2>1. offset' = (offset + 1) % len
    BY Zenon DEF ScrollText
  <2>2. offset + 1 \in Nat
    <3>. HIDE DEF len
    <3>. QED
      BY <1>1
  <2>. QED
    BY <1>2, <2>1, <2>2, Zenon
<1>4. s \in [0 .. Cells - 1 -> Characters]
  <2>1. ASSUME NEW c \in 0 .. Cells - 1
        PROVE  ((offset + c) % len) + 1 \in 1 .. len
    <3>1. offset + c \in Nat
      BY <1>1
    <3>2. (offset + c) % len \in 0 .. len - 1
      BY <1>2, <3>1
    <3>. HIDE DEF len
    <3>. QED
      BY <1>1, <3>2
  <2>. QED
    BY <2>1, MessageType
<1>5. \A c \in DOMAIN screen : c \in DOMAIN s
  BY DEF TypeOK
<1>6. screen' = [c \in DOMAIN screen |-> IF c \in DOMAIN s THEN s[c] ELSE screen[c]]
  BY DEF ScrollText, Paint
<1>. HIDE DEF s
<1>7. screen' \in [0 .. Cells - 1 -> Characters]
  BY <1>4, <1>6 DEF TypeOK
<1>8. UNCHANGED <<cursor, line, start, pc>>
  BY DEF ScrollText
<1>. QED
  BY <1>3, <1>7, <1>8 DEF TypeOK

LEMMA HelloSectorKeeps ==
  ASSUME TypeOK, HelloSector
  PROVE  TypeOK'
<1> DEFINE s == [c \in 0 .. Len(Message) - 1 |-> Message[c + 1]]
<1>1. \A c \in DOMAIN s : s[c] \in Characters
  <2> DEFINE n == Len(Message)
  <2>1. n \in Nat /\ \A i \in 1 .. n : Message[i] \in Characters
    BY MessageType
  <2>. HIDE DEF n
  <2>2. \A c \in 0 .. n - 1 : c + 1 \in 1 .. n
    BY <2>1
  <2>. QED
    BY <2>1, <2>2 DEF n
<1>2. screen' = [c \in DOMAIN screen |-> IF c \in DOMAIN s THEN s[c] ELSE screen[c]]
  BY DEF HelloSector, Paint
<1>. HIDE DEF s
<1>3. screen' \in [0 .. Cells - 1 -> Characters]
  BY <1>1, <1>2 DEF TypeOK
<1>4. UNCHANGED <<cursor, line, start, offset>> /\ pc' = "while (1)"
  BY DEF HelloSector
<1>. QED
  BY <1>3, <1>4 DEF TypeOK, Programs

(* A step that leaves the line editor only has to keep the types.           *)
LEMMA OtherStepsKeep ==
  ASSUME TypeOK, NEW d \in Displays, Show(d), UNCHANGED <<line, start>>,
         pc' \in {"prompt", "execute"} \cup Programs,
         offset' = offset \/ offset' = 0
  PROVE  IInv'
<1>1. screen' \in [0 .. Cells - 1 -> Characters] /\ cursor' \in 0 .. Cells - 1
  BY ShowKeepsType
<1>2. offset' \in 0 .. Len(Message) - 1
  BY MessageType, Zenon DEF TypeOK
<1>3. TypeOK'
  BY <1>1, <1>2 DEF TypeOK
<1>. QED
  BY <1>3 DEF IInv, Programs

LEMMA InitKeeps == Init => IInv
<1>. SUFFICES ASSUME Init PROVE IInv
  OBVIOUS
<1>1. " " \in Characters /\ 0 \in 0 .. Cells - 1 /\ MaxLength > 0
  BY Geometry DEF Characters
<1>2. 0 \in 0 .. Len(Message) - 1
  BY MessageType
<1>3. screen \in [0 .. Cells - 1 -> Characters] /\ cursor \in 0 .. Cells - 1
  BY <1>1 DEF Init
<1>4. line \in Seq(Keys \ {BS, LF}) /\ Len(line) < MaxLength
  <2>1. line = <<>> /\ Len(<<>>) = 0
    BY DEF Init
  <2>2. 0 < MaxLength
    BY Geometry
  <2>. QED
    BY <2>1, <2>2
<1>. QED
  BY <1>1, <1>2, <1>3, <1>4 DEF Init, IInv, TypeOK

LEMMA StepKeeps == IInv /\ [Next]_vars => IInv'
<1>. SUFFICES ASSUME IInv, [Next]_vars PROVE IInv'
  OBVIOUS
<1>1. TypeOK /\ Display \in Displays
  BY DisplayType DEF IInv
<1>2. \A text \in Outputs : VgaPrint(Display, text) \in Displays
  BY <1>1, TextsAssumption, VgaPrintKeepsType
<1>3. CASE PrintPrompt
  BY <1>3, PrintPromptKeeps
<1>4. ASSUME NEW ch \in Keys, PressKey(ch)
      PROVE  IInv'
  <2>1. CASE TypeChar(ch)
    BY <2>1, TypeCharKeeps
  <2>2. CASE Backspace
    BY <2>2, BackspaceKeeps
  <2>3. CASE LineFull(ch) \/ BackspaceRefused
    BY <2>3 DEF LineFull, BackspaceRefused, vars, IInv, TypeOK, LineShown
  <2>4. CASE ch = LF /\ Enter
    <3>1. LF \in Characters
      BY <2>4 DEF Characters
    <3>2. PutChar(Display, LF) \in Displays
      BY <1>1, <3>1, PutCharKeepsType
    <3>. QED
      BY <1>1, <2>4, <3>2, OtherStepsKeep DEF Enter
  <2>. QED
    BY <1>4, <2>1, <2>2, <2>3, <2>4 DEF PressKey
<1>5. CASE ExecuteNothing
  BY <1>1, <1>5 DEF ExecuteNothing, IInv, TypeOK
<1>6. ASSUME NEW text \in Outputs,
             \/ ExecutePrints(text) \/ RunReturns(text)
             \/ \E program \in {"scroll_text", "hello_sector"} : ExecuteRun(text, program)
      PROVE  IInv'
  <2>1. CASE ExecutePrints(text)
    BY <1>1, <1>2, <2>1, OtherStepsKeep DEF ExecutePrints
  <2>2. CASE RunReturns(text)
    BY <1>1, <1>2, <2>2, OtherStepsKeep DEF RunReturns
  <2>3. ASSUME NEW program \in {"scroll_text", "hello_sector"}, ExecuteRun(text, program)
        PROVE  IInv'
    BY <1>1, <1>2, <2>3, OtherStepsKeep DEF ExecuteRun, Programs
  <2>. QED
    BY <1>6, <2>1, <2>2, <2>3
<1>7. CASE ExecuteClear
  <2>1. Clear(Display) \in Displays
    <3> DEFINE s == [c \in DOMAIN Display.screen |-> " "]
    <3>1. s \in [0 .. Cells - 1 -> Characters]
      BY <1>1 DEF Displays, Characters
    <3>2. Clear(Display) = [screen |-> s, cursor |-> 0]
      BY DEF Clear
    <3>3. 0 \in 0 .. Cells - 1
      BY Geometry
    <3>. HIDE DEF s
    <3>. QED
      BY <3>1, <3>2, <3>3 DEF Displays
  <2>. QED
    BY <1>1, <1>7, <2>1, OtherStepsKeep DEF ExecuteClear
<1>8. CASE ScrollText
  BY <1>1, <1>8, ScrollTextKeeps DEF ScrollText, IInv
<1>9. CASE HelloSector
  BY <1>1, <1>9, HelloSectorKeeps DEF HelloSector, IInv
<1>10. CASE Forever \/ UNCHANGED vars
  BY <1>10 DEF Forever, vars, IInv, TypeOK, LineShown
<1>. QED
  BY <1>3, <1>4, <1>5, <1>6, <1>7, <1>8, <1>9, <1>10 DEF Next

LEMMA InductiveInvariant == Spec => []IInv
  BY InitKeeps, StepKeeps, PTL DEF Spec

(* The screen and the line editor are well typed: the cursor never leaves   *)
(* the screen, and the line never fills the buffer of cli_readline.         *)
THEOREM TypeCorrect == Spec => []TypeOK
<1>1. IInv => TypeOK
  BY DEF IInv
<1>. QED
  BY <1>1, InductiveInvariant, PTL

(* The characters of the buffer stand right before the cursor, for any      *)
(* screen, keys and texts.                                                  *)
THEOREM EchoAlwaysMatches == Spec => []EchoMatches
<1>1. IInv => EchoMatches
  <2>. SUFFICES ASSUME IInv, pc = "readline" PROVE Before(Len(line)) = line
    BY DEF EchoMatches
  <2> DEFINE n == Len(line)
  <2>1. n \in Nat /\ cursor \in Nat /\ DOMAIN line = 1 .. n
    BY Geometry DEF IInv, TypeOK
  <2>2. n + 2 <= cursor /\ \A i \in 1 .. n : screen[cursor - n + i - 1] = line[i]
    BY DEF IInv, LineShown
  <2>3. line = [i \in 1 .. n |-> line[i]]
    BY DEF IInv, TypeOK
  <2>. HIDE DEF n
  <2>4. \A i \in 1 .. n : cursor - n + i > 0
    BY <2>1, <2>2
  <2>. QED
    BY <2>2, <2>3, <2>4 DEF Before, n
<1>. QED
  BY <1>1, InductiveInvariant, PTL

LEMMA FirstTwo ==
  ASSUME NEW b, NEW S, b[1] \in S, b[2] \in S
  PROVE  SubSeq(b, 1, 2) = <<b[1], b[2]>>
<1> DEFINE m == 1
           n == 2
           s == SubSeq(b, m, n)
           q == <<b[1], b[2]>>
<1>1. m \in Int /\ n \in Int /\ m <= n /\ n - m + 1 = 2 /\ m = 1 /\ m .. n = {1, 2}
  OBVIOUS
<1>2. q \in Seq(S) /\ Len(q) = 2 /\ q[1] = b[1] /\ q[2] = b[2]
  OBVIOUS
<1>. HIDE DEF m, n
<1>3. \A i \in m .. n : b[i] \in S
  BY <1>1
<1>4. /\ s \in Seq(S)
      /\ Len(s) = n - m + 1
      /\ \A i \in 1 .. n - m + 1 : s[i] = b[m + i - 1]
  <2>1. s \in Seq(S)
    BY <1>1, <1>3, SubSeqProperties
  <2>2. Len(s) = n - m + 1
    BY <1>1, <1>3, SubSeqProperties
  <2>3. \A i \in 1 .. n - m + 1 : s[i] = b[m + i - 1]
    BY <1>1, <1>3, SubSeqProperties
  <2>. QED
    BY <2>1, <2>2, <2>3
<1>. HIDE DEF s, q
<1>5. Len(s) = 2
  BY <1>1, <1>4
<1>6. \A i \in 1 .. 2 : s[i] = b[i]
  <2>1. \A i \in 1 .. 2 : m + i - 1 = i
    BY <1>1
  <2>. QED
    BY <1>1, <1>4, <2>1
<1>7. \A i \in 1 .. 2 : b[i] = q[i]
  <2>1. \A i \in 1 .. 2 : i = 1 \/ i = 2
    OBVIOUS
  <2>. QED
    BY <1>2, <2>1
<1>8. s = q
  BY <1>2, <1>4, <1>5, <1>6, <1>7, SeqEqual
<1>. QED
  BY <1>8 DEF s, q, m, n

(* The prompt stands in front of the line for as long as it is edited.      *)
THEOREM PromptAlwaysKept == Spec => []PromptKept
<1>1. IInv => PromptKept
  <2>. SUFFICES ASSUME IInv, pc = "readline"
                PROVE  SubSeq(Before(Len(line) + Len(Prompt)), 1, Len(Prompt)) = Prompt
    BY DEF PromptKept
  <2> DEFINE n == Len(line)
             b == Before(n + 2)
  <2>1. n \in Nat /\ cursor \in Nat
    BY Geometry DEF IInv, TypeOK
  <2>2. n + 2 <= cursor /\ screen[cursor - n - 2] = ">" /\ screen[cursor - n - 1] = " "
    BY DEF IInv, LineShown
  <2>. HIDE DEF n
  <2>3. b[1] = ">" /\ b[2] = " "
    <3> DEFINE c == cursor
    <3>1. c \in Nat /\ n + 2 <= c
      BY <2>1, <2>2
    <3>. HIDE DEF c
    <3>2. /\ 1 \in 1 .. n + 2 /\ 2 \in 1 .. n + 2
          /\ c - (n + 2) + 1 > 0 /\ c - (n + 2) + 2 > 0
          /\ c - (n + 2) + 1 - 1 = c - n - 2
          /\ c - (n + 2) + 2 - 1 = c - n - 1
      BY <2>1, <3>1
    <3>. QED
      BY <2>2, <3>2 DEF Before, c
  <2>. HIDE DEF b
  <2>4. SubSeq(b, 1, 2) = <<">", " ">>
    <3>1. b[1] \in {">", " "} /\ b[2] \in {">", " "}
      BY <2>3
    <3>2. SubSeq(b, 1, 2) = <<b[1], b[2]>>
      BY <3>1, FirstTwo, Zenon
    <3>. QED
      BY <2>3, <3>2
  <2>5. Len(Prompt) = 2
    BY DEF Prompt
  <2>. QED
    BY <2>4, <2>5 DEF b, n, Prompt
<1>. QED
  BY <1>1, InductiveInvariant, PTL
=============================================================================
