------------------------------- MODULE Console -------------------------------
(***************************************************************************)
(* The console of src/kernel: the text screen (vga.c), the line editor     *)
(* (cli_readline) and the keys that reach it (keyboard.c).  The CLI prints *)
(* its prompt, reads a line, runs the command, which prints or clears the  *)
(* screen, and starts over.                                                *)
(*                                                                         *)
(* The screen is one row of cells, read left to right and top to bottom;   *)
(* colours are left out.  What a command prints is one of a small set of   *)
(* texts: the line editor only sees where it leaves the cursor.  The       *)
(* command run starts one of the programs of src/kernel/payloads, which    *)
(* write to the video memory and leave the cursor alone.                   *)
(* Key releases, extended prefixes and keys without a character never      *)
(* leave keyboard_getchar.                                                 *)
(* An operator named Faulty... is a plausible bug in the definition that   *)
(* follows it, kept to show that a property would notice it.               *)
(***************************************************************************)
EXTENDS Integers, Sequences, SequencesExt

CONSTANTS
  Width,       \* VGA_WIDTH (80)
  Height,      \* VGA_HEIGHT (25)
  MaxLength,   \* CLI_MAX_LINE_LENGTH (128)
  Keys,        \* characters keyboard_getchar can return
  Outputs,     \* texts a command may print
  Message      \* what the payload programs show

BS == "backspace"
LF == "newline"
Prompt == <<">", " ">>
Cells == Width * Height

ASSUME ScreenAssumption == {Width, Height} \subseteq Nat \ {0}
\* A full line and its prompt fit above the last row.
ASSUME LineAssumption ==
  MaxLength \in Nat \ {0} /\ Len(Prompt) + MaxLength - 1 <= Width * (Height - 1)
ASSUME MessageAssumption == Len(Message) \in 1 .. Cells

VARIABLES
  screen,   \* video memory, a character in each cell 0 .. Cells - 1
  cursor,   \* the cell of the hardware cursor
  line,     \* the characters of buffer[0 .. pos - 1] of cli_readline
  start,    \* start_cursor_pos
  pc,       \* "prompt", "readline", "execute", or the program that runs
  offset    \* offset of scroll_text

vars == <<screen, cursor, line, start, pc, offset>>

Programs == {"scroll_text", "hello_sector", "while (1)"}
Characters ==
  Keys \cup {" ", ">"} \cup ToSet(Message) \cup UNION {ToSet(text) : text \in Outputs}

ASSUME TextsAssumption == Outputs \cup {Message} \subseteq Seq(Characters)

TypeOK ==
  /\ screen \in [0 .. Cells - 1 -> Characters]
  /\ cursor \in 0 .. Cells - 1
  /\ line \in Seq(Keys \ {BS, LF}) /\ Len(line) < MaxLength
  /\ start \in 0 .. Cells - 1
  /\ pc \in {"prompt", "readline", "execute"} \cup Programs
  /\ offset \in 0 .. Len(Message) - 1

Init ==
  /\ screen = [c \in 0 .. Cells - 1 |-> " "]
  /\ cursor = 0
  /\ line = <<>>
  /\ start = 0
  /\ pc = "prompt"
  /\ offset = 0

-----------------------------------------------------------------------------
(* vga_putchar on a display, which is a screen and a cursor.                *)

Display == [screen |-> screen, cursor |-> cursor]

FaultyHandleScroll(d) ==
  IF d.cursor <= Cells THEN d
  ELSE [screen |-> [c \in DOMAIN d.screen |->
                      IF c + Width < Cells THEN d.screen[c + Width] ELSE " "],
        cursor |-> d.cursor - Width]

(* Off the end of the screen every row moves up by one and the last one is  *)
(* cleared.                                                                 *)
HandleScroll(d) ==
  IF d.cursor < Cells THEN d
  ELSE [screen |-> [c \in DOMAIN d.screen |->
                      IF c + Width < Cells THEN d.screen[c + Width] ELSE " "],
        cursor |-> d.cursor - Width]

Erase(d) ==
  IF d.cursor = 0 THEN d
  ELSE [screen |-> [d.screen EXCEPT ![d.cursor - 1] = " "], cursor |-> d.cursor - 1]

PutChar(d, c) ==
  HandleScroll(
    IF c = LF THEN [screen |-> d.screen, cursor |-> (d.cursor \div Width + 1) * Width]
    ELSE IF c = BS THEN Erase(d)
    ELSE [screen |-> [d.screen EXCEPT ![d.cursor] = c], cursor |-> d.cursor + 1])

VgaPrint(d, text) == FoldLeft(PutChar, d, text)

Clear(d) == [screen |-> [c \in DOMAIN d.screen |-> " "], cursor |-> 0]

Show(d) == screen' = d.screen /\ cursor' = d.cursor

-----------------------------------------------------------------------------
(* cli_loop prints the prompt and calls cli_readline.                       *)
PrintPrompt ==
  /\ pc = "prompt"
  /\ Show(VgaPrint(Display, Prompt))
  /\ start' = cursor'
  /\ line' = <<>>
  /\ pc' = "readline"
  /\ UNCHANGED offset

FaultyTypeChar(ch) ==
  /\ pc = "readline"
  /\ ch \notin {BS, LF}
  /\ line' = IF Len(line) < MaxLength - 1 THEN Append(line, ch) ELSE line
  /\ Show(PutChar(Display, ch))
  /\ UNCHANGED <<start, pc, offset>>

TypeChar(ch) ==
  /\ pc = "readline"
  /\ ch \notin {BS, LF}
  /\ Len(line) < MaxLength - 1
  /\ line' = Append(line, ch)
  /\ Show(PutChar(Display, ch))
  /\ UNCHANGED <<start, pc, offset>>

LineFull(ch) ==
  /\ pc = "readline"
  /\ ch \notin {BS, LF}
  /\ Len(line) = MaxLength - 1
  /\ UNCHANGED vars

FaultyBackspace ==
  /\ pc = "readline"
  /\ line' = IF line = <<>> THEN line ELSE Front(line)
  /\ Show(Erase(Display))
  /\ UNCHANGED <<start, pc, offset>>

(* start is not moved when the screen scrolls, so a character typed since   *)
(* may be refused its backspace.                                            *)
Backspace ==
  /\ pc = "readline"
  /\ line # <<>> /\ cursor > start
  /\ line' = Front(line)
  /\ Show(Erase(Display))
  /\ UNCHANGED <<start, pc, offset>>

BackspaceRefused ==
  /\ pc = "readline"
  /\ line = <<>> \/ cursor <= start
  /\ UNCHANGED vars

Enter ==
  /\ pc = "readline"
  /\ Show(PutChar(Display, LF))
  /\ pc' = "execute"
  /\ UNCHANGED <<line, start, offset>>

PressKey(ch) ==
  \/ TypeChar(ch) \/ LineFull(ch)
  \/ ch = BS /\ (Backspace \/ BackspaceRefused)
  \/ ch = LF /\ Enter

-----------------------------------------------------------------------------
(* cli_execute: an empty line runs no command.                              *)
ExecuteNothing ==
  /\ pc = "execute"
  /\ ToSet(line) \subseteq {" "}
  /\ pc' = "prompt"
  /\ UNCHANGED <<screen, cursor, line, start, offset>>

ExecutePrints(text) ==
  /\ pc = "execute"
  /\ ~ ToSet(line) \subseteq {" "}
  /\ Show(VgaPrint(Display, text))
  /\ pc' = "prompt"
  /\ UNCHANGED <<line, start, offset>>

ExecuteClear ==
  /\ pc = "execute"
  /\ ~ ToSet(line) \subseteq {" "}
  /\ Show(Clear(Display))
  /\ pc' = "prompt"
  /\ UNCHANGED <<line, start, offset>>

(* run <addr> with a payload at that address.                               *)
ExecuteRun(text, program) ==
  /\ pc = "execute"
  /\ ~ ToSet(line) \subseteq {" "}
  /\ Show(VgaPrint(Display, text))
  /\ pc' = program
  /\ offset' = 0
  /\ UNCHANGED <<line, start>>

-----------------------------------------------------------------------------
(* The payload programs.                                                    *)

Paint(cells) == screen' = [c \in DOMAIN screen |-> IF c \in DOMAIN cells THEN cells[c] ELSE screen[c]]

(* scroll_text: a turn of its loop paints the whole screen.                 *)
ScrollText ==
  /\ pc = "scroll_text"
  /\ Paint([c \in 0 .. Cells - 1 |->
              IF c < Width THEN Message[((offset + c) % Len(Message)) + 1] ELSE " "])
  /\ offset' = (offset + 1) % Len(Message)
  /\ UNCHANGED <<cursor, line, start, pc>>

(* It returns when Q is pressed.                                            *)
RunReturns(text) ==
  /\ pc = "scroll_text"
  /\ Show(VgaPrint(Display, text))
  /\ pc' = "prompt"
  /\ offset' = 0
  /\ UNCHANGED <<line, start>>

(* hello_sector shows its message and never returns.                        *)
HelloSector ==
  /\ pc = "hello_sector"
  /\ Paint([c \in 0 .. Len(Message) - 1 |-> Message[c + 1]])
  /\ pc' = "while (1)"
  /\ UNCHANGED <<cursor, line, start, offset>>

Forever ==
  /\ pc = "while (1)"
  /\ UNCHANGED vars

-----------------------------------------------------------------------------
Next ==
  \/ PrintPrompt
  \/ \E ch \in Keys : PressKey(ch)
  \/ ExecuteNothing
  \/ \E text \in Outputs :
       \/ ExecutePrints(text) \/ RunReturns(text)
       \/ \E program \in {"scroll_text", "hello_sector"} : ExecuteRun(text, program)
  \/ ExecuteClear
  \/ ScrollText \/ HelloSector \/ Forever

Spec == Init /\ [][Next]_vars

-----------------------------------------------------------------------------
(* The n cells before the cursor.                                           *)
Before(n) == [i \in 1 .. n |-> IF cursor - n + i > 0 THEN screen[cursor - n + i - 1] ELSE ""]

(* What the user sees is what the command will get: the characters of the   *)
(* buffer stand right before the cursor, whatever was erased, refused or    *)
(* scrolled on the way, and whatever a program painted before.              *)
EchoMatches == pc = "readline" => Before(Len(line)) = line

(* Backspace never erases more than was typed: the prompt stays on the      *)
(* screen in front of the line for as long as the line is edited.           *)
PromptKept ==
  pc = "readline" =>
    SubSeq(Before(Len(line) + Len(Prompt)), 1, Len(Prompt)) = Prompt
=============================================================================
