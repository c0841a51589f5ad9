------------------------------ MODULE FatNames ------------------------------
(***************************************************************************)
(* The 8.3 names of src/fat: how a name given by the user is stored in a   *)
(* directory entry (format_83_name) and how one is looked up (name_match). *)
(* A name is a sequence of characters; only the widths of the two fields   *)
(* are parameters, so that small ones can be checked.                      *)
(***************************************************************************)
EXTENDS Integers, Sequences, FiniteSets

CONSTANTS
  NameLen,   \* width of the filename field (8)
  ExtLen     \* width of the ext field (3)

ASSUME WidthsAssumption == NameLen \in Nat \ {0} /\ ExtLen \in Nat

(* The characters of the small names used here; the rest are alike.         *)
Chars == {"A", "B", "C", "a", ".", " "}
Upper(c) == IF c = "a" THEN "A" ELSE c

(* The character at i, or "" for the terminating 0.                         *)
CharAt(f, i) == IF i \in 1 .. Len(f) THEN f[i] ELSE ""

(* How many characters of f stand before a dot, the end, or the limit.      *)
BaseLen(f, limit) ==
  CHOOSE n \in 0 .. limit :
    /\ \A i \in 1 .. n : CharAt(f, i) \notin {".", ""}
    /\ n = limit \/ CharAt(f, n + 1) \in {".", ""}

(* Both fields are padded with spaces and put in upper case.  A base longer *)
(* than the field goes on in the extension.                                 *)
Format83(f) ==
  LET n == BaseLen(f, NameLen)
      skip == IF CharAt(f, n + 1) = "." THEN n + 1 ELSE n
      stored(i, last) == IF i <= last THEN Upper(f[i]) ELSE " "
  IN  [name |-> [i \in 1 .. NameLen |-> stored(i, n)],
       ext |-> [j \in 1 .. ExtLen |-> stored(skip + j, Len(f))]]

(* The comparison stops at the end of what the user typed, in either field, *)
(* and is case sensitive.  A base longer than the field is skipped over.    *)
NameMatch(e, f) ==
  LET n == BaseLen(f, NameLen)
      m == BaseLen(f, Len(f))
      skip == IF CharAt(f, m + 1) = "." THEN m + 1 ELSE m
  IN  /\ \A i \in 1 .. n : f[i] = e.name[i]
      /\ \A j \in 1 .. ExtLen : skip + j <= Len(f) => f[skip + j] = e.ext[j]
=============================================================================
