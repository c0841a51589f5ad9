------------------------------ MODULE FileStore ------------------------------
(***************************************************************************)
(* What the write, delete and read commands of src/fat promise of one      *)
(* directory: a store of whole files.  A file appears at once with all its *)
(* content or not at all, and disappears at once; no operation on one file *)
(* changes another.                                                        *)
(***************************************************************************)
CONSTANTS
  Names,
  Contents,
  NoFile      \* what files[name] is when there is no such file

VARIABLE files   \* the files of the directory and what each contains

Init == files \in [Names -> Contents \cup {NoFile}]

(* write refuses a name that exists and never replaces content.             *)
Write(name, content) ==
  /\ files[name] = NoFile
  /\ files' = [files EXCEPT ![name] = content]

Delete(name) ==
  /\ files[name] # NoFile
  /\ files' = [files EXCEPT ![name] = NoFile]

Next == \E name \in Names : Delete(name) \/ \E content \in Contents : Write(name, content)

Spec == Init /\ [][Next]_files
=============================================================================
