------------------------------ MODULE MCConsole ------------------------------
(***************************************************************************)
(* An instance of Console for TLC.  A screen of three rows of four cells   *)
(* scrolls after a few characters, and a line of up to four characters     *)
(* reaches from one row into the next.  The texts are a character, a line  *)
(* and a file that contains a backspace.  The message is shorter than a    *)
(* row.                                                                    *)
(***************************************************************************)
EXTENDS Console

MCKeys == {"a", "b", " ", BS, LF}
MCMessage == <<"a", ">", "b">>
MCOutputs == {<<"a">>, <<"a", "a", LF>>, <<"a", BS, BS>>}
=============================================================================
