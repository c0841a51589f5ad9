------------------------------ MODULE MCKernel ------------------------------
(***************************************************************************)
(* An instance of Kernel for TLC: two sectors and a number that does not   *)
(* fit the address, two values for a sector, two slots.  The numbers are   *)
(* 1, 2, 3, the word 0x11, which wraps to 1, and two that are refused.     *)
(***************************************************************************)
EXTENDS Kernel

MCLbas == {1, 2, 3}
MCValues == {0, 1}
Decimal(digits) == [hex |-> FALSE, digits |-> digits]
Hex(digits) == [hex |-> TRUE, digits |-> digits]
MCNumbers ==
  {Decimal(<<1>>), Decimal(<<2>>), Decimal(<<3>>), Hex(<<1, 1>>), Hex(<<>>), Decimal(<<1, 11>>)}
=============================================================================
