-------------------------------- MODULE HexId --------------------------------
(***************************************************************************)
(* The id the compute page gives a launched instance,                     *)
(* src/web/app/(app)/compute/page.tsx line 33:                             *)
(*                                                                         *)
(*     `i-0x${Math.floor(Math.random() * 10000).toString(16)}`             *)
(*                                                                         *)
(* The prefix "i-0x" is common to every id, so an id is represented by     *)
(* the hexadecimal digits after it, each digit a number in 0..15.          *)
(***************************************************************************)
EXTENDS Naturals, Sequences

\* Math.floor(Math.random() * 10000) ranges over 0..DrawBound-1.
DrawBound == 10000

HexDigits == 0..15

RECURSIVE ToHex(_)

\* Number.prototype.toString(16) of a non-negative integer: the most
\* significant digit first, no leading zeros, "0" for zero.
ToHex(n) == IF n < 16 THEN <<n>> ELSE ToHex(n \div 16) \o <<n % 16>>

=============================================================================
