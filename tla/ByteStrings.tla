---------------------------- MODULE ByteStrings ----------------------------
(***************************************************************************)
(* What calls that move a part of some bytes do to them.                   *)
(***************************************************************************)
EXTENDS Naturals, Sequences

Least(a, b) == IF a < b THEN a ELSE b

(* The first n bytes of s, and those after them.                           *)
Upto(s, n) == SubSeq(s, 1, n)
From(s, n) == SubSeq(s, n + 1, Len(s))
=============================================================================
