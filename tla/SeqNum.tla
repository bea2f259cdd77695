------------------------------- MODULE SeqNum -------------------------------
(***************************************************************************)
(* Sequence numbers of the mesh packets (firmware/src/comms.cpp).  A       *)
(* number is a uint32_t; "newer" is the sign of the 32-bit difference, as  *)
(* in RFC 1982.  Half stands for 2^31, so that small instances wrap.       *)
(***************************************************************************)
EXTENDS Integers

CONSTANT Half

ASSUME HalfAssumption == Half \in Nat \ {0}

SeqMod == 2 * Half
Seqs   == 0 .. SeqMod - 1

\* Mutant: a counter that does not wrap with the numbers.
SeqNextWide(s) == s + 1

\* counter++ on a uint32_t.
SeqNext(s) == IF s = SeqMod - 1 THEN 0 ELSE s + 1

\* a - b on uint32_t.
SeqDiff(a, b) == IF a >= b THEN a - b ELSE a - b + SeqMod

\* Mutant: only the packet that came last is a duplicate.
NewerNotEqual(seq, last) == seq # last

\* seq_num_accept: (int32_t)(seq - last) > 0; an equal number is not newer.
Newer(seq, last) == SeqDiff(seq, last) \in 1 .. Half - 1
=============================================================================
