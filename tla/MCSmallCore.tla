---------------------------- MODULE MCSmallCore ----------------------------
(* ROM slot 1 pulls, samples and pushes.  The bytes the host sends make the *)
(* words PUSH, PULL (twice written), a NOP with a delay and a run test, in  *)
(* RAM programs of up to two words.                                         *)
EXTENDS SmallCore

Isa == INSTANCE Isa

W(op, args, d) == Isa!Encode([op |-> op, args |-> args, delay |-> d, side |-> <<>>])

MCRom == [n \in 0 .. 15 |-> IF n = 1 THEN <<W("PULL", <<>>, 1), W("PUSH", <<>>, 0)>> ELSE <<>>]

MCHostBytes == [a \in 0 .. 3 |-> CASE a = CONTROL -> {1, 16, 32}
                                   [] a = TX_DATA -> {1, 64}
                                   [] OTHER -> {}]

MCLevels == {[p \in Pin |-> 1]}

=============================================================================
