----------------------------- MODULE QueueStep -----------------------------
(***************************************************************************)
(* One clock of a bounded queue of bytes, the behaviour of rtl/fifo.v, as   *)
(* operators on the queue's contents, so that every module that holds a    *)
(* FIFO of the chip advances it the same way.                              *)
(***************************************************************************)
EXTENDS Naturals, Sequences

CONSTANT Capacity   \* how many bytes the queue holds

(* A push is accepted while there is room, or when the reader makes room on *)
(* the same clock; a pop of an empty queue takes nothing, even when a byte  *)
(* arrives on that clock.                                                   *)
Accepts(q, pop) == Len(q) < Capacity \/ pop

Remaining(q, pop) == IF pop /\ q /= <<>> THEN Tail(q) ELSE q

Advance(q, push, pop, byte) ==
  IF push /\ Accepts(q, pop)
    THEN Append(Remaining(q, pop), byte)
    ELSE Remaining(q, pop)

=============================================================================
