----------------------------- MODULE ByteQueue -----------------------------
(***************************************************************************)
(* What a FIFO of the chip promises its two sides (rtl/fifo.v, used twice  *)
(* by rtl/top.v): a bounded queue of bytes that takes at most one byte and *)
(* gives at most one byte per clock, and refuses a byte only when it is    *)
(* full and nothing is popped.                                             *)
(***************************************************************************)
EXTENDS QueueStep

CONSTANTS
  Byte,       \* the bytes a queue carries
  NoByte      \* "no byte passed on the last clock"

VARIABLES
  queue,      \* the bytes held, oldest first
  offered,    \* the byte the writer pushed on the last clock, or NoByte
  taken       \* the byte the reader took on the last clock, or NoByte

Init == queue = <<>> /\ offered = NoByte /\ taken = NoByte

Reset == queue' = <<>> /\ offered' = NoByte /\ taken' = NoByte

Clock(push, pop, byte) ==
  /\ queue' = Advance(queue, push, pop, byte)
  /\ offered' = IF push THEN byte ELSE NoByte
  /\ taken' = IF pop /\ queue /= <<>> THEN Head(queue) ELSE NoByte

Next ==
  \/ Reset
  \/ \E push, pop \in BOOLEAN, byte \in Byte : Clock(push, pop, byte)

Spec == Init /\ [][Next]_<<queue, offered, taken>>

=============================================================================
