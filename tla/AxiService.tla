----------------------------- MODULE AxiService -----------------------------
(***************************************************************************)
(* What smallcore_axi.v promises the ARM about the bytes it moves: each one *)
(* passes once and in order, from TX staging to the chip's TX FIFO (or the  *)
(* program RAM while loading) and from its RX FIFO to the RX ring and the   *)
(* ARM.  Nothing here says how a byte travels or how long it takes; on one  *)
(* clock all of these may happen.                                          *)
(***************************************************************************)
EXTENDS Integers, Sequences

CONSTANTS
  TX_DEPTH, RX_SIZE,    \* the ARM side's queues
  DEPTH,                \* the chip's FIFOs
  RamBytes              \* program bytes the RAM holds

VARIABLES
  staged,               \* bytes the ARM staged that have not reached the chip
  tx_fifo, rx_fifo,     \* the chip's FIFOs
  loading, program,     \* the loader takes the bytes; the bytes it took
  ring, overflow,       \* received bytes; some were dropped
  read                  \* what the ARM's last read of RX_DATA returned

vars == <<staged, tx_fifo, rx_fifo, loading, program, ring, overflow, read>>

(* q after at most one byte was taken from its front. *)
Popped(q) == {q} \cup {SubSeq(q, 2, Len(q))}

(* Nothing, or what stands at the front of q. *)
Front(q) == {<<>>} \cup {<<q[i]>> : i \in DOMAIN q \cap {1}}

(* r is q, or q with one more byte. *)
Grows(q, r) == Len(r) \in {Len(q), Len(q) + 1} /\ SubSeq(r, 1, Len(q)) = q

Nothing == [valid |-> FALSE, byte |-> 0]

Init ==
  /\ staged = <<>> /\ tx_fifo = <<>> /\ rx_fifo = <<>> /\ ring = <<>>
  /\ loading = FALSE /\ program = <<>>
  /\ overflow = FALSE /\ read = Nothing

(* The ARM stages a byte at most, or flushes all but the byte on its way.   *)
Staging(sent) ==
  \/ /\ Grows(staged, sent \o staged')
     /\ Len(staged') <= TX_DEPTH + 1
  \/ sent \o staged' \in Front(staged)

(* A byte that finds the ring full is dropped, and reported.                *)
Receiving(drained) ==
  LET kept == IF Len(ring) < RX_SIZE THEN drained ELSE <<>>
  IN  \/ /\ overflow' = (overflow \/ drained /= kept)
         /\ \/ ring' = ring \o kept /\ read' \in {read, Nothing}
            \/ /\ ring /= <<>> /\ ring' = Tail(ring) \o kept
               /\ read' \in {Nothing, [valid |-> TRUE, byte |-> Head(ring)]}
      \/ /\ drained = <<>> /\ ring' = <<>> /\ overflow' = FALSE
         /\ read' \in {read, Nothing}
                        \cup {[valid |-> TRUE, byte |-> ring[i]] : i \in 1 .. Len(ring)}

(* The core's side of the FIFOs; a byte sent is never refused.              *)
Chip(sent, drained) ==
  /\ Grows(rx_fifo, drained \o rx_fifo')
  /\ tx_fifo' \in {q \o (IF loading THEN <<>> ELSE sent) : q \in Popped(tx_fifo)}
  /\ program' = IF loading /\ Len(program) < RamBytes THEN program \o sent ELSE program
  /\ Len(tx_fifo') <= DEPTH /\ Len(rx_fifo') <= DEPTH
  /\ UNCHANGED loading

(* A CONTROL write begins or ends a load and moves no byte.                 *)
Control ==
  /\ UNCHANGED <<tx_fifo, rx_fifo>>
  /\ loading' \in BOOLEAN
  /\ program' \in {program, <<>>, SubSeq(program, 1, 2 * (Len(program) \div 2))}

(* A raw transaction is one more way to write TX_DATA (a full FIFO drops    *)
(* the byte) and to pop RX_DATA.                                            *)
RawWrite ==
  /\ \E q \in Popped(tx_fifo) : Grows(q, tx_fifo')
  /\ Grows(rx_fifo, rx_fifo')
  /\ IF loading /\ Len(program) < RamBytes
       THEN Grows(program, program') ELSE UNCHANGED program
  /\ UNCHANGED loading

RawPop ==
  /\ rx_fifo /= <<>> /\ Grows(Tail(rx_fifo), rx_fifo')
  /\ tx_fifo' \in Popped(tx_fifo)
  /\ UNCHANGED <<loading, program>>

(* Work on one clock: a byte may reach the chip, one may reach the ring.    *)
Clock ==
  \E sent \in Front(staged) :
    /\ Staging(sent)
    /\ \E drained \in Front(rx_fifo) :
         /\ \/ Chip(sent, drained)
            \/ sent = <<>> /\ drained = <<>> /\ (Control \/ RawWrite \/ RawPop)
         /\ Receiving(drained)

(* The core's reset empties everything but what was received.               *)
Reset ==
  /\ staged' = <<>> /\ tx_fifo' = <<>> /\ rx_fifo' = <<>>
  /\ loading' = FALSE /\ program' = <<>>
  /\ Receiving(<<>>)

Next == Clock \/ Reset

Spec == Init /\ [][Next]_vars

=============================================================================
