------------------------------- MODULE MCTop -------------------------------
(* Programs of a few words that between them issue every instruction and    *)
(* meet every stall, a delay next to each kind of word, both shift          *)
(* directions, a jump and a skip past the end, and a REPEAT whose distance  *)
(* back passes word 0.  They end, so the registers they fill stay few.      *)
EXTENDS Top

Isa == INSTANCE Isa

W(op, args, d) == Isa!Encode([op |-> op, args |-> args, delay |-> d, side |-> <<>>])

WS(op, args, d, pin, value) ==
  Isa!Encode([op |-> op, args |-> args, delay |-> d, side |-> <<pin, value>>])

MCPrograms ==
  {<<>>,
   \* a byte out, LSB first, with side effects that must wait for the PULL
   <<WS("PULL", <<>>, 1, 3, 0), WS("SHIFT_OUT", <<>>, 2, 3, 1), W("SHIFT_OUT", <<>>, 0),
     W("JMP", <<0>>, 1)>>,
   \* MSB first, open drain, and a skip that steps off the end
   <<W("CONFIG", <<0, 1>>, 0), W("CONFIG", <<1, 2>>, 1), WS("CONFIG", <<2, 3>>, 0, 2, 0),
     WS("SHIFT_IN", <<0>>, 0, 0, 0), W("SHIFT_IN", <<1>>, 1), W("SKIP_RUN", <<1, 1>>, 1),
     W("JMP", <<200>>, 0), WS("PUSH", <<>>, 1, 1, 0), W("SKIP", <<0, 0>>, 0)>>,
   \* three samples in a REPEAT, LSB first, then a test of the newest ones
   <<WS("SHIFT_IN", <<0>>, 0, 2, 0), W("NOP", <<>>, 1), Isa!Encode([op |-> "REPEAT",
     args |-> <<2>>, delay |-> 2, side |-> <<>>]), W("SKIP_NORUN", <<2, 1>>, 0),
     W("PUSH", <<>>, 0), W("SKIP", <<7, 1>>, 2), W("SET", <<1, 0>>, 0)>>,
   \* the accumulator: a polynomial byte, data bits, two bytes out
   <<W("PULL", <<>>, 0), W("ACC_LOAD", <<>>, 0), W("ACC_LOAD", <<>>, 1), W("ACC_IN", <<1>>, 0),
     W("ACC_CRC", <<0>>, 0), W("REPEAT", <<1>>, 1), W("ACC_OUT", <<2>>, 1),
     W("ACC_PUSH", <<>>, 1), W("ACC_PUSH", <<>>, 0)>>,
   \* waits, and a REPEAT that reaches back past word 0
   <<WS("WAIT", <<1, 1>>, 2, 1, 0), WS("WAIT", <<0, 0>>, 0, 1, 1), W("REPEAT", <<9>>, 1)>>}

MCByte == {VecOf(179, 8)}

(* Pins 0 and 1 at three of their four pairs of levels; 2 and 3 are read by *)
(* the same wires.                                                          *)
MCLevels == {[p \in Pin |-> IF p = 0 THEN ab[1] ELSE IF p = 1 THEN ab[2] ELSE 0] :
               ab \in {<<0, 0>>, <<1, 0>>, <<1, 1>>}}

-----------------------------------------------------------------------------
(* top.v against the golden model: each register of the core is the integer *)
(* the model keeps, each FIFO byte too, and halted is the comparison of the *)
(* pc with program_words that the model stores in a flag.                   *)
Numbers(bytes) == [i \in DOMAIN bytes |-> NatOf(bytes[i], 8)]

(* The model counts the cycles left of the instruction under way, which is *)
(* what delay_counter holds after every clock.                             *)
Golden == INSTANCE GoldenCpu
            WITH Byte         <- {NatOf(b, 8) : b \in Byte},
                 RxDepth      <- DEPTH,
                 counter      <- delay_counter,
                 gpio         <- gpio_out,
                 shift_reg    <- NatOf(shift_reg, 8),
                 in_shift_reg <- NatOf(in_shift_reg, 8),
                 acc          <- NatOf(acc, 16),
                 poly         <- NatOf(poly, 16),
                 halted       <- (pc >= Len(program)),
                 tx_fifo      <- Numbers(tx_fifo),
                 rx_fifo      <- Numbers(rx_fifo),
                 taken        <- IF taken = NoByte THEN NoByte ELSE NatOf(taken, 8)

(* Clock for clock, the chip's core and FIFOs do what the golden model      *)
(* does: every register, every queued byte, every byte the host gets, under *)
(* any pushes, pops, restarts, resets and pin levels.                       *)
ImplementsGolden == Golden!Spec

=============================================================================
