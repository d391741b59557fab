---------------------------- MODULE CanReference ----------------------------
(***************************************************************************)
(* fpga/pynq_z2/can_ref.py: a CAN 2.0A frame written from its format, and   *)
(* decoded from the bus.  Level 0 is dominant.                              *)
(***************************************************************************)
EXTENDS Bits, Sequences

LOCAL INSTANCE SequencesExt

(* What Step makes of a state and a sequence's items in their order: the    *)
(* community modules' FoldLeft does it in cubic time.  Each state is chosen *)
(* from a set of one for TLC to work it out before it goes on from it.      *)
Through(Step(_, _), start, items) ==
  LET after[k \in 0 .. Len(items)] ==
        IF k = 0 THEN start ELSE CHOOSE s \in {Step(before, items[k]) : before \in {after[k - 1]}} : TRUE
  IN  after[Len(items)]

(* The remainder of the bits by a polynomial, and the frame's own. *)
Crc(bits, generator, width) ==
  LET Shift(crc, b) ==
        LET shifted == (crc * 2) % 2^width
        IN  IF b /= Bit(crc, width - 1) THEN Xor(shifted, generator, width) ELSE shifted
  IN  Through(Shift, 0, bits)

crc15(bits) == Crc(bits, 17817, 15)     \* 0x4599

bits_of(value, n) == [k \in 1 .. n |-> Bit(value, n - k)]

(* The number some bits spell, the first the highest. *)
Spelled(bits) == Through(LAMBDA value, b : 2 * value + b, 0, bits)

bytes_of(data) == FlattenSeq([k \in DOMAIN data |-> bits_of(data[k], 8)])

(* The frame before stuffing: SOF, identifier, RTR, IDE, r0, DLC, data, CRC. *)
stream(ident, data, rtr) ==
  LET bits == <<0>> \o bits_of(ident, 11) \o <<rtr, 0, 0>> \o bits_of(Len(data), 4) \o bytes_of(data)
  IN  bits \o bits_of(crc15(bits), 15)

(* No level before the first bit. *)
NoLevel == 2

RunAfter(run, level, b) == IF b = level THEN run + 1 ELSE 1

(* After five equal bits, one of the other level, which a run may start on. *)
stuff(bits) ==
  LET Put(s, b) ==
        LET run == RunAfter(s.run, s.last, b)
        IN  IF run = 5 THEN [out |-> s.out \o <<b, 1 - b>>, last |-> 1 - b, run |-> 1]
                       ELSE [out |-> Append(s.out, b), last |-> b, run |-> run]
  IN  Through(Put, [out |-> <<>>, last |-> NoLevel, run |-> 0], bits).out

Ones(n) == [k \in 1 .. n |-> 1]

frame(ident, data, acked) ==
  stuff(stream(ident, data, 0)) \o <<1, IF acked THEN 0 ELSE 1, 1>> \o Ones(7)

-----------------------------------------------------------------------------
Dlc(out) == IF Len(out) >= 19 THEN Spelled(SubSeq(out, 16, 19)) ELSE 0

DataBytes(out) == IF Dlc(out) > 8 THEN 8 ELSE Dlc(out)

(* The bits still to be taken from the bus: to the DLC, then to the CRC. *)
need(out) == IF Len(out) < 19 THEN 19 ELSE 19 + 8 * DataBytes(out) + 15

Bits0 == [out |-> <<>>, last |-> NoLevel, run |-> 0, i |-> 0, errors |-> {}]

(* A stuff bit that starts no run of its own. *)
TakenUnstarted(s, b) ==
  CASE Len(s.out) >= need(s.out) -> s
    [] s.run = 5 ->
         [s EXCEPT !.errors = IF b = s.last THEN @ \cup {"stuff error"} ELSE @,
                   !.last = NoLevel, !.run = 0, !.i = @ + 1]
    [] OTHER ->
         [s EXCEPT !.out = Append(@, b), !.run = RunAfter(@, s.last, b), !.last = b, !.i = @ + 1]

(* One bus bit: a stuff bit after five equal ones, or a bit of the frame. *)
Taken(s, b) ==
  CASE Len(s.out) >= need(s.out) -> s
    [] s.run = 5 ->
         [s EXCEPT !.errors = IF b = s.last THEN @ \cup {"stuff error"} ELSE @,
                   !.last = b, !.run = 1, !.i = @ + 1]
    [] OTHER ->
         [s EXCEPT !.out = Append(@, b), !.run = RunAfter(@, s.last, b), !.last = b, !.i = @ + 1]

destuff(bits) ==
  LET s == Through(Taken, Bits0, bits)
      out == s.out
      tail == SubSeq(bits, s.i + 1, s.i + 10)
      last == need(out)
      f == [sof |-> out[1], id |-> Spelled(SubSeq(out, 2, 12)), rtr |-> out[13],
            dlc |-> Dlc(out),
            data |-> [k \in 1 .. DataBytes(out) |-> Spelled(SubSeq(out, 12 + 8 * k, 19 + 8 * k))],
            crc_ok |-> crc15(SubSeq(out, 1, last - 15)) = Spelled(SubSeq(out, last - 14, last)),
            ack |-> tail[2]]
      Unless(ok, error) == IF ok THEN {} ELSE {error}
  IN  [fields |-> f,
       errors |-> s.errors
         \cup Unless(f.sof = 0, "SOF not dominant")
         \cup Unless(out[14] = 0 /\ out[15] = 0, "IDE/r0 not dominant")
         \cup Unless(f.crc_ok, "CRC mismatch")
         \cup Unless(tail[1] = 1, "CRC delimiter not recessive")
         \cup Unless(tail[3] = 1, "ACK delimiter not recessive")
         \cup Unless(SubSeq(tail, 4, 10) = Ones(7), "EOF not 7 recessive")]

=============================================================================
