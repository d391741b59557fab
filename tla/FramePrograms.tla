--------------------------- MODULE FramePrograms ---------------------------
(***************************************************************************)
(* The generators of experiments/combined/gen.py and can_stress/gen.py:     *)
(* whole CAN frames on the ISA as it is, of any length and bit time, sent,  *)
(* arbitrated for and received.  Labels no word jumps to are left out.      *)
(***************************************************************************)
EXTENDS Assembler

LOCAL INSTANCE SequencesExt

Reference == INSTANCE CanReference

MAXHOLD == 32       \* the most clocks a word takes

Least(a, b) == IF a < b THEN a ELSE b

Most(a, b) == IF a > b THEN a ELSE b

Label(name) == <<name, 0>>

Labelled(label, lines) == <<At(label, Head(lines))>> \o Tail(lines)

Taking(line, clocks) == [line EXCEPT !.delay = clocks - 1]

(* NOPs taking some clocks, none for 0. *)
pad(clocks) ==
  [k \in 1 .. (clocks + MAXHOLD - 1) \div MAXHOLD |->
     Taking(Word("NOP", <<>>), Least(MAXHOLD, clocks - MAXHOLD * (k - 1)))]

(* A word taking some clocks: its own delay, then NOPs. *)
hold(line, clocks) ==
  LET first == Least(MAXHOLD, clocks) IN <<Taking(line, first)>> \o pad(clocks - first)

(* A JMP that arrives some clocks after its first word issues. *)
jump(target, clocks) ==
  LET ahead == MAXHOLD * ((clocks - 1) \div MAXHOLD)
  IN  Append(pad(ahead), HeldTo("JMP", <<>>, target, clocks - ahead - 1))

(* A JMP right after a SKIP is one word: what it cannot hold its target pads. *)
guarded(target, clocks) == HeldTo("JMP", <<>>, target, Least(MAXHOLD, clocks) - 1)

beyond(clocks) == clocks - Least(MAXHOLD, clocks)

(* Three quarters of n, the half to the even side. *)
Sampling(n) ==
  LET q == (3 * n) \div 4
  IN  CASE (3 * n) % 4 < 2 -> q [] (3 * n) % 4 = 2 -> q + (q % 2) [] OTHER -> q + 1

tx_sample(n) == IF n = 8 THEN 4 ELSE Least(Most(4, Sampling(n)), n - 4)

rx_sample(n) == IF n = 8 THEN 7 ELSE Least(Most(5, Sampling(n) + 1), n - 1)

-----------------------------------------------------------------------------
(* The words of a bit before its sample: b1 to b3. *)
DATA(crc_pin) == <<Held("SHIFT_OUT", <<>>, 1), Word("ACC_CRC", <<crc_pin>>)>>

PULLED(crc_pin) == <<Word("SHIFT_OUT", <<>>), Word("PULL", <<>>), Word("ACC_CRC", <<crc_pin>>)>>

CRC == <<Held("ACC_OUT", <<0>>, 2)>>

SampleWord == Word("SHIFT_IN", <<0>>)

FiveOf(level) == Word("SKIP_NORUN", <<5, level>>)

Put(level) == Word("SET", <<0, level>>)

(* A cell is a name and a number; its first word and its two stuff bits.    *)
Begins(p) == <<p[1], p[2], "bit">>

Dominant(p) == <<p[1], p[2], "dominant">>

Recessive(p) == <<p[1], p[2], "recessive">>

Ends(p) == <<p[1], p[2], "end">>

(* A stuff bit whose first clock is the target of a guarded JMP. *)
StuffBit(label, late, level, clocks) == Labelled(label, pad(late) \o hold(Put(level), clocks))

(* A checked bit: the bit, its sample, the run test both ways, the stuff    *)
(* bit; the next cell a bit later on every path, or the REPEAT one clock    *)
(* before it.                                                               *)
tx_cell(p, before, nxt, last, n) ==
  LET a == tx_sample(n) - 4
      over == IF last THEN 1 ELSE 0
  IN  Labelled(Begins(p), before) \o pad(a)
        \o <<SampleWord, FiveOf(1), guarded(Dominant(p), n - 5 - a), FiveOf(0), guarded(Recessive(p), n - 6 - a)>>
        \o jump(nxt, n - 6 - a - over)
        \o StuffBit(Dominant(p), beyond(n - 5 - a), 0, 3 + a)
        \o hold(SampleWord, n - 4 - a - over) \o <<To("JMP", <<>>, nxt)>>
        \o StuffBit(Recessive(p), beyond(n - 6 - a), 1, 3 + a) \o hold(SampleWord, n - 3 - a - over)

Setup ==
  <<Word("CONFIG", <<1, 1>>), Word("CONFIG", <<0, 1>>),
    Word("PULL", <<>>), Word("ACC_LOAD", <<>>), Word("PULL", <<>>), Word("ACC_LOAD", <<>>)>>

Gap(n, bits) ==
  LET gap == <<"gap", 0>>
  IN  Labelled(gap, pad(n - 1)) \o <<To("REPEAT", <<bits>>, gap)>>

(* Eight cells with the next byte's PULL in the first, run some times. *)
Body(crc_pin, n, times) ==
  LET end == <<"end", 0>>
  IN  FlattenSeq([k \in 1 .. 8 |->
        tx_cell(<<"b", k>>, IF k = 1 THEN PULLED(crc_pin) ELSE DATA(crc_pin),
                IF k = 8 THEN end ELSE Begins(<<"b", k + 1>>), k = 8, n)])
        \o <<At(end, To("REPEAT", <<times>>, Begins(<<"b", 1>>)))>>

CrcCell == <<"crc", 0>>

(* The CRC, its delimiter, the ACK slot with its sample, the ACK delimiter. *)
CrcField(n) ==
  tx_cell(CrcCell, CRC, Ends(CrcCell), TRUE, n)
    \o <<At(Ends(CrcCell), To("REPEAT", <<15>>, Begins(CrcCell)))>> \o hold(Put(1), n)

Answer(n, ack) == pad(ack - 1) \o hold(SampleWord, n - ack + 1) \o hold(Word("PUSH", <<>>), n)

(* acc shifted out on a spare pin. *)
Clear ==
  LET clr == <<"clr", 0>> IN <<At(clr, Word("ACC_OUT", <<3>>)), To("REPEAT", <<16>>, clr)>>

(* Eleven recessive samples in a row, one every 8 clocks. *)
idle_wait(label) ==
  LET one == <<Held("SHIFT_IN", <<0>>, 6), Word("SKIP", <<0, 1>>), To("JMP", <<>>, label)>>
  IN  <<At(label, Held("SHIFT_IN", <<0>>, 5)), Word("SKIP_RUN", <<8, 1>>), To("JMP", <<>>, label)>>
        \o one \o one \o one

-----------------------------------------------------------------------------
(* The transmitters.  A frame that was not acknowledged goes again from the *)
(* host's next bytes, with ackflag after an error flag.                     *)
frame == <<"frame", 0>>

Unflagged(n, ack) == Answer(n, ack)

Flagged == pad(3) \o <<SampleWord, Held("SKIP", <<0, 0>>, 3), To("JMP", <<>>, <<"aerr", 0>>)>> \o hold(Word("PUSH", <<>>), 8)

tx(dlc, n, o) ==
  LET lead == <<"lead", 0>>
  IN  Setup
        \o <<At(frame, SampleWord), Word("PULL", <<>>), At(lead, Held("SHIFT_OUT", <<>>, 1)),
             Word("ACC_CRC", <<o.crc_pin>>)>>
        \o hold(SampleWord, n - 4) \o <<To("REPEAT", <<2>>, lead)>>
        \o Body(o.crc_pin, n, 2 + dlc)
        \o tx_cell(<<"tail", 0>>, DATA(o.crc_pin), Begins(CrcCell), FALSE, n)
        \o CrcField(n) \o (IF o.ackflag THEN Flagged ELSE Unflagged(n, o.ack)) \o Gap(n, 10)
        \o (IF o.loop THEN <<>> ELSE <<Word("SKIP", <<0, 0>>)>>) \o <<To("JMP", <<>>, frame)>>
        \o IF o.ackflag
             THEN Labelled(<<"aerr", 0>>, hold(Put(0), 6 * n)) \o <<Put(1)>> \o idle_wait(<<"aidle", 0>>)
                    \o <<Word("PUSH", <<>>), To("JMP", <<>>, frame)>>
             ELSE <<>>

Plain_tx(n) == [crc_pin |-> 0, ack |-> tx_sample(n), ackflag |-> FALSE, loop |-> FALSE]

tx_unopposed(dlc) == tx(dlc, 8, Plain_tx(8))

(* The header's bits with its stuff bits, each with whether it is one. *)
header_bits(ident, dlc) ==
  <<0>> \o Reference!bits_of(ident, 11) \o <<0, 0, 0>> \o Reference!bits_of(dlc, 4)

stuffed_with_flags(bits) ==
  LET Sent(s, b) ==
        LET run == IF b = s.last THEN s.run + 1 ELSE 1
        IN  IF run = 5
              THEN [out |-> s.out \o <<<<b, FALSE>>, <<1 - b, TRUE>>>>, last |-> 1 - b, run |-> 1]
              ELSE [out |-> Append(s.out, <<b, FALSE>>), last |-> b, run |-> run]
  IN  Reference!Through(Sent, [out |-> <<>>, last |-> 2, run |-> 0], bits).out

(* A bit the program knows: a recessive one that reads dominant is lost. *)
static_cell(bit, is_stuff) ==
  <<Held("SET", <<0, bit>>, IF is_stuff THEN 2 ELSE 1)>>
    \o (IF is_stuff THEN <<>> ELSE <<Word("ACC_CRC", <<0>>)>>)
    \o IF bit = 1 THEN <<SampleWord, Held("SKIP", <<0, 1>>, 3), To("JMP", <<>>, <<"lost", 0>>)>>
                   ELSE <<Held("SHIFT_IN", <<0>>, 4)>>

Arbitrating(ident, dlc, entry, losing) ==
  LET header == stuffed_with_flags(header_bits(ident, dlc))
  IN  Setup \o <<At(frame, SampleWord), Word("PULL", <<>>)>> \o entry
        \o FlattenSeq([k \in DOMAIN header |-> static_cell(header[k][1], header[k][2])])
        \o Body(0, 8, dlc) \o CrcField(8) \o Answer(8, 4) \o Gap(8, 10)
        \o <<Word("SKIP", <<0, 0>>), To("JMP", <<>>, frame), To("JMP", <<>>, <<"done", 0>>)>>
        \o Labelled(<<"lost", 0>>, losing) \o <<At(<<"done", 0>>, Word("NOP", <<>>))>>

tx_arbitration(ident, dlc) == Arbitrating(ident, dlc, <<>>, <<Word("PUSH", <<>>), Word("PUSH", <<>>)>>)

(* A loss handled in the program, with the byte still in shift_reg. *)
arb_retry(ident, dlc) ==
  LET retry == <<"retry", 0>>
  IN  Arbitrating(ident, dlc, <<At(retry, Word("NOP", <<>>))>>,
                  <<Word("PUSH", <<>>)>> \o Clear \o idle_wait(<<"listen", 0>>) \o <<To("JMP", <<>>, retry)>>)

-----------------------------------------------------------------------------
(* The receivers. *)
err == <<"err", 0>>

(* Where a stuff error goes: out of the body, which the assembler refuses,  *)
(* so that the line it is given goes to the REPEAT, and is patched.         *)
ErrorOf(p, o) == IF o.patched THEN err ELSE Ends(p)

(* A checked bit as a body: sample, CRC, PUSH, the run test both ways, and  *)
(* the stuff bit's sample a bit later.                                      *)
rx_cell(p, count, n, o) ==
  LET long == n - 4 > MAXHOLD
      s == Dominant(p)
      t == IF long THEN Recessive(p) ELSE s
      Equal(level) == <<Word("SKIP_NORUN", <<2, level>>), To("JMP", <<>>, ErrorOf(p, o))>>
      sampled == IF o.check THEN <<SampleWord>> \o Equal(0) \o Equal(1) \o pad(n - 4)
                            ELSE hold(SampleWord, n - 1)
  IN  <<At(Begins(p), SampleWord), Word("ACC_CRC", <<0>>), Word("PUSH", <<>>),
        FiveOf(1), guarded(s, n - 4), FiveOf(0), guarded(t, n - 5)>>
        \o jump(Ends(p), n - 6)
        \o (IF long THEN <<At(s, Word("NOP", <<>>))>> \o Labelled(t, pad(n - 5 - MAXHOLD) \o sampled)
                     ELSE Labelled(s, sampled))
        \o <<At(Ends(p), To("REPEAT", <<count>>, Begins(p)))>>

(* Bodies of at most 32 runs. *)
rx_cells(total, n, o) ==
  FlattenSeq([k \in 1 .. (total + 31) \div 32 |-> rx_cell(<<"c", k>>, Least(32, total - 32 * (k - 1)), n, o)])

Plain_rx == [loop |-> FALSE, idle |-> FALSE, check |-> FALSE, drain |-> FALSE, patched |-> FALSE]

(* The acknowledgement, the rest of the frame, the CRC's residue. *)
Ending(n, again) ==
  hold(Put(0), n) \o hold(Put(1), n) \o Gap(n, IF again THEN 9 ELSE 10)
    \o <<Word("ACC_PUSH", <<>>), Word("ACC_PUSH", <<>>)>>

listen == <<"listen", 0>>

(* Six dominant bits; rc drained, whatever run the body was left in; acc    *)
(* cleared; the bus idle again.                                             *)
ErrorFlag(o) ==
  LET drain == <<"drain", 0>>
  IN  <<At(err, Put(0)), Held("SHIFT_IN", <<0>>, 4)>> \o [k \in 1 .. 7 |-> Held("SHIFT_IN", <<0>>, 5)]
        \o <<Put(1), Word("PUSH", <<>>)>>
        \o (IF o.drain THEN <<At(drain, Word("NOP", <<>>)), To("REPEAT", <<1>>, drain)>> ELSE <<>>)
        \o Clear \o <<To("JMP", <<>>, listen)>>

rx(bits, n, o) ==
  LET idle == o.idle \/ o.check
      again == o.loop \/ o.check
      sof == <<"sof", 0>>
  IN  Setup
        \o (IF idle THEN Append(idle_wait(listen), At(sof, SampleWord)) ELSE <<At(listen, SampleWord)>>)
        \o hold(Word("WAIT", <<0, 0>>), rx_sample(n) - 2)
        \o rx_cells(bits, n, o)
        \o (IF o.check THEN <<SampleWord, Word("SKIP", <<0, 1>>), To("JMP", <<>>, err)>> ELSE hold(SampleWord, 2))
        \o Ending(n, again)
        \o (IF again THEN <<To("JMP", <<>>, IF idle THEN sof ELSE listen)>> ELSE <<>>)
        \o (IF o.check THEN ErrorFlag(o) ELSE <<>>)

rx_crc == rx(42, 8, Plain_rx)

(* A bit whose value decides what follows, by the sample or by the run. *)
tree_cell(p, zero, one) ==
  <<At(Begins(p), SampleWord), Word("ACC_CRC", <<0>>), Word("PUSH", <<>>),
    FiveOf(1), HeldTo("JMP", <<>>, Recessive(p), 3), FiveOf(0), HeldTo("JMP", <<>>, Dominant(p), 2),
    Word("SKIP", <<0, 1>>), HeldTo("JMP", <<>>, zero, 1), HeldTo("JMP", <<>>, one, 1),
    At(Recessive(p), Held("SHIFT_IN", <<0>>, 6)), To("JMP", <<>>, one),
    At(Dominant(p), Held("SHIFT_IN", <<0>>, 6)), To("JMP", <<>>, zero)>>

(* The DLC's bits as a tree into a chain of loops, entered where the bytes  *)
(* left are: eight whatever the other three bits say, when the first is 1.  *)
rx_dlc(loop) ==
  LET Tree(bit, value) == <<"dlc", 8 * bit + value>>      \* the bits above it
      Chain(bytes) == <<"bytes", bytes>>
      Eight == <<"big", 0>>
      Branch(bit, value) ==
        LET To_(v) == Begins(IF bit = 0 THEN Chain(v) ELSE Tree(bit - 1, v))
        IN  tree_cell(Tree(bit, value), To_(2 * value), To_(2 * value + 1))
  IN  Setup \o <<At(listen, SampleWord), Held("WAIT", <<0, 0>>, 4)>>
        \o rx_cell(<<"h", 0>>, 15, 8, Plain_rx)
        \o tree_cell(Tree(3, 0), Begins(Tree(2, 0)), Begins(Eight))
        \o Branch(2, 0) \o Branch(1, 0) \o Branch(1, 1)
        \o FlattenSeq([k \in 1 .. 4 |-> Branch(0, k - 1)])
        \o rx_cell(Eight, 3, 8, Plain_rx)
        \o FlattenSeq([k \in 1 .. 8 |-> rx_cell(Chain(9 - k), 8, 8, Plain_rx)])
        \o rx_cell(Chain(0), 15, 8, Plain_rx)
        \o hold(SampleWord, 2) \o Ending(8, loop)
        \o IF loop THEN <<To("JMP", <<>>, listen)>> ELSE <<>>

=============================================================================
