---------------------------- MODULE MCCandidates ----------------------------
EXTENDS CandidateSpec

LOCAL INSTANCE SequencesExt

Can == INSTANCE CanPrograms
Crc == INSTANCE CrcPrograms

(* Loops around words that stall, hold and sample, one-word bodies, counts  *)
(* of 0 and 1.                                                              *)
LoopA ==
  <<Word("PULL", <<>>), At(<<"bit", 0>>, Held("SHIFT_OUT", <<1, 0>>, 1)), Word("SHIFT_IN", <<0, 1, 1>>),
    To("REPEAT", <<3>>, <<"bit", 0>>), At(<<"edge", 0>>, Held("WAIT", <<1, 1>>, 1)),
    To("REPEAT", <<1>>, <<"edge", 0>>), At(<<"byte", 0>>, Word("PUSH", <<>>)),
    To("REPEAT", <<2>>, <<"byte", 0>>), Word("SET", <<1, 0>>)>>

LoopB ==
  <<Word("PULL", <<>>), Held("REPEAT_NEXT", <<3>>, 1), Held("SHIFT_OUT", <<1, 0>>, 1),
    Word("REPEAT_NEXT", <<0>>), Word("SHIFT_IN", <<0>>), Word("REPEAT_NEXT", <<2>>), Word("WAIT", <<1, 1>>),
    Word("REPEAT_NEXT", <<2>>), Word("PUSH", <<>>), Word("SET", <<1, 0>>)>>

LoopC ==
  <<Held("LOAD", <<3>>, 1), At(<<"bit", 0>>, Held("SHIFT_IN", <<0, 1, 1>>, 1)),
    HeldTo("DJNZ", <<>>, <<"bit", 0>>, 1), Word("LOAD", <<0>>), At(<<"edge", 0>>, Word("WAIT", <<1, 1>>)),
    To("DJNZ", <<>>, <<"edge", 0>>), Word("LOAD", <<2>>), At(<<"byte", 0>>, Word("PUSH", <<>>)),
    To("DJNZ", <<>>, <<"byte", 0>>)>>

LoopD ==
  <<Word("PULL", <<>>), Held("BURST_OUT", <<1, 0>>, 1), Word("BURST_OUT", <<>>), Word("SET", <<1, 1>>),
    Word("PUSH", <<2, 0>>), Word("BURST_IN", <<0>>)>>

(* The register carried on, LSB first: what goes out comes back. *)
LsbFirst ==
  <<At(<<"byte", 0>>, Word("PULL", <<>>))>>
    \o FlattenSeq([k \in 1 .. 8 |-> <<Word("SHIFT_OUT", <<>>), Word("SHIFT_IN", <<0>>)>>])
    \o <<To("REPEAT", <<4>>, <<"byte", 0>>)>>

(* Identifiers with a run of five ending on each bit, of either level, runs *)
(* that a stuff bit begins, and none.                                       *)
MCIdents == {0, 31, 62, 64, 120, 248, 256, 380, 496, 527, 992, 1024, 1054, 1984}

Rivalled == {0, 2047, 1443, 1365}

MCPayloads == {<<0, 0, 0, 1>>, <<128, 0, 0, 0>>, <<255, 255, 255, 255>>, <<18, 90, 165, 195>>}

MCFrames == {<<291, 90>>, <<0, 0>>, <<2047, 255>>, <<1443, 165>>, <<9, 0>>}

NoJob ==
  [tx |-> <<>>, bits |-> <<>>, line |-> <<>>, rival |-> <<>>, delay |-> 0, frames |-> <<>>, joined |-> 0,
   heard |-> <<>>]

Header(ident) == <<ident \div 16, (ident % 16) * 16>>

Identified(ident) == <<0>> \o Reference!bits_of(ident, 11)

ArbitrationJobs == {[NoJob EXCEPT !.tx = Header(i), !.bits = Identified(i), !.line = Identified(i)] : i \in Rivalled}

StuffingJobs ==
  {[NoJob EXCEPT !.tx = Header(i), !.bits = Identified(i), !.line = Reference!stuff(Identified(i))] : i \in MCIdents}

PolyBytes(generator, width) ==
  LET aligned == generator * 2^(16 - width) IN <<aligned % 256, aligned \div 256>>

CrcJobs(preset, generator, width) ==
  {[NoJob EXCEPT !.tx = preset \o bytes,
                 !.bits = Reference!bits_of(Reference!Crc(Reference!bytes_of(bytes), generator, width), width)] :
     bytes \in MCPayloads}

-----------------------------------------------------------------------------
(* What a receiver is sent, whole or with a bit wrong, and hands over. *)
Whole == 256

Data(bits) == [k \in DOMAIN bits |-> <<bits[k], 2>>]

Residue == <<<<0, Whole>>, <<0, Whole>>>>

Sent(line, heard) == [line |-> line, wrong |-> 0, missed |-> FALSE, heard |-> heard]

(* A frame of a DLC that may say more bytes than there are. *)
Stream(ident, dlc, data) ==
  LET bits == Frames!header_bits(ident, dlc) \o Reference!bytes_of(data)
  IN  bits \o Reference!bits_of(Reference!crc15(bits), 15)

Good(ident, dlc, data) ==
  LET bits == Stream(ident, dlc, data) IN Sent(Reference!stuff(bits), Data(bits) \o Residue)

(* The first stuff bit past one of the bus's bits left out. *)
Unstuffed(ident, data, after) ==
  LET line == Frames!stuffed_with_flags(Stream(ident, 1, data))
      k == CHOOSE k \in DOMAIN line : k > after /\ line[k][2] /\ \A j \in after + 1 .. k - 1 : ~line[j][2]
      heard == SelectSeq(SubSeq(line, 1, k - 1), LAMBDA b : ~b[2])
      left == SelectSeq([j \in DOMAIN line |-> <<line[j][1], j = k>>], LAMBDA b : ~b[2])
  IN  [Sent([j \in DOMAIN left |-> left[j][1]],
            [j \in DOMAIN heard |-> <<heard[j][1], 2>>] \o <<<<0, Whole>>>>) EXCEPT !.wrong = k]

(* A dominant CRC delimiter. *)
Misformed(ident, data) ==
  LET bits == Stream(ident, 1, data)
      line == Append(Reference!stuff(bits), 0)
  IN  [Sent(line, Data(bits) \o <<<<0, Whole>>>>) EXCEPT !.wrong = Len(line)]

Missed(f) == [f EXCEPT !.missed = TRUE, !.heard = <<>>]

POLY == <<50, 139>>

Receives(frames) ==
  [NoJob EXCEPT !.tx = POLY, !.frames = frames, !.heard = FlattenSeq([k \in DOMAIN frames |-> frames[k].heard])]

(* A candidate's destuffed bytes, and what the last push takes with the two *)
(* bits left: the lane keeps the byte before, the accumulator was cleared.  *)
CandidateReceives(c, f) ==
  LET bits == Reference!stream(f[1], <<f[2]>>, 0)
      bytes == [k \in 1 .. 5 |-> <<Reference!Spelled(SubSeq(bits, 8 * k - 7, 8 * k)), Whole>>]
      rest == Reference!Spelled(SubSeq(bits, IF c = "crc_Lanes" THEN 35 ELSE 41, 42))
  IN  [Receives(<<Sent(Reference!stuff(bits), Append(bytes, <<rest, Whole>>))>>) EXCEPT
         !.tx = IF c = "crc_Acc" THEN <<1, 0>> ELSE <<>>]

-----------------------------------------------------------------------------
Zeros(n) == [k \in 1 .. n |-> 0]

(* A frame's host bytes: the polynomial, then its bits cut into bytes, the  *)
(* first byte short; with the identifier in the program, the data a bit     *)
(* late.                                                                    *)
Bytes(bits) ==
  LET padded == bits \o Zeros((8 - (Len(bits) % 8)) % 8)
  IN  [k \in 1 .. Len(padded) \div 8 |-> Reference!Spelled(SubSeq(padded, 8 * k - 7, 8 * k))]

Transmits(ident, data, delay) ==
  LET bits == Stream(ident, Len(data), data)
  IN  [NoJob EXCEPT !.line = Reference!stuff(bits), !.delay = delay,
         !.tx = POLY \o Bytes(SubSeq(bits, 1, 3) \o Zeros(5) \o SubSeq(bits, 4, Len(bits) - 15))]

(* Alone, or against the frame of a rival up to its answer. *)
Contends(ident, data, rival) ==
  LET bits == Reference!bytes_of(data)
  IN  [Transmits(ident, data, 0) EXCEPT
         !.tx = POLY \o Bytes(<<bits[1]>> \o Zeros(7) \o Append(Tail(bits), 0)),
         !.rival = IF rival = ident THEN <<>> ELSE Reference!stuff(Stream(rival, 1, <<51>>)) \o <<1, 0>>]

-----------------------------------------------------------------------------
Source(c, k, clocks, lines, jobs) ==
  [candidate |-> c, kind |-> k, cell |-> clocks, lines |-> lines, written |-> lines, flags |-> FALSE, jobs |-> jobs]

Repeat(c, lines) == Source(c, "repeat", 1, lines, {NoJob})
Arb(c) == Source(c, "arbitration", 8, Can!arbitration(c), ArbitrationJobs)
Stuff(c, loop) == Source(c, "stuffing", Can!UNROLLED[c][1], Can!stuff_program(c, loop), StuffingJobs)
Tree(c, generator, width, form) ==
  Source(c, "crc", 1, Crc!tree_program(generator, width, form), CrcJobs(<<>>, generator, width))
Acc(emit) == Source("crc_Acc", "crc", 1, Crc!acc_program(emit), CrcJobs(PolyBytes(Crc!POLY15, 15), Crc!POLY15, 15))
Receiver(c) == Source(c, "receiving", 8, Crc!rx_program(c), {CandidateReceives(c, f) : f \in MCFrames})
Window(c) == Source(c, "window", 1, LsbFirst, {[NoJob EXCEPT !.tx = bytes] : bytes \in MCPayloads})

Tx(dlc, n, o, jobs) == [Source("core", "frame", n, Frames!tx(dlc, n, o), jobs) EXCEPT !.flags = o.ackflag]
Contest(lines, jobs) == Source("core", "contest", 8, lines, jobs)
Rx(n, lines, jobs) == Source("core", "receiving", n, lines, jobs)

PlainTx == Frames!Plain_tx(8)
Checking == [Frames!Plain_rx EXCEPT !.check = TRUE, !.drain = TRUE]

Rounds ==
  <<Repeat("repeat_A", LoopA), Repeat("repeat_B", LoopB),
   Repeat("repeat_C", LoopC), Repeat("repeat_D", LoopD),
   Arb("can_A"), Arb("can_B"), Arb("can_Bc"),
   Arb("can_AB"), Arb("can_ABc"),
   Stuff("can_A", FALSE), Stuff("can_C", FALSE),
   Stuff("can_D", FALSE), Stuff("can_AC", FALSE),
   Stuff("can_AD", FALSE), Stuff("can", TRUE),
   Stuff("can_A", TRUE), Stuff("can_C", TRUE),
   Stuff("can_D", TRUE), Stuff("can_AC", TRUE),
   Stuff("can_AD", TRUE),
   Tree("crc_W32", Crc!POLY15, 15, "wide"), Tree("crc_W16", Crc!POLY8, 8, "wide"),
   Tree("crc_Pin16", Crc!POLY15, 15, "pin"), Tree("crc_Pin8", Crc!POLY8, 8, "pin"),
   Tree("crc_Lanes", Crc!POLY8, 8, "lanes"),
   Acc(TRUE), Acc(FALSE),
   Receiver("crc_Lanes"), Receiver("crc_Acc"),
   Window("crc_W16"), Window("crc_W32")>>

(* Whole frames: lengths, bit times, a bus read back late, answers; a rival *)
(* that wins on the first and on the last bit, and one that loses; frames   *)
(* back to back, joined late, with each error.                              *)
WholeFrames ==
  <<Tx(1, 8, PlainTx, {Transmits(1443, <<90>>, 1), Transmits(2047, <<255>>, 0), Transmits(0, <<0>>, 0)}),
   Tx(8, 8, PlainTx, {Transmits(124, <<15, 240, 15, 240, 0, 255, 85, 170>>, 0)}),
   Tx(0, 10, Frames!Plain_tx(10), {Transmits(1985, <<>>, 0)}),
   Tx(1, 8, [PlainTx EXCEPT !.crc_pin = 1, !.ack = 6], {Transmits(291, <<90>>, 2)}),
   Tx(1, 8, [PlainTx EXCEPT !.loop = TRUE, !.ackflag = TRUE], {Transmits(582, <<129>>, 0)}),
   Contest(Frames!tx_arbitration(1443, 1), {Contends(1443, <<90>>, rival) : rival \in {1443, 419, 1442, 1955}}),
   Contest(Frames!arb_retry(1443, 1), {Contends(1443, <<90>>, rival) : rival \in {419, 1442}}),
   Rx(8, Frames!rx_crc, {Receives(<<Good(1443, 1, <<90>>)>>), Receives(<<Good(124, 1, <<0>>)>>)}),
   Rx(10, Frames!rx(42, 10, Frames!Plain_rx), {Receives(<<Good(2047, 1, <<255>>)>>)}),
   Rx(8, Frames!rx(42, 8, [Frames!Plain_rx EXCEPT !.loop = TRUE, !.idle = TRUE]),
      {Receives(<<Good(1443, 1, <<90>>), Good(124, 1, <<0>>)>>),
       [Receives(<<Missed(Good(752, 1, <<240>>)), Good(1443, 1, <<90>>)>>) EXCEPT !.joined = 161]}),
   Rx(8, Frames!rx_dlc(FALSE),
      {Receives(<<Good(0, 0, <<>>)>>), Receives(<<Good(2047, 3, <<255, 0, 90>>)>>),
       Receives(<<Good(1366, 6, <<0, 0, 0, 0, 0, 0>>)>>),
       Receives(<<Good(291, 9, <<0, 37, 74, 111, 148, 185, 222, 3>>)>>)}),
   [Rx(8, Frames!rx(42, 8, [Checking EXCEPT !.patched = TRUE]),
       {Receives(<<bad, Good(243, 1, <<60>>)>>) :
          bad \in {Unstuffed(2047, <<255>>, 0), Unstuffed(1443, <<0>>, 20), Misformed(1443, <<90>>)}})
    EXCEPT !.written = Frames!rx(42, 8, Checking)]>>

MCSources == Rounds \o WholeFrames

(* Every program the bench runs is one its assembler accepts, as written. *)
ASSUME ProgramsAssemble == \A p \in DOMAIN MCSources : Assembles(MCSources[p].candidate, MCSources[p].written)

MCLevels == {[p \in 0 .. 3 |-> CASE p = 0 -> a [] p = 1 -> b [] OTHER -> 1] : a \in BIT, b \in BIT}

=============================================================================
