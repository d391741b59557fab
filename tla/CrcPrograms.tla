---------------------------- MODULE CrcPrograms ----------------------------
(***************************************************************************)
(* experiments/crc/gen.py: a CRC out of four bytes, in each candidate's     *)
(* words, and the receivers that destuff a frame into bytes.                *)
(***************************************************************************)
EXTENDS Assembler

LOCAL INSTANCE SequencesExt

POLY15 == 17817     \* 0x4599

POLY8 == 7

(* Taps one place off. *)
taps_shifted(generator, width) ==
  SelectSeq([k \in 1 .. width |-> k - 1], LAMBDA i : Bit(generator, width - i) = 1)

(* The i such that the feedback i + 1 bits ago is a term, in order. *)
taps(generator, width) ==
  SelectSeq([k \in 1 .. width |-> k - 1], LAMBDA i : Bit(generator, width - 1 - i) = 1)

-----------------------------------------------------------------------------
(* A cell of the CRC: a data byte's, 0 to 3, or the emission's. *)
EMISSION == 4

Cell(p) == <<"cell", p>>

Met(p) == <<"met", p>>

Even(p, j) == <<"even", p, j>>

Odd(p, j) == <<"odd", p, j>>

(* A term of the parity, asked whether it holds a level. *)
Asked(term, level) == [term EXCEPT !.args[2] = level]

(* Two paths, crossed at a 1: a term met with even parity so far, or odd. *)
even(terms, p, j) ==
  <<At(Even(p, j), Asked(terms[j], 0))>>
    \o IF j = Len(terms) THEN <<Word("SET", <<1, 1>>), To("JMP", <<>>, Met(p))>>
                         ELSE <<To("JMP", <<>>, Odd(p, j + 1))>>

odd(terms, p, j) ==
  CASE j = Len(terms) -> <<At(Odd(p, j), Asked(terms[j], 1)), Word("SET", <<1, 1>>)>>
    [] j = 1 -> <<>>
    [] OTHER -> <<At(Odd(p, j), Asked(terms[j], 0)), To("JMP", <<>>, Even(p, j + 1))>>

(* Pin 1, 0 on entry, takes the terms' parity. *)
parity(terms, p) ==
  FlattenSeq([j \in DOMAIN terms |-> even(terms, p, j)]) \o FlattenSeq([j \in DOMAIN terms |-> odd(terms, p, j)])

-----------------------------------------------------------------------------
(* The window's word for a tap, the input's, and where samples go, by form. *)
Window(form, i) ==
  CASE form = "wide"  -> Word("SKIP", <<2 * i + 1, 0>>)
    [] form = "pin"   -> Word("SKIP", <<i, 0>>)
    [] form = "lanes" -> Word("SKIP1", <<i, 0>>)

Input(form) == IF form = "pin" THEN Word("SKIP_PIN", <<0, 0>>) ELSE Word("SKIP", <<0, 0>>)

FeedIn(form, pin) == Word(IF form = "lanes" THEN "SHIFT_IN1" ELSE "SHIFT_IN", <<pin>>)

DataByte(form, window, b) ==
  <<Word("PULL", <<>>), At(Cell(b), Word("SHIFT_OUT", <<1, 0>>))>>
    \o (IF form = "pin" THEN <<>> ELSE <<Word("SHIFT_IN", <<0>>)>>)
    \o parity(<<Input(form)>> \o window, b)
    \o <<At(Met(b), FeedIn(form, 1)), To("REPEAT", <<8>>, Cell(b))>>

(* A 0 in, the tree, the top bit on pin 1, a 0 back. *)
Emission(form, window, width) ==
  LET tree == parity(IF form = "pin" THEN window ELSE <<Input(form)>> \o window, EMISSION)
      cleared == [tree EXCEPT ![1] = At(Cell(EMISSION), [@ EXCEPT !.args = @ \o <<1, 0>>])]
  IN  (CASE form /= "pin" -> <<At(Cell(EMISSION), Word("SHIFT_IN", <<3, 1, 0>>))>> \o tree
         [] window[1].args[1] < 8 -> cleared
         [] OTHER -> <<At(Cell(EMISSION), Word("SET", <<1, 0>>))>> \o tree)
        \o <<At(Met(EMISSION), FeedIn(form, 3)), To("REPEAT", <<width>>, Cell(EMISSION))>>

tree_program(generator, width, form) ==
  LET ts == taps(generator, width)
      window == [k \in DOMAIN ts |-> Window(form, ts[k])]
  IN  <<Word("CONFIG", <<0, 1>>), Word("SET", <<3, 0>>)>>
        \o FlattenSeq([b \in 1 .. 4 |-> DataByte(form, window, b - 1)])
        \o Emission(form, window, width)

-----------------------------------------------------------------------------
LoadPoly == <<Word("PULL", <<>>), Word("ACC_LOAD", <<>>), Word("PULL", <<>>), Word("ACC_LOAD", <<>>)>>

AccByte(b) ==
  <<Word("PULL", <<>>), At(Cell(b), Word("SHIFT_OUT", <<>>)), Word("ACC_IN", <<0>>),
    To("REPEAT", <<8>>, Cell(b))>>

acc_program(emit) ==
  <<Word("CONFIG", <<0, 1>>)>> \o LoadPoly \o FlattenSeq([b \in 1 .. 4 |-> AccByte(b - 1)])
    \o IF emit THEN <<At(Cell(EMISSION), Word("ACC_OUT", <<1>>)), To("REPEAT", <<15>>, Cell(EMISSION))>>
               ELSE <<Word("ACC_PUSH", <<>>), Word("ACC_PUSH", <<>>)>>

-----------------------------------------------------------------------------
(* The destuffing receivers: a cell is a data bit of eight clocks. *)
Stuffed(n) == <<"stuffed", n>>

Sampled(c) == IF c = "crc_Lanes" THEN Word("SHIFT_IN01", <<0>>) ELSE Word("SHIFT_IN", <<0>>)

Gathered(c) == IF c = "crc_Lanes" THEN <<>> ELSE <<Word("ACC_IN", <<0>>)>>

Pushed(c) == <<Word(IF c = "crc_Lanes" THEN "PUSH1" ELSE "ACC_PUSH", <<>>)>>

(* A cell that leaves its sample's own clock out of the count. *)
rx_cell_short(c, n, push, nxt, cycles_to_next) ==
  LET words == Gathered(c) \o (IF push THEN Pushed(c) ELSE <<>>)
      a == Len(words) + 1
  IN  <<At(Cell(n), Sampled(c))>> \o words
        \o <<Word("SKIP_NORUN", <<5, 1>>), HeldTo("JMP", <<>>, Stuffed(n), 7 - a),
             Word("SKIP_NORUN", <<5, 0>>), HeldTo("JMP", <<>>, Stuffed(n), 6 - a),
             HeldTo("JMP", <<>>, nxt, 6 - a - cycles_to_next)>>

(* The bit, the byte if it is one, the run test both ways: the holds put the *)
(* stuff bit's sample, or the next bit's, eight clocks after this one.       *)
rx_cell(c, n, push, nxt, cycles_to_next) ==
  LET words == Gathered(c) \o (IF push THEN Pushed(c) ELSE <<>>)
      a == Len(words) + 2
  IN  <<At(Cell(n), Sampled(c))>> \o words
        \o <<Word("SKIP_NORUN", <<5, 1>>), HeldTo("JMP", <<>>, Stuffed(n), 7 - a),
             Word("SKIP_NORUN", <<5, 0>>), HeldTo("JMP", <<>>, Stuffed(n), 6 - a),
             HeldTo("JMP", <<>>, nxt, 6 - a - cycles_to_next)>>

rx_bit(c, n, push, nxt) ==
  LET looped == nxt[1] /= "cell"
  IN  rx_cell(c, n, push, nxt, IF looped THEN 1 ELSE 0)
        \o <<At(Stuffed(n), Held("SHIFT_IN", <<0>>, IF looped THEN 6 ELSE 7))>>

rx_program(c) ==
  LET again == <<"again", 0>>
      delimiter == <<"delimiter", 0>>
      gap == <<"gap", 0>>
  IN  (IF c = "crc_Lanes" THEN <<>> ELSE LoadPoly)
        \o <<Word("CONFIG", <<1, 1>>), Word("CONFIG", <<0, 1>>), Word("SHIFT_IN", <<0>>),
             Held("WAIT", <<0, 0>>, 4)>>
        \o FlattenSeq([k \in 1 .. 8 |-> rx_bit(c, k - 1, k = 8, IF k = 8 THEN again ELSE Cell(k))])
        \o <<At(again, To("REPEAT", <<5>>, Cell(0)))>>
        \o rx_bit(c, 40, FALSE, Cell(41))
        \o rx_cell(c, 41, TRUE, delimiter, 0)
        \o <<At(Stuffed(41), Held("SHIFT_IN", <<0>>, 7)), At(delimiter, Held("SHIFT_IN", <<0>>, 1)),
             Held("SET", <<0, 0>>, 7), Held("SET", <<0, 1>>, 7),
             At(gap, Held("NOP", <<>>, 6)), To("REPEAT", <<10>>, gap)>>

=============================================================================
