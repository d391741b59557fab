----------------------------- MODULE IsaCodec -----------------------------
(***************************************************************************)
(* model/cpu.py's encode, decode and check_operands, driven by a table of   *)
(* instructions: isa.yaml's, or a candidate's.                              *)
(***************************************************************************)
EXTENDS IsaRows

CONSTANTS
  Table,        \* a row for each mnemonic
  First         \* the mnemonics decode comes to before the others

-----------------------------------------------------------------------------
(* What the assembler and the decoder both refuse. *)
InRange(value, o) == o.min <= value /\ value < 2^o.bits

(* The last rule: SHIFT_OUT's data and a side effect would both drive pin 0. *)
CheckOperands(i) ==
  LET spec == Table[i.op] IN
  /\ Len(i.args) = Len(spec.operands)
  /\ \A k \in DOMAIN i.args : InRange(i.args[k], spec.operands[k])
  /\ i.side /= NoSide => spec.side /\ \A k \in 1 .. 2 : InRange(i.side[k], PinValue[k])
  /\ i.op = "CONFIG" => /\ i.args[1] \in DOMAIN ConfigBits
                        /\ i.args[2] < 2^ConfigBits[i.args[1]]
  /\ i.delay \in 0 .. 31
  /\ i.op = "SHIFT_OUT" /\ i.side /= NoSide => i.side[1] /= 0

-----------------------------------------------------------------------------
Mask(o) == o.lsb .. o.lsb + o.bits - 1

(* A match that leaves the opcode out. *)
MatchesSelect(op, w) ==
  LET spec == Table[op] IN
  Field(w, spec.select.lsb, spec.select.bits) = spec.select.value

Matches(op, w) ==
  LET spec == Table[op] IN
  /\ spec.opcode = Field(w, 13, 3)
  /\ Field(w, spec.select.lsb, spec.select.bits) = spec.select.value

Unpack(operands, w) ==
  [k \in DOMAIN operands |-> Field(w, operands[k].lsb, operands[k].bits)]

HasSide(op, w) == Table[op].side /\ Bit(w, 7) = 1

(* Bits 6:4 taken as used whether or not bit 7 announces a side effect. *)
UsedBitsLoose(op, w) ==
  LET spec == Table[op] IN
  (UNION {Mask(spec.operands[k]) : k \in DOMAIN spec.operands})
    \cup Mask(spec.select)
    \cup (IF spec.side THEN 4 .. 7 ELSE {})

(* The operand bits a mnemonic gives a meaning to. *)
UsedBits(op, w) ==
  LET spec == Table[op] IN
  (UNION {Mask(spec.operands[k]) : k \in DOMAIN spec.operands})
    \cup Mask(spec.select)
    \cup (IF spec.side THEN {7} ELSE {})
    \cup (IF HasSide(op, w) THEN 4 .. 6 ELSE {})

Unpacked(op, w) ==
  [op    |-> op,
   args  |-> Unpack(Table[op].operands, w),
   delay |-> Field(w, 8, 5),
   side  |-> IF HasSide(op, w) THEN Unpack(PinValue, w) ELSE NoSide]

(* The rows that match a word: decode takes the first of them. *)
Claims(w) ==
  LET matching == {op \in DOMAIN Table : Matches(op, w)}
  IN  IF matching \cap First = {} THEN matching ELSE matching \cap First

Taken(w) == CHOOSE op \in Claims(w) : TRUE

(* decode raises for a word no row fits, for a bit no operand uses and for *)
(* an operand check_operands refuses.                                      *)
Decodable(w) ==
  /\ Claims(w) /= {}
  /\ LET op == Taken(w)
     IN  /\ {k \in 0 .. 7 : Bit(w, k) = 1} \subseteq UsedBits(op, w)
         /\ CheckOperands(Unpacked(op, w))

Decode(w) == Unpacked(Taken(w), w)

(* The sum of the operands' fields, each at its place. *)
Packed(values, operands) ==
  LET sum[k \in 0 .. Len(values)] ==
        IF k = 0 THEN 0 ELSE sum[k - 1] + values[k] * 2^operands[k].lsb
  IN  sum[Len(values)]

Encode(i) ==
  LET spec == Table[i.op] IN
    spec.opcode * 2^13
  + i.delay * 2^8
  + Packed(i.args, spec.operands)
  + spec.select.value * 2^spec.select.lsb
  + (IF i.side = NoSide THEN 0 ELSE 128 + Packed(i.side, PinValue))

=============================================================================
