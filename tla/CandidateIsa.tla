---------------------------- MODULE CandidateIsa ----------------------------
(***************************************************************************)
(* The instruction sets of the candidate comparisons, in                    *)
(* experiments/{repeat,can,crc}/candidates.py: isa.yaml as it stood for the *)
(* round, with the rows of the classes a candidate is made of.              *)
(***************************************************************************)
EXTENDS Isa

LOCAL INSTANCE TLC

(* The rows each class adds, or puts in the place of isa.yaml's. *)
BitLevel == <<Operand(1, 3), Operand(0, 1)>>

PinLevel == <<Operand(1, 2), Operand(0, 1)>>

ShiftWord(value) == Row(1, Select(0, 2, value), <<Operand(2, 2)>>, TRUE)

ShiftOutWord == Row(1, Select(0, 2, 0), <<>>, TRUE)

(* A select a bit short, which takes a SKIP's side effect for an age. *)
far_skip_short(high) == Row(6, Select(4, 3, high), BitLevel, FALSE)

far_skip(high) == Row(6, Select(4, 4, high), BitLevel, FALSE)

hole_word(value, bits, operands) == Row(0, Select(8 - bits, bits, value), operands, FALSE)

PIN == <<Operand(1, 2)>>

New ==
  [Repeat     |-> [REPEAT |-> Instructions.REPEAT],
   RepeatNext |-> [REPEAT_NEXT |-> Row(7, NoSelect, <<Operand(0, 5)>>, FALSE)],
   Load       |-> [LOAD |-> Row(7, Select(7, 1, 0), <<Operand(0, 5)>>, FALSE),
                   DJNZ |-> Row(7, Select(7, 1, 1), <<Operand(0, 7)>>, FALSE)],
   Burst      |-> [SHIFT_OUT |-> ShiftOutWord, SHIFT_IN |-> ShiftWord(2),
                   BURST_OUT |-> Row(1, Select(0, 2, 1), <<>>, TRUE),
                   BURST_IN |-> ShiftWord(3)],
   Branch     |-> [BRANCH |-> Row(6, Select(6, 2, 1), <<[lsb |-> 0, bits |-> 6, min |-> 1]>>, FALSE)],
   Sent       |-> [SHIFT_OUT |-> ShiftOutWord, SHIFT_IN |-> ShiftWord(2),
                   SHIFT_SENT |-> ShiftWord(3)],
   SentCondition |-> [SKIP_SENT |-> Row(0, Select(5, 3, 1), PinLevel, FALSE)],
   Run        |-> <<>>,
   Same       |-> [SKIP_SAME |-> Row(0, Select(5, 3, 3), <<Operand(1, 3)>>, FALSE)],
   Wide       |-> [SKIP8 |-> far_skip(1)],
   Wide32     |-> [SKIP16 |-> far_skip(2), SKIP24 |-> far_skip(3)],
   Pin        |-> [SKIP_PIN |-> Row(0, Select(3, 5, 12), PinLevel, FALSE)],
   Lanes      |-> [SHIFT_OUT |-> ShiftOutWord, SHIFT_IN |-> ShiftWord(2),
                   PULL |-> Row(2, Select(0, 2, 0), <<>>, TRUE),
                   PUSH |-> Row(2, Select(0, 2, 1), <<>>, TRUE),
                   SHIFT_IN1 |-> ShiftWord(3), SHIFT_IN01 |-> ShiftWord(1),
                   PUSH1 |-> Row(2, Select(0, 2, 3), <<>>, TRUE), SKIP1 |-> far_skip(1)],
   Acc        |-> [ACC_IN |-> hole_word(4, 5, PIN), ACC_OUT |-> hole_word(5, 5, PIN),
                   ACC_PUSH |-> hole_word(48, 8, <<>>), ACC_LOAD |-> hole_word(56, 8, <<>>)]]

(* The candidates, and the CAN round's own Candidate, by their classes; and *)
(* the ISA that came of the rounds, for the programs written on it as it is. *)
CANDIDATES ==
  [core |-> {}, repeat_A |-> {"Repeat"}, repeat_B |-> {"RepeatNext"}, repeat_C |-> {"Load"}, repeat_D |-> {"Burst"},
   can |-> {}, can_A |-> {"Branch"}, can_B |-> {"Sent"}, can_Bc |-> {"SentCondition"},
   can_C |-> {"Run"}, can_D |-> {"Same"}, can_AB |-> {"Branch", "Sent"},
   can_ABc |-> {"Branch", "SentCondition"}, can_AC |-> {"Branch", "Run"},
   can_AD |-> {"Branch", "Same"},
   crc_W16 |-> {"Wide"}, crc_W32 |-> {"Wide", "Wide32"}, crc_Pin8 |-> {"Pin"},
   crc_Pin16 |-> {"Pin", "Wide"}, crc_Lanes |-> {"Lanes"}, crc_Acc |-> {"Acc"}]

Candidate == DOMAIN CANDIDATES

RepeatRound == {"repeat_A", "repeat_B", "repeat_C", "repeat_D"}

CrcRound == {"crc_W16", "crc_W32", "crc_Pin8", "crc_Pin16", "crc_Lanes", "crc_Acc"}

LATER == {"ACC_IN", "ACC_CRC", "ACC_OUT", "ACC_PUSH", "ACC_LOAD"}

(* isa.yaml before what the rounds led to was adopted. *)
RoundOps(c) ==
  CASE c = "core" -> Mnemonic
    [] c \in RepeatRound -> Mnemonic \ {"REPEAT"}
    [] OTHER -> Mnemonic \ LATER

Added == [c \in Candidate |-> UNION {DOMAIN New[class] : class \in CANDIDATES[c]}] @@ <<>>

(* The rows of a candidate, and of the ISA its round started from. *)
Started(ops) == [op \in ops |-> Instructions[op]]

Rows(c) ==
  [op \in UNION {DOMAIN New[class] : class \in CANDIDATES[c]} |->
     LET class == CHOOSE class \in CANDIDATES[c] : op \in DOMAIN New[class]
     IN  New[class][op]] @@ Started(RoundOps(c))

isa == [c \in Candidate |-> Rows(c)] @@ <<>>

(* SKIP has no select: what takes the words that its shape rejects must be  *)
(* decoded before it.                                                       *)
FIRST == {"BRANCH", "SKIP8", "SKIP16", "SKIP24", "SKIP1"}

Codec(c) == INSTANCE IsaCodec WITH Table <- isa[c], First <- FIRST

(* The branch family's field, bits 12:8: kind, bit / n - 1 / pin, level. *)
Kind(delay) == delay \div 16

KINDS(c, kind) ==
  CASE kind = 0 -> "BRANCH"
    [] "SentCondition" \in CANDIDATES[c] -> "BRANCH_SENT"
    [] "Run" \in CANDIDATES[c] -> "BRANCH_RUN"
    [] "Same" \in CANDIDATES[c] -> "BRANCH_SAME"
    [] OTHER -> "none"

(* The words only the candidate's own decode checks: a branch kind it has   *)
(* not, a pin that is none.                                                 *)
Decodes(c, w) ==
  /\ Codec(c)!Decodable(w)
  /\ Codec(c)!Decode(w).op = "BRANCH" =>
       LET delay == Field(w, 8, 5) IN
       CASE KINDS(c, Kind(delay)) = "none" -> FALSE
         [] KINDS(c, Kind(delay)) = "BRANCH_SENT" -> (delay \div 2) % 8 <= 3
         [] OTHER -> TRUE

=============================================================================
