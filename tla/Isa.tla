-------------------------------- MODULE Isa --------------------------------
(***************************************************************************)
(* The instruction set as isa/isa.yaml tables it, with model/cpu.py's       *)
(* encode, decode and check_operands for it.                                *)
(***************************************************************************)
EXTENDS IsaRows

Instructions ==
  [NOP        |-> Row(0, Select(5, 3, 0), <<>>, FALSE),
   SET        |-> Row(0, Select(7, 1, 1), PinValue, FALSE),
   SHIFT_OUT  |-> Row(1, Select(1, 1, 0), <<>>, TRUE),
   SHIFT_IN   |-> Row(1, Select(1, 1, 1), <<Operand(2, 2)>>, TRUE),
   PULL       |-> Row(2, Select(0, 1, 0), <<>>, TRUE),
   PUSH       |-> Row(2, Select(0, 1, 1), <<>>, TRUE),
   WAIT       |-> Row(5, NoSelect, <<Operand(2, 2), Operand(0, 1)>>, TRUE),
   SKIP       |-> Row(6, NoSelect, <<Operand(1, 3), Operand(0, 1)>>, TRUE),
   SKIP_RUN   |-> Row(0, Select(4, 4, 4), <<Operand(1, 3), Operand(0, 1)>>, FALSE),
   SKIP_NORUN |-> Row(0, Select(4, 4, 5), <<Operand(1, 3), Operand(0, 1)>>, FALSE),
   ACC_IN     |-> Row(0, Select(2, 6, 8), <<Operand(0, 2)>>, FALSE),
   ACC_CRC    |-> Row(0, Select(2, 6, 9), <<Operand(0, 2)>>, FALSE),
   ACC_OUT    |-> Row(0, Select(2, 6, 10), <<Operand(0, 2)>>, FALSE),
   ACC_PUSH   |-> Row(0, Select(0, 8, 44), <<>>, FALSE),
   ACC_LOAD   |-> Row(0, Select(0, 8, 48), <<>>, FALSE),
   JMP        |-> Row(3, NoSelect, <<Operand(0, 8)>>, FALSE),
   REPEAT     |-> Row(7, NoSelect, <<[lsb |-> 0, bits |-> 8, min |-> 1]>>, FALSE),
   CONFIG     |-> Row(4, NoSelect, <<Operand(2, 2), Operand(0, 2)>>, TRUE)]

Mnemonic == DOMAIN Instructions

SkipOps == {"SKIP", "SKIP_RUN", "SKIP_NORUN"}

(* Each of its rows stands alone: the order of the table does not matter. *)
INSTANCE IsaCodec WITH Table <- Instructions, First <- {}

=============================================================================
