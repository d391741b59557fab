------------------------------ MODULE IsaRows ------------------------------
(***************************************************************************)
(* What a row of an instruction table holds.  An instruction is a record of *)
(* a mnemonic, its operands in the table's order, bits 12:8 and a side      *)
(* effect <<pin, value>> or NoSide.                                         *)
(***************************************************************************)
EXTENDS Bits, FiniteSets, Sequences

NoSide == <<>>

NoSelect == [lsb |-> 0, bits |-> 0, value |-> 0]

Select(lsb, bits, value) == [lsb |-> lsb, bits |-> bits, value |-> value]

Operand(lsb, bits) == [lsb |-> lsb, bits |-> bits, min |-> 0]

Row(opcode, select, operands, side) ==
  [opcode |-> opcode, select |-> select, operands |-> operands, side |-> side]

PinValue == <<Operand(5, 2), Operand(4, 1)>>     \* the side effect's operands

(* The configuration registers: a field number and a width each. *)
ConfigBits == [f \in 0 .. 2 |-> IF f = 0 THEN 1 ELSE 2]

=============================================================================
