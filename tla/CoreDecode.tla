----------------------------- MODULE CoreDecode -----------------------------
(***************************************************************************)
(* rtl/core.v's instruction decode: what the wires from imem_word say of a *)
(* 16-bit word w.  The wires look at the bits they need and at no others,  *)
(* so a word the assembler would refuse still decodes to something here.   *)
(* A field [msb:lsb] of w is (w \div 2^lsb) % 2^(msb-lsb+1).                *)
(***************************************************************************)
EXTENDS Bits

Word == {n \in Nat : n < 256 * 256}

opcode(w) == (w \div 8192) % 8

delay(w) == (w \div 256) % 32

operand(w) == w % 256

side(w) == (w \div 128) % 2 = 1

side_pin(w) == (w \div 32) % 4

side_val(w) == (w \div 16) % 2

is_nop_set(w) == opcode(w) = 0

is_shift(w) == opcode(w) = 1

is_fifo(w) == opcode(w) = 2

is_jmp(w) == opcode(w) = 3

is_config(w) == opcode(w) = 4

is_wait(w) == opcode(w) = 5

is_skip(w) == opcode(w) = 6

is_repeat(w) == opcode(w) = 7

(* A run test that forgets the side flag would take SET 2 for itself. *)
is_run_or_set(w) == is_nop_set(w) /\ side_pin(w) = 2

(* The run test and the accumulator live in opcode 000 with the side flag  *)
(* clear, told apart by operand[6:5].                                      *)
is_run(w) == is_nop_set(w) /\ ~side(w) /\ side_pin(w) = 2

run_sense(w) == (w \div 16) % 2 = 1

is_acc(w) == is_nop_set(w) /\ ~side(w) /\ side_pin(w) = 1

is_acc_in(w) == is_acc(w) /\ (w \div 4) % 8 = 0

is_acc_crc(w) == is_acc(w) /\ (w \div 4) % 8 = 1

is_acc_out(w) == is_acc(w) /\ (w \div 4) % 8 = 2

is_acc_push(w) == is_acc(w) /\ w % 32 = 12

is_acc_load(w) == is_acc(w) /\ w % 32 = 16

acc_pin(w) == w % 4

shift_select(w) == (w \div 2) % 2 = 1      \* SHIFT_IN

fifo_select(w) == w % 2 = 1       \* PUSH

config_field(w) == (w \div 4) % 4

config_value(w) == w % 4

input_pin(w) == (w \div 4) % 4

skip_bit(w) == (w \div 2) % 8

level(w) == w % 2

=============================================================================
