----------------------------- MODULE IsaProofs -----------------------------
(***************************************************************************)
(* For every word, whatever its delay field: no two rows of isa.yaml's      *)
(* table match it, the core's wires read it as decode does, and encode      *)
(* gives back the word that decode took apart.                              *)
(***************************************************************************)
EXTENDS IsaAgreement, FiniteSetTheorems, TLAPS

(* What the words of the specification are: sixteen bits. *)
WordOK == word \in Nat /\ word < 65536

-----------------------------------------------------------------------------
(* The table, row by row. *)

LEMMA Opcode0Rows ==
  /\ Instructions["NOP"] = Row(0, Select(5, 3, 0), <<>>, FALSE)
  /\ Instructions["SET"] = Row(0, Select(7, 1, 1), PinValue, FALSE)
  /\ Instructions["SKIP_RUN"] = Row(0, Select(4, 4, 4), <<Operand(1, 3), Operand(0, 1)>>, FALSE)
  /\ Instructions["SKIP_NORUN"] = Row(0, Select(4, 4, 5), <<Operand(1, 3), Operand(0, 1)>>, FALSE)
  BY DEF Instructions

LEMMA AccRows ==
  /\ Instructions["ACC_IN"] = Row(0, Select(2, 6, 8), <<Operand(0, 2)>>, FALSE)
  /\ Instructions["ACC_CRC"] = Row(0, Select(2, 6, 9), <<Operand(0, 2)>>, FALSE)
  /\ Instructions["ACC_OUT"] = Row(0, Select(2, 6, 10), <<Operand(0, 2)>>, FALSE)
  /\ Instructions["ACC_PUSH"] = Row(0, Select(0, 8, 44), <<>>, FALSE)
  /\ Instructions["ACC_LOAD"] = Row(0, Select(0, 8, 48), <<>>, FALSE)
  BY DEF Instructions

LEMMA PairRows ==
  /\ Instructions["SHIFT_OUT"] = Row(1, Select(1, 1, 0), <<>>, TRUE)
  /\ Instructions["SHIFT_IN"] = Row(1, Select(1, 1, 1), <<Operand(2, 2)>>, TRUE)
  /\ Instructions["PULL"] = Row(2, Select(0, 1, 0), <<>>, TRUE)
  /\ Instructions["PUSH"] = Row(2, Select(0, 1, 1), <<>>, TRUE)
  BY DEF Instructions

LEMMA AloneRows ==
  /\ Instructions["JMP"] = Row(3, NoSelect, <<Operand(0, 8)>>, FALSE)
  /\ Instructions["CONFIG"] = Row(4, NoSelect, <<Operand(2, 2), Operand(0, 2)>>, TRUE)
  /\ Instructions["WAIT"] = Row(5, NoSelect, <<Operand(2, 2), Operand(0, 1)>>, TRUE)
  /\ Instructions["SKIP"] = Row(6, NoSelect, <<Operand(1, 3), Operand(0, 1)>>, TRUE)
  /\ Instructions["REPEAT"] = Row(7, NoSelect, <<[lsb |-> 0, bits |-> 8, min |-> 1]>>, FALSE)
  BY DEF Instructions

LEMMA Mnemonics ==
  Mnemonic = {"NOP", "SET", "SKIP_RUN", "SKIP_NORUN",
              "ACC_IN", "ACC_CRC", "ACC_OUT", "ACC_PUSH", "ACC_LOAD",
              "SHIFT_OUT", "SHIFT_IN", "PULL", "PUSH",
              "JMP", "CONFIG", "WAIT", "SKIP", "REPEAT"}
  BY DEF Mnemonic, Instructions

(* What decode looks at for each row. *)
LEMMA Fields ==
  ASSUME NEW w \in Nat
  PROVE  /\ Field(w, 13, 3) = Rtl!opcode(w)
         /\ Field(w, 8, 5) = Rtl!delay(w)
         /\ Field(w, 0, 8) = Rtl!operand(w)
         /\ Field(w, 7, 1) = (w \div 128) % 2
         /\ Field(w, 5, 3) = (w \div 32) % 8
         /\ Field(w, 5, 2) = Rtl!side_pin(w)
         /\ Field(w, 4, 4) = (w \div 16) % 16
         /\ Field(w, 4, 1) = Rtl!side_val(w)
         /\ Field(w, 2, 6) = (w \div 4) % 64
         /\ Field(w, 2, 2) = Rtl!input_pin(w)
         /\ Field(w, 1, 3) = Rtl!skip_bit(w)
         /\ Field(w, 1, 1) = (w \div 2) % 2
         /\ Field(w, 0, 2) = Rtl!acc_pin(w)
         /\ Field(w, 0, 1) = Rtl!level(w)
<1>1. \A n \in Nat : n \div 1 = n
  OBVIOUS
<1>2. /\ Field(w, 0, 8) = w % 256
      /\ Field(w, 0, 2) = w % 4
      /\ Field(w, 0, 1) = w % 2
  BY <1>1 DEF Field
<1>3. QED
  BY <1>2 DEF Field, Rtl!opcode, Rtl!delay, Rtl!operand, Rtl!side_pin, Rtl!side_val,
     Rtl!input_pin, Rtl!skip_bit, Rtl!acc_pin, Rtl!level

LEMMA Opcode0Matches ==
  ASSUME NEW w \in Nat
  PROVE  /\ Matches("NOP", w) => Rtl!opcode(w) = 0 /\ (w \div 32) % 8 = 0
         /\ Matches("SET", w) => Rtl!opcode(w) = 0 /\ (w \div 128) % 2 = 1
         /\ Matches("SKIP_RUN", w) => Rtl!opcode(w) = 0 /\ (w \div 16) % 16 = 4
         /\ Matches("SKIP_NORUN", w) => Rtl!opcode(w) = 0 /\ (w \div 16) % 16 = 5
<1>1. Matches("NOP", w) => Rtl!opcode(w) = 0 /\ (w \div 32) % 8 = 0
  <2>1. Matches("NOP", w) => 0 = Field(w, 13, 3) /\ Field(w, 5, 3) = 0
    BY Opcode0Rows DEF Matches, Row, Select
  <2>2. QED
    BY <2>1, Fields DEF Rtl!operand, Rtl!level
<1>2. Matches("SET", w) => Rtl!opcode(w) = 0 /\ (w \div 128) % 2 = 1
  <2>1. Matches("SET", w) => 0 = Field(w, 13, 3) /\ Field(w, 7, 1) = 1
    BY Opcode0Rows DEF Matches, Row, Select
  <2>2. QED
    BY <2>1, Fields DEF Rtl!operand, Rtl!level
<1>3. Matches("SKIP_RUN", w) => Rtl!opcode(w) = 0 /\ (w \div 16) % 16 = 4
  <2>1. Matches("SKIP_RUN", w) => 0 = Field(w, 13, 3) /\ Field(w, 4, 4) = 4
    BY Opcode0Rows DEF Matches, Row, Select
  <2>2. QED
    BY <2>1, Fields DEF Rtl!operand, Rtl!level
<1>4. Matches("SKIP_NORUN", w) => Rtl!opcode(w) = 0 /\ (w \div 16) % 16 = 5
  <2>1. Matches("SKIP_NORUN", w) => 0 = Field(w, 13, 3) /\ Field(w, 4, 4) = 5
    BY Opcode0Rows DEF Matches, Row, Select
  <2>2. QED
    BY <2>1, Fields DEF Rtl!operand, Rtl!level
<1>5. QED
  BY <1>1, <1>2, <1>3, <1>4

LEMMA AccMatches ==
  ASSUME NEW w \in Nat
  PROVE  /\ Matches("ACC_IN", w) => Rtl!opcode(w) = 0 /\ (w \div 4) % 64 = 8
         /\ Matches("ACC_CRC", w) => Rtl!opcode(w) = 0 /\ (w \div 4) % 64 = 9
         /\ Matches("ACC_OUT", w) => Rtl!opcode(w) = 0 /\ (w \div 4) % 64 = 10
         /\ Matches("ACC_PUSH", w) => Rtl!opcode(w) = 0 /\ w % 256 = 44
         /\ Matches("ACC_LOAD", w) => Rtl!opcode(w) = 0 /\ w % 256 = 48
<1>1. Matches("ACC_IN", w) => Rtl!opcode(w) = 0 /\ (w \div 4) % 64 = 8
  <2>1. Matches("ACC_IN", w) => 0 = Field(w, 13, 3) /\ Field(w, 2, 6) = 8
    BY AccRows DEF Matches, Row, Select
  <2>2. QED
    BY <2>1, Fields DEF Rtl!operand, Rtl!level
<1>2. Matches("ACC_CRC", w) => Rtl!opcode(w) = 0 /\ (w \div 4) % 64 = 9
  <2>1. Matches("ACC_CRC", w) => 0 = Field(w, 13, 3) /\ Field(w, 2, 6) = 9
    BY AccRows DEF Matches, Row, Select
  <2>2. QED
    BY <2>1, Fields DEF Rtl!operand, Rtl!level
<1>3. Matches("ACC_OUT", w) => Rtl!opcode(w) = 0 /\ (w \div 4) % 64 = 10
  <2>1. Matches("ACC_OUT", w) => 0 = Field(w, 13, 3) /\ Field(w, 2, 6) = 10
    BY AccRows DEF Matches, Row, Select
  <2>2. QED
    BY <2>1, Fields DEF Rtl!operand, Rtl!level
<1>4. Matches("ACC_PUSH", w) => Rtl!opcode(w) = 0 /\ w % 256 = 44
  <2>1. Matches("ACC_PUSH", w) => 0 = Field(w, 13, 3) /\ Field(w, 0, 8) = 44
    BY AccRows DEF Matches, Row, Select
  <2>2. QED
    BY <2>1, Fields DEF Rtl!operand, Rtl!level
<1>5. Matches("ACC_LOAD", w) => Rtl!opcode(w) = 0 /\ w % 256 = 48
  <2>1. Matches("ACC_LOAD", w) => 0 = Field(w, 13, 3) /\ Field(w, 0, 8) = 48
    BY AccRows DEF Matches, Row, Select
  <2>2. QED
    BY <2>1, Fields DEF Rtl!operand, Rtl!level
<1>6. QED
  BY <1>1, <1>2, <1>3, <1>4, <1>5

LEMMA PairMatches ==
  ASSUME NEW w \in Nat
  PROVE  /\ Matches("SHIFT_OUT", w) => Rtl!opcode(w) = 1 /\ (w \div 2) % 2 = 0
         /\ Matches("SHIFT_IN", w) => Rtl!opcode(w) = 1 /\ (w \div 2) % 2 = 1
         /\ Matches("PULL", w) => Rtl!opcode(w) = 2 /\ w % 2 = 0
         /\ Matches("PUSH", w) => Rtl!opcode(w) = 2 /\ w % 2 = 1
<1>1. Matches("SHIFT_OUT", w) => Rtl!opcode(w) = 1 /\ (w \div 2) % 2 = 0
  <2>1. Matches("SHIFT_OUT", w) => 1 = Field(w, 13, 3) /\ Field(w, 1, 1) = 0
    BY PairRows DEF Matches, Row, Select
  <2>2. QED
    BY <2>1, Fields DEF Rtl!operand, Rtl!level
<1>2. Matches("SHIFT_IN", w) => Rtl!opcode(w) = 1 /\ (w \div 2) % 2 = 1
  <2>1. Matches("SHIFT_IN", w) => 1 = Field(w, 13, 3) /\ Field(w, 1, 1) = 1
    BY PairRows DEF Matches, Row, Select
  <2>2. QED
    BY <2>1, Fields DEF Rtl!operand, Rtl!level
<1>3. Matches("PULL", w) => Rtl!opcode(w) = 2 /\ w % 2 = 0
  <2>1. Matches("PULL", w) => 2 = Field(w, 13, 3) /\ Field(w, 0, 1) = 0
    BY PairRows DEF Matches, Row, Select
  <2>2. QED
    BY <2>1, Fields DEF Rtl!operand, Rtl!level
<1>4. Matches("PUSH", w) => Rtl!opcode(w) = 2 /\ w % 2 = 1
  <2>1. Matches("PUSH", w) => 2 = Field(w, 13, 3) /\ Field(w, 0, 1) = 1
    BY PairRows DEF Matches, Row, Select
  <2>2. QED
    BY <2>1, Fields DEF Rtl!operand, Rtl!level
<1>5. QED
  BY <1>1, <1>2, <1>3, <1>4

LEMMA AloneMatches ==
  ASSUME NEW w \in Nat
  PROVE  /\ Matches("JMP", w) => Rtl!opcode(w) = 3
         /\ Matches("CONFIG", w) => Rtl!opcode(w) = 4
         /\ Matches("WAIT", w) => Rtl!opcode(w) = 5
         /\ Matches("SKIP", w) => Rtl!opcode(w) = 6
         /\ Matches("REPEAT", w) => Rtl!opcode(w) = 7
<1>1. Matches("JMP", w) => 3 = Field(w, 13, 3)
  BY AloneRows DEF Matches, Row
<1>2. Matches("CONFIG", w) => 4 = Field(w, 13, 3)
  BY AloneRows DEF Matches, Row
<1>3. Matches("WAIT", w) => 5 = Field(w, 13, 3)
  BY AloneRows DEF Matches, Row
<1>4. Matches("SKIP", w) => 6 = Field(w, 13, 3)
  BY AloneRows DEF Matches, Row
<1>5. Matches("REPEAT", w) => 7 = Field(w, 13, 3)
  BY AloneRows DEF Matches, Row
<1>6. QED
  BY <1>1, <1>2, <1>3, <1>4, <1>5, Fields

-----------------------------------------------------------------------------
(* What the core's wires read. *)

(* At most one of the opcode's wires is up. *)
LEMMA OneOpcodeWire ==
  ASSUME NEW w
  PROVE  /\ Rtl!is_nop_set(w) <=> Rtl!opcode(w) = 0
         /\ Rtl!is_shift(w) <=> Rtl!opcode(w) = 1
         /\ Rtl!is_fifo(w) <=> Rtl!opcode(w) = 2
         /\ Rtl!is_jmp(w) <=> Rtl!opcode(w) = 3
         /\ Rtl!is_config(w) <=> Rtl!opcode(w) = 4
         /\ Rtl!is_wait(w) <=> Rtl!opcode(w) = 5
         /\ Rtl!is_skip(w) <=> Rtl!opcode(w) = 6
         /\ Rtl!is_repeat(w) <=> Rtl!opcode(w) = 7
  BY DEF Rtl!is_nop_set, Rtl!is_shift, Rtl!is_fifo, Rtl!is_jmp, Rtl!is_config, Rtl!is_wait,
     Rtl!is_skip, Rtl!is_repeat

LEMMA ReadByOpcode ==
  ASSUME Rtl!opcode(word) /= 0
  PROVE  /\ Rtl!opcode(word) = 1 =>
              RtlMnemonic = IF Rtl!shift_select(word) THEN "SHIFT_IN" ELSE "SHIFT_OUT"
         /\ Rtl!opcode(word) = 2 => RtlMnemonic = IF Rtl!fifo_select(word) THEN "PUSH" ELSE "PULL"
         /\ Rtl!opcode(word) = 3 => RtlMnemonic = "JMP"
         /\ Rtl!opcode(word) = 4 => RtlMnemonic = "CONFIG"
         /\ Rtl!opcode(word) = 5 => RtlMnemonic = "WAIT"
         /\ Rtl!opcode(word) = 6 => RtlMnemonic = "SKIP"
         /\ Rtl!opcode(word) = 7 => RtlMnemonic = "REPEAT"
<1>1. ~Rtl!is_nop_set(word) /\ ~Rtl!is_run(word) /\ ~Rtl!is_acc(word)
  BY OneOpcodeWire DEF Rtl!is_run, Rtl!is_acc
<1>2. /\ ~Rtl!is_acc_in(word) /\ ~Rtl!is_acc_crc(word) /\ ~Rtl!is_acc_out(word)
      /\ ~Rtl!is_acc_push(word) /\ ~Rtl!is_acc_load(word)
  BY <1>1 DEF Rtl!is_acc_in, Rtl!is_acc_crc, Rtl!is_acc_out, Rtl!is_acc_push, Rtl!is_acc_load
<1>3. Rtl!opcode(word) = 1 => RtlMnemonic = IF Rtl!shift_select(word) THEN "SHIFT_IN" ELSE "SHIFT_OUT"
  <2> SUFFICES ASSUME Rtl!opcode(word) = 1
               PROVE  RtlMnemonic = IF Rtl!shift_select(word) THEN "SHIFT_IN" ELSE "SHIFT_OUT"
    OBVIOUS
  <2>1. /\ Rtl!is_shift(word)
        /\ ~Rtl!is_jmp(word) /\ ~Rtl!is_repeat(word) /\ ~Rtl!is_config(word) /\ ~Rtl!is_wait(word)
        /\ ~Rtl!is_skip(word) /\ ~Rtl!is_fifo(word)
    BY OneOpcodeWire
  <2>2. QED
    BY <2>1, <1>1, <1>2 DEF RtlMnemonic
<1>4. Rtl!opcode(word) = 2 => RtlMnemonic = IF Rtl!fifo_select(word) THEN "PUSH" ELSE "PULL"
  <2> SUFFICES ASSUME Rtl!opcode(word) = 2
               PROVE  RtlMnemonic = IF Rtl!fifo_select(word) THEN "PUSH" ELSE "PULL"
    OBVIOUS
  <2>1. /\ Rtl!is_fifo(word)
        /\ ~Rtl!is_jmp(word) /\ ~Rtl!is_repeat(word) /\ ~Rtl!is_config(word) /\ ~Rtl!is_wait(word)
        /\ ~Rtl!is_skip(word) /\ ~Rtl!is_shift(word)
    BY OneOpcodeWire
  <2>2. QED
    BY <2>1, <1>1, <1>2 DEF RtlMnemonic
<1>5. Rtl!opcode(word) = 3 => RtlMnemonic = "JMP"
  <2> SUFFICES ASSUME Rtl!opcode(word) = 3
               PROVE  RtlMnemonic = "JMP"
    OBVIOUS
  <2>1. /\ Rtl!is_jmp(word)
        /\ ~Rtl!is_repeat(word) /\ ~Rtl!is_config(word) /\ ~Rtl!is_wait(word)
        /\ ~Rtl!is_skip(word) /\ ~Rtl!is_shift(word) /\ ~Rtl!is_fifo(word)
    BY OneOpcodeWire
  <2>2. QED
    BY <2>1, <1>1, <1>2 DEF RtlMnemonic
<1>6. Rtl!opcode(word) = 4 => RtlMnemonic = "CONFIG"
  <2> SUFFICES ASSUME Rtl!opcode(word) = 4
               PROVE  RtlMnemonic = "CONFIG"
    OBVIOUS
  <2>1. /\ Rtl!is_config(word)
        /\ ~Rtl!is_jmp(word) /\ ~Rtl!is_repeat(word) /\ ~Rtl!is_wait(word)
        /\ ~Rtl!is_skip(word) /\ ~Rtl!is_shift(word) /\ ~Rtl!is_fifo(word)
    BY OneOpcodeWire
  <2>2. QED
    BY <2>1, <1>1, <1>2 DEF RtlMnemonic
<1>7. Rtl!opcode(word) = 5 => RtlMnemonic = "WAIT"
  <2> SUFFICES ASSUME Rtl!opcode(word) = 5
               PROVE  RtlMnemonic = "WAIT"
    OBVIOUS
  <2>1. /\ Rtl!is_wait(word)
        /\ ~Rtl!is_jmp(word) /\ ~Rtl!is_repeat(word) /\ ~Rtl!is_config(word)
        /\ ~Rtl!is_skip(word) /\ ~Rtl!is_shift(word) /\ ~Rtl!is_fifo(word)
    BY OneOpcodeWire
  <2>2. QED
    BY <2>1, <1>1, <1>2 DEF RtlMnemonic
<1>8. Rtl!opcode(word) = 6 => RtlMnemonic = "SKIP"
  <2> SUFFICES ASSUME Rtl!opcode(word) = 6
               PROVE  RtlMnemonic = "SKIP"
    OBVIOUS
  <2>1. /\ Rtl!is_skip(word)
        /\ ~Rtl!is_jmp(word) /\ ~Rtl!is_repeat(word) /\ ~Rtl!is_config(word) /\ ~Rtl!is_wait(word)
        /\ ~Rtl!is_shift(word) /\ ~Rtl!is_fifo(word)
    BY OneOpcodeWire
  <2>2. QED
    BY <2>1, <1>1, <1>2 DEF RtlMnemonic
<1>9. Rtl!opcode(word) = 7 => RtlMnemonic = "REPEAT"
  <2> SUFFICES ASSUME Rtl!opcode(word) = 7
               PROVE  RtlMnemonic = "REPEAT"
    OBVIOUS
  <2>1. /\ Rtl!is_repeat(word)
        /\ ~Rtl!is_jmp(word) /\ ~Rtl!is_config(word) /\ ~Rtl!is_wait(word)
        /\ ~Rtl!is_skip(word) /\ ~Rtl!is_shift(word) /\ ~Rtl!is_fifo(word)
    BY OneOpcodeWire
  <2>2. QED
    BY <2>1, <1>1, <1>2 DEF RtlMnemonic
<1>10. QED
  BY <1>3, <1>4, <1>5, <1>6, <1>7, <1>8, <1>9

(* Opcode 000 is told apart by the side flag, bits 6:5 and what is below. *)
LEMMA ReadOpcode0 ==
  ASSUME Rtl!opcode(word) = 0
  PROVE  /\ Rtl!side(word) => RtlMnemonic = "SET"
         /\ ~Rtl!side(word) /\ Rtl!side_pin(word) = 0 => RtlMnemonic = "NOP"
         /\ ~Rtl!side(word) /\ Rtl!side_pin(word) = 2 =>
              RtlMnemonic = IF Rtl!run_sense(word) THEN "SKIP_NORUN" ELSE "SKIP_RUN"
<1>1. /\ ~Rtl!is_jmp(word) /\ ~Rtl!is_repeat(word) /\ ~Rtl!is_config(word) /\ ~Rtl!is_wait(word)
      /\ ~Rtl!is_skip(word) /\ ~Rtl!is_shift(word) /\ ~Rtl!is_fifo(word) /\ Rtl!is_nop_set(word)
  BY OneOpcodeWire
<1>2. Rtl!side(word) \/ Rtl!side_pin(word) \in {0, 2} =>
        /\ ~Rtl!is_acc_in(word) /\ ~Rtl!is_acc_crc(word) /\ ~Rtl!is_acc_out(word)
        /\ ~Rtl!is_acc_push(word) /\ ~Rtl!is_acc_load(word)
  BY DEF Rtl!is_acc, Rtl!is_acc_in, Rtl!is_acc_crc, Rtl!is_acc_out, Rtl!is_acc_push, Rtl!is_acc_load
<1>3. Rtl!side(word) => RtlMnemonic = "SET"
  BY <1>1, <1>2 DEF RtlMnemonic, Rtl!is_run
<1>4. ~Rtl!side(word) /\ Rtl!side_pin(word) = 0 => RtlMnemonic = "NOP"
  BY <1>1, <1>2 DEF RtlMnemonic, Rtl!is_run
<1>5. ~Rtl!side(word) /\ Rtl!side_pin(word) = 2 =>
        RtlMnemonic = IF Rtl!run_sense(word) THEN "SKIP_NORUN" ELSE "SKIP_RUN"
  BY <1>1, <1>2 DEF RtlMnemonic, Rtl!is_run
<1>6. QED
  BY <1>3, <1>4, <1>5

LEMMA ReadAcc ==
  ASSUME word \in Nat, Rtl!opcode(word) = 0, ~Rtl!side(word), Rtl!side_pin(word) = 1
  PROVE  /\ (word \div 4) % 8 = 0 => RtlMnemonic = "ACC_IN"
         /\ (word \div 4) % 8 = 1 => RtlMnemonic = "ACC_CRC"
         /\ (word \div 4) % 8 = 2 => RtlMnemonic = "ACC_OUT"
         /\ word % 32 = 12 => RtlMnemonic = "ACC_PUSH"
         /\ word % 32 = 16 => RtlMnemonic = "ACC_LOAD"
<1>1. /\ ~Rtl!is_jmp(word) /\ ~Rtl!is_repeat(word) /\ ~Rtl!is_config(word) /\ ~Rtl!is_wait(word)
      /\ ~Rtl!is_skip(word) /\ ~Rtl!is_shift(word) /\ ~Rtl!is_fifo(word) /\ Rtl!is_nop_set(word)
  BY OneOpcodeWire
<1>2. ~Rtl!is_run(word) /\ Rtl!is_acc(word)
  BY <1>1 DEF Rtl!is_run, Rtl!is_acc
<1>3. /\ word % 32 = 12 => (word \div 4) % 8 = 3
      /\ word % 32 = 16 => (word \div 4) % 8 = 4
  OBVIOUS
<1>4. /\ Rtl!is_acc_in(word) <=> (word \div 4) % 8 = 0
      /\ Rtl!is_acc_crc(word) <=> (word \div 4) % 8 = 1
      /\ Rtl!is_acc_out(word) <=> (word \div 4) % 8 = 2
      /\ Rtl!is_acc_push(word) <=> word % 32 = 12
      /\ Rtl!is_acc_load(word) <=> word % 32 = 16
  BY <1>2 DEF Rtl!is_acc_in, Rtl!is_acc_crc, Rtl!is_acc_out, Rtl!is_acc_push, Rtl!is_acc_load
<1>5. (word \div 4) % 8 = 0 => RtlMnemonic = "ACC_IN"
  BY <1>1, <1>2, <1>3, <1>4 DEF RtlMnemonic
<1>6. (word \div 4) % 8 = 1 => RtlMnemonic = "ACC_CRC"
  BY <1>1, <1>2, <1>3, <1>4 DEF RtlMnemonic
<1>7. (word \div 4) % 8 = 2 => RtlMnemonic = "ACC_OUT"
  BY <1>1, <1>2, <1>3, <1>4 DEF RtlMnemonic
<1>8. word % 32 = 12 => RtlMnemonic = "ACC_PUSH"
  BY <1>1, <1>2, <1>3, <1>4 DEF RtlMnemonic
<1>9. word % 32 = 16 => RtlMnemonic = "ACC_LOAD"
  BY <1>1, <1>2, <1>3, <1>4 DEF RtlMnemonic
<1>10. QED
  BY <1>5, <1>6, <1>7, <1>8, <1>9

(* Whatever row matches a word is the instruction the wires select for it. *)
LEMMA MatchedIsRead ==
  ASSUME word \in Nat, NEW op \in Mnemonic, Matches(op, word)
  PROVE  RtlMnemonic = op
<1>1. Rtl!opcode(word) = 0 /\ (word \div 32) % 8 = 0 => RtlMnemonic = "NOP"
  <2>1. (word \div 32) % 8 = 0 => (word \div 128) % 2 = 0 /\ (word \div 32) % 4 = 0
    OBVIOUS
  <2>2. QED
    BY <2>1, ReadOpcode0 DEF Rtl!side, Rtl!side_pin
<1>2. Rtl!opcode(word) = 0 /\ (word \div 128) % 2 = 1 => RtlMnemonic = "SET"
  BY ReadOpcode0 DEF Rtl!side
<1>3. Rtl!opcode(word) = 0 /\ (word \div 16) % 16 = 4 => RtlMnemonic = "SKIP_RUN"
  <2>1. (word \div 16) % 16 = 4 =>
          (word \div 128) % 2 = 0 /\ (word \div 32) % 4 = 2 /\ (word \div 16) % 2 = 0
    OBVIOUS
  <2>2. QED
    BY <2>1, ReadOpcode0 DEF Rtl!side, Rtl!side_pin, Rtl!run_sense
<1>4. Rtl!opcode(word) = 0 /\ (word \div 16) % 16 = 5 => RtlMnemonic = "SKIP_NORUN"
  <2>1. (word \div 16) % 16 = 5 =>
          (word \div 128) % 2 = 0 /\ (word \div 32) % 4 = 2 /\ (word \div 16) % 2 = 1
    OBVIOUS
  <2>2. QED
    BY <2>1, ReadOpcode0 DEF Rtl!side, Rtl!side_pin, Rtl!run_sense
<1>5. \A k \in 8 .. 10 : (word \div 4) % 64 = k =>
        (word \div 128) % 2 = 0 /\ (word \div 32) % 4 = 1 /\ (word \div 4) % 8 = k - 8
  OBVIOUS
<1>6. /\ Rtl!opcode(word) = 0 /\ (word \div 4) % 64 = 8 => RtlMnemonic = "ACC_IN"
      /\ Rtl!opcode(word) = 0 /\ (word \div 4) % 64 = 9 => RtlMnemonic = "ACC_CRC"
      /\ Rtl!opcode(word) = 0 /\ (word \div 4) % 64 = 10 => RtlMnemonic = "ACC_OUT"
  BY <1>5, ReadAcc DEF Rtl!side, Rtl!side_pin
<1>7. Rtl!opcode(word) = 0 /\ word % 256 = 44 => RtlMnemonic = "ACC_PUSH"
  <2>1. word % 256 = 44 =>
          (word \div 128) % 2 = 0 /\ (word \div 32) % 4 = 1 /\ word % 32 = 12
    OBVIOUS
  <2>2. QED
    BY <2>1, ReadAcc DEF Rtl!side, Rtl!side_pin
<1>8. Rtl!opcode(word) = 0 /\ word % 256 = 48 => RtlMnemonic = "ACC_LOAD"
  <2>1. word % 256 = 48 =>
          (word \div 128) % 2 = 0 /\ (word \div 32) % 4 = 1 /\ word % 32 = 16
    OBVIOUS
  <2>2. QED
    BY <2>1, ReadAcc DEF Rtl!side, Rtl!side_pin
<1>9. CASE op \in {"NOP", "SET", "SKIP_RUN", "SKIP_NORUN"}
  BY <1>9, <1>1, <1>2, <1>3, <1>4, Opcode0Matches
<1>10. CASE op \in {"ACC_IN", "ACC_CRC", "ACC_OUT", "ACC_PUSH", "ACC_LOAD"}
  BY <1>10, <1>6, <1>7, <1>8, AccMatches
<1>11. CASE op \in {"SHIFT_OUT", "SHIFT_IN", "PULL", "PUSH"}
  <2>1. /\ Matches("SHIFT_OUT", word) => RtlMnemonic = "SHIFT_OUT"
        /\ Matches("SHIFT_IN", word) => RtlMnemonic = "SHIFT_IN"
    BY PairMatches, ReadByOpcode DEF Rtl!shift_select
  <2>2. /\ Matches("PULL", word) => RtlMnemonic = "PULL"
        /\ Matches("PUSH", word) => RtlMnemonic = "PUSH"
    BY PairMatches, ReadByOpcode DEF Rtl!fifo_select
  <2>3. QED
    BY <1>11, <2>1, <2>2
<1>12. CASE op \in {"JMP", "CONFIG", "WAIT", "SKIP", "REPEAT"}
  BY <1>12, AloneMatches, ReadByOpcode
<1>13. QED
  BY <1>9, <1>10, <1>11, <1>12, Mnemonics

-----------------------------------------------------------------------------
LEMMA InitWord == Init => WordOK
<1> SUFFICES ASSUME Init
             PROVE  WordOK
  OBVIOUS
<1>1. PICK o \in 0 .. 7, d \in Delays, b \in 0 .. 255 : word = o * 8192 + d * 256 + b
  BY DEF Init
<1>2. d \in 0 .. 31
  BY DelaysAssumption
<1>3. QED
  BY <1>1, <1>2 DEF WordOK

LEMMA WordStays == Spec => []WordOK
<1>1. WordOK /\ [Next]_word => WordOK'
  BY DEF WordOK, Next
<1>2. QED
  BY InitWord, <1>1, PTL DEF Spec

LEMMA ClaimsMatch ==
  \A op : op \in Claims(word) <=> op \in Mnemonic /\ Matches(op, word)
  BY DEF Claims, Mnemonic

(* No two rows of isa.yaml's table match one word, whatever the word: the   *)
(* core's wires select the instruction of any row that does.                *)
THEOREM NoTwoRowsMatch == Spec => []OneMnemonicPerWord
<1>1. WordOK => OneMnemonicPerWord
  <2> SUFFICES ASSUME WordOK
               PROVE  Cardinality(Claims(word)) <= 1
    BY DEF OneMnemonicPerWord
  <2>1. Claims(word) \subseteq {RtlMnemonic}
    BY ClaimsMatch, MatchedIsRead DEF WordOK
  <2>2. CASE Claims(word) = {}
    BY <2>2, FS_EmptySet
  <2>3. CASE Claims(word) = {RtlMnemonic}
    BY <2>3, FS_Singleton
  <2>4. QED
    BY <2>1, <2>2, <2>3
<1>2. QED
  BY <1>1, WordStays, PTL

-----------------------------------------------------------------------------
(* decode's parts of a word. *)

LEMMA UnpackNone == \A w : Unpack(<<>>, w) = <<>>
  BY DEF Unpack

LEMMA UnpackOne == \A w, o : Unpack(<<o>>, w) = <<Field(w, o.lsb, o.bits)>>
  BY DEF Unpack

LEMMA UnpackTwo ==
  \A w, o, p : Unpack(<<o, p>>, w) = <<Field(w, o.lsb, o.bits), Field(w, p.lsb, p.bits)>>
  BY DEF Unpack

LEMMA OperandIs ==
  \A lsb, bits : Operand(lsb, bits).lsb = lsb /\ Operand(lsb, bits).bits = bits
  BY DEF Operand

LEMMA OperandsUnpacked ==
  ASSUME NEW w, NEW l, NEW b, NEW m, NEW c
  PROVE  /\ Unpack(<<Operand(l, b)>>, w) = <<Field(w, l, b)>>
         /\ Unpack(<<Operand(l, b), Operand(m, c)>>, w) = <<Field(w, l, b), Field(w, m, c)>>
  BY UnpackOne, UnpackTwo, OperandIs

LEMMA OneUnpacked == \A w, l, b : Unpack(<<Operand(l, b)>>, w) = <<Field(w, l, b)>>
  BY OperandsUnpacked

LEMMA PairUnpacked ==
  \A w, l, b, m, c :
    Unpack(<<Operand(l, b), Operand(m, c)>>, w) = <<Field(w, l, b), Field(w, m, c)>>
  BY OperandsUnpacked

LEMMA SideUnpacked ==
  ASSUME NEW w \in Nat
  PROVE  Unpack(PinValue, w) = <<Rtl!side_pin(w), Rtl!side_val(w)>>
<1>1. Unpack(PinValue, w) = <<Field(w, 5, 2), Field(w, 4, 1)>>
  BY PairUnpacked DEF PinValue
<1>2. QED
  BY <1>1, Fields

(* The operands of each row, as the core's wires have them. *)
LEMMA ArgsRead ==
  ASSUME word \in Nat, NEW op \in Mnemonic, RtlMnemonic = op
  PROVE  RtlArgs = Unpack(Instructions[op].operands, word)
<1>1. CASE op \in {"NOP", "ACC_PUSH", "ACC_LOAD", "SHIFT_OUT", "PULL", "PUSH"}
  <2>1. Instructions[op].operands = <<>>
    BY <1>1, Opcode0Rows, AccRows, PairRows DEF Row
  <2>2. RtlArgs = <<>>
    BY <1>1 DEF RtlArgs, SkipOps
  <2>3. QED
    BY <2>1, <2>2, UnpackNone
<1>2. CASE op = "SET"
  <2>1. Instructions[op].operands = PinValue
    BY <1>2, Opcode0Rows DEF Row
  <2>2. RtlArgs = <<Rtl!side_pin(word), Rtl!side_val(word)>>
    BY <1>2 DEF RtlArgs, SkipOps
  <2>3. QED
    BY <2>1, <2>2, SideUnpacked
<1>3. CASE op \in SkipOps
  <2>1. Instructions[op].operands = <<Operand(1, 3), Operand(0, 1)>>
    BY <1>3, Opcode0Rows, AloneRows DEF Row, SkipOps
  <2>2. RtlArgs = <<Rtl!skip_bit(word), Rtl!level(word)>>
    BY <1>3 DEF RtlArgs, SkipOps
  <2>3. Unpack(<<Operand(1, 3), Operand(0, 1)>>, word) = <<Field(word, 1, 3), Field(word, 0, 1)>>
    BY PairUnpacked
  <2>4. QED
    BY <2>1, <2>2, <2>3, Fields
<1>4. CASE op \in {"ACC_IN", "ACC_CRC", "ACC_OUT"}
  <2>1. Instructions[op].operands = <<Operand(0, 2)>>
    BY <1>4, AccRows DEF Row
  <2>2. RtlArgs = <<Rtl!acc_pin(word)>>
    BY <1>4 DEF RtlArgs, SkipOps
  <2>3. Unpack(<<Operand(0, 2)>>, word) = <<Field(word, 0, 2)>>
    BY OneUnpacked
  <2>4. QED
    BY <2>1, <2>2, <2>3, Fields
<1>5. CASE op = "SHIFT_IN"
  <2>1. Instructions[op].operands = <<Operand(2, 2)>>
    BY <1>5, PairRows DEF Row
  <2>2. RtlArgs = <<Rtl!input_pin(word)>>
    BY <1>5 DEF RtlArgs, SkipOps
  <2>3. Unpack(<<Operand(2, 2)>>, word) = <<Field(word, 2, 2)>>
    BY OneUnpacked
  <2>4. QED
    BY <2>1, <2>2, <2>3, Fields
<1>6. CASE op = "CONFIG"
  <2>1. Instructions[op].operands = <<Operand(2, 2), Operand(0, 2)>>
    BY <1>6, AloneRows DEF Row
  <2>2. RtlArgs = <<Rtl!config_field(word), Rtl!config_value(word)>>
    BY <1>6 DEF RtlArgs, SkipOps
  <2>3. Rtl!config_field(word) = Rtl!input_pin(word) /\ Rtl!config_value(word) = Rtl!acc_pin(word)
    BY DEF Rtl!config_field, Rtl!config_value, Rtl!input_pin, Rtl!acc_pin
  <2>4. Unpack(<<Operand(2, 2), Operand(0, 2)>>, word) = <<Field(word, 2, 2), Field(word, 0, 2)>>
    BY PairUnpacked
  <2>5. QED
    BY <2>1, <2>2, <2>3, <2>4, Fields
<1>7. CASE op = "WAIT"
  <2>1. Instructions[op].operands = <<Operand(2, 2), Operand(0, 1)>>
    BY <1>7, AloneRows DEF Row
  <2>2. RtlArgs = <<Rtl!input_pin(word), Rtl!level(word)>>
    BY <1>7 DEF RtlArgs, SkipOps
  <2>3. Unpack(<<Operand(2, 2), Operand(0, 1)>>, word) = <<Field(word, 2, 2), Field(word, 0, 1)>>
    BY PairUnpacked
  <2>4. QED
    BY <2>1, <2>2, <2>3, Fields
<1>8. CASE op \in {"JMP", "REPEAT"}
  <2>1. /\ Instructions["JMP"].operands = <<Operand(0, 8)>>
        /\ Instructions["REPEAT"].operands = <<[lsb |-> 0, bits |-> 8, min |-> 1]>>
    BY AloneRows DEF Row
  <2>2. RtlArgs = <<Rtl!operand(word)>>
    BY <1>8 DEF RtlArgs, SkipOps
  <2>3. Unpack(<<Operand(0, 8)>>, word) = <<Field(word, 0, 8)>>
    BY OneUnpacked
  <2>4. Unpack(<<[lsb |-> 0, bits |-> 8, min |-> 1]>>, word) = <<Field(word, 0, 8)>>
    BY DEF Unpack
  <2>5. QED
    BY <1>8, <2>1, <2>2, <2>3, <2>4, Fields
<1>9. QED
  BY <1>1, <1>2, <1>3, <1>4, <1>5, <1>6, <1>7, <1>8, Mnemonics DEF SkipOps

(* The rows that allow a side effect. *)
MaySide == {"SHIFT_OUT", "SHIFT_IN", "PULL", "PUSH", "CONFIG", "WAIT", "SKIP"}

LEMMA SidedRows ==
  ASSUME NEW op \in Mnemonic
  PROVE  Instructions[op].side <=> op \in MaySide
<1>1. CASE op \in {"NOP", "SET", "SKIP_RUN", "SKIP_NORUN"}
  BY <1>1, Opcode0Rows DEF Row, MaySide
<1>2. CASE op \in {"ACC_IN", "ACC_CRC", "ACC_OUT", "ACC_PUSH", "ACC_LOAD"}
  BY <1>2, AccRows DEF Row, MaySide
<1>3. CASE op \in {"SHIFT_OUT", "SHIFT_IN", "PULL", "PUSH"}
  BY <1>3, PairRows DEF Row, MaySide
<1>4. CASE op \in {"JMP", "CONFIG", "WAIT", "SKIP", "REPEAT"}
  BY <1>4, AloneRows DEF Row, MaySide
<1>5. QED
  BY <1>1, <1>2, <1>3, <1>4, Mnemonics

(* In opcode 000 only SET has bit 7 up. *)
LEMMA SideFlagDown ==
  ASSUME NEW w \in Nat, NEW op, Matches(op, w),
         op \in {"NOP", "SKIP_RUN", "SKIP_NORUN", "ACC_IN", "ACC_CRC", "ACC_OUT", "ACC_PUSH",
                 "ACC_LOAD"}
  PROVE  (w \div 128) % 2 = 0
<1>1. /\ (w \div 32) % 8 = 0 => (w \div 128) % 2 = 0
      /\ (w \div 16) % 16 \in {4, 5} => (w \div 128) % 2 = 0
      /\ (w \div 4) % 64 \in {8, 9, 10} => (w \div 128) % 2 = 0
      /\ w % 256 \in {44, 48} => (w \div 128) % 2 = 0
  OBVIOUS
<1>2. QED
  BY <1>1, Opcode0Matches, AccMatches

LEMMA SideRead ==
  ASSUME word \in Nat, NEW op \in Mnemonic, Matches(op, word), RtlMnemonic = op
  PROVE  RtlSide = IF HasSide(op, word) THEN Unpack(PinValue, word) ELSE NoSide
<1>1. HasSide(op, word) <=> Instructions[op].side /\ Rtl!side(word)
  BY Fields DEF HasSide, Bit, Rtl!side
<1>2. HasSide(op, word) <=> Rtl!side(word) /\ op \notin {"SET", "JMP", "REPEAT"}
  BY <1>1, SidedRows, SideFlagDown, Mnemonics DEF Rtl!side, MaySide
<1>3. QED
  BY <1>2, SideUnpacked DEF RtlSide

LEMMA DecodeTakesAClaim ==
  ASSUME Decodable(word)
  PROVE  /\ Taken(word) \in Mnemonic
         /\ Matches(Taken(word), word)
         /\ Decode(word) = Unpacked(Taken(word), word)
         /\ \A k \in 0 .. 7 : Bit(word, k) = 1 => k \in UsedBits(Taken(word), word)
<1>1. Taken(word) \in Claims(word)
  BY DEF Decodable, Taken
<1>2. QED
  BY <1>1, ClaimsMatch DEF Decodable, Decode

(* Every word that assembles means to the core what it means to the golden  *)
(* model, for every delay: mnemonic, operands, side effect and delay.       *)
THEOREM WiresReadWhatDecodeReads == Spec => []RtlReadsWhatDecodeReads
<1>1. WordOK => RtlReadsWhatDecodeReads
  <2> SUFFICES ASSUME WordOK, Decodable(word)
               PROVE  /\ RtlMnemonic = Decode(word).op
                      /\ RtlArgs = Decode(word).args
                      /\ RtlSide = Decode(word).side
                      /\ Rtl!delay(word) = Decode(word).delay
    BY DEF RtlReadsWhatDecodeReads
  <2> DEFINE op == Taken(word)
  <2>1. op \in Mnemonic /\ Matches(op, word) /\ Decode(word) = Unpacked(op, word)
    BY DecodeTakesAClaim
  <2> HIDE DEF op
  <2>2. word \in Nat
    BY DEF WordOK
  <2>3. /\ Decode(word).op = op
        /\ Decode(word).args = Unpack(Instructions[op].operands, word)
        /\ Decode(word).delay = Field(word, 8, 5)
        /\ Decode(word).side = IF HasSide(op, word) THEN Unpack(PinValue, word) ELSE NoSide
    BY <2>1 DEF Unpacked
  <2>4. RtlMnemonic = op
    BY <2>1, <2>2, MatchedIsRead
  <2>5. RtlArgs = Decode(word).args
    BY <2>1, <2>2, <2>3, <2>4, ArgsRead
  <2>6. RtlSide = Decode(word).side
    BY <2>1, <2>2, <2>3, <2>4, SideRead
  <2>7. Rtl!delay(word) = Decode(word).delay
    BY <2>2, <2>3, Fields
  <2>8. QED
    BY <2>3, <2>4, <2>5, <2>6, <2>7
<1>2. QED
  BY <1>1, WordStays, PTL

-----------------------------------------------------------------------------
(* encode's sum of the operands at their places. *)

LEMMA PackedNone ==
  ASSUME NEW operands
  PROVE  Packed(<<>>, operands) = 0
<1> DEFINE sum[k \in 0 .. 0] ==
             IF k = 0 THEN 0 ELSE sum[k - 1] + <<>>[k] * 2^operands[k].lsb
<1>1. sum = [k \in 0 .. 0 |-> IF k = 0 THEN 0 ELSE sum[k - 1] + <<>>[k] * 2^operands[k].lsb]
  <2> DEFINE g == [k \in 0 .. 0 |-> 0]
  <2>1. g = [k \in 0 .. 0 |-> IF k = 0 THEN 0 ELSE g[k - 1] + <<>>[k] * 2^operands[k].lsb]
    OBVIOUS
  <2> HIDE DEF g
  <2>2. QED
    BY <2>1
<1>2. QED
  BY <1>1 DEF Packed

LEMMA PackedOne ==
  ASSUME NEW a \in Int, NEW o, NEW x \in Int, x = 2^o.lsb
  PROVE  Packed(<<a>>, <<o>>) = a * x
<1> DEFINE operands == <<o>>
           sum[k \in 0 .. 1] ==
             IF k = 0 THEN 0 ELSE sum[k - 1] + <<a>>[k] * 2^operands[k].lsb
<1>1. sum = [k \in 0 .. 1 |-> IF k = 0 THEN 0 ELSE sum[k - 1] + <<a>>[k] * 2^operands[k].lsb]
  <2> DEFINE g == [k \in 0 .. 1 |-> IF k = 0 THEN 0 ELSE a * 2^o.lsb]
  <2>1. g = [k \in 0 .. 1 |-> IF k = 0 THEN 0 ELSE g[k - 1] + <<a>>[k] * 2^operands[k].lsb]
    OBVIOUS
  <2> HIDE DEF g
  <2>2. QED
    BY <2>1
<1>2. Packed(<<a>>, operands) = sum[1]
  BY DEF Packed
<1> HIDE DEF sum
<1>3. sum[0] = 0 /\ sum[1] = sum[0] + a * 2^o.lsb
  BY <1>1
<1>4. QED
  BY <1>2, <1>3

(* Two operands a and b are packed as a times x and b times y. *)
Weighs(o, p, x, y) == \A a, b \in Int : Packed(<<a, b>>, <<o, p>>) = a * x + b * y

LEMMA PackedTwo ==
  ASSUME NEW o, NEW p, NEW x \in Int, NEW y \in Int, 2^o.lsb = x, 2^p.lsb = y
  PROVE  Weighs(o, p, x, y)
<1> SUFFICES ASSUME NEW a \in Int, NEW b \in Int
             PROVE  Packed(<<a, b>>, <<o, p>>) = a * x + b * y
  BY DEF Weighs
<1> DEFINE operands == <<o, p>>
           sum[k \in 0 .. 2] ==
             IF k = 0 THEN 0 ELSE sum[k - 1] + <<a, b>>[k] * 2^operands[k].lsb
<1>1. sum = [k \in 0 .. 2 |-> IF k = 0 THEN 0 ELSE sum[k - 1] + <<a, b>>[k] * 2^operands[k].lsb]
  <2> DEFINE g == [k \in 0 .. 2 |-> IF k = 0 THEN 0
                                    ELSE IF k = 1 THEN a * 2^o.lsb
                                    ELSE a * 2^o.lsb + b * 2^p.lsb]
  <2>1. g = [k \in 0 .. 2 |-> IF k = 0 THEN 0 ELSE g[k - 1] + <<a, b>>[k] * 2^operands[k].lsb]
    OBVIOUS
  <2> HIDE DEF g
  <2>2. QED
    BY <2>1
<1>2. Packed(<<a, b>>, operands) = sum[2]
  BY DEF Packed
<1> HIDE DEF sum
<1>3. sum[0] = 0 /\ sum[1] = sum[0] + a * 2^o.lsb /\ sum[2] = sum[1] + b * 2^p.lsb
  BY <1>1
<1>4. QED
  BY <1>2, <1>3

LEMMA OperandsPacked ==
  ASSUME NEW a \in Int, NEW b \in Int
  PROVE  /\ Packed(<<a>>, <<Operand(0, 8)>>) = a
         /\ Packed(<<a>>, <<[lsb |-> 0, bits |-> 8, min |-> 1]>>) = a
         /\ Packed(<<a>>, <<Operand(0, 2)>>) = a
         /\ Packed(<<a>>, <<Operand(2, 2)>>) = a * 4
         /\ Packed(<<a, b>>, <<Operand(1, 3), Operand(0, 1)>>) = a * 2 + b
         /\ Packed(<<a, b>>, <<Operand(2, 2), Operand(0, 1)>>) = a * 4 + b
         /\ Packed(<<a, b>>, <<Operand(2, 2), Operand(0, 2)>>) = a * 4 + b
         /\ Packed(<<a, b>>, PinValue) = a * 32 + b * 16
<1>1. \A bits : /\ 2^Operand(0, bits).lsb = 1
                /\ 2^Operand(1, bits).lsb = 2
                /\ 2^Operand(2, bits).lsb = 4
                /\ 2^Operand(4, bits).lsb = 16
                /\ 2^Operand(5, bits).lsb = 32
  BY DEF Operand
<1>2. 2^[lsb |-> 0, bits |-> 8, min |-> 1].lsb = 1
  OBVIOUS
<1>3. \A o : \A x \in Int : x = 2^o.lsb => Packed(<<a>>, <<o>>) = a * x
  BY PackedOne, Zenon
<1>4. /\ Weighs(Operand(1, 3), Operand(0, 1), 2, 1)
      /\ Weighs(Operand(2, 2), Operand(0, 1), 4, 1)
      /\ Weighs(Operand(2, 2), Operand(0, 2), 4, 1)
      /\ Weighs(Operand(5, 2), Operand(4, 1), 32, 16)
  BY <1>1, PackedTwo
<1>5. \A o : /\ 1 = 2^o.lsb => Packed(<<a>>, <<o>>) = a * 1
             /\ 4 = 2^o.lsb => Packed(<<a>>, <<o>>) = a * 4
  BY <1>3
<1>6. /\ Packed(<<a, b>>, <<Operand(1, 3), Operand(0, 1)>>) = a * 2 + b * 1
      /\ Packed(<<a, b>>, <<Operand(2, 2), Operand(0, 1)>>) = a * 4 + b * 1
      /\ Packed(<<a, b>>, <<Operand(2, 2), Operand(0, 2)>>) = a * 4 + b * 1
      /\ Packed(<<a, b>>, <<Operand(5, 2), Operand(4, 1)>>) = a * 32 + b * 16
  BY <1>4 DEF Weighs
<1>7. a * 1 = a /\ b * 1 = b
  OBVIOUS
<1>8. Packed(<<a, b>>, PinValue) = a * 32 + b * 16
  BY <1>6 DEF PinValue
<1>9. /\ Packed(<<a>>, <<Operand(0, 8)>>) = a
      /\ Packed(<<a>>, <<Operand(0, 2)>>) = a
      /\ Packed(<<a>>, <<[lsb |-> 0, bits |-> 8, min |-> 1]>>) = a
  BY <1>1, <1>2, <1>5, <1>7
<1>10. Packed(<<a>>, <<Operand(2, 2)>>) = a * 4
  BY <1>1, <1>5
<1>11. Packed(<<a, b>>, <<Operand(1, 3), Operand(0, 1)>>) = a * 2 + b
  BY <1>6, <1>7
<1>12. /\ Packed(<<a, b>>, <<Operand(2, 2), Operand(0, 1)>>) = a * 4 + b
       /\ Packed(<<a, b>>, <<Operand(2, 2), Operand(0, 2)>>) = a * 4 + b
  BY <1>6, <1>7
<1>13. QED
  BY <1>8, <1>9, <1>10, <1>11, <1>12

-----------------------------------------------------------------------------
(* encode gives back the word. *)

(* Bit k of a word, as a number. *)
BitOf(w, k) == (w \div 2^k) % 2

(* A word's bits, and the fields made of them. *)
LEMMA BitsOfOperand ==
  ASSUME NEW w \in Nat
  PROVE  /\ w % 256 = 128 * BitOf(w, 7) + 64 * BitOf(w, 6) + 32 * BitOf(w, 5) + 16 * BitOf(w, 4)
                        + 8 * BitOf(w, 3) + 4 * BitOf(w, 2) + 2 * BitOf(w, 1) + BitOf(w, 0)
         /\ (w \div 32) % 8 = 4 * BitOf(w, 7) + 2 * BitOf(w, 6) + BitOf(w, 5)
         /\ (w \div 32) % 4 = 2 * BitOf(w, 6) + BitOf(w, 5)
         /\ (w \div 16) % 16 = 8 * BitOf(w, 7) + 4 * BitOf(w, 6) + 2 * BitOf(w, 5) + BitOf(w, 4)
         /\ (w \div 4) % 64 = 32 * BitOf(w, 7) + 16 * BitOf(w, 6) + 8 * BitOf(w, 5)
                                + 4 * BitOf(w, 4) + 2 * BitOf(w, 3) + BitOf(w, 2)
         /\ (w \div 4) % 4 = 2 * BitOf(w, 3) + BitOf(w, 2)
         /\ (w \div 2) % 8 = 4 * BitOf(w, 3) + 2 * BitOf(w, 2) + BitOf(w, 1)
         /\ w % 4 = 2 * BitOf(w, 1) + BitOf(w, 0)
<1>1. \A n \in Nat : n \div 1 = n
  OBVIOUS
<1>2. BitOf(w, 0) = w % 2
  BY <1>1 DEF BitOf
<1>3. (w \div 16) % 16 = 8 * BitOf(w, 7) + 4 * BitOf(w, 6) + 2 * BitOf(w, 5) + BitOf(w, 4)
  BY DEF BitOf
<1>4. w % 16 = 8 * BitOf(w, 3) + 4 * BitOf(w, 2) + 2 * BitOf(w, 1) + BitOf(w, 0)
  BY <1>2 DEF BitOf
<1>5. w % 256 = 16 * ((w \div 16) % 16) + (w % 16)
  OBVIOUS
<1>6. (w \div 32) % 8 = 4 * BitOf(w, 7) + 2 * BitOf(w, 6) + BitOf(w, 5)
  BY DEF BitOf
<1>7. (w \div 32) % 4 = 2 * BitOf(w, 6) + BitOf(w, 5)
  BY DEF BitOf
<1>8. (w \div 4) % 4 = 2 * BitOf(w, 3) + BitOf(w, 2)
  BY DEF BitOf
<1>9. (w \div 2) % 8 = 4 * BitOf(w, 3) + 2 * BitOf(w, 2) + BitOf(w, 1)
  BY DEF BitOf
<1>10. w % 4 = 2 * BitOf(w, 1) + BitOf(w, 0)
  BY <1>2 DEF BitOf
<1>11. (w \div 4) % 64 = 4 * ((w \div 16) % 16) + ((w \div 4) % 4)
  OBVIOUS
<1>12. /\ BitOf(w, 0) \in Int /\ BitOf(w, 1) \in Int /\ BitOf(w, 2) \in Int /\ BitOf(w, 3) \in Int
       /\ BitOf(w, 4) \in Int /\ BitOf(w, 5) \in Int /\ BitOf(w, 6) \in Int /\ BitOf(w, 7) \in Int
  BY DEF BitOf
<1>13. w % 256 = 128 * BitOf(w, 7) + 64 * BitOf(w, 6) + 32 * BitOf(w, 5) + 16 * BitOf(w, 4)
               + 8 * BitOf(w, 3) + 4 * BitOf(w, 2) + 2 * BitOf(w, 1) + BitOf(w, 0)
  <2> DEFINE x == w % 256
             h == (w \div 16) % 16
             l == w % 16
  <2>1. x = 16 * h + l /\ x \in Int /\ h \in Int /\ l \in Int
    BY <1>5
  <2>2. h = 8 * BitOf(w, 7) + 4 * BitOf(w, 6) + 2 * BitOf(w, 5) + BitOf(w, 4)
    BY <1>3
  <2>3. l = 8 * BitOf(w, 3) + 4 * BitOf(w, 2) + 2 * BitOf(w, 1) + BitOf(w, 0)
    BY <1>4
  <2> HIDE DEF x, h, l
  <2>4. x = 128 * BitOf(w, 7) + 64 * BitOf(w, 6) + 32 * BitOf(w, 5) + 16 * BitOf(w, 4)
              + 8 * BitOf(w, 3) + 4 * BitOf(w, 2) + 2 * BitOf(w, 1) + BitOf(w, 0)
    BY <2>1, <2>2, <2>3, <1>12
  <2>5. QED
    BY <2>4 DEF x
<1>14. (w \div 4) % 64 = 32 * BitOf(w, 7) + 16 * BitOf(w, 6) + 8 * BitOf(w, 5)
                           + 4 * BitOf(w, 4) + 2 * BitOf(w, 3) + BitOf(w, 2)
  <2> DEFINE x == (w \div 4) % 64
             h == (w \div 16) % 16
             l == (w \div 4) % 4
  <2>1. x = 4 * h + l /\ x \in Int /\ h \in Int /\ l \in Int
    BY <1>11
  <2>2. h = 8 * BitOf(w, 7) + 4 * BitOf(w, 6) + 2 * BitOf(w, 5) + BitOf(w, 4)
    BY <1>3
  <2>3. l = 2 * BitOf(w, 3) + BitOf(w, 2)
    BY <1>8
  <2> HIDE DEF x, h, l
  <2>4. x = 32 * BitOf(w, 7) + 16 * BitOf(w, 6) + 8 * BitOf(w, 5)
              + 4 * BitOf(w, 4) + 2 * BitOf(w, 3) + BitOf(w, 2)
    BY <2>1, <2>2, <2>3, <1>12
  <2>5. QED
    BY <2>4 DEF x
<1>15. QED
  BY <1>3, <1>6, <1>7, <1>8, <1>9, <1>10, <1>13, <1>14

LEMMA ByteOfBits ==
  ASSUME NEW w \in Nat
  PROVE  w % 256 = 128 * BitOf(w, 7) + 64 * BitOf(w, 6) + 32 * BitOf(w, 5) + 16 * BitOf(w, 4)
                   + 8 * BitOf(w, 3) + 4 * BitOf(w, 2) + 2 * BitOf(w, 1) + BitOf(w, 0)
  BY BitsOfOperand

LEMMA OperandBits ==
  ASSUME NEW w \in Nat
  PROVE  /\ (w \div 32) % 8 = 4 * BitOf(w, 7) + 2 * BitOf(w, 6) + BitOf(w, 5)
         /\ (w \div 32) % 4 = 2 * BitOf(w, 6) + BitOf(w, 5)
         /\ (w \div 4) % 4 = 2 * BitOf(w, 3) + BitOf(w, 2)
         /\ (w \div 2) % 8 = 4 * BitOf(w, 3) + 2 * BitOf(w, 2) + BitOf(w, 1)
         /\ w % 4 = 2 * BitOf(w, 1) + BitOf(w, 0)
  BY BitsOfOperand

(* What encode puts in bits 7:0 is the sum of the operands, the select and  *)
(* the side effect; it must be the low byte of the word.                    *)
ArgsPart(op, w) == Packed(Unpack(Instructions[op].operands, w), Instructions[op].operands)

SelectPart(op) == Instructions[op].select.value * 2^Instructions[op].select.lsb

SidePart(op, w) == IF HasSide(op, w) THEN 128 + Packed(Unpack(PinValue, w), PinValue) ELSE 0

LowIsRight(op, w) ==
  /\ ArgsPart(op, w) \in Int
  /\ SelectPart(op) \in Int
  /\ SidePart(op, w) \in Int
  /\ ArgsPart(op, w) + SelectPart(op) + SidePart(op, w) = w % 256

LEMMA EncodeAddsLow ==
  ASSUME NEW w \in Nat, w < 65536, NEW op \in Mnemonic, Matches(op, w), LowIsRight(op, w)
  PROVE  Encode(Unpacked(op, w)) = w
<1>1. Unpack(PinValue, w) /= NoSide
  BY SideUnpacked DEF NoSide
<1>2. Encode(Unpacked(op, w)) =
          Instructions[op].opcode * 2^13 + Field(w, 8, 5) * 2^8
        + ArgsPart(op, w) + SelectPart(op) + SidePart(op, w)
  BY <1>1 DEF Encode, Unpacked, ArgsPart, SelectPart, SidePart
<1>3. Instructions[op].opcode = (w \div 8192) % 8
  BY Fields DEF Matches, Rtl!opcode
<1>4. Field(w, 8, 5) = (w \div 256) % 32
  BY Fields DEF Rtl!delay
<1>5. w = ((w \div 8192) % 8) * 8192 + ((w \div 256) % 32) * 256 + (w % 256)
  OBVIOUS
<1>6. QED
  BY <1>2, <1>3, <1>4, <1>5 DEF LowIsRight

(* Every bit set in the low byte is one the row uses, as decode asks. *)
Used(op, w) == \A k \in 0 .. 7 : Bit(w, k) = 1 => k \in UsedBits(op, w)

LEMMA BitsAreBits ==
  ASSUME NEW w \in Nat
  PROVE  /\ BitOf(w, 0) \in {0, 1} /\ BitOf(w, 1) \in {0, 1} /\ BitOf(w, 2) \in {0, 1}
         /\ BitOf(w, 3) \in {0, 1} /\ BitOf(w, 4) \in {0, 1} /\ BitOf(w, 5) \in {0, 1}
         /\ BitOf(w, 6) \in {0, 1} /\ BitOf(w, 7) \in {0, 1}
  BY DEF BitOf

LEMMA BitsAreInts ==
  ASSUME NEW w \in Nat
  PROVE  /\ BitOf(w, 0) \in Int /\ BitOf(w, 1) \in Int /\ BitOf(w, 2) \in Int
         /\ BitOf(w, 3) \in Int /\ BitOf(w, 4) \in Int /\ BitOf(w, 5) \in Int
         /\ BitOf(w, 6) \in Int /\ BitOf(w, 7) \in Int
  BY DEF BitOf

LEMMA NotUsed ==
  ASSUME NEW w \in Nat, NEW op, Used(op, w), NEW k \in 0 .. 7, k \notin UsedBits(op, w)
  PROVE  BitOf(w, k) = 0
<1>1. Bit(w, k) = BitOf(w, k)
  BY DEF Bit, BitOf, Field
<1>2. k \in {0, 1, 2, 3, 4, 5, 6, 7}
  OBVIOUS
<1>3. BitOf(w, k) \in {0, 1}
  BY <1>2, BitsAreBits
<1>4. QED
  BY <1>1, <1>3 DEF Used

(* The bits a row leaves without a meaning. *)
LEMMA RowUses ==
  ASSUME NEW op, NEW w, NEW k \in UsedBits(op, w)
  PROVE  \/ \E j \in DOMAIN Instructions[op].operands :
              k \in Mask(Instructions[op].operands[j])
         \/ k \in Mask(Instructions[op].select)
         \/ Instructions[op].side /\ k = 7
         \/ HasSide(op, w) /\ k \in 4 .. 6
  BY DEF UsedBits

LEMMA MaskIs ==
  /\ \A lsb, bits : Mask(Operand(lsb, bits)) = lsb .. lsb + bits - 1
  /\ \A lsb, bits, value : Mask(Select(lsb, bits, value)) = lsb .. lsb + bits - 1
  /\ Mask(NoSelect) = {}
<1>1. \A lsb, bits : Mask(Operand(lsb, bits)) = lsb .. lsb + bits - 1
  BY DEF Mask, Operand
<1>2. \A lsb, bits, value : Mask(Select(lsb, bits, value)) = lsb .. lsb + bits - 1
  BY DEF Mask, Select
<1>3. Mask(NoSelect) = {}
  BY DEF Mask, NoSelect
<1>4. QED
  BY <1>1, <1>2, <1>3

LEMMA OperandsMask ==
  ASSUME NEW k
  PROVE  /\ ~ \E j \in DOMAIN <<>> : k \in Mask(<<>>[j])
         /\ \A o : (\E j \in DOMAIN <<o>> : k \in Mask(<<o>>[j])) => k \in Mask(o)
         /\ \A o, p : (\E j \in DOMAIN <<o, p>> : k \in Mask(<<o, p>>[j])) =>
              k \in Mask(o) \/ k \in Mask(p)
  OBVIOUS

LEMMA UnusedBits ==
  ASSUME NEW w \in Nat, NEW op \in Mnemonic, NEW k \in UsedBits(op, w)
  PROVE  /\ op = "NOP" => k \in 5 .. 7
         /\ op = "SET" => k \in 4 .. 7
         /\ op = "SHIFT_OUT" => k = 1 \/ k \in 4 .. 7
         /\ op = "SHIFT_IN" => k \in 1 .. 7
         /\ op \in {"PULL", "PUSH"} => k = 0 \/ k \in 4 .. 7
         /\ op = "WAIT" => k = 0 \/ k \in 2 .. 7
         /\ op \in MaySide /\ ~HasSide(op, w) => k \in 0 .. 3 \/ k = 7
<1>1. CASE op = "NOP"
  <2>1. /\ Instructions[op].operands = <<>>
        /\ Instructions[op].select = Select(5, 3, 0)
        /\ ~Instructions[op].side /\ ~HasSide(op, w)
    BY <1>1, Opcode0Rows DEF Row, HasSide
  <2>2. k \in Mask(Select(5, 3, 0))
    BY <2>1, RowUses, OperandsMask
  <2>3. QED
    BY <1>1, <2>2, MaskIs DEF MaySide
<1>2. CASE op = "SET"
  <2>1. /\ Instructions[op].operands = <<Operand(5, 2), Operand(4, 1)>>
        /\ Instructions[op].select = Select(7, 1, 1)
        /\ ~Instructions[op].side /\ ~HasSide(op, w)
    BY <1>2, Opcode0Rows DEF Row, HasSide, PinValue
  <2>2. k \in Mask(Operand(5, 2)) \/ k \in Mask(Operand(4, 1)) \/ k \in Mask(Select(7, 1, 1))
    BY <2>1, RowUses, OperandsMask
  <2>3. QED
    BY <1>2, <2>2, MaskIs DEF MaySide
<1>3. CASE op = "SHIFT_OUT"
  <2>1. /\ Instructions[op].operands = <<>>
        /\ Instructions[op].select = Select(1, 1, 0)
    BY <1>3, PairRows DEF Row
  <2>2. k \in Mask(Select(1, 1, 0)) \/ k = 7 \/ (HasSide(op, w) /\ k \in 4 .. 6)
    BY <2>1, RowUses, OperandsMask
  <2>3. QED
    BY <1>3, <2>2, MaskIs
<1>4. CASE op = "SHIFT_IN"
  <2>1. /\ Instructions[op].operands = <<Operand(2, 2)>>
        /\ Instructions[op].select = Select(1, 1, 1)
    BY <1>4, PairRows DEF Row
  <2>2. k \in Mask(Operand(2, 2)) \/ k \in Mask(Select(1, 1, 1)) \/ k = 7 \/ (HasSide(op, w) /\ k \in 4 .. 6)
    BY <2>1, RowUses, OperandsMask
  <2>3. QED
    BY <1>4, <2>2, MaskIs
<1>5. CASE op \in {"PULL", "PUSH"}
  <2>1. /\ Instructions[op].operands = <<>>
        /\ Instructions[op].select = Select(0, 1, 0) \/ Instructions[op].select = Select(0, 1, 1)
    BY <1>5, PairRows DEF Row
  <2>2. \/ k \in Mask(Select(0, 1, 0)) \/ k \in Mask(Select(0, 1, 1))
        \/ k = 7 \/ (HasSide(op, w) /\ k \in 4 .. 6)
    BY <2>1, RowUses, OperandsMask
  <2>3. QED
    BY <1>5, <2>2, MaskIs
<1>6. CASE op = "WAIT"
  <2>1. /\ Instructions[op].operands = <<Operand(2, 2), Operand(0, 1)>>
        /\ Instructions[op].select = NoSelect
    BY <1>6, AloneRows DEF Row
  <2>2. k \in Mask(Operand(2, 2)) \/ k \in Mask(Operand(0, 1)) \/ k = 7 \/ (HasSide(op, w) /\ k \in 4 .. 6)
    BY <2>1, RowUses, OperandsMask, MaskIs
  <2>3. QED
    BY <1>6, <2>2, MaskIs
<1>7. CASE op = "SKIP"
  <2>1. /\ Instructions[op].operands = <<Operand(1, 3), Operand(0, 1)>>
        /\ Instructions[op].select = NoSelect
    BY <1>7, AloneRows DEF Row
  <2>2. k \in Mask(Operand(1, 3)) \/ k \in Mask(Operand(0, 1)) \/ k = 7 \/ (HasSide(op, w) /\ k \in 4 .. 6)
    BY <2>1, RowUses, OperandsMask, MaskIs
  <2>3. QED
    BY <1>7, <2>2, MaskIs
<1>8. CASE op = "CONFIG"
  <2>1. /\ Instructions[op].operands = <<Operand(2, 2), Operand(0, 2)>>
        /\ Instructions[op].select = NoSelect
    BY <1>8, AloneRows DEF Row
  <2>2. k \in Mask(Operand(2, 2)) \/ k \in Mask(Operand(0, 2)) \/ k = 7 \/ (HasSide(op, w) /\ k \in 4 .. 6)
    BY <2>1, RowUses, OperandsMask, MaskIs
  <2>3. QED
    BY <1>8, <2>2, MaskIs
<1>9. QED
  BY <1>1, <1>2, <1>3, <1>4, <1>5, <1>6, <1>7, <1>8 DEF MaySide

LEMMA PinsPacked ==
  ASSUME NEW w \in Nat
  PROVE  Packed(Unpack(PinValue, w), PinValue) = 64 * BitOf(w, 6) + 32 * BitOf(w, 5) + 16 * BitOf(w, 4)
<1> DEFINE a == Rtl!side_pin(w)
           b == Rtl!side_val(w)
<1>1. a = 2 * BitOf(w, 6) + BitOf(w, 5)
  BY OperandBits DEF Rtl!side_pin
<1>2. b = BitOf(w, 4)
  BY DEF Rtl!side_val, BitOf
<1>3. Unpack(PinValue, w) = <<a, b>>
  BY SideUnpacked
<1> HIDE DEF a, b
<1>4. a \in Int /\ b \in Int
  BY <1>1, <1>2, BitsAreBits
<1>5. Packed(<<a, b>>, PinValue) = a * 32 + b * 16
  BY <1>4, OperandsPacked
<1>6. QED
  BY <1>1, <1>2, <1>3, <1>5, BitsAreBits

LEMMA SidePartIs ==
  ASSUME NEW w \in Nat, NEW op \in Mnemonic
  PROVE  SidePart(op, w) = IF op \in MaySide /\ BitOf(w, 7) = 1
                             THEN 128 + 64 * BitOf(w, 6) + 32 * BitOf(w, 5) + 16 * BitOf(w, 4)
                             ELSE 0
<1>1. HasSide(op, w) <=> op \in MaySide /\ BitOf(w, 7) = 1
  BY SidedRows DEF HasSide, Bit, BitOf, Field
<1>2. Packed(Unpack(PinValue, w), PinValue) = 64 * BitOf(w, 6) + 32 * BitOf(w, 5) + 16 * BitOf(w, 4)
  BY PinsPacked
<1>3. QED
  BY <1>1, <1>2, BitsAreBits DEF SidePart

(* The bits outside the side effect's, once what a word may not use is 0. *)
LEMMA SidePartCovers ==
  ASSUME NEW w \in Nat, NEW op \in MaySide, Used(op, w)
  PROVE  SidePart(op, w) = 128 * BitOf(w, 7) + 64 * BitOf(w, 6) + 32 * BitOf(w, 5) + 16 * BitOf(w, 4)
<1>1. op \in Mnemonic
  BY Mnemonics DEF MaySide
<1>2. CASE BitOf(w, 7) = 1
  BY <1>1, <1>2, SidePartIs, BitsAreBits
<1>3. CASE BitOf(w, 7) = 0
  <2>1. ~HasSide(op, w)
    BY <1>3 DEF HasSide, Bit, BitOf, Field
  <2>2. \A k \in 4 .. 6 : k \notin UsedBits(op, w)
    BY <1>1, <2>1, UnusedBits
  <2>3. BitOf(w, 4) = 0 /\ BitOf(w, 5) = 0 /\ BitOf(w, 6) = 0
    BY <2>2, NotUsed
  <2>4. QED
    BY <1>1, <1>3, <2>3, SidePartIs
<1>4. QED
  BY <1>2, <1>3, BitsAreBits

(* What a select's lowest bit weighs. *)
Weight(k) == 2^k

LEMMA Weights ==
  /\ Weight(0) = 1
  /\ Weight(1) = 2
  /\ Weight(2) = 4
  /\ Weight(4) = 16
  /\ Weight(5) = 32
  /\ Weight(7) = 128
  BY DEF Weight

LEMMA SelectParts ==
  /\ SelectPart("NOP") = 0
  /\ SelectPart("SET") = 128
  /\ SelectPart("SKIP_RUN") = 64
  /\ SelectPart("SKIP_NORUN") = 80
  /\ SelectPart("ACC_IN") = 32
  /\ SelectPart("ACC_CRC") = 36
  /\ SelectPart("ACC_OUT") = 40
  /\ SelectPart("ACC_PUSH") = 44
  /\ SelectPart("ACC_LOAD") = 48
  /\ SelectPart("SHIFT_OUT") = 0
  /\ SelectPart("SHIFT_IN") = 2
  /\ SelectPart("PULL") = 0
  /\ SelectPart("PUSH") = 1
  /\ \A op \in {"JMP", "CONFIG", "WAIT", "SKIP", "REPEAT"} : SelectPart(op) = 0
<1>1. \A op, lsb, bits, value :
        Instructions[op].select = Select(lsb, bits, value) => SelectPart(op) = value * Weight(lsb)
  BY DEF SelectPart, Select, Weight
<1>2. /\ Instructions["NOP"].select = Select(5, 3, 0)
      /\ Instructions["SET"].select = Select(7, 1, 1)
      /\ Instructions["SKIP_RUN"].select = Select(4, 4, 4)
      /\ Instructions["SKIP_NORUN"].select = Select(4, 4, 5)
  BY Opcode0Rows DEF Row
<1>3. /\ Instructions["ACC_IN"].select = Select(2, 6, 8)
      /\ Instructions["ACC_CRC"].select = Select(2, 6, 9)
      /\ Instructions["ACC_OUT"].select = Select(2, 6, 10)
      /\ Instructions["ACC_PUSH"].select = Select(0, 8, 44)
      /\ Instructions["ACC_LOAD"].select = Select(0, 8, 48)
  BY AccRows DEF Row
<1>4. /\ Instructions["SHIFT_OUT"].select = Select(1, 1, 0)
      /\ Instructions["SHIFT_IN"].select = Select(1, 1, 1)
      /\ Instructions["PULL"].select = Select(0, 1, 0)
      /\ Instructions["PUSH"].select = Select(0, 1, 1)
  BY PairRows DEF Row
<1>5. \A op \in {"JMP", "CONFIG", "WAIT", "SKIP", "REPEAT"} : SelectPart(op) = 0
  BY AloneRows, Weights DEF SelectPart, Row, NoSelect, Weight
<1>6. /\ SelectPart("NOP") = 0 * Weight(5)
      /\ SelectPart("SET") = 1 * Weight(7)
      /\ SelectPart("SKIP_RUN") = 4 * Weight(4)
      /\ SelectPart("SKIP_NORUN") = 5 * Weight(4)
  BY <1>1, <1>2
<1>7. /\ SelectPart("ACC_IN") = 8 * Weight(2)
      /\ SelectPart("ACC_CRC") = 9 * Weight(2)
      /\ SelectPart("ACC_OUT") = 10 * Weight(2)
      /\ SelectPart("ACC_PUSH") = 44 * Weight(0)
      /\ SelectPart("ACC_LOAD") = 48 * Weight(0)
  BY <1>1, <1>3
<1>8. /\ SelectPart("SHIFT_OUT") = 0 * Weight(1)
      /\ SelectPart("SHIFT_IN") = 1 * Weight(1)
      /\ SelectPart("PULL") = 0 * Weight(0)
      /\ SelectPart("PUSH") = 1 * Weight(0)
  BY <1>1, <1>4
<1>9. QED
  BY <1>5, <1>6, <1>7, <1>8, Weights

(* The operands at their places, as the wires have them. *)
LEMMA ArgsPacked ==
  ASSUME NEW w \in Nat
  PROVE  /\ Packed(Unpack(<<>>, w), <<>>) = 0
         /\ Packed(Unpack(<<Operand(0, 8)>>, w), <<Operand(0, 8)>>) = Rtl!operand(w)
         /\ LET whole == <<[lsb |-> 0, bits |-> 8, min |-> 1]>>
            IN  Packed(Unpack(whole, w), whole) = Rtl!operand(w)
         /\ Packed(Unpack(<<Operand(0, 2)>>, w), <<Operand(0, 2)>>) = Rtl!acc_pin(w)
         /\ Packed(Unpack(<<Operand(2, 2)>>, w), <<Operand(2, 2)>>) = Rtl!input_pin(w) * 4
         /\ LET operands == <<Operand(1, 3), Operand(0, 1)>>
            IN  Packed(Unpack(operands, w), operands) = Rtl!skip_bit(w) * 2 + Rtl!level(w)
         /\ LET operands == <<Operand(2, 2), Operand(0, 1)>>
            IN  Packed(Unpack(operands, w), operands) = Rtl!input_pin(w) * 4 + Rtl!level(w)
         /\ LET operands == <<Operand(2, 2), Operand(0, 2)>>
            IN  Packed(Unpack(operands, w), operands) = Rtl!input_pin(w) * 4 + Rtl!acc_pin(w)
<1>1. /\ Rtl!operand(w) \in Int /\ Rtl!acc_pin(w) \in Int /\ Rtl!input_pin(w) \in Int
      /\ Rtl!skip_bit(w) \in Int /\ Rtl!level(w) \in Int
  BY DEF Rtl!operand, Rtl!acc_pin, Rtl!input_pin, Rtl!skip_bit, Rtl!level
<1>2. /\ Field(w, 0, 8) = Rtl!operand(w)
      /\ Field(w, 0, 2) = Rtl!acc_pin(w)
      /\ Field(w, 2, 2) = Rtl!input_pin(w)
      /\ Field(w, 1, 3) = Rtl!skip_bit(w)
      /\ Field(w, 0, 1) = Rtl!level(w)
  BY Fields
<1>3. Packed(Unpack(<<>>, w), <<>>) = 0
  BY UnpackNone, PackedNone
<1>4. Packed(Unpack(<<Operand(0, 8)>>, w), <<Operand(0, 8)>>) = Rtl!operand(w)
  <2>1. Unpack(<<Operand(0, 8)>>, w) = <<Field(w, 0, 8)>>
    BY OneUnpacked
  <2>2. Unpack(<<Operand(0, 8)>>, w) = <<Rtl!operand(w)>>
    BY <1>2, <2>1
  <2>3. Packed(<<Rtl!operand(w)>>, <<Operand(0, 8)>>) = Rtl!operand(w)
    BY <1>1, OperandsPacked
  <2>4. QED
    BY <2>2, <2>3
<1>5. Packed(Unpack(<<[lsb |-> 0, bits |-> 8, min |-> 1]>>, w), <<[lsb |-> 0, bits |-> 8, min |-> 1]>>) = Rtl!operand(w)
  <2>1. Unpack(<<[lsb |-> 0, bits |-> 8, min |-> 1]>>, w) = <<Field(w, 0, 8)>>
    BY DEF Unpack
  <2>2. Unpack(<<[lsb |-> 0, bits |-> 8, min |-> 1]>>, w) = <<Rtl!operand(w)>>
    BY <1>2, <2>1
  <2>3. Packed(<<Rtl!operand(w)>>, <<[lsb |-> 0, bits |-> 8, min |-> 1]>>) = Rtl!operand(w)
    BY <1>1, OperandsPacked
  <2>4. QED
    BY <2>2, <2>3
<1>6. Packed(Unpack(<<Operand(0, 2)>>, w), <<Operand(0, 2)>>) = Rtl!acc_pin(w)
  <2>1. Unpack(<<Operand(0, 2)>>, w) = <<Field(w, 0, 2)>>
    BY OneUnpacked
  <2>2. Unpack(<<Operand(0, 2)>>, w) = <<Rtl!acc_pin(w)>>
    BY <1>2, <2>1
  <2>3. Packed(<<Rtl!acc_pin(w)>>, <<Operand(0, 2)>>) = Rtl!acc_pin(w)
    BY <1>1, OperandsPacked
  <2>4. QED
    BY <2>2, <2>3
<1>7. Packed(Unpack(<<Operand(2, 2)>>, w), <<Operand(2, 2)>>) = Rtl!input_pin(w) * 4
  <2>1. Unpack(<<Operand(2, 2)>>, w) = <<Field(w, 2, 2)>>
    BY OneUnpacked
  <2>2. Unpack(<<Operand(2, 2)>>, w) = <<Rtl!input_pin(w)>>
    BY <1>2, <2>1
  <2>3. Packed(<<Rtl!input_pin(w)>>, <<Operand(2, 2)>>) = Rtl!input_pin(w) * 4
    BY <1>1, OperandsPacked
  <2>4. QED
    BY <2>2, <2>3
<1>8. Packed(Unpack(<<Operand(1, 3), Operand(0, 1)>>, w), <<Operand(1, 3), Operand(0, 1)>>) = Rtl!skip_bit(w) * 2 + Rtl!level(w)
  <2>1. Unpack(<<Operand(1, 3), Operand(0, 1)>>, w) = <<Field(w, 1, 3), Field(w, 0, 1)>>
    BY PairUnpacked
  <2>2. Unpack(<<Operand(1, 3), Operand(0, 1)>>, w) = <<Rtl!skip_bit(w), Rtl!level(w)>>
    BY <1>2, <2>1
  <2>3. Packed(<<Rtl!skip_bit(w), Rtl!level(w)>>, <<Operand(1, 3), Operand(0, 1)>>) = Rtl!skip_bit(w) * 2 + Rtl!level(w)
    BY <1>1, OperandsPacked
  <2>4. QED
    BY <2>2, <2>3
<1>9. Packed(Unpack(<<Operand(2, 2), Operand(0, 1)>>, w), <<Operand(2, 2), Operand(0, 1)>>) = Rtl!input_pin(w) * 4 + Rtl!level(w)
  <2>1. Unpack(<<Operand(2, 2), Operand(0, 1)>>, w) = <<Field(w, 2, 2), Field(w, 0, 1)>>
    BY PairUnpacked
  <2>2. Unpack(<<Operand(2, 2), Operand(0, 1)>>, w) = <<Rtl!input_pin(w), Rtl!level(w)>>
    BY <1>2, <2>1
  <2>3. Packed(<<Rtl!input_pin(w), Rtl!level(w)>>, <<Operand(2, 2), Operand(0, 1)>>) = Rtl!input_pin(w) * 4 + Rtl!level(w)
    BY <1>1, OperandsPacked
  <2>4. QED
    BY <2>2, <2>3
<1>10. Packed(Unpack(<<Operand(2, 2), Operand(0, 2)>>, w), <<Operand(2, 2), Operand(0, 2)>>) = Rtl!input_pin(w) * 4 + Rtl!acc_pin(w)
  <2>1. Unpack(<<Operand(2, 2), Operand(0, 2)>>, w) = <<Field(w, 2, 2), Field(w, 0, 2)>>
    BY PairUnpacked
  <2>2. Unpack(<<Operand(2, 2), Operand(0, 2)>>, w) = <<Rtl!input_pin(w), Rtl!acc_pin(w)>>
    BY <1>2, <2>1
  <2>3. Packed(<<Rtl!input_pin(w), Rtl!acc_pin(w)>>, <<Operand(2, 2), Operand(0, 2)>>) = Rtl!input_pin(w) * 4 + Rtl!acc_pin(w)
    BY <1>1, OperandsPacked
  <2>4. QED
    BY <2>2, <2>3
<1>11. QED
  BY <1>3, <1>4, <1>5, <1>6, <1>7, <1>8, <1>9, <1>10

(* Opcode 000: there is no side effect, the row alone fills the byte. *)
LEMMA Opcode0Low ==
  ASSUME NEW w \in Nat, NEW op \in {"NOP", "SET", "SKIP_RUN", "SKIP_NORUN"}, Matches(op, w),
         Used(op, w)
  PROVE  LowIsRight(op, w)
<1>1. op \in Mnemonic /\ op \notin MaySide
  BY Mnemonics DEF MaySide
<1>2. SidePart(op, w) = 0
  BY <1>1, SidePartIs
<1>3. CASE op = "NOP"
  <2>1. ArgsPart(op, w) = 0
    BY <1>3, Opcode0Rows, UnpackNone, PackedNone DEF ArgsPart, Row
  <2>2. \A k \in 0 .. 4 : k \notin UsedBits(op, w)
    BY <1>1, <1>3, UnusedBits
  <2>3. /\ BitOf(w, 0) = 0 /\ BitOf(w, 1) = 0 /\ BitOf(w, 2) = 0 /\ BitOf(w, 3) = 0
        /\ BitOf(w, 4) = 0
    BY <2>2, NotUsed
  <2>4. 4 * BitOf(w, 7) + 2 * BitOf(w, 6) + BitOf(w, 5) = 0
    BY <1>3, Opcode0Matches, OperandBits
  <2>5. w % 256 = 0
    BY <2>3, <2>4, ByteOfBits, BitsAreBits
  <2>6. QED
    BY <1>2, <1>3, <2>1, <2>5, SelectParts DEF LowIsRight
<1>4. CASE op = "SET"
  <2>1. Instructions[op].operands = PinValue
    BY <1>4, Opcode0Rows DEF Row
  <2>2. ArgsPart(op, w) = 64 * BitOf(w, 6) + 32 * BitOf(w, 5) + 16 * BitOf(w, 4)
    BY <2>1, PinsPacked DEF ArgsPart
  <2>4. \A k \in 0 .. 3 : k \notin UsedBits(op, w)
    BY <1>1, <1>4, UnusedBits
  <2>5. BitOf(w, 0) = 0 /\ BitOf(w, 1) = 0 /\ BitOf(w, 2) = 0 /\ BitOf(w, 3) = 0
    BY <2>4, NotUsed
  <2>6. BitOf(w, 7) = 1
    BY <1>4, Opcode0Matches DEF BitOf
  <2>7. w % 256 = 128 + 64 * BitOf(w, 6) + 32 * BitOf(w, 5) + 16 * BitOf(w, 4)
    BY <2>5, <2>6, ByteOfBits, BitsAreBits
  <2>8. QED
    BY <1>2, <1>4, <2>2, <2>7, SelectParts, BitsAreBits DEF LowIsRight
<1>5. CASE op \in {"SKIP_RUN", "SKIP_NORUN"}
  <2>1. Instructions[op].operands = <<Operand(1, 3), Operand(0, 1)>>
    BY <1>5, Opcode0Rows DEF Row
  <2>2. ArgsPart(op, w) = Rtl!skip_bit(w) * 2 + Rtl!level(w)
    BY <2>1, ArgsPacked DEF ArgsPart
  <2>3. w % 256 = 16 * ((w \div 16) % 16) + 2 * Rtl!skip_bit(w) + Rtl!level(w)
    BY DEF Rtl!skip_bit, Rtl!level
  <2>4. (w \div 16) % 16 = IF op = "SKIP_RUN" THEN 4 ELSE 5
    BY <1>5, Opcode0Matches
  <2>5. Rtl!skip_bit(w) \in Int /\ Rtl!level(w) \in Int
    BY DEF Rtl!skip_bit, Rtl!level
  <2>6. QED
    BY <1>2, <1>5, <2>2, <2>3, <2>4, <2>5, SelectParts DEF LowIsRight
<1>6. QED
  BY <1>3, <1>4, <1>5

LEMMA AccLow ==
  ASSUME NEW w \in Nat, NEW op \in {"ACC_IN", "ACC_CRC", "ACC_OUT", "ACC_PUSH", "ACC_LOAD"},
         Matches(op, w)
  PROVE  LowIsRight(op, w)
<1>1. SidePart(op, w) = 0
  BY SidePartIs, Mnemonics DEF MaySide
<1>2. CASE op \in {"ACC_IN", "ACC_CRC", "ACC_OUT"}
  <2>1. Instructions[op].operands = <<Operand(0, 2)>>
    BY <1>2, AccRows DEF Row
  <2>2. ArgsPart(op, w) = Rtl!acc_pin(w)
    BY <2>1, ArgsPacked DEF ArgsPart
  <2>3. w % 256 = 4 * ((w \div 4) % 64) + Rtl!acc_pin(w) /\ Rtl!acc_pin(w) \in Int
    BY DEF Rtl!acc_pin
  <2>4. SelectPart(op) = 4 * ((w \div 4) % 64) /\ SelectPart(op) \in Int
    BY <1>2, AccMatches, SelectParts
  <2>5. QED
    BY <1>1, <2>2, <2>3, <2>4 DEF LowIsRight
<1>3. CASE op \in {"ACC_PUSH", "ACC_LOAD"}
  <2>1. Instructions[op].operands = <<>>
    BY <1>3, AccRows DEF Row
  <2>2. ArgsPart(op, w) = 0
    BY <2>1, ArgsPacked DEF ArgsPart
  <2>3. SelectPart(op) = w % 256 /\ SelectPart(op) \in Int
    BY <1>3, AccMatches, SelectParts
  <2>4. QED
    BY <1>1, <2>2, <2>3 DEF LowIsRight
<1>4. QED
  BY <1>2, <1>3

LEMMA WholeLow ==
  ASSUME NEW w \in Nat, NEW op \in {"JMP", "REPEAT"}
  PROVE  LowIsRight(op, w)
<1>1. SidePart(op, w) = 0
  BY SidePartIs, Mnemonics DEF MaySide
<1>2. \/ Instructions[op].operands = <<Operand(0, 8)>>
      \/ Instructions[op].operands = <<[lsb |-> 0, bits |-> 8, min |-> 1]>>
  BY AloneRows DEF Row
<1>3. ArgsPart(op, w) = w % 256
  BY <1>2, ArgsPacked DEF ArgsPart, Rtl!operand
<1>4. SelectPart(op) = 0
  BY SelectParts
<1>5. QED
  BY <1>1, <1>3, <1>4 DEF LowIsRight

(* The rows with a side effect: its four bits above, the row's own below. *)
LEMMA SidedLow ==
  ASSUME NEW w \in Nat, NEW op \in MaySide, Matches(op, w), Used(op, w)
  PROVE  LowIsRight(op, w)
<1> DEFINE nibble == 8 * BitOf(w, 3) + 4 * BitOf(w, 2) + 2 * BitOf(w, 1) + BitOf(w, 0)
<1>1. ASSUME ArgsPart(op, w) \in Int, SelectPart(op) \in Int,
             ArgsPart(op, w) + SelectPart(op) = nibble
      PROVE  LowIsRight(op, w)
  <2> DEFINE high == 128 * BitOf(w, 7) + 64 * BitOf(w, 6) + 32 * BitOf(w, 5) + 16 * BitOf(w, 4)
  <2>1. SidePart(op, w) = high
    BY SidePartCovers
  <2>2. w % 256 = high + nibble /\ high \in Int /\ nibble \in Int
    BY ByteOfBits, BitsAreInts
  <2> HIDE DEF high, nibble
  <2>3. QED
    BY <1>1, <2>1, <2>2 DEF LowIsRight
<1>2. op \in Mnemonic
  BY Mnemonics DEF MaySide
<1>3. \A k \in 0 .. 7 : k \notin UsedBits(op, w) => BitOf(w, k) = 0
  BY NotUsed
<1>4. /\ Rtl!input_pin(w) = 2 * BitOf(w, 3) + BitOf(w, 2)
      /\ Rtl!skip_bit(w) = 4 * BitOf(w, 3) + 2 * BitOf(w, 2) + BitOf(w, 1)
      /\ Rtl!acc_pin(w) = 2 * BitOf(w, 1) + BitOf(w, 0)
  BY OperandBits DEF Rtl!input_pin, Rtl!skip_bit, Rtl!acc_pin
<1>5. BitOf(w, 0) = Rtl!level(w) /\ BitOf(w, 1) = (w \div 2) % 2
  <2>1. \A n \in Nat : n \div 1 = n
    OBVIOUS
  <2>2. QED
    BY <2>1 DEF BitOf, Rtl!level
<1>6. CASE op = "SHIFT_OUT"
  <2>1. Instructions[op].operands = <<>>
    BY <1>6, PairRows DEF Row
  <2>2. ArgsPart(op, w) = 0 /\ SelectPart(op) = 0
    BY <1>6, <2>1, ArgsPacked, SelectParts DEF ArgsPart
  <2>3. 0 \notin UsedBits(op, w) /\ 2 \notin UsedBits(op, w) /\ 3 \notin UsedBits(op, w)
    BY <1>2, <1>6, UnusedBits
  <2>4. BitOf(w, 0) = 0 /\ BitOf(w, 2) = 0 /\ BitOf(w, 3) = 0
    BY <1>3, <2>3
  <2>5. BitOf(w, 1) = 0
    BY <1>5, <1>6, PairMatches
  <2>6. QED
    BY <1>1, <2>2, <2>4, <2>5
<1>7. CASE op = "SHIFT_IN"
  <2>1. Instructions[op].operands = <<Operand(2, 2)>>
    BY <1>7, PairRows DEF Row
  <2>2. ArgsPart(op, w) = Rtl!input_pin(w) * 4 /\ SelectPart(op) = 2
    BY <1>7, <2>1, ArgsPacked, SelectParts DEF ArgsPart
  <2>3. 0 \notin UsedBits(op, w)
    BY <1>2, <1>7, UnusedBits
  <2>4. BitOf(w, 0) = 0
    BY <1>3, <2>3
  <2>5. BitOf(w, 1) = 1
    BY <1>5, <1>7, PairMatches
  <2>6. QED
    BY <1>1, <1>4, <2>2, <2>4, <2>5, BitsAreBits
<1>8. CASE op \in {"PULL", "PUSH"}
  <2>1. Instructions[op].operands = <<>>
    BY <1>8, PairRows DEF Row
  <2>2. ArgsPart(op, w) = 0
    BY <2>1, ArgsPacked DEF ArgsPart
  <2>3. 1 \notin UsedBits(op, w) /\ 2 \notin UsedBits(op, w) /\ 3 \notin UsedBits(op, w)
    BY <1>2, <1>8, UnusedBits
  <2>4. BitOf(w, 1) = 0 /\ BitOf(w, 2) = 0 /\ BitOf(w, 3) = 0
    BY <1>3, <2>3
  <2>5. BitOf(w, 0) = SelectPart(op)
    BY <1>5, <1>8, PairMatches, SelectParts DEF Rtl!level
  <2>6. QED
    BY <1>1, <2>2, <2>4, <2>5, BitsAreBits
<1>9. Rtl!input_pin(w) * 4 = 8 * BitOf(w, 3) + 4 * BitOf(w, 2)
  BY <1>4, BitsAreInts
<1>10. /\ Rtl!acc_pin(w) = 2 * BitOf(w, 1) + BitOf(w, 0)
       /\ BitOf(w, 0) \in Int /\ BitOf(w, 1) \in Int /\ BitOf(w, 2) \in Int /\ BitOf(w, 3) \in Int
  BY <1>4, BitsAreInts
<1>11. Rtl!level(w) = BitOf(w, 0)
  BY <1>5
<1>12. Rtl!skip_bit(w) * 2 = 8 * BitOf(w, 3) + 4 * BitOf(w, 2) + 2 * BitOf(w, 1)
  BY <1>4, BitsAreInts
<1>13. CASE op = "CONFIG"
  <2>1. Instructions[op].operands = <<Operand(2, 2), Operand(0, 2)>>
    BY <1>13, AloneRows DEF Row
  <2>2. ArgsPart(op, w) = Rtl!input_pin(w) * 4 + Rtl!acc_pin(w) /\ SelectPart(op) = 0
    BY <1>13, <2>1, ArgsPacked, SelectParts DEF ArgsPart
  <2>3. ArgsPart(op, w) = nibble /\ nibble \in Int
    BY <1>9, <1>10, <2>2
  <2> HIDE DEF nibble
  <2>4. QED
    BY <1>1, <2>2, <2>3
<1>14. CASE op = "WAIT"
  <2>1. Instructions[op].operands = <<Operand(2, 2), Operand(0, 1)>>
    BY <1>14, AloneRows DEF Row
  <2>2. ArgsPart(op, w) = Rtl!input_pin(w) * 4 + Rtl!level(w) /\ SelectPart(op) = 0
    BY <1>14, <2>1, ArgsPacked, SelectParts DEF ArgsPart
  <2>3. 1 \notin UsedBits(op, w)
    BY <1>2, <1>14, UnusedBits
  <2>4. BitOf(w, 1) = 0
    BY <1>3, <2>3
  <2>5. ArgsPart(op, w) = nibble /\ nibble \in Int
    BY <1>9, <1>10, <1>11, <2>2, <2>4
  <2> HIDE DEF nibble
  <2>6. QED
    BY <1>1, <2>2, <2>5
<1>15. CASE op = "SKIP"
  <2>1. Instructions[op].operands = <<Operand(1, 3), Operand(0, 1)>>
    BY <1>15, AloneRows DEF Row
  <2>2. ArgsPart(op, w) = Rtl!skip_bit(w) * 2 + Rtl!level(w) /\ SelectPart(op) = 0
    BY <1>15, <2>1, ArgsPacked, SelectParts DEF ArgsPart
  <2>3. ArgsPart(op, w) = nibble /\ nibble \in Int
    BY <1>10, <1>11, <1>12, <2>2
  <2> HIDE DEF nibble
  <2>4. QED
    BY <1>1, <2>2, <2>3
<1>16. QED
  BY <1>6, <1>7, <1>8, <1>13, <1>14, <1>15 DEF MaySide

(* encode gives back every word that decode takes: decode drops nothing.    *)
THEOREM EncodeGivesTheWordBack == Spec => []EncodeInvertsDecode
<1>1. WordOK => EncodeInvertsDecode
  <2> SUFFICES ASSUME WordOK, Decodable(word)
               PROVE  Encode(Decode(word)) = word
    BY DEF EncodeInvertsDecode
  <2> DEFINE op == Taken(word)
  <2>1. /\ op \in Mnemonic /\ Matches(op, word) /\ Decode(word) = Unpacked(op, word)
        /\ Used(op, word)
    BY DecodeTakesAClaim DEF Used
  <2> HIDE DEF op
  <2>2. word \in Nat /\ word < 65536
    BY DEF WordOK
  <2>3. LowIsRight(op, word)
    <3>1. CASE op \in {"NOP", "SET", "SKIP_RUN", "SKIP_NORUN"}
      BY <3>1, <2>1, <2>2, Opcode0Low
    <3>2. CASE op \in {"ACC_IN", "ACC_CRC", "ACC_OUT", "ACC_PUSH", "ACC_LOAD"}
      BY <3>2, <2>1, <2>2, AccLow
    <3>3. CASE op \in {"JMP", "REPEAT"}
      BY <3>3, <2>2, WholeLow
    <3>4. CASE op \in MaySide
      BY <3>4, <2>1, <2>2, SidedLow
    <3>5. QED
      BY <2>1, <3>1, <3>2, <3>3, <3>4, Mnemonics DEF MaySide
  <2>4. QED
    BY <2>1, <2>2, <2>3, EncodeAddsLow
<1>2. QED
  BY <1>1, WordStays, PTL

=============================================================================
