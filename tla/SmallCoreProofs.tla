--------------------------- MODULE SmallCoreProofs ---------------------------
(***************************************************************************)
(* Theorems about the whole chip, for every ROM, every RAM and FIFO size    *)
(* and every host: it implements top.v, so what TopProofs shows of the core *)
(* with its FIFOs holds of the chip, whatever is loaded into it and when.   *)
(***************************************************************************)
EXTENDS SmallCore, HostLemmas, SequenceTheorems

Tops == INSTANCE TopProofs WITH Programs <- Loadable, Byte <- Sendable, program <- Program

(* A byte the host raises a write strobe with is one it may write there.    *)
Sends == strobe = "we" => wdata \in HostBytes[addr]

(* The words the RAM counts as loaded are made of bytes the host sent.      *)
Loads ==
  /\ byte_phase => prog_low \in HostBytes[TX_DATA]
  /\ \A i \in 0 .. prog_words - 1 : mem[i] \in Written

(* A running delay keeps the core within its program.                       *)
Runs ==
  /\ pc \in 0 .. 511 /\ delay_counter \in 0 .. 31
  /\ delay_counter > 0 => pc < program_words

Inv == HostTypeOK /\ Strobes /\ Loader /\ Sends /\ Loads /\ Runs

-----------------------------------------------------------------------------
(* What Top is told of its constants holds of what the chip gives it.       *)

LEMMA SentBytes ==
  /\ HostBytes[TX_DATA] \subseteq 0 .. 255
  /\ Written \subseteq Word
  /\ Sendable \subseteq Vec(8)
<1>1. HostBytes[TX_DATA] \subseteq 0 .. 255
  BY HostBytesAssumption DEF TX_DATA
<1>2. \A hi, lo \in 0 .. 255 : hi * 256 + lo \in Word
  BY DEF Word
<1>3. Written \subseteq Word
  <2> SUFFICES ASSUME NEW w \in Written PROVE w \in Word
    OBVIOUS
  <2>1. PICK hi \in HostBytes[TX_DATA], lo \in HostBytes[TX_DATA] : w = hi * 256 + lo
    BY DEF Written
  <2> QED BY <1>1, <1>2, <2>1
<1>4. \A b \in 0 .. 255 : VecOf(b, 8) \in Vec(8)
  <2> TAKE b \in 0 .. 255
  <2>1. \A k \in 0 .. 7 : Bit(b, k) \in BIT
    <3> TAKE k \in 0 .. 7
    <3>1. (b \div 2^k) % 2^1 \in {0, 1}
      OBVIOUS
    <3> QED BY <3>1 DEF Bit, Field, BIT
  <2> QED BY <2>1 DEF VecOf, Vec
<1>5. Sendable \subseteq Vec(8)
  BY <1>1, <1>4 DEF Sendable
<1> QED BY <1>1, <1>3, <1>5

LEMMA LoadableFits == \A p \in Loadable : p \in Seq(Word) /\ Len(p) <= 256
<1> SUFFICES ASSUME NEW p \in Loadable PROVE p \in Seq(Word) /\ Len(p) <= 256
  OBVIOUS
<1>1. CASE p \in {Rom[n] : n \in 0 .. 15}
  BY <1>1, RomAssumption DEF AddressSize
<1>2. CASE p \in UNION {[1 .. n -> Written] : n \in 0 .. RamWords}
  <2>1. PICK n \in 0 .. RamWords : p \in [1 .. n -> Written]
    BY <1>2
  <2>2. n \in Nat /\ n <= 256
    BY <2>1, RamAssumption
  <2>3. p \in [1 .. n -> Word]
    BY <2>1, SentBytes
  <2> QED BY <2>2, <2>3, SeqDef
<1> QED BY <1>1, <1>2 DEF Loadable

LEMMA TopsConstants ==
  /\ Tops!ProgramsAssumption /\ Tops!BytesAssumption
  /\ Tops!LevelsAssumption /\ Tops!FifoDepthAssumption
<1>1. Tops!ProgramsAssumption
  <2>1. Tops!Word = Word
    BY DEF Tops!Word, Word
  <2> QED BY <2>1, LoadableFits DEF Tops!ProgramsAssumption, Tops!AddressSize
<1>2. Tops!BytesAssumption
  BY SentBytes, FifoAssumption DEF Tops!BytesAssumption, Tops!Vec, Vec, Tops!BIT, BIT
<1>3. Tops!LevelsAssumption /\ Tops!FifoDepthAssumption
  BY FifoAssumption, PinsAssumption
     DEF Tops!LevelsAssumption, Tops!FifoDepthAssumption, Tops!Pin, Pin, Tops!BIT, BIT
<1> QED BY <1>1, <1>2, <1>3

-----------------------------------------------------------------------------
(* The core in Top and the core in the chip are one text, core.v, which the *)
(* chip has by name and Top has through an instance.                        *)
LEMMA SameCore ==
  ASSUME NEW in
  PROVE  /\ CoreClock(in) <=> Chip!CoreClock(in)
         /\ CoreReset <=> Chip!CoreReset
         /\ CoreInit <=> Chip!CoreInit
         /\ issue(in) <=> Chip!issue(in)
         /\ stall(in) = Chip!stall(in)
         /\ pull_en(in) = Chip!pull_en(in)
         /\ push_en(in) = Chip!push_en(in)
         /\ rx_data(in) = Chip!rx_data(in)
BY
  DEF opcode, delay, operand, side, side_pin, side_val, is_nop_set,
      is_shift, is_fifo, is_jmp, is_config, is_wait, is_skip, is_repeat,
      is_run, run_sense, is_acc, is_acc_in, is_acc_crc, is_acc_out,
      is_acc_push, is_acc_load, acc_pin, shift_select, fifo_select,
      config_field, config_value, input_pin, skip_bit, level, Pin, PcSize,
      core_halted, issue, stall, last, pc_en, acc_en, pull_en, push_en,
      rx_data, skip_taken, newest, run_all, run_taken, rc_next, pc_next,
      shift_en, shift_in_en, gpio_en, shift_bit, gpio_next, Shifted,
      AccShifted, acc_bit, acc_feedback, acc_next, CoreClock, CoreReset,
      CoreInit, Zero, Chip!opcode, Chip!delay, Chip!operand, Chip!side,
      Chip!side_pin, Chip!side_val, Chip!is_nop_set, Chip!is_shift,
      Chip!is_fifo, Chip!is_jmp, Chip!is_config, Chip!is_wait, Chip!is_skip,
      Chip!is_repeat, Chip!is_run, Chip!run_sense, Chip!is_acc,
      Chip!is_acc_in, Chip!is_acc_crc, Chip!is_acc_out, Chip!is_acc_push,
      Chip!is_acc_load, Chip!acc_pin, Chip!shift_select, Chip!fifo_select,
      Chip!config_field, Chip!config_value, Chip!input_pin, Chip!skip_bit,
      Chip!level, Chip!Pin, Chip!PcSize, Chip!core_halted, Chip!issue,
      Chip!stall, Chip!last, Chip!pc_en, Chip!acc_en, Chip!pull_en,
      Chip!push_en, Chip!rx_data, Chip!skip_taken, Chip!newest,
      Chip!run_all, Chip!run_taken, Chip!rc_next, Chip!pc_next,
      Chip!shift_en, Chip!shift_in_en, Chip!gpio_en, Chip!shift_bit,
      Chip!gpio_next, Chip!Shifted, Chip!AccShifted, Chip!acc_bit,
      Chip!acc_feedback, Chip!acc_next, Chip!CoreClock, Chip!CoreReset,
      Chip!CoreInit, Chip!Zero

LEMMA SameFifo ==
  ASSUME NEW q, NEW push, NEW pop, NEW byte
  PROVE  Fifo!Advance(q, push, pop, byte) = Chip!Fifo!Advance(q, push, pop, byte)
BY DEF Fifo!Advance, Fifo!Accepts, Fifo!Remaining,
       Chip!Fifo!Advance, Chip!Fifo!Accepts, Chip!Fifo!Remaining

-----------------------------------------------------------------------------
(* The program the core sees, of a loader in mode l with ram_select r, n    *)
(* words in its RAM m, and slot s.                                          *)
Words(l, r, n, s) == IF l THEN 0 ELSE IF r THEN n ELSE Len(Rom[s])

Holds(l, r, n, s, m) == [i \in 1 .. Words(l, r, n, s) |-> IF r THEN m[i - 1] ELSE Rom[s][i]]

LEMMA ProgramIs ==
  /\ program_words = Words(load_mode, ram_select, prog_words, sel)
  /\ program_words' = Words(load_mode', ram_select', prog_words', sel')
  /\ Program = Holds(load_mode, ram_select, prog_words, sel, mem)
  /\ Program' = Holds(load_mode', ram_select', prog_words', sel', mem')
BY DEF program_words, Program, Words, Holds

(* p is that program, and k its length.                                     *)
IsHeld(p, k, l, r, n, s, m) ==
  /\ k \in 0 .. 256 /\ Len(p) = k
  /\ \A i \in 1 .. k : p[i] = IF r THEN m[i - 1] ELSE Rom[s][i]
  /\ l => p = <<>>
  /\ ~l /\ ~r => p = Rom[s]
  /\ ~l /\ r => p = [i \in 1 .. n |-> m[i - 1]]

LEMMA HoldsIs ==
  ASSUME NEW l \in BOOLEAN, NEW r \in BOOLEAN, NEW n \in 0 .. RamWords, NEW s \in 0 .. 15,
         NEW m \in [0 .. RamWords - 1 -> RamWord]
  PROVE  IsHeld(Holds(l, r, n, s, m), Words(l, r, n, s), l, r, n, s, m)
<1> DEFINE h == Holds(l, r, n, s, m)
           k == Words(l, r, n, s)
<1>1. Rom[s] \in Seq(Word) /\ Len(Rom[s]) \in 0 .. 256 /\ RamWords \in 1 .. 256
  <2>1. Rom[s] \in Seq(Word) /\ Len(Rom[s]) <= 256
    BY RomAssumption DEF AddressSize
  <2>2. Len(Rom[s]) \in Nat
    BY <2>1
  <2> QED BY <2>1, <2>2, RamAssumption
<1>2. k \in 0 .. 256
  BY <1>1 DEF Words
<1>3. h = [i \in 1 .. k |-> IF r THEN m[i - 1] ELSE Rom[s][i]]
  BY DEF Holds
<1>4. Len(h) = k
  <2> HIDE DEF h, k
  <2>1. k \in Nat
    BY <1>2
  <2>2. h \in [1 .. k -> {h[i] : i \in 1 .. k}]
    BY <1>3
  <2>3. h \in Seq({h[i] : i \in 1 .. k})
    BY <2>1, <2>2, SeqDef
  <2> QED BY <2>1, <2>2, <2>3
<1>5. l => h = <<>>
  BY <1>3 DEF Words
<1>6. ~l /\ r => h = [i \in 1 .. n |-> m[i - 1]]
  BY <1>3 DEF Words
<1>7. ASSUME ~l, ~r PROVE h = Rom[s]
  <2>1. h = [i \in 1 .. Len(Rom[s]) |-> Rom[s][i]]
    BY <1>3, <1>7 DEF Words
  <2> QED BY <1>1, <2>1
<1> HIDE DEF h, k
<1>8. \A i \in 1 .. k : h[i] = IF r THEN m[i - 1] ELSE Rom[s][i]
  BY <1>3
<1>9. IsHeld(h, k, l, r, n, s, m)
  BY <1>2, <1>4, <1>5, <1>6, <1>7, <1>8 DEF IsHeld
<1> QED BY <1>9 DEF h, k

(* The program of a state of the right types. *)
LEMMA ProgramHeld ==
  /\ HostTypeOK => IsHeld(Program, program_words, load_mode, ram_select, prog_words, sel, mem)
  /\ HostTypeOK' =>
       IsHeld(Program', program_words', load_mode', ram_select', prog_words', sel', mem')
<1>1. \A l, r \in BOOLEAN, n \in 0 .. RamWords, s \in 0 .. 15, m \in [0 .. RamWords - 1 -> RamWord] :
        IsHeld(Holds(l, r, n, s, m), Words(l, r, n, s), l, r, n, s, m)
  BY HoldsIs
<1>2. HostTypeOK =>
        /\ load_mode \in BOOLEAN /\ ram_select \in BOOLEAN /\ prog_words \in 0 .. RamWords
        /\ sel \in 0 .. 15 /\ mem \in [0 .. RamWords - 1 -> RamWord]
  BY DEF HostTypeOK
<1>3. HostTypeOK' =>
        /\ load_mode' \in BOOLEAN /\ ram_select' \in BOOLEAN /\ prog_words' \in 0 .. RamWords
        /\ sel' \in 0 .. 15 /\ mem' \in [0 .. RamWords - 1 -> RamWord]
  BY DEF HostTypeOK
<1> QED BY <1>1, <1>2, <1>3, ProgramIs, Zenon

(* A clock that is not a command's leaves the program as it is, whatever    *)
(* bytes the host writes on it.                                             *)
LEMMA ProgramStays ==
  ASSUME HostTypeOK, HostClock, ~restart
  PROVE  Program' = Program /\ program_words' = program_words
<1>1. load_mode \in BOOLEAN /\ ram_select \in BOOLEAN
  BY DEF HostTypeOK
<1>2. sel' = sel /\ load_mode' = load_mode /\ ram_select' = ram_select
  <2>1. CASE control_write /\ Command
    <3>1. ~rom_cmd /\ ~run_ram_cmd /\ ~load_cmd
      BY <2>1 DEF restart
    <3> QED BY <1>1, <2>1, <3>1 DEF Command
  <2>2. CASE ProgramByte
    BY <2>2 DEF ProgramByte
  <2>3. CASE UNCHANGED <<sel, load_mode, ram_select, prog_addr, prog_words, prog_low, byte_phase>>
    BY <2>3
  <2> QED BY <2>1, <2>2, <2>3 DEF HostClock
<1>3. CASE load_mode
  BY <1>2, <1>3 DEF Program, program_words
<1>4. CASE ~load_mode
  <2>1. ~byte_taken /\ ~prog_we
    BY <1>4 DEF byte_taken, prog_we, prog_byte
  <2>2. mem' = mem
    BY <2>1 DEF HostClock, RamEdge
  <2>3. prog_words' = prog_words
    <3>1. CASE control_write /\ Command
      <4>1. ~load_cmd
        BY <3>1 DEF restart
      <4> QED BY <3>1, <4>1 DEF Command
    <3> QED BY <2>1, <3>1 DEF HostClock
  <2> QED BY <1>2, <2>2, <2>3 DEF Program, program_words
<1> QED BY <1>3, <1>4

-----------------------------------------------------------------------------
(* The invariant. *)

LEMMA SendsStep ==
  ASSUME Sends, PinsMove \/ PinsAtReset
  PROVE  Sends'
BY DEF Sends, PinsMove, PinsAtReset, PinsHold, PinsRise, PinsFall

(* What a write's transaction carries. *)
LEMMA SentByte ==
  ASSUME HostTypeOK, Strobes, Sends, we_rise, addr = TX_DATA
  PROVE  wdata \in HostBytes[TX_DATA]
BY Rises DEF Sends, we

LEMMA LoadsStep ==
  ASSUME HostTypeOK, Strobes, Loader, Sends, Loads, HostClock \/ HostReset
  PROVE  Loads'
<1>1. /\ prog_words \in 0 .. RamWords /\ RamWords \in 1 .. 256
      /\ mem \in [0 .. RamWords - 1 -> RamWord]
  BY RamAssumption DEF HostTypeOK
<1>2. CASE HostReset
  <2>1. ~byte_phase' /\ prog_words' = 0
    BY <1>2 DEF HostReset
  <2> QED BY <2>1 DEF Loads
<1>3. CASE HostClock /\ control_write /\ Command
  <2>1. mem' = mem
    <3>1. ~prog_we
      BY <1>3 DEF prog_we, prog_byte, control_write, TX_DATA, CONTROL
    <3> QED BY <1>3, <3>1 DEF HostClock, RamEdge
  <2>2. byte_phase' => byte_phase /\ prog_low' = prog_low
    BY <1>3 DEF Command
  <2>3. prog_words' \in {0, prog_words}
    BY <1>3 DEF Command
  <2> QED BY <1>1, <2>1, <2>2, <2>3 DEF Loads
<1>4. CASE HostClock /\ byte_taken /\ ProgramByte /\ byte_phase
  <2>1. prog_words < RamWords /\ prog_addr = prog_words
    BY <1>1, <1>4 DEF Loader
  <2>2. wdata \in HostBytes[TX_DATA]
    BY <1>4, SentByte DEF byte_taken, prog_byte
  <2>3. prog_wdata \in Written
    BY <1>4, <2>2 DEF prog_wdata, Written, Loads
  <2>4. mem' = [mem EXCEPT ![prog_words] = prog_wdata]
    BY <1>4, <2>1 DEF HostClock, RamEdge, prog_we, byte_taken
  <2>5. ~byte_phase' /\ prog_words' = prog_words + 1
    BY <1>4 DEF ProgramByte
  <2>6. \A i \in 0 .. prog_words : mem'[i] \in Written
    BY <1>1, <2>1, <2>3, <2>4 DEF Loads
  <2> QED BY <1>1, <2>5, <2>6 DEF Loads
<1>5. CASE HostClock /\ byte_taken /\ ProgramByte /\ ~byte_phase
  <2>1. mem' = mem
    BY <1>5 DEF HostClock, RamEdge, prog_we
  <2>2. prog_words' = prog_words /\ prog_low' = wdata
    BY <1>5 DEF ProgramByte
  <2>3. wdata \in HostBytes[TX_DATA]
    BY <1>5, SentByte DEF byte_taken, prog_byte
  <2> QED BY <2>1, <2>2, <2>3 DEF Loads
<1>6. CASE /\ HostClock /\ ~byte_taken
           /\ UNCHANGED <<sel, load_mode, ram_select, prog_addr, prog_words, prog_low, byte_phase>>
  <2>1. mem' = mem
    BY <1>6 DEF HostClock, RamEdge, prog_we, byte_taken
  <2> QED BY <1>6, <2>1 DEF Loads
<1> QED BY <1>2, <1>3, <1>4, <1>5, <1>6 DEF HostClock

(* The word that reaches the core, within its program or past it. *)
LEMMA WordType ==
  ASSUME HostTypeOK, pc \in 0 .. 511
  PROVE  imem_word \in Word
<1>1. imem_addr \in 0 .. 255 /\ imem_addr % RamWords \in 0 .. RamWords - 1
  BY RamAssumption DEF imem_addr, AddressSize
<1>2. mem[imem_addr % RamWords] \in Word
  BY <1>1 DEF HostTypeOK, RamWord, Word
<1>3. imem_addr < Len(Rom[sel]) => Rom[sel][imem_addr + 1] \in Word
  <2>1. Rom[sel] \in Seq(Word)
    <3>1. sel \in 0 .. 15
      BY DEF HostTypeOK
    <3> QED BY <3>1, RomAssumption
  <2>2. imem_addr < Len(Rom[sel]) => imem_addr + 1 \in 1 .. Len(Rom[sel])
    BY <1>1, <2>1
  <2> QED BY <2>1, <2>2
<1>4. 0 \in Word
  BY DEF Word
<1> QED BY <1>2, <1>3, <1>4 DEF imem_word

LEMMA NextTypes ==
  ASSUME NEW w \in Word, pc \in 0 .. 511
  PROVE  delay(w) \in 0 .. 31 /\ pc_next(w) \in 0 .. 511
<1>1. w \in Nat /\ w \div 256 \in Int
  BY DEF Word
<1>2. delay(w) \in 0 .. 31 /\ operand(w) \in 0 .. 255
  BY <1>1 DEF delay, operand
<1>3. /\ (pc - operand(w)) % 512 \in 0 .. 511 /\ (pc + 1) % 512 \in 0 .. 511
      /\ (pc + (IF skip_taken(w) \/ run_taken(w) THEN 2 ELSE 1)) % 512 \in 0 .. 511
  <2>1. \A x \in Int : x % 512 \in 0 .. 511
    OBVIOUS
  <2>2. /\ pc - operand(w) \in Int /\ pc + 1 \in Int
        /\ pc + (IF skip_taken(w) \/ run_taken(w) THEN 2 ELSE 1) \in Int
    BY <1>2
  <2> QED BY <2>1, <2>2
<1> QED BY <1>2, <1>3 DEF pc_next, PcSize

LEMMA RunsStep ==
  ASSUME HostTypeOK, Runs, NEW in, in.word \in Word, in.words = program_words,
         CoreClock(in), program_words' = program_words
  PROVE  Runs'
<1> DEFINE w == in.word
<1>1. /\ pc \in 0 .. 511 /\ delay_counter \in 0 .. 31
      /\ delay(w) \in 0 .. 31 /\ pc_next(w) \in 0 .. 511
  BY NextTypes DEF Runs
<1>2. /\ delay_counter' = IF issue(in) /\ ~stall(in)
                            THEN IF is_repeat(w) THEN 0 ELSE delay(w)
                            ELSE IF delay_counter > 0 THEN delay_counter - 1 ELSE 0
      /\ pc' = IF pc_en(in) THEN pc_next(w) ELSE pc
  BY DEF CoreClock
<1> HIDE DEF w
<1>3. program_words \in 0 .. 256
  BY ProgramHeld DEF IsHeld
<1>4. pc' \in 0 .. 511 /\ delay_counter' \in 0 .. 31
  BY <1>1, <1>2
<1>5. CASE issue(in) /\ ~stall(in) /\ delay_counter' > 0
  <2>1. ~is_repeat(w) /\ delay(w) > 0
    BY <1>1, <1>2, <1>5
  <2>2. ~pc_en(in) /\ pc < program_words
    BY <1>1, <1>3, <1>5, <2>1 DEF pc_en, last, issue, core_halted, w
  <2> QED BY <1>2, <1>4, <2>2 DEF Runs
<1>6. CASE ~(issue(in) /\ ~stall(in)) /\ delay_counter' > 0
  <2>1. delay_counter > 1
    BY <1>1, <1>2, <1>6
  <2>2. ~pc_en(in)
    BY <1>1, <2>1 DEF pc_en, last, issue
  <2> QED BY <1>1, <1>2, <1>4, <2>1, <2>2 DEF Runs
<1> QED BY <1>4, <1>5, <1>6 DEF Runs

LEMMA InvInit == Init => Inv
<1> SUFFICES ASSUME Init PROVE Inv
  OBVIOUS
<1>1. HostTypeOK /\ Strobes /\ Loader
  BY InitTypes, InitStrobes, InitLoader DEF Init
<1>2. Sends /\ Loads /\ Runs
  BY DEF Init, HostInit, CoreInit, Sends, Loads, Runs
<1> QED BY <1>1, <1>2 DEF Inv

LEMMA InvStep == Inv /\ [Next]_vars => Inv'
<1> SUFFICES ASSUME Inv, [Next]_vars PROVE Inv'
  OBVIOUS
<1> USE DEF Inv
<1>1. ASSUME NEW g \in Levels, Clock(g) PROVE Inv'
  <2>1. HostClock /\ PinsMove /\ ~restart /\ CoreClock(In(g))
    BY <1>1 DEF Clock
  <2>2. HostTypeOK' /\ Strobes' /\ Loader' /\ Sends' /\ Loads'
    BY <2>1, TypesStep, StrobesStep, LoaderStep, SendsStep, LoadsStep
  <2>3. In(g).word \in Word /\ In(g).words = program_words
    BY WordType DEF In, Runs
  <2>4. Runs'
    BY <2>1, <2>3, ProgramStays, RunsStep
  <2> QED BY <2>2, <2>4
<1>2. CASE RestartClock
  <2>1. HostClock /\ PinsMove /\ CoreReset
    BY <1>2 DEF RestartClock
  <2> QED BY <2>1, TypesStep, StrobesStep, LoaderStep, SendsStep, LoadsStep DEF Runs, CoreReset
<1>3. CASE Reset
  <2>1. HostReset /\ PinsAtReset /\ CoreReset
    BY <1>3 DEF Reset
  <2> QED BY <2>1, TypesStep, StrobesStep, LoaderStep, SendsStep, LoadsStep DEF Runs, CoreReset
<1>4. CASE UNCHANGED vars
  <2>1. UNCHANGED <<hostVars, coreVars>>
    BY <1>4 DEF vars
  <2>2. UNCHANGED <<strobe, addr, wdata, edges>> /\ UNCHANGED <<we_sync, re_sync, mem>>
    BY <2>1 DEF hostVars, pinVars, regVars
  <2>3. UNCHANGED <<sel, load_mode, ram_select, prog_addr, prog_words, prog_low, byte_phase>>
    BY <2>1 DEF hostVars, regVars
  <2>4. UNCHANGED <<pc, delay_counter>>
    BY <2>1 DEF coreVars
  <2>5. HostTypeOK' /\ Loader' /\ Sends'
    BY <2>2, <2>3 DEF HostTypeOK, Loader, Sends
  <2>6. Strobes'
    BY <2>2 DEF Strobes, Seen, High, Rising, we, re
  <2>7. Loads' /\ Runs'
    BY <2>2, <2>3, <2>4 DEF Loads, Runs, program_words
  <2> QED BY <2>5, <2>6, <2>7
<1> QED BY <1>1, <1>2, <1>3, <1>4 DEF Next

-----------------------------------------------------------------------------
(* The refinement. *)

(* While the pc is within the program, the chip's memories show the core    *)
(* what Top's one memory would.                                             *)
LEMMA SameWord ==
  ASSUME HostTypeOK, Runs
  PROVE  /\ Len(Program) = program_words /\ program_words \in 0 .. 256
         /\ pc < program_words => Chip!imem_word = imem_word
<1>1. /\ load_mode \in BOOLEAN /\ ram_select \in BOOLEAN /\ prog_words \in 0 .. RamWords
      /\ sel \in 0 .. 15 /\ mem \in [0 .. RamWords - 1 -> RamWord]
  BY DEF HostTypeOK
<1>2. /\ Len(Program) = program_words /\ program_words \in 0 .. 256
      /\ \A i \in 1 .. program_words :
           Program[i] = IF ram_select THEN mem[i - 1] ELSE Rom[sel][i]
  BY ProgramHeld DEF IsHeld
<1>3. ASSUME pc < program_words PROVE Chip!imem_word = imem_word
  <2>1. pc \in 0 .. 255 /\ pc + 1 \in 1 .. program_words
    BY <1>2, <1>3 DEF Runs
  <2>2. imem_addr = pc /\ Chip!imem_addr = pc
    BY <2>1 DEF imem_addr, AddressSize, Chip!imem_addr, Chip!AddressSize
  <2>3. Chip!imem_word = IF ram_select THEN mem[pc] ELSE Rom[sel][pc + 1]
    BY <1>2, <1>3, <2>1, <2>2 DEF Chip!imem_word
  <2>4. CASE ram_select
    <3>1. pc < RamWords
      BY <1>1, <1>2, <1>3, <2>1, <2>4, RamAssumption DEF program_words
    <3>2. pc % RamWords = pc
      BY <2>1, <3>1, RamAssumption
    <3> QED BY <2>2, <2>3, <2>4, <3>2 DEF imem_word
  <2>5. CASE ~ram_select
    <3>1. pc < Len(Rom[sel])
      <4>1. ~load_mode
        BY <1>3, <2>1 DEF program_words
      <4> QED BY <4>1, <1>3, <2>5 DEF program_words
    <3> QED BY <2>2, <2>3, <2>5, <3>1 DEF imem_word
  <2> QED BY <2>4, <2>5
<1> QED BY <1>2, <1>3

LEMMA SameIn ==
  ASSUME HostTypeOK, Runs, NEW g
  PROVE  /\ In(g).words = program_words /\ Chip!In(g).words = program_words
         /\ pc < program_words => Chip!In(g) = In(g)
<1>1. In(g).words = program_words /\ Chip!In(g).words = program_words
  BY SameWord DEF In, Chip!In
<1>2. ASSUME pc < program_words PROVE Chip!In(g) = In(g)
  BY <1>2, SameWord DEF In, Chip!In, Zero, Chip!Zero
<1> QED BY <1>1, <1>2

(* A halted core does not look at its word.                                 *)
LEMMA Halted ==
  ASSUME NEW in, NEW jn, core_halted(in), core_halted(jn), delay_counter = 0
  PROVE  /\ CoreClock(in) => CoreClock(jn)
         /\ ~issue(in) /\ ~issue(jn)
         /\ pull_en(in) = FALSE /\ pull_en(jn) = FALSE
         /\ push_en(in) = FALSE /\ push_en(jn) = FALSE
<1>1. ~issue(in) /\ ~issue(jn)
  BY DEF issue
<1>2. /\ pull_en(in) = FALSE /\ pull_en(jn) = FALSE
      /\ push_en(in) = FALSE /\ push_en(jn) = FALSE
  BY <1>1 DEF pull_en, push_en
<1>3. /\ ~pc_en(in) /\ ~pc_en(jn) /\ ~acc_en(in) /\ ~acc_en(jn)
      /\ ~shift_en(in) /\ ~shift_en(jn) /\ ~shift_in_en(in) /\ ~shift_in_en(jn)
      /\ ~gpio_en(in) /\ ~gpio_en(jn)
  BY <1>1 DEF pc_en, last, acc_en, shift_en, shift_in_en, gpio_en
<1>4. gpio_next(in) = gpio_next(jn)
  BY <1>3 DEF gpio_next
<1>5. CoreClock(in) => CoreClock(jn)
  BY <1>1, <1>2, <1>3, <1>4 DEF CoreClock
<1> QED BY <1>1, <1>2, <1>5

LEMMA SentVec ==
  ASSUME HostTypeOK, Strobes, Sends, tx_push
  PROVE  VecOf(wdata, 8) \in Sendable /\ VecOf(wdata, 8) /= NoByte
<1>1. VecOf(wdata, 8) \in Sendable
  BY SentByte DEF tx_push, Sendable
<1> QED BY <1>1, SentBytes, FifoAssumption

LEMMA NothingPushed ==
  ASSUME NEW q, NEW pop, NEW b, NEW c
  PROVE  Fifo!Advance(q, FALSE, pop, b) = Fifo!Advance(q, FALSE, pop, c)
BY DEF Fifo!Advance

(* The host's transaction is a push and a pop of Top's outside world.       *)
LEMMA SameMove ==
  ASSUME HostTypeOK, Strobes, Sends, NEW pull, NEW push, NEW byte, FifosEdge(pull, push, byte)
  PROVE  Chip!FifosMove(pull, push, byte)
<1> DEFINE offer == IF tx_push THEN VecOf(wdata, 8) ELSE NoByte
<1>1. offer \in Sendable \cup {NoByte} /\ rx_pop \in BOOLEAN
  BY SentVec DEF rx_pop
<1>2. tx_fifo' = Fifo!Advance(tx_fifo, offer /= NoByte, pull, offer)
  <2>1. CASE tx_push
    <3>1. offer = VecOf(wdata, 8) /\ (offer /= NoByte) = TRUE /\ tx_push = TRUE
      BY <2>1, SentVec DEF tx_push
    <3> QED BY <3>1 DEF FifosEdge
  <2>2. CASE ~tx_push
    <3>1. (offer /= NoByte) = FALSE /\ tx_push = FALSE
      BY <2>2 DEF tx_push
    <3>2. tx_fifo' = Fifo!Advance(tx_fifo, FALSE, pull, VecOf(wdata, 8))
      BY <3>1 DEF FifosEdge
    <3> QED BY <3>1, <3>2, NothingPushed
  <2> QED BY <2>1, <2>2
<1>3. /\ rx_fifo' = Fifo!Advance(rx_fifo, push, rx_pop, byte)
      /\ taken' = IF rx_pop /\ rx_fifo /= <<>> THEN Head(rx_fifo) ELSE NoByte
  BY DEF FifosEdge
<1> HIDE DEF offer
<1> QED BY <1>1, <1>2, <1>3, SameFifo DEF Chip!FifosMove

LEMMA ClockStep ==
  ASSUME Inv, NEW g \in Levels, Clock(g)
  PROVE  Chip!Clock(g)
<1> USE DEF Inv
<1> DEFINE in == In(g)
           jn == Chip!In(g)
<1>1. /\ CoreClock(in) /\ HostClock /\ ~restart
      /\ stalled' = IF issue(in) THEN stall(in) ELSE stalled
      /\ FifosEdge(pull_en(in), push_en(in), rx_data(in))
  BY DEF Clock
<1>2. Program' = Program
  BY <1>1, ProgramStays
<1>3. Chip!FifosMove(pull_en(in), push_en(in), rx_data(in))
  BY <1>1, SameMove
<1>4. CASE pc < program_words
  <2>1. jn = in
    BY <1>4, SameIn
  <2> HIDE DEF in, jn
  <2> QED BY <1>1, <1>2, <1>3, <2>1, SameCore DEF Chip!Clock, in, jn
<1>5. CASE ~(pc < program_words)
  <2>1. in.words = program_words /\ jn.words = program_words
    BY SameIn
  <2>2. program_words \in 0 .. 256 /\ pc \in 0 .. 511 /\ delay_counter = 0
    BY <1>5, SameWord DEF Runs
  <2> HIDE DEF in, jn
  <2>3. core_halted(in) /\ core_halted(jn)
    BY <1>5, <2>1, <2>2 DEF core_halted
  <2>4. /\ CoreClock(jn) /\ ~issue(in) /\ ~issue(jn)
        /\ pull_en(in) = pull_en(jn) /\ push_en(in) = FALSE /\ push_en(jn) = FALSE
    BY <1>1, <2>2, <2>3, Halted
  <2>5. Chip!FifosMove(pull_en(jn), push_en(jn), rx_data(jn))
    BY <1>3, <2>4 DEF Chip!FifosMove, Chip!Fifo!Advance
  <2>6. stalled' = IF issue(jn) THEN stall(jn) ELSE stalled
    BY <1>1, <2>4
  <2> QED BY <1>2, <2>4, <2>5, <2>6, SameCore DEF Chip!Clock, in, jn
<1> QED BY <1>4, <1>5

(* A command's clock leaves a program the core may run: the slot's, the RAM *)
(* words the host sent, or none.                                            *)
LEMMA NextProgram ==
  ASSUME Inv, HostClock, control_write, restart, HostTypeOK', Loads'
  PROVE  Program' \in Loadable
<1> USE DEF Inv
<1>1. /\ load_mode' \in BOOLEAN /\ ram_select' \in BOOLEAN /\ prog_words' \in 0 .. RamWords
      /\ sel' \in 0 .. 15 /\ mem' \in [0 .. RamWords - 1 -> RamWord]
  BY DEF HostTypeOK
<1>2. /\ load_mode' => Program' = <<>>
      /\ ~load_mode' /\ ~ram_select' => Program' = Rom[sel']
      /\ ~load_mode' /\ ram_select' => Program' = [i \in 1 .. prog_words' |-> mem'[i - 1]]
  BY ProgramHeld DEF IsHeld
<1>3. CASE load_mode'
  <2>1. <<>> \in [1 .. 0 -> Written] /\ 0 \in 0 .. RamWords
    BY RamAssumption
  <2> QED BY <1>2, <1>3, <2>1 DEF Loadable
<1>4. CASE ~load_mode' /\ ~ram_select'
  BY <1>1, <1>2, <1>4 DEF Loadable
<1>5. CASE ~load_mode' /\ ram_select'
  <2>1. \A i \in 1 .. prog_words' : mem'[i - 1] \in Written
    <3>1. \A i \in 0 .. prog_words' - 1 : mem'[i] \in Written
      BY DEF Loads
    <3>2. \A i \in 1 .. prog_words' : i - 1 \in 0 .. prog_words' - 1
      <4>1. prog_words' \in Nat
        BY DEF HostTypeOK
      <4>2. \A n \in Nat : \A i \in 1 .. n : i - 1 \in 0 .. n - 1
        OBVIOUS
      <4> QED BY <4>1, <4>2
    <3> QED BY <3>1, <3>2
  <2>2. Program' \in [1 .. prog_words' -> Written]
    BY <1>2, <1>5, <2>1
  <2> QED BY <1>1, <2>2 DEF Loadable
<1> QED BY <1>3, <1>4, <1>5

LEMMA RestartStep ==
  ASSUME Inv, Inv', RestartClock
  PROVE  Chip!Restart
<1>1. CoreReset /\ stalled' = FALSE /\ FifosEdge(FALSE, FALSE, Zero(8))
  BY DEF RestartClock
<1>2. Program' \in Loadable
  BY NextProgram DEF Inv, RestartClock, restart
<1>3. Chip!FifosMove(FALSE, FALSE, Zero(8))
  BY <1>1, SameMove DEF Inv
<1>4. Zero(8) = Chip!Zero(8)
  BY DEF Zero, Chip!Zero
<1> QED BY <1>1, <1>2, <1>3, <1>4, SameCore DEF Chip!Restart

(* Reset brings the chip back to slot 0. *)
LEMMA FirstProgram ==
  /\ sel = 0 /\ load_mode = FALSE /\ ram_select = FALSE => Program = Rom[0]
  /\ sel' = 0 /\ load_mode' = FALSE /\ ram_select' = FALSE => Program' = Rom[0]
  /\ Rom[0] \in Loadable
<1>1. Rom[0] \in Seq(Word)
  BY RomAssumption
<1>2. Rom[0] = [i \in 1 .. Len(Rom[0]) |-> Rom[0][i]]
  BY <1>1
<1> QED BY <1>2 DEF Program, program_words, Loadable

LEMMA ResetStep ==
  ASSUME Reset
  PROVE  Chip!Reset
<1>1. CoreReset /\ tx_fifo' = <<>> /\ rx_fifo' = <<>> /\ taken' = NoByte /\ stalled' = FALSE
  BY DEF Reset
<1>2. Program' = Rom[0] /\ Rom[0] \in Loadable
  BY FirstProgram DEF Reset, HostReset
<1> QED BY <1>1, <1>2, SameCore DEF Chip!Reset

LEMMA InitStep ==
  ASSUME Init
  PROVE  Chip!Init
<1>1. CoreInit /\ tx_fifo = <<>> /\ rx_fifo = <<>> /\ taken = NoByte /\ stalled = FALSE
  BY DEF Init
<1>2. Program = Rom[0] /\ Rom[0] \in Loadable
  BY FirstProgram DEF Init, HostInit
<1> QED BY <1>1, <1>2, SameCore DEF Chip!Init

LEMMA NoStep ==
  ASSUME UNCHANGED vars
  PROVE  UNCHANGED Chip!vars
<1>1. UNCHANGED <<hostVars, coreVars, tx_fifo, rx_fifo, taken, stalled>>
  BY DEF vars
<1>2. UNCHANGED <<sel, load_mode, ram_select, prog_words, mem>>
  BY <1>1 DEF hostVars, regVars
<1>3. Program' = Program
  BY <1>2 DEF Program, program_words
<1> QED BY <1>1, <1>3 DEF Chip!vars, coreVars, Chip!coreVars

(* The chip is top.v with a program that only a reset of the core changes:  *)
(* whatever the ROM, the RAM and the host, no load, run, slot change or RAM *)
(* write reaches a core that runs (smallcore.v's multiplexers, host.v's     *)
(* restart), and every reset leaves a program the host wrote or the ROM has. *)
THEOREM ChipIsTop == Spec => ImplementsTop
<1>1. Inv /\ Inv' /\ [Next]_vars => [Chip!Next]_(Chip!vars)
  <2> SUFFICES ASSUME Inv, Inv', [Next]_vars PROVE Chip!Next \/ UNCHANGED Chip!vars
    OBVIOUS
  <2>1. ASSUME NEW g \in Levels, Clock(g) PROVE Chip!Next
    BY <2>1, ClockStep DEF Chip!Next
  <2> QED BY <2>1, RestartStep, ResetStep, NoStep DEF Next, Chip!Next
<1> QED BY <1>1, InvInit, InvStep, InitStep, PTL DEF Spec, ImplementsTop, Chip!Spec

-----------------------------------------------------------------------------
(* What TopProofs shows, of the chip. *)

LEMMA SameSpec == Chip!Spec <=> Tops!Spec
BY
  DEF Chip!Zero, Chip!opcode, Chip!delay, Chip!operand, Chip!side,
      Chip!side_pin, Chip!side_val, Chip!is_nop_set, Chip!is_shift,
      Chip!is_fifo, Chip!is_jmp, Chip!is_config, Chip!is_wait, Chip!is_skip,
      Chip!is_repeat, Chip!is_run, Chip!run_sense, Chip!is_acc,
      Chip!is_acc_in, Chip!is_acc_crc, Chip!is_acc_out, Chip!is_acc_push,
      Chip!is_acc_load, Chip!acc_pin, Chip!shift_select, Chip!fifo_select,
      Chip!config_field, Chip!config_value, Chip!input_pin, Chip!skip_bit,
      Chip!level, Chip!coreVars, Chip!Pin, Chip!PcSize, Chip!AddressSize,
      Chip!imem_addr, Chip!core_halted, Chip!issue, Chip!stall, Chip!last,
      Chip!pc_en, Chip!acc_en, Chip!pull_en, Chip!push_en, Chip!rx_data,
      Chip!skip_taken, Chip!newest, Chip!run_all, Chip!run_taken,
      Chip!rc_next, Chip!pc_next, Chip!shift_en, Chip!shift_in_en,
      Chip!gpio_en, Chip!shift_bit, Chip!gpio_next, Chip!Shifted,
      Chip!AccShifted, Chip!acc_bit, Chip!acc_feedback, Chip!acc_next,
      Chip!CoreInit, Chip!CoreReset, Chip!CoreClock, Chip!vars,
      Chip!imem_word, Chip!In, Chip!Init, Chip!FifosMove, Chip!Clock,
      Chip!Restart, Chip!Reset, Chip!Next, Chip!Spec, Chip!Fifo!Advance,
      Chip!Fifo!Accepts, Chip!Fifo!Remaining, Tops!Zero, Tops!opcode,
      Tops!delay, Tops!operand, Tops!side, Tops!side_pin, Tops!side_val,
      Tops!is_nop_set, Tops!is_shift, Tops!is_fifo, Tops!is_jmp,
      Tops!is_config, Tops!is_wait, Tops!is_skip, Tops!is_repeat,
      Tops!is_run, Tops!run_sense, Tops!is_acc, Tops!is_acc_in,
      Tops!is_acc_crc, Tops!is_acc_out, Tops!is_acc_push, Tops!is_acc_load,
      Tops!acc_pin, Tops!shift_select, Tops!fifo_select, Tops!config_field,
      Tops!config_value, Tops!input_pin, Tops!skip_bit, Tops!level,
      Tops!coreVars, Tops!Pin, Tops!PcSize, Tops!AddressSize,
      Tops!imem_addr, Tops!core_halted, Tops!issue, Tops!stall, Tops!last,
      Tops!pc_en, Tops!acc_en, Tops!pull_en, Tops!push_en, Tops!rx_data,
      Tops!skip_taken, Tops!newest, Tops!run_all, Tops!run_taken,
      Tops!rc_next, Tops!pc_next, Tops!shift_en, Tops!shift_in_en,
      Tops!gpio_en, Tops!shift_bit, Tops!gpio_next, Tops!Shifted,
      Tops!AccShifted, Tops!acc_bit, Tops!acc_feedback, Tops!acc_next,
      Tops!CoreInit, Tops!CoreReset, Tops!CoreClock, Tops!vars,
      Tops!imem_word, Tops!In, Tops!Init, Tops!FifosMove, Tops!Clock,
      Tops!Restart, Tops!Reset, Tops!Next, Tops!Spec, Tops!Fifo!Advance,
      Tops!Fifo!Accepts, Tops!Fifo!Remaining

LEMMA SameTypes == Chip!TopTypeOK <=> Tops!TopTypeOK
BY
  DEF Chip!BIT, Chip!Vec, Chip!Pin, Chip!PcSize, Chip!CoreTypeOK,
      Chip!TopTypeOK, Tops!BIT, Tops!Vec, Tops!Pin, Tops!PcSize,
      Tops!CoreTypeOK, Tops!TopTypeOK

LEMMA SameStalls == Chip!StallMovesNothing <=> Tops!StallMovesNothing
BY
  DEF Chip!coreVars, Chip!vars, Chip!OnlyHostMovesBytes,
      Chip!StallMovesNothing, Tops!coreVars, Tops!vars,
      Tops!OnlyHostMovesBytes, Tops!StallMovesNothing

LEMMA SameDelays == Chip!DelayMovesNothing <=> Tops!DelayMovesNothing
BY
  DEF Chip!Zero, Chip!coreVars, Chip!Pin, Chip!CoreReset, Chip!vars,
      Chip!FifosMove, Chip!Restart, Chip!Reset, Chip!OnlyHostMovesBytes,
      Chip!DelayMovesNothing, Chip!Fifo!Advance, Chip!Fifo!Accepts,
      Chip!Fifo!Remaining, Tops!Zero, Tops!coreVars, Tops!Pin,
      Tops!CoreReset, Tops!vars, Tops!FifosMove, Tops!Restart, Tops!Reset,
      Tops!OnlyHostMovesBytes, Tops!DelayMovesNothing, Tops!Fifo!Advance,
      Tops!Fifo!Accepts, Tops!Fifo!Remaining

LEMMA TopTypes == Spec => []Chip!TopTypeOK
BY ChipIsTop, TopsConstants, Tops!TypeCorrect, SameSpec, SameTypes, PTL DEF ImplementsTop

(* A stalled instruction and a running delay move nothing on the chip       *)
(* either, whatever is loaded, run or restarted meanwhile.                  *)
THEOREM CoreWaitsOnChip == Spec => Chip!StallMovesNothing /\ Chip!DelayMovesNothing
BY ChipIsTop, TopsConstants, Tops!StallsMoveNothing, Tops!DelaysMoveNothing,
   SameSpec, SameStalls, SameDelays, PTL DEF ImplementsTop

-----------------------------------------------------------------------------
(* STATUS. *)

LEMMA Reports ==
  /\ Reported(4) <=> pc >= program_words
  /\ Reported(2) <=> Len(tx_fifo) = DEPTH
  /\ Reported(1) <=> rx_fifo = <<>>
  /\ Reported(4)' <=> pc' >= program_words'
  /\ Reported(2)' <=> Len(tx_fifo') = DEPTH
  /\ Reported(1)' <=> rx_fifo' = <<>>
<1> DEFINE S(a, b, c) == (IF a THEN 4 ELSE 0) + (IF b THEN 2 ELSE 0) + (IF c THEN 1 ELSE 0)
           Flags(n, a, b, c) == /\ (n \div 4) % 2 = 1 <=> a
                                /\ (n \div 2) % 2 = 1 <=> b
                                /\ (n \div 1) % 2 = 1 <=> c
<1>1. \A a, b, c \in BOOLEAN : Flags(S(a, b, c), a, b, c)
  OBVIOUS
<1>2. rdata(STATUS) = S(pc >= program_words, Len(tx_fifo) = DEPTH, rx_fifo = <<>>)
  BY DEF rdata, STATUS, TX_DATA, RX_DATA, CONTROL
<1>3. rdata(STATUS)' = S(pc' >= program_words', Len(tx_fifo') = DEPTH, rx_fifo' = <<>>)
  BY DEF rdata, STATUS, TX_DATA, RX_DATA, CONTROL
<1>4. /\ (pc >= program_words) \in BOOLEAN /\ (pc' >= program_words') \in BOOLEAN
      /\ (Len(tx_fifo) = DEPTH) \in BOOLEAN /\ (Len(tx_fifo') = DEPTH) \in BOOLEAN
      /\ (rx_fifo = <<>>) \in BOOLEAN /\ (rx_fifo' = <<>>) \in BOOLEAN
  OBVIOUS
<1> HIDE DEF S, Flags
<1>5. Flags(rdata(STATUS), pc >= program_words, Len(tx_fifo) = DEPTH, rx_fifo = <<>>)
  BY <1>1, <1>2, <1>4, Zenon
<1>6. Flags(rdata(STATUS)', pc' >= program_words', Len(tx_fifo') = DEPTH, rx_fifo' = <<>>)
  BY <1>1, <1>3, <1>4, Zenon
<1> QED BY <1>5, <1>6, Zenon DEF Reported, Flags

(* The FIFOs over a clock on which the host neither pushes nor pops.        *)
LEMMA HostWaits ==
  ASSUME NEW q, q \in Seq(Vec(8)), Len(q) <= DEPTH, NEW move \in BOOLEAN, NEW byte
  PROVE  /\ Len(q) /= DEPTH => Len(Fifo!Advance(q, FALSE, move, byte)) /= DEPTH
         /\ q /= <<>> => /\ Fifo!Advance(q, move, FALSE, byte) /= <<>>
                        /\ Head(Fifo!Advance(q, move, FALSE, byte)) = Head(q)
<1>1. Len(q) \in Nat /\ DEPTH \in Nat /\ (q = <<>> <=> Len(q) = 0)
  BY FifoAssumption
<1>2. Len(q) /= DEPTH => Len(Fifo!Advance(q, FALSE, move, byte)) /= DEPTH
  <2>1. q /= <<>> => Len(Tail(q)) = Len(q) - 1
    BY HeadTailProperties
  <2> QED BY <1>1, <2>1 DEF Fifo!Advance, Fifo!Remaining
<1>3. ASSUME q /= <<>>
      PROVE  /\ Fifo!Advance(q, move, FALSE, byte) /= <<>>
             /\ Head(Fifo!Advance(q, move, FALSE, byte)) = Head(q)
  <2>1. Append(q, byte) /= <<>> /\ Head(Append(q, byte)) = Head(q)
    BY <1>1, <1>3
  <2> QED BY <1>3, <2>1 DEF Fifo!Advance, Fifo!Remaining
<1> QED BY <1>2, <1>3

LEMMA HostEdge ==
  ASSUME tx_fifo \in Seq(Vec(8)), Len(tx_fifo) <= DEPTH,
         rx_fifo \in Seq(Vec(8)), Len(rx_fifo) <= DEPTH,
         NEW pull \in BOOLEAN, NEW push \in BOOLEAN, NEW byte, FifosEdge(pull, push, byte)
  PROVE  /\ ~Reported(2) /\ ~tx_push => ~Reported(2)'
         /\ ~Reported(1) /\ ~rx_pop => ~Reported(1)' /\ rdata(RX_DATA)' = rdata(RX_DATA)
<1>1. ASSUME Len(tx_fifo) /= DEPTH, ~tx_push PROVE Len(tx_fifo') /= DEPTH
  <2>1. tx_push = FALSE
    BY <1>1 DEF tx_push
  <2>2. tx_fifo' = Fifo!Advance(tx_fifo, FALSE, pull, VecOf(wdata, 8))
    BY <2>1 DEF FifosEdge
  <2> QED BY <1>1, <2>2, HostWaits
<1>2. ASSUME rx_fifo /= <<>>, ~rx_pop PROVE rx_fifo' /= <<>> /\ Head(rx_fifo') = Head(rx_fifo)
  <2>1. rx_pop = FALSE
    BY <1>2 DEF rx_pop
  <2>2. rx_fifo' = Fifo!Advance(rx_fifo, push, FALSE, byte)
    BY <2>1 DEF FifosEdge
  <2> QED BY <1>2, <2>2, HostWaits
<1>3. ASSUME rx_fifo /= <<>>, rx_fifo' /= <<>>, Head(rx_fifo') = Head(rx_fifo)
      PROVE  rdata(RX_DATA)' = rdata(RX_DATA)
  <2>1. rdata(RX_DATA) = NatOf(Head(rx_fifo), 8) /\ rdata(RX_DATA)' = NatOf(Head(rx_fifo'), 8)
    BY <1>3 DEF rdata, RX_DATA, TX_DATA, STATUS, CONTROL
  <2> QED BY <1>3, <2>1 DEF NatOf
<1> QED BY <1>1, <1>2, <1>3, Reports

(* What a host reads in STATUS it may act on, whatever the core does and    *)
(* however it is restarted (smallcore.v's status word, the FIFOs' flags).   *)
THEOREM StatusHolds == Spec => StatusLasts
<1> DEFINE Lasts ==
       /\ ~Reported(2) /\ ~tx_push => ~Reported(2)'
       /\ ~Reported(1) /\ ~rx_pop => ~Reported(1)' /\ rdata(RX_DATA)' = rdata(RX_DATA)
       /\ Reported(4) /\ ~restart => Reported(4)'
<1>1. ASSUME Inv, Chip!TopTypeOK, Next, ~Reset PROVE Lasts
  <2>1. /\ tx_fifo \in Seq(Vec(8)) /\ Len(tx_fifo) <= DEPTH
        /\ rx_fifo \in Seq(Vec(8)) /\ Len(rx_fifo) <= DEPTH
    BY <1>1 DEF Chip!TopTypeOK, Chip!Vec, Chip!BIT, Vec, BIT
  <2>2. ASSUME NEW g \in Levels, Clock(g) PROVE Lasts
    <3> DEFINE in == In(g)
    <3>1. /\ FifosEdge(pull_en(in), push_en(in), rx_data(in)) /\ CoreClock(in)
          /\ HostClock /\ ~restart
      BY <2>2 DEF Clock
    <3>2. in.words = program_words
      BY DEF In
    <3> HIDE DEF in
    <3>3. pull_en(in) \in BOOLEAN /\ push_en(in) \in BOOLEAN
      BY DEF pull_en, push_en
    <3>4. ASSUME pc >= program_words PROVE pc' >= program_words'
      <4>1. delay_counter = 0
        <5>1. program_words \in 0 .. 256 /\ pc \in 0 .. 511 /\ delay_counter \in 0 .. 31
          BY <1>1, SameWord DEF Inv, Runs
        <5> QED BY <1>1, <3>4, <5>1 DEF Inv, Runs
      <4>2. ~pc_en(in)
        BY <3>2, <3>4, <4>1 DEF pc_en, last, issue, core_halted
      <4>3. pc' = pc
        BY <3>1, <4>2 DEF CoreClock
      <4>4. program_words' = program_words
        BY <1>1, <3>1, ProgramStays DEF Inv
      <4> QED BY <3>4, <4>3, <4>4
    <3> QED BY <2>1, <3>1, <3>3, <3>4, HostEdge, Reports
  <2>3. CASE RestartClock
    BY <2>1, <2>3, HostEdge DEF RestartClock
  <2> QED BY <1>1, <2>2, <2>3 DEF Next
<1>2. Inv /\ Chip!TopTypeOK /\ [Next]_vars => [Lasts \/ Reset]_vars
  BY <1>1
<1> QED BY <1>2, InvInit, InvStep, TopTypes, PTL DEF Spec, StatusLasts

=============================================================================
