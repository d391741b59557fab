----------------------------- MODULE TopProofs -----------------------------
(***************************************************************************)
(* Theorems about top.v for every program, every FIFO depth and every       *)
(* outside world: the type invariant, and the facts about delays, stalls    *)
(* and FIFO traffic that the rest of the chip relies on.                    *)
(***************************************************************************)
EXTENDS Top, SequenceTheorems, TLAPS

(* The fields of a word stay within their bits. *)
LEMMA DecodeTypes ==
  ASSUME NEW w \in Word
  PROVE  /\ opcode(w) \in 0 .. 7
         /\ delay(w) \in 0 .. 31
         /\ operand(w) \in 0 .. 255
         /\ side_pin(w) \in Pin
         /\ side_val(w) \in BIT
         /\ acc_pin(w) \in Pin
         /\ input_pin(w) \in Pin
         /\ config_value(w) \in 0 .. 3
         /\ skip_bit(w) \in 0 .. 7
<1>1. w \in Nat
  BY DEF Word
<1>2. /\ w \div 2 \in Int /\ w \div 4 \in Int /\ w \div 16 \in Int /\ w \div 32 \in Int
      /\ w \div 256 \in Int /\ w \div 8192 \in Int
  BY <1>1
<1>3. opcode(w) \in 0 .. 7
  BY <1>2 DEF opcode
<1>4. delay(w) \in 0 .. 31
  BY <1>2 DEF delay
<1>5. operand(w) \in 0 .. 255
  BY <1>1 DEF operand
<1>6. side_pin(w) \in Pin
  BY <1>2 DEF side_pin, Pin
<1>7. side_val(w) \in BIT
  BY <1>2 DEF side_val, BIT
<1>8. acc_pin(w) \in Pin
  BY <1>1 DEF acc_pin, Pin
<1>9. input_pin(w) \in Pin
  BY <1>2 DEF input_pin, Pin
<1>10. config_value(w) \in 0 .. 3
  BY <1>1 DEF config_value
<1>11. skip_bit(w) \in 0 .. 7
  BY <1>2 DEF skip_bit
<1> QED BY <1>3, <1>4, <1>5, <1>6, <1>7, <1>8, <1>9, <1>10, <1>11

LEMMA ImemWordType ==
  ASSUME TopTypeOK
  PROVE  imem_word \in Word /\ Len(program) \in 0 .. AddressSize
<1>1. program \in Seq(Word) /\ Len(program) <= AddressSize
  BY ProgramsAssumption DEF TopTypeOK
<1>2. pc \in 0 .. 511
  BY DEF TopTypeOK, CoreTypeOK, PcSize
<1>3. imem_addr \in 0 .. 255
  BY <1>2 DEF imem_addr, AddressSize
<1>4. 0 \in Word
  BY DEF Word
<1>5. imem_addr < Len(program) => program[imem_addr + 1] \in Word
  BY <1>1, <1>3
<1> QED BY <1>1, <1>4, <1>5 DEF imem_word

(* What the core's ports carry. *)
LEMMA InTypes ==
  ASSUME TopTypeOK, NEW g \in Levels
  PROVE  /\ In(g).word = imem_word
         /\ In(g).words = Len(program)
         /\ In(g).gpio_in = g
         /\ In(g).gpio_in \in [Pin -> BIT]
         /\ In(g).tx_empty = (tx_fifo = <<>>)
         /\ In(g).rx_full = (Len(rx_fifo) = DEPTH)
         /\ tx_fifo /= <<>> => In(g).tx_data = Head(tx_fifo)
         /\ In(g).tx_data \in Vec(8)
<1>1. Zero(8) \in Vec(8)
  BY DEF Zero, Vec, BIT
<1>2. tx_fifo /= <<>> => Head(tx_fifo) \in Vec(8)
  BY DEF TopTypeOK
<1> QED BY <1>1, <1>2, LevelsAssumption DEF In

(* A queue stays a queue within its depth. *)
LEMMA AdvanceType ==
  ASSUME NEW q \in Seq(Vec(8)), Len(q) <= DEPTH,
         NEW push \in BOOLEAN, NEW pop \in BOOLEAN, NEW byte,
         push => byte \in Vec(8)
  PROVE  /\ Fifo!Advance(q, push, pop, byte) \in Seq(Vec(8))
         /\ Len(Fifo!Advance(q, push, pop, byte)) <= DEPTH
<1> DEFINE r == Fifo!Remaining(q, pop)
<1>1. Len(q) \in Nat /\ DEPTH \in Nat /\ DEPTH > 0
  BY FifoDepthAssumption
<1>2. CASE pop /\ q /= <<>>
  <2>1. r = Tail(q) /\ r \in Seq(Vec(8)) /\ Len(r) = Len(q) - 1
    BY <1>2, HeadTailProperties DEF Fifo!Remaining
  <2>2. push => Append(r, byte) \in Seq(Vec(8)) /\ Len(Append(r, byte)) = Len(q)
    BY <1>1, <2>1, AppendProperties
  <2> QED BY <1>1, <2>1, <2>2 DEF Fifo!Advance
<1>3. CASE ~ (pop /\ q /= <<>>)
  <2>1. r = q
    BY <1>3 DEF Fifo!Remaining
  <2>2. push => Append(q, byte) \in Seq(Vec(8)) /\ Len(Append(q, byte)) = Len(q) + 1
    BY <1>1, AppendProperties
  <2>3. Fifo!Accepts(q, pop) => Len(q) + 1 <= DEPTH
    <3>1. CASE Len(q) < DEPTH
      BY <1>1, <3>1
    <3>2. CASE pop
      <4>1. q = <<>>
        BY <1>3, <3>2
      <4>2. Len(q) = 0
        BY <4>1
      <4> QED BY <4>2, <1>1
    <3> QED BY <3>1, <3>2 DEF Fifo!Accepts
  <2> QED BY <1>1, <2>1, <2>2, <2>3 DEF Fifo!Advance
<1> QED BY <1>2, <1>3

(* The bytes a clock moves, whatever the core asks of the FIFOs. *)
LEMMA FifosStayQueues ==
  ASSUME TopTypeOK, NEW pull \in BOOLEAN, NEW push \in BOOLEAN, NEW byte \in Vec(8),
         FifosMove(pull, push, byte)
  PROVE  /\ tx_fifo' \in Seq(Vec(8)) /\ Len(tx_fifo') <= DEPTH
         /\ rx_fifo' \in Seq(Vec(8)) /\ Len(rx_fifo') <= DEPTH
         /\ taken' \in Vec(8) \cup {NoByte}
<1>1. PICK offer \in Byte \cup {NoByte}, pop \in BOOLEAN :
        /\ tx_fifo' = Fifo!Advance(tx_fifo, offer /= NoByte, pull, offer)
        /\ rx_fifo' = Fifo!Advance(rx_fifo, push, pop, byte)
        /\ taken' = IF pop /\ rx_fifo /= <<>> THEN Head(rx_fifo) ELSE NoByte
  BY DEF FifosMove
<1>2. offer /= NoByte => offer \in Vec(8)
  BY BytesAssumption
<1>3. /\ tx_fifo \in Seq(Vec(8)) /\ Len(tx_fifo) <= DEPTH
      /\ rx_fifo \in Seq(Vec(8)) /\ Len(rx_fifo) <= DEPTH
  BY DEF TopTypeOK
<1>4. tx_fifo' \in Seq(Vec(8)) /\ Len(tx_fifo') <= DEPTH
  BY <1>1, <1>2, <1>3, AdvanceType
<1>5. rx_fifo' \in Seq(Vec(8)) /\ Len(rx_fifo') <= DEPTH
  BY <1>1, <1>3, AdvanceType
<1>6. taken' \in Vec(8) \cup {NoByte}
  BY <1>1, <1>3
<1> QED BY <1>4, <1>5, <1>6

LEMMA ResetTypes == CoreReset => CoreTypeOK'
  BY DEF CoreReset, CoreTypeOK, Vec, Zero, BIT, Pin, PcSize

LEMMA PcNextType ==
  ASSUME CoreTypeOK, NEW w \in Word
  PROVE  pc_next(w) \in 0 .. PcSize - 1 /\ rc_next(w) \in 0 .. 31
<1>1. pc \in 0 .. 511 /\ rc \in 0 .. 31 /\ operand(w) \in 0 .. 255 /\ delay(w) \in 0 .. 31
  BY DecodeTypes DEF CoreTypeOK, PcSize
<1>2. rc_next(w) \in 0 .. 31
  BY <1>1 DEF rc_next
<1>3. \A n \in Int : n % 512 \in 0 .. 511
  OBVIOUS
<1>4. /\ pc + 1 \in Int /\ pc - operand(w) \in Int
      /\ pc + (IF skip_taken(w) \/ run_taken(w) THEN 2 ELSE 1) \in Int
  BY <1>1
<1>5. /\ (pc + 1) % 512 \in 0 .. 511
      /\ (pc - operand(w)) % 512 \in 0 .. 511
      /\ (pc + (IF skip_taken(w) \/ run_taken(w) THEN 2 ELSE 1)) % 512 \in 0 .. 511
  BY <1>3, <1>4
<1>6. operand(w) \in 0 .. 511
  BY <1>1
<1> QED BY <1>2, <1>5, <1>6 DEF pc_next, PcSize

LEMMA ClockTypes ==
  ASSUME TopTypeOK, NEW g \in Levels, CoreClock(In(g))
  PROVE  CoreTypeOK'
<1> DEFINE in == In(g)
           w  == imem_word
<1>1. /\ CoreTypeOK
      /\ w \in Word
      /\ in.word = w
      /\ in.gpio_in \in [Pin -> BIT]
      /\ in.tx_data \in Vec(8)
  BY ImemWordType, InTypes DEF TopTypeOK
<1>2. /\ delay(w) \in 0 .. 31
      /\ side_val(w) \in BIT
      /\ config_value(w) \in 0 .. 3
      /\ acc_pin(w) \in Pin
      /\ input_pin(w) \in Pin
  BY <1>1, DecodeTypes
<1>3. pc_next(w) \in 0 .. PcSize - 1 /\ rc_next(w) \in 0 .. 31
  BY <1>1, PcNextType
<1> HIDE DEF in, w
<1>4. CoreClock(in)
  BY DEF in
<1>5. pc' \in 0 .. PcSize - 1
  BY <1>1, <1>3, <1>4 DEF CoreClock, CoreTypeOK
<1>6. delay_counter' \in 0 .. 31
  BY <1>1, <1>2, <1>4 DEF CoreClock, CoreTypeOK
<1>7. rc' \in 0 .. 31
  BY <1>1, <1>3, <1>4 DEF CoreClock, CoreTypeOK
<1>8. gpio_out' \in [Pin -> BIT]
  <2>1. shift_bit \in BIT /\ acc[15] \in BIT /\ gpio_out \in [Pin -> BIT]
    BY <1>1 DEF CoreTypeOK, shift_bit, Vec
  <2>2. \A p \in Pin : gpio_next(in)[p] \in BIT
    BY <2>1, <1>1, <1>2 DEF gpio_next
  <2>3. gpio_next(in) \in [Pin -> BIT]
    BY <2>2 DEF gpio_next
  <2> QED BY <2>3, <1>4 DEF CoreClock
<1>9. shift_dir' \in BIT
  BY <1>1, <1>2, <1>4 DEF CoreClock, CoreTypeOK, BIT
<1>10. open_drain' \in [Pin -> BIT]
  <2>1. config_value(w) % 2 \in BIT /\ config_value(w) \div 2 \in BIT
    BY <1>2 DEF BIT
  <2> QED BY <2>1, <1>1, <1>4 DEF CoreClock, CoreTypeOK
<1>11. \A r \in Vec(8), b \in BIT : Shifted(r, b) \in Vec(8)
  BY DEF Shifted, Vec
<1>12. shift_reg' \in Vec(8)
  <2>1. Shifted(shift_reg, 0) \in Vec(8)
    BY <1>1, <1>11 DEF CoreTypeOK, BIT
  <2> QED BY <2>1, <1>1, <1>4 DEF CoreClock, CoreTypeOK
<1>13. in_shift_reg' \in Vec(8)
  <2>1. Shifted(in_shift_reg, in.gpio_in[input_pin(w)]) \in Vec(8)
    BY <1>1, <1>2, <1>11 DEF CoreTypeOK
  <2> QED BY <2>1, <1>1, <1>4 DEF CoreClock, CoreTypeOK
<1>14. acc' \in Vec(16)
  <2>1. acc \in [0 .. 15 -> BIT] /\ poly \in [0 .. 15 -> BIT] /\ acc_bit(in) \in BIT
    BY <1>1, <1>2 DEF CoreTypeOK, Vec, acc_bit
  <2>2. \A b \in BIT : AccShifted(b) \in [0 .. 15 -> BIT]
    BY <2>1 DEF AccShifted
  <2>3. acc_feedback(in) \in BIT
    BY <2>1 DEF acc_feedback, BIT
  <2>4. AccShifted(0) \in [0 .. 15 -> BIT]
    BY <2>2 DEF BIT
  <2>5. \A x, y, z \in BIT : (x + y * z) % 2 \in BIT
    BY DEF BIT
  <2>6. [k \in 0 .. 15 |-> (AccShifted(0)[k] + acc_feedback(in) * poly[k]) % 2]
          \in [0 .. 15 -> BIT]
    BY <2>1, <2>3, <2>4, <2>5
  <2>7. [k \in 0 .. 15 |-> IF k < 8 THEN acc[k + 8] ELSE 0] \in [0 .. 15 -> BIT]
    BY <2>1 DEF BIT
  <2>8. acc_next(in) \in [0 .. 15 -> BIT]
    BY <2>1, <2>2, <2>4, <2>6, <2>7 DEF acc_next
  <2> QED BY <2>1, <2>8, <1>4 DEF CoreClock, Vec
<1>15. poly' \in Vec(16)
  <2>1. poly \in [0 .. 15 -> BIT] /\ shift_reg \in [0 .. 7 -> BIT]
    BY <1>1 DEF CoreTypeOK, Vec
  <2>2. [k \in 0 .. 15 |-> IF k < 8 THEN poly[k + 8] ELSE shift_reg[k - 8]]
          \in [0 .. 15 -> BIT]
    BY <2>1
  <2> QED BY <2>1, <2>2, <1>4 DEF CoreClock, Vec
<1> QED
  BY <1>5, <1>6, <1>7, <1>8, <1>9, <1>10, <1>12, <1>13, <1>14, <1>15 DEF CoreTypeOK

(* The core's enables and its RX byte are what the FIFOs expect. *)
LEMMA EnableTypes ==
  ASSUME TopTypeOK, NEW g \in Levels
  PROVE  /\ pull_en(In(g)) \in BOOLEAN
         /\ push_en(In(g)) \in BOOLEAN
         /\ rx_data(In(g)) \in Vec(8)
<1>1. in_shift_reg \in Vec(8) /\ acc \in [0 .. 15 -> BIT]
  BY DEF TopTypeOK, CoreTypeOK, Vec
<1>2. [k \in 0 .. 7 |-> acc[k]] \in Vec(8)
  BY <1>1 DEF Vec
<1>3. rx_data(In(g)) \in Vec(8)
  BY <1>1, <1>2 DEF rx_data
<1> QED BY <1>3 DEF pull_en, push_en

(* Every register of core.v keeps to its width and every FIFO to its depth *)
(* under any program, pins and traffic.                                    *)
THEOREM TypeCorrect == Spec => []TopTypeOK
<1>1. Init => TopTypeOK
  <2> SUFFICES ASSUME Init PROVE TopTypeOK
    OBVIOUS
  <2>1. CoreTypeOK
    BY DEF Init, CoreInit, CoreTypeOK, Vec, Zero, BIT, Pin, PcSize
  <2>2. /\ tx_fifo \in Seq(Vec(8)) /\ Len(tx_fifo) = 0
        /\ rx_fifo \in Seq(Vec(8)) /\ Len(rx_fifo) = 0
    BY DEF Init
  <2>3. Len(tx_fifo) <= DEPTH /\ Len(rx_fifo) <= DEPTH
    BY <2>2, FifoDepthAssumption
  <2>4. program \in Programs /\ taken = NoByte /\ stalled = FALSE
    BY DEF Init
  <2> QED BY <2>1, <2>2, <2>3, <2>4 DEF TopTypeOK
<1>2. TopTypeOK /\ [Next]_vars => TopTypeOK'
  <2> SUFFICES ASSUME TopTypeOK, [Next]_vars PROVE TopTypeOK'
    OBVIOUS
  <2>1. ASSUME NEW g \in Levels, Clock(g) PROVE TopTypeOK'
    <3>1. CoreTypeOK'
      BY <2>1, ClockTypes DEF Clock
    <3>2. stalled' \in BOOLEAN
      BY <2>1 DEF Clock, TopTypeOK, stall
    <3>3. /\ tx_fifo' \in Seq(Vec(8)) /\ Len(tx_fifo') <= DEPTH
          /\ rx_fifo' \in Seq(Vec(8)) /\ Len(rx_fifo') <= DEPTH
          /\ taken' \in Vec(8) \cup {NoByte}
      BY <2>1, EnableTypes, FifosStayQueues DEF Clock
    <3>4. program' \in Programs
      BY <2>1 DEF Clock, TopTypeOK
    <3> QED BY <3>1, <3>2, <3>3, <3>4 DEF TopTypeOK
  <2>2. CASE Restart
    <3>1. Zero(8) \in Vec(8)
      BY DEF Zero, Vec, BIT
    <3>2. /\ tx_fifo' \in Seq(Vec(8)) /\ Len(tx_fifo') <= DEPTH
          /\ rx_fifo' \in Seq(Vec(8)) /\ Len(rx_fifo') <= DEPTH
          /\ taken' \in Vec(8) \cup {NoByte}
      BY <2>2, <3>1, FifosStayQueues DEF Restart
    <3>3. CoreTypeOK'
      BY <2>2, ResetTypes DEF Restart
    <3> QED BY <2>2, <3>2, <3>3 DEF Restart, TopTypeOK
  <2>3. CASE Reset
    <3>1. CoreTypeOK'
      BY <2>3, ResetTypes DEF Reset
    <3>2. /\ tx_fifo' \in Seq(Vec(8)) /\ Len(tx_fifo') = 0
          /\ rx_fifo' \in Seq(Vec(8)) /\ Len(rx_fifo') = 0
      BY <2>3 DEF Reset
    <3>3. Len(tx_fifo') <= DEPTH /\ Len(rx_fifo') <= DEPTH
      BY <3>2, FifoDepthAssumption
    <3>4. program' \in Programs /\ taken' = NoByte /\ stalled' = FALSE
      BY <2>3 DEF Reset, TopTypeOK
    <3> QED BY <3>1, <3>2, <3>3, <3>4 DEF TopTypeOK
  <2>4. CASE UNCHANGED vars
    BY <2>4 DEF vars, coreVars, TopTypeOK, CoreTypeOK
  <2> QED BY <2>1, <2>2, <2>3, <2>4 DEF Next
<1> QED BY <1>1, <1>2, PTL DEF Spec

-----------------------------------------------------------------------------
(* A running delay is the rest of the delay of the word at the pc, whatever *)
(* the program: the invariant behind DelaysMoveNothing.                     *)
THEOREM DelayBelongs == Spec => []DelayBelongsToItsWord
<1> DEFINE IInv == TopTypeOK /\ DelayBelongsToItsWord
<1>1. Init => DelayBelongsToItsWord
  BY DEF Init, CoreInit, DelayBelongsToItsWord
<1>2. IInv /\ [Next]_vars => DelayBelongsToItsWord'
  <2> SUFFICES ASSUME IInv, [Next]_vars PROVE DelayBelongsToItsWord'
    OBVIOUS
  <2>1. ASSUME NEW g \in Levels, Clock(g) PROVE DelayBelongsToItsWord'
    <3> DEFINE in == In(g)
    <3>1. in.words = Len(program) /\ Len(program) \in Nat /\ imem_word \in Word
             /\ in.word = imem_word
      BY ImemWordType, InTypes DEF AddressSize
    <3>2. pc \in 0 .. 511 /\ delay_counter \in 0 .. 31 /\ delay(imem_word) \in 0 .. 31
      BY <3>1, DecodeTypes DEF TopTypeOK, CoreTypeOK, PcSize
    <3>3. CoreClock(in) /\ program' = program
      BY <2>1 DEF Clock
    <3> HIDE DEF in
    <3>4. CASE issue(in) /\ ~ stall(in) /\ delay_counter' > 0
      <4>1. delay_counter' = (IF is_repeat(imem_word) THEN 0 ELSE delay(imem_word))
        BY <3>1, <3>3, <3>4 DEF CoreClock
      <4>2. ~ is_repeat(imem_word) /\ delay_counter' = delay(imem_word)
        BY <3>2, <3>4, <4>1
      <4>3. ~ last(in) /\ pc < Len(program)
        BY <3>1, <3>2, <3>4, <4>2 DEF last, issue, core_halted
      <4>4. pc' = pc
        BY <3>3, <4>3 DEF CoreClock, pc_en
      <4> QED BY <3>2, <3>3, <4>2, <4>3, <4>4
                 DEF DelayBelongsToItsWord, imem_word, imem_addr, is_repeat, opcode, delay
    <3>5. CASE ~ (issue(in) /\ ~ stall(in)) /\ delay_counter' > 0
      <4>1. delay_counter > 1 /\ delay_counter' = delay_counter - 1
        BY <3>2, <3>3, <3>5 DEF CoreClock
      <4>2. ~ issue(in)
        BY <4>1 DEF issue
      <4>3. pc' = pc
        BY <3>3, <4>1, <4>2 DEF CoreClock, pc_en, last
      <4>4. pc < Len(program) /\ ~ is_repeat(imem_word) /\ delay_counter <= delay(imem_word)
        BY <3>2, <4>1 DEF DelayBelongsToItsWord
      <4>5. imem_word' = imem_word
        BY <3>3, <4>3 DEF imem_word, imem_addr
      <4>6. delay_counter' <= delay(imem_word)
        <5>1. \A b, c \in Nat : b <= c => b - 1 <= c
          OBVIOUS
        <5>2. delay_counter \in Nat /\ delay(imem_word) \in Nat
          BY <3>2
        <5> QED BY <5>1, <5>2, <4>1, <4>4
      <4>7. delay_counter' <= delay(imem_word)'
        BY <4>5, <4>6 DEF delay
      <4>8. ~ is_repeat(imem_word)'
        BY <4>4, <4>5 DEF is_repeat, opcode
      <4>9. (pc < Len(program))'
        BY <3>3, <4>3, <4>4
      <4> QED BY <4>7, <4>8, <4>9 DEF DelayBelongsToItsWord
    <3> QED BY <3>4, <3>5 DEF DelayBelongsToItsWord
  <2>2. CASE Restart \/ Reset
    <3>1. delay_counter' = 0
      BY <2>2 DEF Restart, Reset, CoreReset
    <3> QED BY <3>1 DEF DelayBelongsToItsWord, imem_word, imem_addr, is_repeat, opcode, delay
  <2>3. CASE UNCHANGED vars
    BY <2>3 DEF vars, coreVars, DelayBelongsToItsWord, imem_word, imem_addr
  <2> QED BY <2>1, <2>2, <2>3 DEF Next
<1> QED BY <1>1, <1>2, TypeCorrect, PTL DEF Spec

(* What a clock on which the core neither pulls nor pushes may do to the    *)
(* FIFOs: the host's byte goes in at the back, its pop takes the front.     *)
LEMMA HostAloneMovesBytes ==
  ASSUME TopTypeOK, NEW byte, FifosMove(FALSE, FALSE, byte)
  PROVE  OnlyHostMovesBytes
<1>1. PICK offer \in Byte \cup {NoByte}, pop \in BOOLEAN :
        /\ tx_fifo' = Fifo!Advance(tx_fifo, offer /= NoByte, FALSE, offer)
        /\ rx_fifo' = Fifo!Advance(rx_fifo, FALSE, pop, byte)
        /\ taken' = IF pop /\ rx_fifo /= <<>> THEN Head(rx_fifo) ELSE NoByte
  BY DEF FifosMove
<1>2. rx_fifo /= <<>> => Head(rx_fifo) /= NoByte
  BY BytesAssumption DEF TopTypeOK
<1>3. rx_fifo' = IF taken' = NoByte THEN rx_fifo ELSE Tail(rx_fifo)
  BY <1>1, <1>2 DEF Fifo!Advance, Fifo!Remaining
<1>4. tx_fifo' = tx_fifo \/ (offer /= NoByte /\ tx_fifo' = Append(tx_fifo, offer))
  BY <1>1 DEF Fifo!Advance, Fifo!Remaining
<1> QED BY <1>1, <1>3, <1>4 DEF OnlyHostMovesBytes

(* The registers of a clock on which no enable of the core is up. *)
LEMMA QuietClock ==
  ASSUME TopTypeOK, NEW g \in Levels, CoreClock(In(g)),
         ~ acc_en(In(g)), ~ shift_en(In(g)), ~ gpio_en(In(g)), ~ shift_in_en(In(g)),
         ~ pull_en(In(g)), ~ (issue(In(g)) /\ is_config(In(g).word))
  PROVE  UNCHANGED <<gpio_out, shift_dir, open_drain, shift_reg, in_shift_reg, acc, poly>>
<1> DEFINE in == In(g)
<1>1. gpio_next(in) = gpio_out
  <2>1. gpio_out = [p \in Pin |-> gpio_out[p]]
    BY DEF TopTypeOK, CoreTypeOK
  <2> QED BY <2>1 DEF gpio_next
<1>2. CoreClock(in)
  OBVIOUS
<1> HIDE DEF in
<1> QED BY <1>1, <1>2 DEF CoreClock, in

(* Whatever the program, the pins and the host do, a stalled instruction    *)
(* has no effect.                                                           *)
THEOREM StallsMoveNothing == Spec => StallMovesNothing
<1>1. ASSUME TopTypeOK, NEW g \in Levels, Clock(g), stall(In(g))
      PROVE  UNCHANGED coreVars /\ OnlyHostMovesBytes
  <2> DEFINE in == In(g)
  <2>1. CoreClock(in) /\ FifosMove(pull_en(in), push_en(in), rx_data(in))
    BY <1>1 DEF Clock
  <2>2. stall(in) /\ issue(in)
    BY <1>1 DEF stall
  <2>3. delay_counter = 0
    BY <2>2 DEF issue
  <2> HIDE DEF in
  <2>4. /\ ~ acc_en(in) /\ ~ gpio_en(in) /\ ~ pc_en(in)
        /\ ~ shift_en(in) /\ ~ shift_in_en(in) /\ ~ is_config(in.word)
        /\ ~ pull_en(in) /\ ~ push_en(in)
    BY <2>2 DEF acc_en, gpio_en, pc_en, shift_en, shift_in_en, pull_en, push_en, stall,
                is_fifo, is_acc_push, is_acc, is_nop_set, is_wait, is_shift, is_config
  <2>5. UNCHANGED <<gpio_out, shift_dir, open_drain, shift_reg, in_shift_reg, acc, poly>>
    BY <1>1, <2>1, <2>4, QuietClock DEF in
  <2>6. UNCHANGED <<pc, rc, delay_counter>>
    BY <2>1, <2>2, <2>3, <2>4 DEF CoreClock
  <2>7. pull_en(in) = FALSE /\ push_en(in) = FALSE
    BY <2>4 DEF pull_en, push_en
  <2>8. FifosMove(FALSE, FALSE, rx_data(in))
    BY <2>1, <2>7
  <2> QED BY <2>5, <2>6, <2>8, <1>1, HostAloneMovesBytes DEF coreVars
<1>2. ASSUME TopTypeOK, Next, pc < Len(program), delay_counter = 0, stalled'
      PROVE  UNCHANGED coreVars /\ OnlyHostMovesBytes
  <2>1. PICK g \in Levels : Clock(g)
    BY <1>2 DEF Next, Restart, Reset
  <2>2. issue(In(g))
    <3>1. In(g).words = Len(program) /\ Len(program) \in 0 .. 256 /\ pc \in 0 .. 511
      BY <1>2, InTypes, ImemWordType DEF AddressSize, TopTypeOK, CoreTypeOK, PcSize
    <3>2. ~ pc >= In(g).words
      BY <1>2, <3>1
    <3> QED BY <1>2, <3>2 DEF issue, core_halted
  <2>3. stall(In(g))
    BY <1>2, <2>1, <2>2 DEF Clock
  <2> QED BY <1>1, <1>2, <2>1, <2>3
<1>3. TopTypeOK /\ [Next]_vars =>
        [pc < Len(program) /\ delay_counter = 0 /\ stalled' =>
           UNCHANGED coreVars /\ OnlyHostMovesBytes]_vars
  BY <1>2
<1> QED BY <1>3, TypeCorrect, PTL DEF Spec, StallMovesNothing

(* Whatever the program, a delay only counts down. *)
THEOREM DelaysMoveNothing == Spec => DelayMovesNothing
<1> DEFINE Counts ==
       /\ delay_counter' = delay_counter - 1
       /\ UNCHANGED <<rc, gpio_out, shift_dir, open_drain, shift_reg,
                      in_shift_reg, acc, poly>>
       /\ delay_counter > 1 => pc' = pc
       /\ OnlyHostMovesBytes
<1>1. ASSUME TopTypeOK, DelayBelongsToItsWord, NEW g \in Levels, Clock(g), delay_counter > 0
      PROVE  Counts
  <2> DEFINE in == In(g)
  <2>1. CoreClock(in) /\ FifosMove(pull_en(in), push_en(in), rx_data(in))
    BY <1>1 DEF Clock
  <2>2. delay_counter \in Nat /\ ~ issue(in)
    BY <1>1 DEF issue, TopTypeOK, CoreTypeOK
  <2> HIDE DEF in
  <2>3. /\ ~ acc_en(in) /\ ~ gpio_en(in) /\ ~ shift_en(in) /\ ~ shift_in_en(in)
        /\ ~ stall(in) /\ pull_en(in) = FALSE /\ push_en(in) = FALSE
    BY <2>2 DEF acc_en, gpio_en, shift_en, shift_in_en, pull_en, push_en, stall
  <2>4. UNCHANGED <<gpio_out, shift_dir, open_drain, shift_reg, in_shift_reg, acc, poly>>
    BY <1>1, <2>1, <2>2, <2>3, QuietClock DEF in
  <2>5. pc_en(in) <=> delay_counter = 1
    BY <2>2, <2>3 DEF pc_en, last
  <2>6. delay_counter' = delay_counter - 1 /\ (delay_counter > 1 => pc' = pc)
    BY <1>1, <2>1, <2>2, <2>5 DEF CoreClock
  <2>7. FifosMove(FALSE, FALSE, rx_data(in))
    BY <2>1, <2>3
  <2>8. rc' = rc
    <3>1. in.word = imem_word
      BY <1>1, InTypes DEF in
    <3> QED BY <1>1, <2>1, <3>1 DEF CoreClock, DelayBelongsToItsWord
  <2> QED BY <2>4, <2>6, <2>7, <2>8, <1>1, HostAloneMovesBytes
<1>2. TopTypeOK /\ DelayBelongsToItsWord /\ [Next]_vars =>
        [delay_counter > 0 => Counts \/ Restart \/ Reset]_vars
  BY <1>1 DEF Next
<1> QED BY <1>2, TypeCorrect, DelayBelongs, PTL DEF Spec, DelayMovesNothing

=============================================================================
