---------------------------- MODULE RepeatProofs ----------------------------
(***************************************************************************)
(* Theorems about REPEAT for every program check_bodies accepts, of any     *)
(* length and with any number of loops, under any pins and host traffic.    *)
(*                                                                          *)
(* The argument: a clock either leaves pc and rc alone or executes the word *)
(* at the pc (PcMoves); an executed word stays inside a body it is in,      *)
(* unless it is the body's REPEAT, and enters another only at its label     *)
(* (StaysInBody, EntersBody); so rc never leaves the body it counts for.    *)
(***************************************************************************)
EXTENDS RepeatBodies, TopProofs

LEMMA RSpecIsSpec == RSpec => Spec
<1>1. RInit => Init
  BY DEF RInit
<1>2. [RNext]_rvars => [Next]_vars
  BY DEF RNext, RClock, RStop, Next, rvars
<1> QED BY <1>1, <1>2, PTL DEF RSpec, Spec

(* The program in the instruction memory, as the check left it. *)
LEMMA ProgramFacts ==
  ASSUME TopTypeOK
  PROVE  /\ Len(program) \in 0 .. 256
         /\ \A a \in Addresses(program) : At(program, a) \in Word
         /\ CheckBodies(program)
         /\ pc < Len(program) => pc \in Addresses(program) /\ imem_word = At(program, pc)
<1>1. program \in Seq(Word) /\ Len(program) <= 256 /\ CheckBodies(program)
  <2>1. program \in Programs
    BY DEF TopTypeOK
  <2> QED BY <2>1, ProgramsAssumption, CheckedAssumption DEF AddressSize
<1>2. Len(program) \in Nat
  BY <1>1
<1>3. Len(program) \in 0 .. 256
  <2>1. \A n \in Nat : n <= 256 => n \in 0 .. 256
    OBVIOUS
  <2> QED BY <2>1, <1>1, <1>2
<1>4. \A a \in Addresses(program) : At(program, a) \in Word
  BY <1>1 DEF Addresses, At
<1>5. pc \in 0 .. 511
  BY DEF TopTypeOK, CoreTypeOK, PcSize
<1>6. ASSUME pc < Len(program)
      PROVE  pc \in Addresses(program) /\ imem_word = At(program, pc)
  <2>1. pc \in 0 .. 255 /\ pc \in Addresses(program)
    <3>1. \A m \in 0 .. 511, n \in 0 .. 256 : m < n => m \in 0 .. 255 /\ m \in 0 .. n - 1
      OBVIOUS
    <3> QED BY <3>1, <1>3, <1>5, <1>6 DEF Addresses
  <2>2. imem_addr = pc
    BY <2>1 DEF imem_addr, AddressSize
  <2> QED BY <1>6, <2>1, <2>2 DEF imem_word, At
<1>7. CheckBodies(program)
  BY <1>1
<1> QED BY <1>3, <1>4, <1>6, <1>7

(* What the check says of the REPEAT at e. *)
LEMMA BodyFacts ==
  ASSUME TopTypeOK, NEW e \in Ends(program)
  PROVE  /\ e \in Addresses(program)
         /\ e \in 0 .. 255
         /\ is_repeat(At(program, e))
         /\ operand(At(program, e)) \in 1 .. 255
         /\ delay(At(program, e)) \in 0 .. 31
         /\ Label(program, e) \in 0 .. e - 1
         /\ NoInnerRepeat(program, e)
         /\ SkipsStay(program, e)
         /\ JumpsStay(program, e)
<1>1. e \in Addresses(program) /\ is_repeat(At(program, e))
  BY DEF Ends
<1>2. e \in 0 .. 255 /\ At(program, e) \in Word
  <2>1. Len(program) \in 0 .. 256 /\ e \in 0 .. Len(program) - 1 /\ At(program, e) \in Word
    BY <1>1, ProgramFacts DEF Addresses
  <2>2. \A n \in 0 .. 256 : \A m \in 0 .. n - 1 : m \in 0 .. 255
    OBVIOUS
  <2> QED BY <2>1, <2>2
<1>3. operand(At(program, e)) \in 0 .. 255 /\ delay(At(program, e)) \in 0 .. 31
  BY <1>2, DecodeTypes
<1>4. /\ operand(At(program, e)) >= 1
      /\ NoInnerRepeat(program, e)
      /\ Label(program, e) >= 0
      /\ SkipsStay(program, e)
      /\ JumpsStay(program, e)
  BY ProgramFacts DEF CheckBodies
<1>5. Label(program, e) \in 0 .. e - 1
  BY <1>2, <1>3, <1>4 DEF Label
<1> QED BY <1>1, <1>2, <1>3, <1>4, <1>5

(* A clock leaves pc and rc alone or executes the word at the pc; a REPEAT  *)
(* executes on the clock that finds it.                                     *)
LEMMA PcMoves ==
  ASSUME TopTypeOK, DelayBelongsToItsWord, NEW g \in Levels, CoreClock(In(g))
  PROVE  \/ ~ OnRepeat /\ pc' = pc /\ rc' = rc
         \/ /\ pc < Len(program)
            /\ pc' = pc_next(imem_word)
            /\ rc' = IF is_repeat(imem_word) THEN rc_next(imem_word) ELSE rc
            /\ OnRepeat <=> is_repeat(imem_word)
<1> DEFINE in == In(g)
<1>1. in.word = imem_word /\ in.words = Len(program) /\ Len(program) \in Nat
  BY InTypes, ImemWordType DEF AddressSize
<1>2. pc \in 0 .. 511 /\ delay_counter \in 0 .. 31
  BY DEF TopTypeOK, CoreTypeOK, PcSize
<1>3. /\ pc' = IF pc_en(in) THEN pc_next(in.word) ELSE pc
      /\ rc' = IF pc_en(in) /\ is_repeat(in.word) THEN rc_next(in.word) ELSE rc
  BY DEF CoreClock
<1>4. delay_counter > 0 => pc < Len(program) /\ ~ is_repeat(imem_word)
  BY DEF DelayBelongsToItsWord
<1> HIDE DEF in
<1>5. CASE pc_en(in)
  <2>1. pc < Len(program)
    BY <1>1, <1>2, <1>4, <1>5 DEF pc_en, last, issue, core_halted
  <2>2. OnRepeat <=> is_repeat(imem_word)
    BY <1>2, <1>4, <2>1 DEF OnRepeat
  <2> QED BY <1>1, <1>3, <1>5, <2>1, <2>2
<1>6. CASE ~ pc_en(in)
  <2>1. SUFFICES ASSUME OnRepeat PROVE FALSE
    BY <1>3, <1>6
  <2>2. issue(in) /\ is_repeat(in.word)
    BY <1>1, <1>2, <2>1 DEF OnRepeat, issue, core_halted
  <2>3. ~ stall(in)
    BY <2>2 DEF stall, is_fifo, is_wait, is_acc_push, is_acc, is_nop_set, is_repeat
  <2> QED BY <1>6, <2>2, <2>3 DEF pc_en, last
<1> QED BY <1>5, <1>6

-----------------------------------------------------------------------------
(* A body the pc is in keeps it, unless the word at the pc is the REPEAT.   *)
LEMMA StaysInBody ==
  ASSUME TopTypeOK, NEW e \in Ends(program), pc \in Body(e), pc /= e
  PROVE  ~ is_repeat(imem_word) /\ pc_next(imem_word) \in Body(e)
<1> DEFINE w == imem_word
           l == Label(program, e)
<1>1. /\ e \in 0 .. 255 /\ l \in 0 .. e - 1 /\ e < Len(program) /\ Len(program) \in Nat
      /\ NoInnerRepeat(program, e) /\ SkipsStay(program, e) /\ JumpsStay(program, e)
  BY BodyFacts, ProgramFacts DEF Addresses
<1>2. pc \in l .. e - 1
  BY <1>1 DEF Body
<1>3. pc \in Addresses(program) /\ w = At(program, pc)
  BY <1>1, <1>2, ProgramFacts
<1>4. ~ is_repeat(w)
  BY <1>1, <1>2, <1>3 DEF NoInnerRepeat, Ends
<1>5. is_jmp(w) => operand(w) \in l .. e
  <2>1. w \in Word
    BY ImemWordType
  <2>2. operand(w) \in 0 .. 255
    BY <2>1, DecodeTypes
  <2>3. is_jmp(w) => l <= operand(w) /\ operand(w) <= e
    BY <1>1, <1>2, <1>3 DEF JumpsStay
  <2>4. \A n \in 0 .. 255 : l <= n /\ n <= e => n \in l .. e
    BY <1>1
  <2> QED BY <2>2, <2>3, <2>4
<1>6. Skips(w) => pc /= e - 1
  BY <1>1, <1>3 DEF SkipsStay
<1> HIDE DEF w, l
<1>7. (pc + 1) % 512 = pc + 1 /\ (pc + 2) % 512 = pc + 2
  BY <1>1, <1>2
<1>8. pc + 1 \in l .. e /\ (Skips(w) => pc + 2 \in l .. e)
  BY <1>1, <1>2, <1>6
<1>9. pc_next(w) \in {pc + 1} \/ (is_jmp(w) /\ pc_next(w) = operand(w))
        \/ (Skips(w) /\ pc_next(w) \in {pc + 1, pc + 2})
  BY <1>4, <1>7 DEF pc_next, PcSize, Skips
<1> QED BY <1>4, <1>5, <1>8, <1>9 DEF Body, w, l

(* A REPEAT sends the pc to its label or past itself. *)
LEMMA RepeatMoves ==
  ASSUME TopTypeOK, pc < Len(program), is_repeat(imem_word)
  PROVE  /\ pc \in Ends(program)
         /\ pc_next(imem_word) =
              IF rc_next(imem_word) /= 0 THEN Label(program, pc) ELSE pc + 1
<1>1. pc \in Ends(program) /\ imem_word = At(program, pc)
  BY ProgramFacts DEF Ends
<1>2. pc \in 0 .. 255 /\ operand(imem_word) \in 1 .. 255 /\ Label(program, pc) \in 0 .. pc - 1
  BY <1>1, BodyFacts
<1>3. (pc + 1) % 512 = pc + 1
  BY <1>2
<1>4. pc - operand(imem_word) = Label(program, pc)
  BY <1>1 DEF Label
<1>5. \A n \in 0 .. 255 : n % 512 = n
  OBVIOUS
<1>6. (pc - operand(imem_word)) % 512 = Label(program, pc)
  <2>1. Label(program, pc) \in 0 .. 255
    <3>1. \A m \in 0 .. 255 : \A n \in 0 .. m - 1 : n \in 0 .. 255
      OBVIOUS
    <3> QED BY <3>1, <1>2
  <2> QED BY <2>1, <1>4, <1>5
<1> QED BY <1>1, <1>3, <1>6 DEF pc_next, PcSize, is_repeat, is_jmp, is_skip, is_run, is_nop_set

(* A body is entered at its label. *)
LEMMA EntersBody ==
  ASSUME TopTypeOK, pc < Len(program), NEW e \in Ends(program),
         pc \notin Body(e), pc_next(imem_word) \in Body(e)
  PROVE  pc_next(imem_word) = Label(program, e)
<1> DEFINE w == imem_word
           l == Label(program, e)
<1>1. /\ e \in 0 .. 255 /\ l \in 0 .. e - 1
      /\ NoInnerRepeat(program, e) /\ SkipsStay(program, e) /\ JumpsStay(program, e)
  BY BodyFacts
<1>2. pc \in Addresses(program) /\ w = At(program, pc) /\ pc \in 0 .. 255 /\ w \in Word
  <2>1. Len(program) \in 0 .. 256 /\ pc \in Addresses(program) /\ w = At(program, pc)
    BY ProgramFacts
  <2>2. w \in Word
    BY ImemWordType
  <2>3. pc \in 0 .. 255
    <3>1. \A n \in 0 .. 256 : \A m \in 0 .. n - 1 : m \in 0 .. 255
      OBVIOUS
    <3> QED BY <3>1, <2>1 DEF Addresses
  <2> QED BY <2>1, <2>2, <2>3
<1>3. pc < l \/ pc > e
  BY <1>1, <1>2 DEF Body
<1>4. CASE is_jmp(w)
  <2>1. operand(w) \in 0 .. 255
    BY <1>2, DecodeTypes
  <2>2. pc_next(w) = operand(w)
    <3>1. pc_next(w) = CASE is_jmp(w) -> operand(w)
                         [] is_skip(w) \/ is_run(w) ->
                              (pc + (IF skip_taken(w) \/ run_taken(w) THEN 2 ELSE 1)) % PcSize
                         [] is_repeat(w) ->
                              IF rc_next(w) /= 0 THEN (pc - operand(w)) % PcSize
                                                 ELSE (pc + 1) % PcSize
                         [] OTHER -> (pc + 1) % PcSize
      BY DEF pc_next
    <3>2. ~ is_skip(w) /\ ~ is_run(w) /\ ~ is_repeat(w)
      BY <1>4 DEF is_jmp, is_skip, is_run, is_repeat, is_nop_set
    <3> QED BY <3>1, <3>2, <1>4
  <2>3. ~ (l < operand(w) /\ operand(w) <= e)
    BY <1>1, <1>2, <1>3, <1>4 DEF JumpsStay
  <2> QED BY <1>1, <2>1, <2>2, <2>3 DEF Body
<1>5. CASE is_repeat(w)
  <2>1. pc \in Ends(program) /\ pc_next(w) \in {Label(program, pc), pc + 1}
    BY <1>5, RepeatMoves
  <2>2. NoInnerRepeat(program, pc) /\ Label(program, pc) \in 0 .. pc - 1
    BY <2>1, BodyFacts
  <2>3. ~ (Label(program, pc) <= e /\ e < pc)
    BY <2>2 DEF NoInnerRepeat
  <2> QED BY <1>1, <1>2, <1>3, <2>1, <2>2, <2>3 DEF Body
<1>6. CASE ~ is_jmp(w) /\ ~ is_repeat(w)
  <2> HIDE DEF w, l
  <2>1. (pc + 1) % 512 = pc + 1 /\ (pc + 2) % 512 = pc + 2
    BY <1>2
  <2>2. pc_next(w) = pc + 1 \/ (Skips(w) /\ pc_next(w) = pc + 2)
    BY <1>6, <2>1 DEF pc_next, PcSize, Skips
  <2>3. Skips(w) => ~ (l < pc + 2 /\ pc + 2 <= e)
    BY <1>1, <1>2, <1>3 DEF SkipsStay, l
  <2>4. pc_next(w) \in l .. e
    BY DEF Body, w, l
  <2> QED BY <1>1, <1>2, <1>3, <2>2, <2>3, <2>4 DEF w, l
<1> QED BY <1>4, <1>5, <1>6

(* Two bodies share no word. *)
LEMMA RepeatInBody ==
  ASSUME TopTypeOK, NEW e \in Ends(program), pc \in Ends(program), pc \in Body(e)
  PROVE  pc = e
<1>1. e \in 0 .. 255 /\ pc \in 0 .. 255 /\ Label(program, e) \in 0 .. e - 1
      /\ NoInnerRepeat(program, e)
  BY BodyFacts
<1> QED BY <1>1 DEF Body, NoInnerRepeat

-----------------------------------------------------------------------------
(* What the theorems below share: in a reachable state, TopTypeOK and       *)
(* DelayBelongsToItsWord hold and rc counts for the body the pc is in.      *)
RepeatInv ==
  /\ TopTypeOK
  /\ DelayBelongsToItsWord
  /\ passes \in Nat
  /\ CounterBelongsToItsLoop

LEMMA ClockKeepsCounter ==
  ASSUME RepeatInv, RClock
  PROVE  passes' \in Nat /\ CounterBelongsToItsLoop'
<1>1. PICK g \in Levels : CoreClock(In(g)) /\ program' = program
  BY DEF RClock, Clock
<1>2. /\ TopTypeOK /\ DelayBelongsToItsWord /\ CounterBelongsToItsLoop
      /\ passes \in Nat /\ rc \in 0 .. 31
  BY DEF RepeatInv, TopTypeOK, CoreTypeOK
<1>3. passes' = IF ~ OnRepeat THEN passes
                  ELSE IF rc_next(imem_word) = 0 THEN 0 ELSE passes + 1
  BY DEF RClock
<1>4. passes' \in Nat
  BY <1>2, <1>3
<1>5. /\ Ends(program') = Ends(program)
      /\ \A e : At(program', e) = At(program, e)
      /\ \A e : Label(program', e) = Label(program, e)
  BY <1>1 DEF Label
<1>6. ASSUME rc' = 0, passes' = 0 PROVE CounterBelongsToItsLoop'
  BY <1>6 DEF CounterBelongsToItsLoop
<1>7. ASSUME rc' /= 0, NEW e \in Ends(program), pc' \in Label(program, e) .. e,
             rc' + passes' = delay(At(program, e)) + 1
      PROVE  CounterBelongsToItsLoop'
  BY <1>1, <1>7 DEF CounterBelongsToItsLoop, Body, Label, Ends, Addresses, At
<1>8. CASE ~ OnRepeat /\ pc' = pc /\ rc' = rc
  <2>1. passes' = passes
    BY <1>3, <1>8
  <2>2. CASE rc = 0
    BY <1>2, <1>6, <1>8, <2>1, <2>2 DEF CounterBelongsToItsLoop
  <2>3. CASE rc /= 0
    BY <1>2, <1>7, <1>8, <2>1, <2>3 DEF CounterBelongsToItsLoop, Body
  <2> QED BY <2>2, <2>3
<1>9. CASE /\ pc < Len(program)
           /\ pc' = pc_next(imem_word)
           /\ rc' = (IF is_repeat(imem_word) THEN rc_next(imem_word) ELSE rc)
           /\ OnRepeat <=> is_repeat(imem_word)
  <2>1. CASE ~ is_repeat(imem_word)
    <3>1. rc' = rc /\ passes' = passes
      BY <1>3, <1>9, <2>1
    <3>2. CASE rc = 0
      BY <1>2, <1>6, <3>1, <3>2 DEF CounterBelongsToItsLoop
    <3>3. CASE rc /= 0
      <4>1. PICK e \in Ends(program) :
              pc \in Body(e) /\ rc + passes = delay(At(program, e)) + 1
        BY <1>2, <3>3 DEF CounterBelongsToItsLoop
      <4>2. pc /= e
        BY <1>2, <1>9, <2>1, <4>1, BodyFacts, ProgramFacts
      <4>3. pc' \in Label(program, e) .. e
        BY <1>2, <1>9, <4>1, <4>2, StaysInBody DEF Body
      <4> QED BY <1>4, <1>7, <3>1, <3>3, <4>1, <4>3
    <3> QED BY <3>2, <3>3
  <2>2. CASE is_repeat(imem_word)
    <3>1. /\ pc \in Ends(program) /\ imem_word = At(program, pc)
          /\ pc' = IF rc_next(imem_word) /= 0 THEN Label(program, pc) ELSE pc + 1
      BY <1>2, <1>9, <2>2, RepeatMoves, ProgramFacts
    <3>2. /\ pc \in 0 .. 255
          /\ Label(program, pc) \in 0 .. pc - 1
          /\ delay(imem_word) \in 0 .. 31
      BY <1>2, <3>1, BodyFacts
    <3>3. rc' = rc_next(imem_word)
             /\ passes' = (IF rc_next(imem_word) = 0 THEN 0 ELSE passes + 1)
      BY <1>3, <1>9, <2>2
    <3>4. CASE rc_next(imem_word) = 0
      BY <1>6, <3>3, <3>4
    <3>5. CASE rc_next(imem_word) /= 0
      <4>1. pc' \in Label(program, pc) .. pc
        BY <3>1, <3>2, <3>5
      <4>2. rc_next(imem_word) + passes + 1 = delay(imem_word) + 1
        <5>1. CASE rc = 0
          BY <1>2, <3>2, <5>1 DEF rc_next, CounterBelongsToItsLoop
        <5>2. CASE rc /= 0
          <6>1. PICK e \in Ends(program) :
                  pc \in Body(e) /\ rc + passes = delay(At(program, e)) + 1
            BY <1>2, <5>2 DEF CounterBelongsToItsLoop
          <6>2. pc = e
            BY <1>2, <3>1, <6>1, RepeatInBody
          <6> QED BY <1>2, <3>1, <3>2, <5>2, <6>1, <6>2 DEF rc_next
        <5> QED BY <5>1, <5>2
      <4>3. rc_next(imem_word) \in Int
        BY <1>2, <3>2 DEF rc_next
      <4>4. rc' + passes' = delay(At(program, pc)) + 1
        BY <1>2, <3>1, <3>2, <3>3, <3>5, <4>2, <4>3
      <4> QED BY <1>4, <1>7, <3>1, <3>3, <3>5, <4>1, <4>4
    <3> QED BY <3>4, <3>5
  <2> QED BY <2>1, <2>2
<1>10. \/ ~ OnRepeat /\ pc' = pc /\ rc' = rc
       \/ /\ pc < Len(program)
          /\ pc' = pc_next(imem_word)
          /\ rc' = (IF is_repeat(imem_word) THEN rc_next(imem_word) ELSE rc)
          /\ OnRepeat <=> is_repeat(imem_word)
  BY <1>1, <1>2, PcMoves
<1> QED BY <1>4, <1>8, <1>9, <1>10

LEMMA RepeatInvariant == RSpec => []RepeatInv
<1> DEFINE LoopInv == passes \in Nat /\ CounterBelongsToItsLoop
<1>1. RInit => LoopInv
  BY DEF RInit, Init, CoreInit, CounterBelongsToItsLoop
<1>2. RepeatInv /\ [RNext]_rvars => LoopInv'
  <2> SUFFICES ASSUME RepeatInv, [RNext]_rvars
               PROVE  LoopInv'
    OBVIOUS
  <2>1. CASE RClock
    BY <2>1, ClockKeepsCounter
  <2>2. CASE RStop
    BY <2>2 DEF RStop, Restart, Reset, CoreReset, CounterBelongsToItsLoop
  <2>3. CASE UNCHANGED rvars
    BY <2>3 DEF rvars, vars, coreVars, RepeatInv, CounterBelongsToItsLoop, Body, Ends,
                Label, At, Addresses
  <2> QED BY <2>1, <2>2, <2>3 DEF RNext
<1>3. RSpec => [](TopTypeOK /\ DelayBelongsToItsWord)
  BY RSpecIsSpec, TypeCorrect, DelayBelongs, PTL
<1>4. RepeatInv <=> (TopTypeOK /\ DelayBelongsToItsWord) /\ LoopInv
  BY DEF RepeatInv
<1> HIDE DEF LoopInv
<1> QED BY <1>1, <1>2, <1>3, <1>4, PTL DEF RSpec

(* While rc counts, the pc is in the one body it counts for.                *)
THEOREM CounterBelongs == RSpec => []CounterBelongsToItsLoop
<1>1. RepeatInv => CounterBelongsToItsLoop
  BY DEF RepeatInv
<1> QED BY <1>1, RepeatInvariant, PTL

(* Every loop runs its body exactly count times.                            *)
THEOREM ExactCount == RSpec => RunsExactlyCount
<1>1. ASSUME RepeatInv, RClock, OnRepeat, rc_next(imem_word) = 0
      PROVE  passes + 1 = delay(imem_word) + 1
  <2>1. /\ TopTypeOK /\ CounterBelongsToItsLoop
        /\ passes \in Nat /\ rc \in 0 .. 31
    BY <1>1 DEF RepeatInv, TopTypeOK, CoreTypeOK
  <2>2. pc < Len(program) /\ is_repeat(imem_word)
    BY <1>1 DEF OnRepeat
  <2>3. pc \in Ends(program) /\ imem_word = At(program, pc)
    BY <2>1, <2>2, RepeatMoves, ProgramFacts
  <2>4. delay(imem_word) \in 0 .. 31
    BY <2>1, <2>3, BodyFacts
  <2>5. CASE rc = 0
    BY <1>1, <2>1, <2>4, <2>5 DEF rc_next, CounterBelongsToItsLoop
  <2>6. CASE rc /= 0
    <3>1. PICK e \in Ends(program) :
            pc \in Body(e) /\ rc + passes = delay(At(program, e)) + 1
      BY <2>1, <2>6 DEF CounterBelongsToItsLoop
    <3>2. pc = e
      BY <2>1, <2>3, <3>1, RepeatInBody
    <3> QED BY <1>1, <2>1, <2>3, <2>4, <2>6, <3>1, <3>2 DEF rc_next
  <2> QED BY <2>5, <2>6
<1>2. RepeatInv /\ [RNext]_rvars =>
        [RClock /\ OnRepeat /\ rc_next(imem_word) = 0
           => passes + 1 = delay(imem_word) + 1]_rvars
  BY <1>1
<1> QED BY <1>2, RepeatInvariant, PTL DEF RSpec, RunsExactlyCount

(* What one step of the core and its resets does to the pc. *)
LEMMA StepMoves ==
  ASSUME RepeatInv, RNext
  PROVE  \/ RClock /\ pc' = pc
         \/ RClock /\ pc < Len(program) /\ pc' = pc_next(imem_word)
              /\ (is_repeat(imem_word) => rc' = rc_next(imem_word))
         \/ RStop /\ pc' = 0
<1>1. CASE RClock
  <2>1. PICK g \in Levels : CoreClock(In(g))
    BY <1>1 DEF RClock, Clock
  <2> QED BY <1>1, <2>1, PcMoves DEF RepeatInv
<1>2. CASE RStop
  BY <1>2 DEF RStop, Restart, Reset, CoreReset
<1> QED BY <1>1, <1>2 DEF RNext

(* Every body is entered at its label.                                      *)
THEOREM EntryAtLabel == RSpec => EntersAtLabel
<1>1. ASSUME RepeatInv, RNext, NEW e \in Ends(program), pc \notin Body(e), pc' \in Body(e)
      PROVE  pc' = Label(program, e)
  <2>1. TopTypeOK
    BY <1>1 DEF RepeatInv
  <2>2. e \in 0 .. 255 /\ Label(program, e) \in 0 .. e - 1
    BY <2>1, BodyFacts
  <2>3. CASE pc' = pc
    BY <1>1, <2>3
  <2>4. CASE pc < Len(program) /\ pc' = pc_next(imem_word)
    BY <1>1, <2>1, <2>4, EntersBody
  <2>5. CASE pc' = 0
    BY <1>1, <2>2, <2>5 DEF Body
  <2> QED BY <1>1, <2>3, <2>4, <2>5, StepMoves
<1>2. RepeatInv /\ [RNext]_rvars =>
        [\A e \in Ends(program) : pc \notin Body(e) /\ pc' \in Body(e)
           => pc' = Label(program, e)]_rvars
  BY <1>1
<1> QED BY <1>2, RepeatInvariant, PTL DEF RSpec, EntersAtLabel

(* Every body is left by its REPEAT, with the counter at rest.              *)
THEOREM ExitByRepeat == RSpec => LeavesByItsRepeat
<1>1. ASSUME RepeatInv, RClock, NEW e \in Ends(program), pc \in Body(e), pc' \notin Body(e)
      PROVE  pc = e /\ pc' = e + 1 /\ rc' = 0
  <2>1. TopTypeOK /\ DelayBelongsToItsWord
    BY <1>1 DEF RepeatInv
  <2>2. e \in 0 .. 255 /\ Label(program, e) \in 0 .. e - 1
    BY <2>1, BodyFacts
  <2>3. PICK g \in Levels : CoreClock(In(g))
    BY <1>1 DEF RClock, Clock
  <2>4. /\ pc < Len(program)
        /\ pc' = pc_next(imem_word)
        /\ rc' = (IF is_repeat(imem_word) THEN rc_next(imem_word) ELSE rc)
    BY <1>1, <2>1, <2>3, PcMoves
  <2>5. pc = e
    BY <1>1, <2>1, <2>4, StaysInBody
  <2>6. is_repeat(imem_word)
    BY <2>1, <2>4, <2>5, ProgramFacts, BodyFacts
  <2>7. pc' = IF rc_next(imem_word) /= 0 THEN Label(program, e) ELSE e + 1
    BY <2>1, <2>4, <2>5, <2>6, RepeatMoves
  <2>8. Label(program, e) \in Body(e)
    BY <2>2 DEF Body
  <2> QED BY <1>1, <2>4, <2>5, <2>6, <2>7, <2>8
<1>2. RepeatInv /\ [RNext]_rvars =>
        [\A e \in Ends(program) : RClock /\ pc \in Body(e) /\ pc' \notin Body(e)
           => pc = e /\ pc' = e + 1 /\ rc' = 0]_rvars
  BY <1>1
<1> QED BY <1>2, RepeatInvariant, PTL DEF RSpec, LeavesByItsRepeat

=============================================================================
