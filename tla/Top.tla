-------------------------------- MODULE Top --------------------------------
(***************************************************************************)
(* rtl/top.v: the core between its TX and RX FIFOs.  One clock edge is one  *)
(* step; the world outside drives reset, restart, the input pins and the    *)
(* host's push and pop, any of them on any clock.                           *)
(*                                                                          *)
(* The FIFOs are the bounded queues that fifo.v implements (FifoIsAQueue).  *)
(* Instruction memory holds a program that changes only with the core's      *)
(* reset: SmallCore, where the host picks and loads programs, implements    *)
(* this, so what is shown here of the core holds on the chip.               *)
(***************************************************************************)
EXTENDS Core, Sequences

CONSTANTS
  Programs,     \* the programs that instruction memory may hold
  Byte,         \* the bytes the host pushes
  Levels,       \* the levels the input pins may take together
  DEPTH,        \* bytes in each FIFO, 4 in top.v
  NoByte

ASSUME ProgramsAssumption ==
  \A p \in Programs : p \in Seq(Word) /\ Len(p) <= AddressSize

ASSUME BytesAssumption == Byte \subseteq Vec(8) /\ NoByte \notin Vec(8)

ASSUME LevelsAssumption == Levels \subseteq [Pin -> BIT]

ASSUME FifoDepthAssumption == DEPTH \in Nat \ {0}

VARIABLES
  program,      \* what the instruction memory holds
  tx_fifo,      \* bytes from the host to the core, oldest first
  rx_fifo,      \* bytes from the core to the host, oldest first
  taken,        \* history: the byte the host's pop took on the last clock
  stalled       \* history: the stall wire on the last clock that issued

vars == <<coreVars, program, tx_fifo, rx_fifo, taken, stalled>>

Fifo == INSTANCE QueueStep WITH Capacity <- DEPTH

TopTypeOK ==
  /\ CoreTypeOK
  /\ program \in Programs
  /\ tx_fifo \in Seq(Vec(8)) /\ Len(tx_fifo) <= DEPTH
  /\ rx_fifo \in Seq(Vec(8)) /\ Len(rx_fifo) <= DEPTH
  /\ taken \in Vec(8) \cup {NoByte}
  /\ stalled \in BOOLEAN

(* The instruction memory reads 0 past the program. *)
imem_word == IF imem_addr < Len(program) THEN program[imem_addr + 1] ELSE 0

(* The core's input ports, the pins at levels g. *)
In(g) ==
  [word     |-> imem_word,
   words    |-> Len(program),
   gpio_in  |-> g,
   tx_empty |-> tx_fifo = <<>>,
   tx_data  |-> IF tx_fifo = <<>> THEN Zero(8) ELSE Head(tx_fifo),
   rx_full  |-> Len(rx_fifo) = DEPTH]

Init ==
  /\ CoreInit
  /\ program \in Programs
  /\ tx_fifo = <<>>
  /\ rx_fifo = <<>>
  /\ taken = NoByte
  /\ stalled = FALSE

(* The host's push and pop of the same clock, whatever the core does on it: *)
(* pull and push are the core's enables as the FIFOs see them.              *)
FifosMove(pull, push, byte) ==
  \E offer \in Byte \cup {NoByte}, pop \in BOOLEAN :
    /\ tx_fifo' = Fifo!Advance(tx_fifo, offer /= NoByte, pull, offer)
    /\ rx_fifo' = Fifo!Advance(rx_fifo, push, pop, byte)
    /\ taken' = IF pop /\ rx_fifo /= <<>> THEN Head(rx_fifo) ELSE NoByte

Clock(g) ==
  /\ CoreClock(In(g))
  /\ stalled' = IF issue(In(g)) THEN stall(In(g)) ELSE stalled
  /\ UNCHANGED program
  /\ FifosMove(pull_en(In(g)), push_en(In(g)), rx_data(In(g)))

(* A restart that lets the core's pull and push through to the FIFOs. *)
RestartLeaky ==
  /\ CoreReset
  /\ stalled' = FALSE
  /\ program' \in Programs
  /\ \E g \in Levels : FifosMove(pull_en(In(g)), push_en(In(g)), rx_data(In(g)))

(* restart resets the core alone, even on the edge of its PULL or PUSH: the *)
(* FIFOs see the host on that clock but not the core.  The instruction      *)
(* memory may hold another program from the next clock on.                  *)
Restart ==
  /\ CoreReset
  /\ stalled' = FALSE
  /\ program' \in Programs
  /\ FifosMove(FALSE, FALSE, Zero(8))

Reset ==
  /\ CoreReset
  /\ tx_fifo' = <<>>
  /\ rx_fifo' = <<>>
  /\ taken' = NoByte
  /\ stalled' = FALSE
  /\ program' \in Programs

Next ==
  \/ \E g \in Levels : Clock(g)
  \/ Restart
  \/ Reset

Spec == Init /\ [][Next]_vars

-----------------------------------------------------------------------------
(* A running delay belongs to the word at the pc: it is what is left of that *)
(* word's own delay field, the word is not a REPEAT (whose field is a count), *)
(* and the core has not halted.  core.v keeps no note of which word loaded   *)
(* the counter: the last clock of a delay moves pc and rc by whatever word   *)
(* the pc addresses then, and a core that halts must be between words.       *)
DelayBelongsToItsWord ==
  delay_counter > 0 =>
    /\ pc < Len(program)
    /\ ~ is_repeat(imem_word)
    /\ delay_counter <= delay(imem_word)

(* The host's bytes may move on any clock: one in at the back of the TX     *)
(* FIFO, one out at the front of the RX FIFO.                               *)
OnlyHostMovesBytes ==
  /\ tx_fifo' \in {tx_fifo} \cup {Append(tx_fifo, b) : b \in Byte}
  /\ rx_fifo' = IF taken' = NoByte THEN rx_fifo ELSE Tail(rx_fifo)

(* Stall invariance: an instruction that waits (PULL on an empty TX FIFO,   *)
(* PUSH or ACC_PUSH on a full RX FIFO, WAIT on a level) leaves every        *)
(* register of the core alone and moves no byte of its own.                 *)
StallMovesNothing ==
  [][pc < Len(program) /\ delay_counter = 0 /\ stalled' =>
       UNCHANGED coreVars /\ OnlyHostMovesBytes]_vars

(* A delay is one-shot: `X [d]` does X on its first clock and for the d     *)
(* clocks that follow nothing but the counter and, at the end, the pc moves; *)
(* no byte is pulled or pushed a second time.  Only a reset cuts it short.  *)
DelayMovesNothing ==
  [][delay_counter > 0 =>
       \/ /\ delay_counter' = delay_counter - 1
          /\ UNCHANGED <<rc, gpio_out, shift_dir, open_drain, shift_reg,
                         in_shift_reg, acc, poly>>
          /\ delay_counter > 1 => pc' = pc
          /\ OnlyHostMovesBytes
       \/ Restart \/ Reset]_vars

=============================================================================
