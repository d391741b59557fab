----------------------------- MODULE SmallCore -----------------------------
(***************************************************************************)
(* rtl/smallcore.v: the register block, the ROM, the RAM and top.v on one   *)
(* clock.  The instruction memory is a multiplexer of ROM and RAM, and the  *)
(* RAM is written while the core is on the same clock: what keeps a program *)
(* from changing under the core is only the order of the host's commands.   *)
(***************************************************************************)
EXTENDS Host, Core

CONSTANTS
  Rom,          \* what rom.v holds in each slot
  Levels,       \* the levels the input pins may take together
  DEPTH,
  NoByte

ASSUME RomAssumption ==
  Rom \in [0 .. 15 -> Seq(Word)] /\ \A n \in 0 .. 15 : Len(Rom[n]) <= AddressSize

ASSUME FifoAssumption == DEPTH \in Nat \ {0} /\ NoByte \notin Vec(8)

ASSUME PinsAssumption == Levels \subseteq [Pin -> BIT]

VARIABLES
  tx_fifo, rx_fifo,
  taken,        \* history: the byte the host's pop took on the last clock
  stalled       \* history: the stall wire on the last clock that issued

vars == <<hostVars, coreVars, tx_fifo, rx_fifo, taken, stalled>>

Fifo == INSTANCE QueueStep WITH Capacity <- DEPTH

(* The multiplexer without load_mode. *)
program_words_loading ==
  IF ram_select THEN prog_words ELSE Len(Rom[sel])

(* The multiplexers: a load shows the core an empty program. *)
program_words ==
  IF load_mode THEN 0 ELSE IF ram_select THEN prog_words ELSE Len(Rom[sel])

imem_word ==
  IF ram_select THEN mem[imem_addr % RamWords]
  ELSE IF imem_addr < Len(Rom[sel]) THEN Rom[sel][imem_addr + 1] ELSE 0

In(g) ==
  [word     |-> imem_word,
   words    |-> program_words,
   gpio_in  |-> g,
   tx_empty |-> tx_fifo = <<>>,
   tx_data  |-> IF tx_fifo = <<>> THEN Zero(8) ELSE Head(tx_fifo),
   rx_full  |-> Len(rx_fifo) = DEPTH]

(* What the host reads at address a. *)
rdata(a) ==
  CASE a = TX_DATA -> 0
    [] a = RX_DATA -> IF rx_fifo = <<>> THEN 0 ELSE NatOf(Head(rx_fifo), 8)
    [] a = STATUS  -> (IF pc >= program_words THEN 4 ELSE 0)
                        + (IF Len(tx_fifo) = DEPTH THEN 2 ELSE 0)
                        + (IF rx_fifo = <<>> THEN 1 ELSE 0)
    [] a = CONTROL -> IF load_mode THEN 32 ELSE IF ram_select THEN 16 ELSE sel

Init ==
  /\ HostInit
  /\ CoreInit
  /\ tx_fifo = <<>> /\ rx_fifo = <<>>
  /\ taken = NoByte
  /\ stalled = FALSE

(* Any read strobe pops the RX FIFO, whatever the address. *)
FifosEdgePopAny(pull, push, byte) ==
  /\ tx_fifo' = Fifo!Advance(tx_fifo, tx_push, pull, VecOf(wdata, 8))
  /\ rx_fifo' = Fifo!Advance(rx_fifo, push, re_rise, byte)
  /\ taken' = IF re_rise /\ rx_fifo /= <<>> THEN Head(rx_fifo) ELSE NoByte

FifosEdge(pull, push, byte) ==
  /\ tx_fifo' = Fifo!Advance(tx_fifo, tx_push, pull, VecOf(wdata, 8))
  /\ rx_fifo' = Fifo!Advance(rx_fifo, push, rx_pop, byte)
  /\ taken' = IF rx_pop /\ rx_fifo /= <<>> THEN Head(rx_fifo) ELSE NoByte

Clock(g) ==
  /\ ~restart
  /\ HostClock
  /\ PinsMove
  /\ CoreClock(In(g))
  /\ stalled' = IF issue(In(g)) THEN stall(In(g)) ELSE stalled
  /\ FifosEdge(pull_en(In(g)), push_en(In(g)), rx_data(In(g)))

(* The clock of a CONTROL command: the core's reset is the host's restart.  *)
RestartClock ==
  /\ restart
  /\ HostClock
  /\ PinsMove
  /\ CoreReset
  /\ stalled' = FALSE
  /\ FifosEdge(FALSE, FALSE, Zero(8))

Reset ==
  /\ HostReset
  /\ PinsAtReset
  /\ CoreReset
  /\ tx_fifo' = <<>> /\ rx_fifo' = <<>>
  /\ taken' = NoByte
  /\ stalled' = FALSE

Next ==
  \/ \E g \in Levels : Clock(g)
  \/ RestartClock
  \/ Reset

Spec == Init /\ [][Next]_vars

-----------------------------------------------------------------------------
(* The program the core sees. *)
Program ==
  [i \in 1 .. program_words |-> IF ram_select THEN mem[i - 1] ELSE Rom[sel][i]]

Written == {hi * 256 + lo : hi \in HostBytes[TX_DATA], lo \in HostBytes[TX_DATA]}

Loadable == {Rom[n] : n \in 0 .. 15} \cup UNION {[1 .. n -> Written] : n \in 0 .. RamWords}

Sendable == {VecOf(b, 8) : b \in HostBytes[TX_DATA]}

Chip == INSTANCE Top WITH Programs <- Loadable, Byte <- Sendable, program <- Program

(* The chip implements top.v with a program that only a reset of the core   *)
(* changes: no load, run, slot change or RAM write on any clock reaches a   *)
(* core that is running, and a word read past the program never acts.       *)
ImplementsTop == Chip!Spec

Reported(bit) == (rdata(STATUS) \div bit) % 2 = 1

(* What STATUS told the host stays true until the host acts on it, whatever *)
(* the core does meanwhile and however it is restarted: room in the TX FIFO *)
(* until it pushes, the RX byte it read until it pops, halted until it      *)
(* commands.  A host that checks STATUS first loses no byte either way.     *)
StatusLasts ==
  [][\/ /\ ~Reported(2) /\ ~tx_push => ~Reported(2)'
        /\ ~Reported(1) /\ ~rx_pop => ~Reported(1)' /\ rdata(RX_DATA)' = rdata(RX_DATA)
        /\ Reported(4) /\ ~restart => Reported(4)'
     \/ Reset]_vars

=============================================================================
