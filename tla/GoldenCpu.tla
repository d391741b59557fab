----------------------------- MODULE GoldenCpu -----------------------------
(***************************************************************************)
(* model/cpu.py's CPU, the golden model every RTL bench compares core.v     *)
(* with: integers for registers, Python lists for FIFOs, decode by the      *)
(* instruction table, a counter of cycles left.  Edge is one clock of the   *)
(* bench's lockstep (tests/rtl/top_adversarial_tb.py): the CPU steps unless *)
(* it is halted, then the host's push and pop reach its FIFOs.              *)
(***************************************************************************)
EXTENDS Integers, Isa

CONSTANTS
  Programs,     \* the programs (sequences of words) a CPU may be built with
  Byte,         \* the bytes the host pushes
  Levels,       \* the levels the four input pins may take together
  RxDepth,      \* room in each FIFO
  NoByte

VARIABLES program, pc, counter, rc, gpio, open_drain, shift_dir, shift_reg,
          in_shift_reg, acc, poly, halted, stalled, tx_fifo, rx_fifo, taken

vars == <<program, pc, counter, rc, gpio, open_drain, shift_dir, shift_reg,
          in_shift_reg, acc, poly, halted, stalled, tx_fifo, rx_fifo, taken>>

Cycles(i) == IF i.op = "REPEAT" THEN 1 ELSE 1 + i.delay

Blocked(i, g) ==
  \/ i.op = "PULL" /\ tx_fifo = <<>>
  \/ i.op \in {"PUSH", "ACC_PUSH"} /\ Len(rx_fifo) >= RxDepth
  \/ i.op = "WAIT" /\ g[i.args[1]] /= i.args[2]

(* The newest n samples, oldest first. *)
Newest(n) ==
  [k \in 1 .. n |-> Bit(in_shift_reg, IF shift_dir = 0 THEN 8 - n + k - 1 ELSE n - k)]

RunTest(i) ==
  LET run == \A k \in 1 .. i.args[1] + 1 : Newest(i.args[1] + 1)[k] = i.args[2]
  IN  IF i.op = "SKIP_RUN" THEN run ELSE ~run

-----------------------------------------------------------------------------
(* What the first cycle of an instruction does, register by register. *)

Issued(i) ==
  /\ shift_reg' =
       CASE i.op = "SHIFT_OUT" -> IF shift_dir = 0 THEN shift_reg \div 2
                                                   ELSE (shift_reg * 2) % 256
         [] i.op = "PULL" -> Head(tx_fifo)
         [] OTHER -> shift_reg
  /\ shift_dir' = IF i.op = "CONFIG" /\ i.args[1] = 0 THEN i.args[2] ELSE shift_dir
  /\ open_drain' =
       IF i.op = "CONFIG" /\ i.args[1] \in {1, 2}
         THEN LET low == 2 * i.args[1] - 2
              IN  [open_drain EXCEPT ![low] = i.args[2] % 2, ![low + 1] = i.args[2] \div 2]
         ELSE open_drain
  /\ poly' = IF i.op = "ACC_LOAD" THEN shift_reg * 256 + (poly \div 256) ELSE poly

Sampled(i, g) ==
  /\ in_shift_reg' =
       IF i.op = "SHIFT_IN"
         THEN LET bit == g[i.args[1]]
              IN  IF shift_dir = 0 THEN (in_shift_reg \div 2) + bit * 128
                                   ELSE ((in_shift_reg * 2) % 256) + bit
         ELSE in_shift_reg
  /\ acc' =
       LET shifted == (acc * 2) % 65536
       IN  CASE i.op = "ACC_IN" -> shifted + g[i.args[1]]
             [] i.op = "ACC_CRC" -> IF acc \div 32768 /= g[i.args[1]]
                                      THEN Xor(shifted, poly, 16) ELSE shifted
             [] i.op = "ACC_OUT" -> shifted
             [] i.op = "ACC_PUSH" -> acc \div 256
             [] OTHER -> acc

(* SHIFT_OUT and ACC_OUT write their pin, then the one pin-write port does. *)
PinsWritten(i) ==
  LET driven ==
        CASE i.op = "SHIFT_OUT" ->
               [gpio EXCEPT ![0] = IF shift_dir = 0 THEN shift_reg % 2 ELSE shift_reg \div 128]
          [] i.op = "ACC_OUT" -> [gpio EXCEPT ![i.args[1]] = acc \div 32768]
          [] OTHER -> gpio
      write == IF i.op = "SET" THEN i.args ELSE i.side
  IN  gpio' = IF write = NoSide THEN driven ELSE [driven EXCEPT ![write[1]] = write[2]]

(* The last cycle of an instruction moves the pc, and rc if it is a REPEAT. *)
Finished(i) ==
  LET left == IF rc = 0 THEN i.delay ELSE rc - 1
  IN  /\ rc' = IF i.op = "REPEAT" THEN left ELSE rc
      /\ pc' =
           CASE i.op = "JMP" -> i.args[1]
             [] i.op = "SKIP" /\ Bit(in_shift_reg, i.args[1]) = i.args[2] -> pc + 2
             [] i.op \in {"SKIP_RUN", "SKIP_NORUN"} /\ RunTest(i) -> pc + 2
             [] i.op = "REPEAT" /\ left /= 0 -> (pc - i.args[1]) % 512
             [] OTHER -> pc + 1
      /\ halted' = (pc' >= Len(program))

-----------------------------------------------------------------------------
(* CPU.step without its FIFOs: blocked, issuing, or holding. *)
Stall(i, g) ==
  /\ counter = 0
  /\ Blocked(i, g)
  /\ stalled' = TRUE
  /\ UNCHANGED <<pc, counter, rc, gpio, open_drain, shift_dir, shift_reg,
                 in_shift_reg, acc, poly, halted>>

Count(i, cycles) ==
  /\ counter' = cycles - 1
  /\ IF cycles = 1 THEN Finished(i) ELSE UNCHANGED <<pc, rc, halted>>

Issue(i, g) ==
  /\ counter = 0
  /\ ~Blocked(i, g)
  /\ stalled' = FALSE
  /\ Issued(i)
  /\ Sampled(i, g)
  /\ PinsWritten(i)
  /\ Count(i, Cycles(i))

Hold(i) ==
  /\ counter > 0
  /\ Count(i, counter)
  /\ UNCHANGED <<gpio, open_drain, shift_dir, shift_reg, in_shift_reg, acc,
                 poly, stalled>>

(* The host's side of the edge, after the step has made tx and rx of the    *)
(* FIFOs: a byte pushed while there is room, a byte popped if there was one *)
(* when the clock began.                                                    *)
Host(tx, rx) ==
  \E offer \in Byte \cup {NoByte}, pop \in BOOLEAN :
    /\ tx_fifo' = IF offer /= NoByte /\ Len(tx) < RxDepth THEN Append(tx, offer) ELSE tx
    /\ rx_fifo' = IF pop /\ rx_fifo /= <<>> THEN Tail(rx) ELSE rx
    /\ taken' = IF pop /\ rx_fifo /= <<>> THEN Head(rx_fifo) ELSE NoByte

Step(g) ==
  LET i == Decode(program[pc + 1])
      issues == counter = 0 /\ ~Blocked(i, g)
  IN  /\ Stall(i, g) \/ Issue(i, g) \/ Hold(i)
      /\ Host(IF issues /\ i.op = "PULL" THEN Tail(tx_fifo) ELSE tx_fifo,
              CASE issues /\ i.op = "PUSH" -> Append(rx_fifo, in_shift_reg)
                [] issues /\ i.op = "ACC_PUSH" -> Append(rx_fifo, acc % 256)
                [] OTHER -> rx_fifo)

Edge(g) ==
  /\ ~halted
  /\ Step(g)
  /\ UNCHANGED program

(* The lockstep does not step a halted CPU; the host goes on. *)
HaltedEdge ==
  /\ halted
  /\ Host(tx_fifo, rx_fifo)
  /\ UNCHANGED <<program, pc, counter, rc, gpio, open_drain, shift_dir, shift_reg,
                 in_shift_reg, acc, poly, halted, stalled>>

-----------------------------------------------------------------------------
(* A CPU built afresh, but for its FIFOs. *)
Fresh ==
  /\ pc' = 0
  /\ counter' = 0
  /\ rc' = 0
  /\ gpio' = [p \in 0 .. 3 |-> 1]
  /\ open_drain' = [p \in 0 .. 3 |-> 0]
  /\ shift_dir' = 0
  /\ shift_reg' = 0
  /\ in_shift_reg' = 0
  /\ acc' = 0
  /\ poly' = 0
  /\ halted' = (program' = <<>>)
  /\ stalled' = FALSE

Init ==
  /\ program \in Programs
  /\ pc = 0
  /\ counter = 0
  /\ rc = 0
  /\ gpio = [p \in 0 .. 3 |-> 1]
  /\ open_drain = [p \in 0 .. 3 |-> 0]
  /\ shift_dir = 0
  /\ shift_reg = 0
  /\ in_shift_reg = 0
  /\ acc = 0
  /\ poly = 0
  /\ halted = (program = <<>>)
  /\ stalled = FALSE
  /\ tx_fifo = <<>>
  /\ rx_fifo = <<>>
  /\ taken = NoByte

(* CPU.restart: the core back to reset, the FIFOs kept; the host may still *)
(* push and pop on that edge.                                              *)
Restart ==
  /\ program' \in Programs
  /\ Fresh
  /\ Host(tx_fifo, rx_fifo)

Reset ==
  /\ program' \in Programs
  /\ Fresh
  /\ tx_fifo' = <<>>
  /\ rx_fifo' = <<>>
  /\ taken' = NoByte

Next ==
  \/ \E g \in Levels : Edge(g)
  \/ HaltedEdge
  \/ Restart
  \/ Reset

Spec == Init /\ [][Next]_vars

=============================================================================
