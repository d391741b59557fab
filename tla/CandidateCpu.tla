---------------------------- MODULE CandidateCpu ----------------------------
(***************************************************************************)
(* The candidates' CPUs: Candidate of experiments/{repeat,can}, whose step  *)
(* is cpu.CPU's with hooks, and what each class hangs on them.  A word does *)
(* to the registers what some word of GoldenCpu does, its Base, and then    *)
(* its own business with the candidate's own registers.                     *)
(***************************************************************************)
EXTENDS Assembler

LOCAL INSTANCE SequencesExt

CONSTANTS
  Sources,      \* the programs: a candidate, what its bench is, and the lines
  Byte, Levels, RxDepth, NoByte

VARIABLES loaded,       \* the program that runs, one of Images
          own,          \* the candidate's own registers
          pc, counter, rc, gpio, open_drain, shift_dir, shift_reg, in_shift_reg,
          acc, poly, halted, stalled, tx_fifo, rx_fifo, taken

registers == <<pc, counter, rc, gpio, open_drain, shift_dir, shift_reg, in_shift_reg,
               acc, poly, halted, stalled, own>>

cpuVars == <<loaded, registers, tx_fifo, rx_fifo, taken>>

(* The same sequence, which TLC then works out once. *)
Listed(s) == <<>> \o s

ops == loaded.ops

Cpu == INSTANCE GoldenCpu WITH program <- ops, Programs <- {}

candidate == loaded.candidate

Is(class) == class \in CANDIDATES[candidate]

instr == ops[pc + 1]

(* reset_state of every class. *)
OwnReset ==
  [rn |-> 0, cell |-> 0, returning |-> FALSE, same |-> 0, last |-> 2, ext |-> 0, lane |-> 0,
   pin_seen |-> 0]

(* execute raises for a word that only another round's ISA has. *)
Executes(op) ==
  \/ op \in {"NOP", "SET", "SHIFT_OUT", "SHIFT_IN", "PULL", "PUSH", "WAIT", "SKIP", "JMP", "CONFIG"}
  \/ op \in Added[candidate]
  \/ candidate = "core"
  \/ op = "REPEAT" /\ candidate \notin RepeatRound
  \/ op \in {"SKIP_RUN", "SKIP_NORUN"} /\ (Is("Run") \/ candidate \in CrcRound)

(* The other half of a burst's cell: the side pin returned. *)
Return(i) ==
  IF i.side = NoSide THEN [i EXCEPT !.op = "NOP", !.args = <<>>]
  ELSE [i EXCEPT !.op = "SET", !.args = <<i.side[1], 1 - i.side[2]>>, !.side = NoSide]

Base(i) ==
  CASE i.op \in {"BURST_OUT", "BURST_IN"} /\ own.returning -> Return(i)
    [] i.op = "BURST_OUT" -> [i EXCEPT !.op = "SHIFT_OUT"]
    [] i.op \in {"BURST_IN", "SHIFT_SENT", "SHIFT_IN01"} -> [i EXCEPT !.op = "SHIFT_IN"]
    [] i.op = "PUSH1" -> [i EXCEPT !.op = "PUSH"]
    [] i.op = "ACC_IN" -> [i EXCEPT !.op = "ACC_CRC"]
    [] i.op \in {"ACC_OUT", "ACC_PUSH", "ACC_LOAD"} -> i
    [] i.op \in Added[candidate] \ Mnemonic -> [i EXCEPT !.op = "NOP"]
    [] OTHER -> i

(* What a sample reads: the pad, or the register behind it. *)
Pads(i, g) == IF i.op = "SHIFT_SENT" THEN gpio ELSE g

(* REPEAT's and BRANCH's bits 12:8 held like a delay. *)
cycles_of_every(i) == 1 + i.delay

cycles_of(i) == IF i.op \in {"REPEAT", "BRANCH"} THEN 1 ELSE 1 + i.delay

issues(g) == counter = 0 /\ ~Cpu!Blocked(Base(instr), g)

last(g) == (issues(g) /\ cycles_of(instr) = 1) \/ counter = 1

-----------------------------------------------------------------------------
(* A level into an eight-bit register, as SHIFT_IN does it. *)
Into(register, bit) ==
  IF shift_dir = 0 THEN (register \div 2) + bit * 128 ELSE ((register * 2) % 256) + bit

ext_bits == WIDTH(candidate) - 8

(* A second stage that is never cut to its width. *)
ExtendedUncut(ext) ==
  IF shift_dir = 0 THEN (ext \div 2) + (in_shift_reg % 2) * 2^(ext_bits - 1)
                   ELSE (ext * 2) + in_shift_reg \div 128

(* What leaves the register's wire end enters the second stage. *)
Extended(ext) ==
  IF shift_dir = 0 THEN (ext \div 2) + (in_shift_reg % 2) * 2^(ext_bits - 1)
                   ELSE ((ext * 2) % 2^ext_bits) + in_shift_reg \div 128

(* The run counter after a sample, three bits that stick at 7. *)
SameAfter(bit, o) == IF bit = o.last THEN (IF o.same = 7 THEN 7 ELSE o.same + 1) ELSE 1

(* execute and sample: the own registers after the first cycle of i. *)
OwnIssued(i, g) ==
  LET samples == Base(i).op = "SHIFT_IN"
      bit == Pads(i, g)[i.args[1]]
  IN  [own EXCEPT
         !.rn = IF i.op = "REPEAT_NEXT" THEN i.args[1] ELSE @,
         !.same = IF Is("Same") /\ samples THEN SameAfter(bit, own) ELSE @,
         !.last = IF Is("Same") /\ samples THEN bit ELSE @,
         !.ext = IF Is("Wide") /\ samples THEN Extended(@) ELSE @,
         !.lane = IF i.op \in {"SHIFT_IN1", "SHIFT_IN01"} THEN Into(@, bit) ELSE @,
         !.pin_seen = IF i.op = "SKIP_PIN" THEN g[i.args[1]] ELSE @]

CELLS == 8

bursts(i) == i.op \in {"BURST_OUT", "BURST_IN"}

again(i, o) == Is("RepeatNext") /\ i.op /= "REPEAT_NEXT" /\ o.rn > 1

(* The own registers after the last cycle of i. *)
OwnFinished(i, o) ==
  [o EXCEPT
     !.rn = CASE again(i, o) -> @ - 1 [] i.op = "REPEAT_NEXT" -> @ [] OTHER -> 0,
     !.cell = IF bursts(i) /\ ~o.returning THEN (@ + 1) % CELLS ELSE @,
     !.returning = bursts(i) /\ ~o.returning /\ o.cell + 1 < CELLS]

own_next(g) ==
  LET o == IF issues(g) THEN OwnIssued(instr, g) ELSE own
  IN  IF last(g) THEN OwnFinished(instr, o) ELSE o

-----------------------------------------------------------------------------
(* The second stage read from the register's end, whichever way it shifts. *)
age_reversed(i) ==
  IF i < 8 THEN Bit(in_shift_reg, IF shift_dir = 0 THEN 7 - i ELSE i)
  ELSE Bit(own.ext, i - 8)

(* The i-th newest sample a SKIP can reach, 0 the newest. *)
age(i) ==
  IF i < 8 THEN Bit(in_shift_reg, IF shift_dir = 0 THEN 7 - i ELSE i)
  ELSE Bit(own.ext, IF shift_dir = 0 THEN ext_bits - 1 - (i - 8) ELSE i - 8)

test(op, a, level, o) ==
  CASE op \in {"SKIP", "BRANCH"} -> Bit(in_shift_reg, a) = level
    [] op \in {"SKIP_RUN", "BRANCH_RUN"} -> Cpu!RunTest([op |-> "SKIP_RUN", args |-> <<a, level>>])
    [] op = "SKIP_NORUN" -> Cpu!RunTest([op |-> "SKIP_NORUN", args |-> <<a, level>>])
    [] op \in {"SKIP_SENT", "BRANCH_SENT"} -> gpio[a] = level
    [] op \in {"SKIP_SAME", "BRANCH_SAME"} -> o.same >= a + 1
    [] op = "SKIP_PIN" -> o.pin_seen = level
    [] op = "SKIP1" -> Bit(o.lane, a) = level
    [] op = "SKIP8" -> age(8 + a) = level
    [] op = "SKIP16" -> age(16 + a) = level
    [] op = "SKIP24" -> age(24 + a) = level

condition(i, o) ==
  IF i.op = "BRANCH"
    THEN test(KINDS(candidate, Kind(i.delay)), (i.delay \div 2) % 8, i.delay % 2, o)
    ELSE test(i.op, i.args[1], IF Len(i.args) > 1 THEN i.args[2] ELSE 0, o)

(* The one counter, of REPEAT in its two forms and of LOAD and DJNZ. *)
rc_next(g) ==
  CASE last(g) /\ instr.op = "REPEAT" -> IF rc = 0 THEN instr.delay ELSE rc - 1
    [] last(g) /\ instr.op = "DJNZ" -> IF rc = 0 THEN 0 ELSE rc - 1
    [] issues(g) /\ instr.op = "LOAD" -> instr.args[1]
    [] OTHER -> rc

(* advance: the pc on the instruction's last cycle. *)
pc_next(g) ==
  LET i == instr
      o == IF issues(g) THEN OwnIssued(i, g) ELSE own
  IN  CASE ~last(g) -> pc
        [] i.op = "JMP" -> i.args[1]
        [] i.op \in SKIPS[candidate] -> IF condition(i, o) THEN pc + 2 ELSE pc + 1
        [] i.op = "BRANCH" -> IF condition(i, o) THEN pc + i.args[1] ELSE pc + 1
        [] i.op = "REPEAT" /\ rc_next(g) > 0 -> (pc - i.args[1]) % 512
        [] i.op = "DJNZ" /\ rc_next(g) > 0 -> i.args[1]
        [] again(i, o) \/ OwnFinished(i, o).returning \/ (bursts(i) /\ OwnFinished(i, o).cell /= 0) -> pc
        [] OTHER -> pc + 1

-----------------------------------------------------------------------------
(* The FIFOs after the step, before the host's side of the edge. *)
tx_after(g) == IF issues(g) /\ instr.op = "PULL" THEN Tail(tx_fifo) ELSE tx_fifo

rx_after(g) ==
  CASE ~issues(g) -> rx_fifo
    [] instr.op = "PUSH" -> Append(rx_fifo, in_shift_reg)
    [] instr.op = "PUSH1" -> Append(rx_fifo, own.lane)
    [] instr.op = "ACC_PUSH" -> Append(rx_fifo, acc % 256)
    [] OTHER -> rx_fifo

Acts(g) ==
  IF issues(g)
    THEN /\ Cpu!Issued(Base(instr))
         /\ Cpu!Sampled(Base(instr), Pads(instr, g))
         /\ Cpu!PinsWritten(Base(instr))
    ELSE UNCHANGED <<gpio, open_drain, shift_dir, shift_reg, in_shift_reg, acc, poly>>

(* Candidate.step. *)
Step(g) ==
  /\ ~halted
  /\ Executes(instr.op)
  /\ Acts(g)
  /\ stalled' = IF counter = 0 THEN ~issues(g) ELSE stalled
  /\ counter' = CASE issues(g) -> cycles_of(instr) - 1 [] counter > 0 -> counter - 1 [] OTHER -> 0
  /\ own' = own_next(g)
  /\ rc' = rc_next(g)
  /\ pc' = pc_next(g)
  /\ halted' = (pc' >= Len(ops))
  /\ UNCHANGED loaded

(* CPU.restart runs the constructor again: the own registers go with it. *)
Fresh ==
  /\ Cpu!Fresh
  /\ own' = OwnReset

-----------------------------------------------------------------------------
(* What a program of the repeat round means: a program for the ISA without  *)
(* the candidate's words, as A.unroll writes it, that does the same cycle   *)
(* for cycle.                                                               *)

Made(op, args, delay, side) == [op |-> op, args |-> args, delay |-> delay, side |-> side]

Pause(delay) == Made("NOP", <<>>, delay, NoSide)

(* A word of the meaning: which word it stands for, which time round. *)
Stands(i, at, nth) == [word |-> Encode(i), at |-> at, nth |-> nth]

AtLeastOnce(n) == IF n = 0 THEN 1 ELSE n

(* The bodies with the word that closes them, and how often they run. *)
Ends(code, op) == {a \in 0 .. Len(code) - 1 : code[a + 1].op = op}

Loops(code) ==
  {[start |-> e - code[e + 1].args[1], end |-> e, times |-> code[e + 1].delay + 1] :
     e \in Ends(code, "REPEAT")}
    \cup {LET start == code[e + 1].args[1]
          IN  [start |-> start, end |-> e, times |-> AtLeastOnce(code[start].args[1])] :
            e \in Ends(code, "DJNZ")}

(* A word of no program but the candidate's holds its cycles as a NOP. *)
Once(i) ==
  CASE i.op = "REPEAT" -> Pause(0)
    [] i.op \in {"LOAD", "DJNZ", "REPEAT_NEXT"} -> Pause(i.delay)
    [] OTHER -> i

Cells(i, at) ==
  LET shift == Made(IF i.op = "BURST_OUT" THEN "SHIFT_OUT" ELSE "SHIFT_IN", i.args, i.delay, i.side)
  IN  [k \in 1 .. 2 * CELLS - 1 |-> Stands(IF k % 2 = 1 THEN shift ELSE Return(i), at, k - 1)]

Pass(code, loop, n) ==
  [k \in 1 .. loop.end - loop.start + 1 |->
     Stands(Once(code[loop.start + k]), loop.start + k - 1, n)]

Repeated(code, at) ==
  IF at > 0 /\ code[at].op = "REPEAT_NEXT" THEN AtLeastOnce(code[at].args[1]) ELSE 1

unroll(code) ==
  LET from[a \in 0 .. Len(code)] ==
        IF a = Len(code) THEN <<>>
        ELSE IF \E loop \in Loops(code) : loop.start = a
          THEN LET loop == CHOOSE loop \in Loops(code) : loop.start = a
               IN  FlattenSeq([n \in 1 .. loop.times |-> Pass(code, loop, n - 1)]) \o from[loop.end + 1]
        ELSE IF bursts(code[a + 1])
          THEN Cells(code[a + 1], a) \o from[a + 1]
          ELSE [n \in 1 .. Repeated(code, a) |-> Stands(Once(code[a + 1]), a, n - 1)] \o from[a + 1]
  IN  from[0]

-----------------------------------------------------------------------------
(* The candidate's registers say how many times round the word at pc is. *)
Around == {loop \in Loops(ops) : loop.start <= pc /\ pc <= loop.end}

Nth ==
  CASE Around /= {} /\ rc > 0 -> (CHOOSE loop \in Around : TRUE).times - rc
    [] Is("RepeatNext") /\ own.rn > 0 /\ instr.op /= "REPEAT_NEXT" -> Repeated(ops, pc) - own.rn
    [] Is("Burst") -> IF own.returning THEN 2 * own.cell - 1 ELSE 2 * own.cell
    [] OTHER -> 0

Meaning(c, code) == IF c \in RepeatRound THEN Listed(unroll(code)) ELSE <<>>

(* The programs as they are loaded, each with its number and its meaning. *)
Image(p, source, code) ==
  [name |-> p, candidate |-> source.candidate, kind |-> source.kind, cell |-> source.cell,
   flags |-> source.flags, ops |-> code, meaning |-> Meaning(source.candidate, code)]

Translated(source) == Listed(Ops(source.candidate, Words(source.candidate, source.lines)))

ImagesOf(sources) == {Image(p, sources[p], Translated(sources[p])) : p \in DOMAIN sources}

Images == ImagesOf(Sources)

meaning == loaded.meaning

Position ==
  IF pc = Len(ops) THEN Len(meaning)
  ELSE (CHOOSE k \in DOMAIN meaning : meaning[k].at = pc /\ meaning[k].nth = Nth) - 1

Canonical == [k \in DOMAIN meaning |-> meaning[k].word]

Golden ==
  INSTANCE GoldenCpu WITH program <- Canonical, pc <- Position, rc <- 0, Programs <- Seq(0 .. 65535)

=============================================================================
