--------------------------- MODULE CandidateBench ---------------------------
(***************************************************************************)
(* Programs on their benches, those of tests/model/test_{repeat,can,crc}_   *)
(* candidates.py, test_can_combined.py and test_can_stress.py: a program,   *)
(* the host that writes and reads its bytes between clocks, and what its    *)
(* pins are wired to.                                                       *)
(***************************************************************************)
EXTENDS CandidateCpu

LOCAL INSTANCE SequencesExt

Reference == INSTANCE CanReference

(* What a program may be given to do, one of the jobs of its Source: [tx:   *)
(* the host's bytes, bits: what is sent, line: how it is on the bus, rival: *)
(* what another node sends at the same time, delay: the clocks the bus      *)
(* takes to be read back, frames: what a receiver is sent, joined: the      *)
(* clock of the first at which it is switched on, heard: the bytes it hands *)
(* over, each as <<value, modulus>>].                                       *)
VARIABLES
  job,
  pending,      \* bytes the host has yet to write
  clock,        \* clocks of the frame so far, stalls left out
  turn,         \* frames begun
  other,        \* the level another transmitter drives, or the receivers' answer
  lost,         \* a transmitter has seen its recessive bit overridden
  behind,       \* levels of the bus on their way back
  log,          \* bytes the host has read
  emitted,      \* levels of pin 1 as the last word issued
  samples       \* the newest samples, the newest first

benchVars == <<job, pending, clock, turn, other, lost, behind, log, emitted, samples>>

vars == <<cpuVars, benchVars>>

kind == loaded.kind

cell == loaded.cell         \* clocks of a bit on the bus

HISTORY == 32

(* Transmitters of a whole frame: alone, and of an identifier of its own. *)
FRAMES == {"frame", "contest"}

(* The frame's bit at a clock, from 0. *)
BitAt(t) == (t - 1) \div cell

LevelAt(line, t) == IF t > 0 /\ BitAt(t) < Len(line) THEN line[BitAt(t) + 1] ELSE 1

(* The frame on the bus up to its CRC; then the CRC delimiter, the ACK      *)
(* slot, the ACK delimiter, EOF's seven bits and the intermission's three.  *)
OnBus ==
  CASE kind /= "receiving" -> job.line
    [] turn = 0            -> <<>>
    [] OTHER               -> job.frames[turn].line

Line == LevelAt(OnBus, clock)

Slot == Len(OnBus) + 1

FIXED == 13

(* A rival for the bus, a clock behind the SOF it saw: its frame to its ACK *)
(* slot when it has the first dominant bit, else up to that bit.            *)
Parting == CHOOSE k \in DOMAIN job.rival : job.rival[k] /= job.line[k] /\ \A j \in 1 .. k - 1 : job.rival[j] = job.line[j]

RivalWins == job.rival /= <<>> /\ job.rival[Parting] = 0

Rival ==
  IF job.rival = <<>> \/ turn /= 1 \/ (~RivalWins /\ BitAt(clock - 1) >= Parting) THEN 1
  ELSE LevelAt(job.rival, clock - 1)

(* The receivers of a frame answer in its slot, a clock behind. *)
Answered == IF clock > 1 /\ BitAt(clock - 1) = Slot /\ ~lost THEN other ELSE 1

Wired(a, b) == IF a = 1 /\ b = 1 THEN 1 ELSE 0

Bus ==
  Wired(gpio[0], CASE kind = "arbitration" -> other
                   [] kind = "receiving"   -> IF lost THEN 1 ELSE Line
                   [] kind \in FRAMES      -> Wired(Rival, Answered)
                   [] OTHER                -> 1)

(* The bus as it comes back, with the pad's own level. *)
Readback == IF behind = <<>> THEN Bus ELSE Wired(gpio[0], Head(behind))

(* What the input pins see: the pads, through the bus where there is one;   *)
(* a frame's pin 1 is a jumper from the pad.                                *)
Pins ==
  CASE candidate = "can_A" /\ kind = "arbitration" -> [gpio EXCEPT ![1] = Bus]
    [] kind \in {"arbitration", "receiving"} -> [gpio EXCEPT ![0] = Bus]
    [] kind \in FRAMES -> [gpio EXCEPT ![0] = Readback, ![1] = gpio[0]]
    [] OTHER -> gpio

(* An arbitrating host writes its bytes at once, a late one stretches a bit; *)
(* so does that of a receiver that joins a frame, which is then on time.    *)
Prompt(image, j) == image.kind \in {"arbitration", "contest"} \/ j.joined > 0

-----------------------------------------------------------------------------
(* The host's bytes before the first clock, in its hands and in the FIFO. *)
Pending(image, j) == IF Prompt(image, j) THEN <<>> ELSE j.tx

Queued(image, j) == IF Prompt(image, j) THEN j.tx ELSE <<>>

(* The bus as it is when the core is switched on: the frame on it, if any,  *)
(* and what comes back of it.                                               *)
BegunBy(j) == IF j.joined > 0 THEN 1 ELSE 0

Idle(j) == [k \in 1 .. j.delay |-> 1]

Init ==
  /\ loaded \in Images
  /\ job \in Sources[loaded.name].jobs
  /\ pending = Pending(loaded, job) /\ tx_fifo = Queued(loaded, job)
  /\ pc = 0 /\ counter = 0 /\ rc = 0
  /\ gpio = [p \in 0 .. 3 |-> 1]
  /\ open_drain = [p \in 0 .. 3 |-> 0]
  /\ shift_dir = 0 /\ shift_reg = 0 /\ in_shift_reg = 0
  /\ acc = 0 /\ poly = 0
  /\ halted = FALSE /\ stalled = FALSE
  /\ own = OwnReset
  /\ rx_fifo = <<>> /\ taken = NoByte
  /\ clock = job.joined /\ turn = BegunBy(job) /\ behind = Idle(job)
  /\ other = 1 /\ lost = FALSE
  /\ log = <<>> /\ emitted = <<>> /\ samples = <<>>

(* The repeat round's programs under any outside world: levels, and a host  *)
(* of cpu.CPU's bench.                                                      *)
AnyWorld ==
  /\ kind = "repeat"
  /\ \E g \in Levels : Step(g) /\ Cpu!Host(tx_after(g), rx_after(g))
  /\ UNCHANGED benchVars

Samples(g) ==
  IF (Is("Same") \/ Is("Wide")) /\ issues(g) /\ Base(instr).op = "SHIFT_IN"
    THEN SubSeq(<<Pads(instr, g)[instr.args[1]]>> \o samples, 1, IF Len(samples) < HISTORY THEN Len(samples) + 1 ELSE HISTORY)
    ELSE samples

(* The frame's clock starts as the pad falls, again when the bus has been   *)
(* left alone for ten bits; it stands while a transmitter stalls, and once  *)
(* the next frame may come.                                                 *)
Over == cell * IF lost /\ kind = "contest" THEN Len(job.rival) + FIXED - 2 ELSE Len(OnBus) + FIXED

Falls == gpio[0] = 1 /\ gpio'[0] = 0

Starts == Falls /\ (clock = 0 \/ (kind \in FRAMES /\ clock > Over - cell))

clock_next ==
  CASE kind \in {"crc", "window"} -> 0
    [] Starts /\ kind /= "receiving" -> 1
    [] clock = 0 -> 0
    [] counter = 0 /\ ~issues(Pins) /\ kind /= "receiving" -> clock
    [] clock > Over -> clock
    [] OTHER -> clock + 1

(* The first clock of a bit of the frame, from 0. *)
Enters(bit) == clock' = cell * bit + 1 /\ clock' /= clock

(* Another arbitrating node's next bit; whether the frame is acknowledged,  *)
(* which a second one is.                                                   *)
other_next ==
  CASE kind = "arbitration" /\ clock' % cell = 1 /\ clock' /= clock -> BIT
    [] kind \in FRAMES /\ Enters(Slot) -> IF turn' = 1 THEN BIT ELSE {0}
    [] OTHER -> {other}

(* Another's dominant level over a recessive bit: the arbitrating core's,   *)
(* the contending core's, or, outside the ACK slot, the sender's when the   *)
(* receiver flags an error; a sender looks on the seventh of eight clocks.  *)
lost_next ==
  CASE kind = "arbitration" ->
         lost \/ (clock > cell /\ clock <= cell * Len(job.line) /\ clock % cell = 1 /\ gpio[0] = 1 /\ other = 0)
    [] kind = "contest" -> turn' = 1 /\ RivalWins /\ clock' > cell * Parting
    [] kind = "receiving" ->
         lost \/ (clock > 0 /\ (clock - 1) % cell = (3 * cell) \div 4 /\ BitAt(clock) < Len(OnBus) + FIXED
                    /\ BitAt(clock) /= Slot /\ Line = 1 /\ gpio[0] = 0)
    [] OTHER -> FALSE

(* The host of a frame queues it again, the polynomial not, for a byte that *)
(* says it was not acknowledged.                                            *)
Unacknowledged(handed) == kind \in FRAMES /\ ~lost /\ handed /= <<>> /\ handed[1] % 2 = 1

(* One clock of a bench with a bus, or with its pins read back. *)
Clock ==
  /\ kind /= "repeat"
  /\ Step(Pins)
  /\ tx_fifo' = tx_after(Pins)
  /\ rx_fifo' = <<>>
  /\ taken' = NoByte
  /\ log' = log \o rx_after(Pins)
  /\ pending' = IF Unacknowledged(rx_after(Pins)) THEN SubSeq(job.tx, 3, Len(job.tx)) ELSE pending
  /\ clock' = clock_next
  /\ turn' = IF clock' = 1 /\ clock /= 1 THEN turn + 1 ELSE turn
  /\ other' \in other_next
  /\ lost' = lost_next
  /\ behind' = IF behind = <<>> THEN <<>> ELSE Append(Tail(behind), Bus)
  /\ emitted' = IF kind = "crc" /\ instr.op = "REPEAT" /\ pc = Len(ops) - 1 /\ issues(Pins)
                  THEN Append(emitted, gpio[1]) ELSE emitted
  /\ samples' = Samples(Pins)
  /\ UNCHANGED job

(* The host writes its next byte, when the one before is taken. *)
Push ==
  /\ pending /= <<>> /\ tx_fifo = <<>>
  /\ tx_fifo' = <<Head(pending)>>
  /\ pending' = Tail(pending)
  /\ UNCHANGED <<loaded, registers, rx_fifo, taken, job, clock, turn, other, lost, behind, log, emitted, samples>>

(* Another node starts a frame: the first, and one after an error, once the *)
(* receiver waits for it; any other as soon as the intermission is over.    *)
Begin ==
  /\ kind = "receiving" /\ turn < Len(job.frames)
  /\ clock = 0 \/ clock > Over
  /\ clock = 0 \/ lost => stalled /\ instr.op = "WAIT"
  /\ clock' = 1 /\ turn' = turn + 1 /\ lost' = FALSE
  /\ UNCHANGED <<cpuVars, job, pending, other, behind, log, emitted, samples>>

(* CPU.restart in the middle of anything: a repeat program goes on with its *)
(* FIFOs as they are, the other benches start their frame again.            *)
Restart ==
  /\ UNCHANGED <<loaded, job>>
  /\ Fresh
  /\ IF kind = "repeat"
       THEN Cpu!Host(tx_fifo, rx_fifo) /\ UNCHANGED benchVars
       ELSE /\ pending' = Pending(loaded, job) /\ tx_fifo' = Queued(loaded, job)
            /\ rx_fifo' = <<>> /\ taken' = NoByte
            /\ clock' = job.joined /\ turn' = BegunBy(job) /\ behind' = Idle(job)
            /\ other' = 1 /\ lost' = FALSE
            /\ log' = <<>> /\ emitted' = <<>> /\ samples' = <<>>

(* A halted core holds; the host of a repeat program goes on. *)
Halted ==
  /\ halted
  /\ IF kind = "repeat" THEN Cpu!Host(tx_fifo, rx_fifo) ELSE UNCHANGED <<tx_fifo, rx_fifo, taken>>
  /\ UNCHANGED <<loaded, registers, benchVars>>

Next == AnyWorld \/ Clock \/ Push \/ Begin \/ Restart \/ Halted

(* Clocks go on, a host that has a byte writes it, a bus does not stay idle. *)
Fairness == WF_vars(Clock) /\ WF_vars(Push) /\ WF_vars(Begin)

Spec == Init /\ [][Next]_vars /\ Fairness

=============================================================================
