--------------------------- MODULE CandidateSpec ---------------------------
(***************************************************************************)
(* What the candidates' programs and registers promise on their benches.    *)
(***************************************************************************)
EXTENDS CandidateBench

LOCAL INSTANCE SequencesExt

Frames == INSTANCE FramePrograms

(* Registers keep their widths and the bench its shapes, the far stage, the *)
(* lane and the run counter among them.                                     *)
CandidateTypeOK ==
  /\ candidate \in Candidate
  /\ pc \in 0 .. Len(ops) /\ counter \in 0 .. 31 /\ rc \in 0 .. 31
  /\ gpio \in [0 .. 3 -> BIT] /\ open_drain \in [0 .. 3 -> BIT] /\ shift_dir \in BIT
  /\ {shift_reg, in_shift_reg, own.lane} \subseteq 0 .. 255
  /\ {acc, poly} \subseteq 0 .. 65535
  /\ own.rn \in 0 .. 31 /\ own.cell \in 0 .. 7 /\ own.returning \in BOOLEAN
  /\ own.same \in 0 .. 7 /\ own.last \in 0 .. 2 /\ own.pin_seen \in BIT
  /\ own.ext \in 0 .. 2^(WIDTH(candidate) - 8) - 1
  /\ {halted, stalled, lost} \subseteq BOOLEAN
  /\ \A k \in DOMAIN tx_fifo : tx_fifo[k] \in 0 .. 255
  /\ \A k \in DOMAIN log : log[k] \in 0 .. 255
  /\ pending = <<>> \/ \E k \in DOMAIN job.tx : pending = SubSeq(job.tx, k, Len(job.tx))
  /\ clock \in Nat /\ other \in BIT /\ Len(behind) = job.delay
  /\ turn \in 0 .. IF kind = "receiving" THEN Len(job.frames) ELSE 2

-----------------------------------------------------------------------------
(* The end of a program: halted, or round at the word that waits for the    *)
(* next frame when there is none.                                           *)
Rests ==
  \/ halted
  \/ /\ stalled /\ log /= <<>> /\ pending = <<>> /\ tx_fifo = <<>>
     /\ \/ instr.op = "PULL"
        \/ instr.op = "WAIT" /\ turn = Len(job.frames) /\ clock > Over

(* The byte that ends a frame: its last seven samples and the answer. *)
HandedOver(answer) ==
  2 * Reference!Spelled(SubSeq(job.line, Len(job.line) - 6, Len(job.line))) + answer

(* Six dominant bits from the second clock of the ACK delimiter. *)
Flagging == loaded.flags /\ other = 1 /\ clock - cell * (Slot + 1) \in 2 .. 6 * cell + 1

(* Every bit of the stuffed identifier, or of a whole frame with the CRC    *)
(* that the core works out, is on the bus for its own clocks, neither one   *)
(* more nor one less, whatever path the program took to decide on a stuff   *)
(* bit, whenever the host's bytes came, however late the bus is read back   *)
(* and whether or not a restart had cut the frame before short; then the    *)
(* bus is let go and the host has the last levels, those of a frame with    *)
(* its answer.  A frame nobody acknowledged goes again, the polynomial      *)
(* kept, after ten bits or an error flag.                                   *)
StuffsTheBus ==
  /\ kind = "stuffing" =>
       /\ clock > 0 => gpio[0] = Line
       /\ halted => /\ clock - cell * Len(job.line) \in 1 .. 2
                    /\ log = <<Reference!Spelled(SubSeq(job.line, Len(job.line) - 7, Len(job.line)))>>
  /\ kind = "frame" =>
       /\ gpio[0] = IF Flagging THEN 0 ELSE Line
       /\ \A k \in DOMAIN log : log[k] = CASE k = turn /\ other = 0 -> HandedOver(0)
                                            [] loaded.flags -> 255
                                            [] OTHER -> HandedOver(1)
       /\ Rests => Len(log) = turn /\ other = 0 /\ acc = 0

(* The bits a program that samples twice a bit hands over. *)
SeesBoth == candidate \in {"can_A", "can_B", "can_AB"}

(* The identifier stays on the bus bit by bit until another node's dominant *)
(* bit is over its recessive one; from then on the core never drives again, *)
(* until the other's frame is over, with ten bits of idle bus, and it tries *)
(* once more.  A candidate takes the stranded second byte with it, and the  *)
(* byte it hands over ends in recessive-sent, dominant-seen if and only if  *)
(* it lost.  A frame that won is whole, its CRC its own, though the rival's *)
(* last dominant bit hung over into the bit that decided.                   *)
Arbitrates ==
  /\ kind = "arbitration" =>
       /\ clock > 0 => gpio[0] = IF lost THEN 1 ELSE Line
       /\ halted => /\ tx_fifo = <<>>
                    /\ Len(log) = 1
                    /\ SeesBoth => (log[1] % 4 = 2 <=> lost)
       /\ halted /\ ~lost => clock > cell * Len(job.line)
  /\ kind = "contest" =>
       /\ gpio[0] = IF lost THEN 1 ELSE Line
       /\ halted => IF lost THEN Len(log) = 2 /\ log[1] = log[2] ELSE log[Len(log)] = HandedOver(0) /\ acc = 0

(* The remainder of the host's four bytes leaves, on pin 1 bit by bit as    *)
(* the emission's last word issues, or in two bytes, left-aligned and low   *)
(* byte first, from every form of the register: wide, windowed, in lanes or *)
(* accumulated.                                                             *)
CrcGoesOut ==
  kind = "crc" =>
    /\ log = <<>> => emitted = SubSeq(job.bits, 1, Len(emitted))
    /\ halted => \/ log = <<>> /\ emitted = job.bits
                 \/ log /= <<>> /\ emitted = <<>>
                    /\ log[2] * 256 + log[1] = 2 * Reference!Spelled(job.bits)

(* The clock of a frame at which a receiver pulls the bus, and lets it go:  *)
(* for the ACK slot, counted from its own sample of the delimiter, or for   *)
(* six bits after the one it found wrong, on the path it found it by.       *)
Answers(f) ==
  LET from == cell * Len(f.line) + Frames!rx_sample(cell) + 1
      flag == cell * f.wrong
  IN  CASE f.wrong > 0 -> {flag + 1 + k : k \in 1 .. 6 * cell + 1}
        [] f.missed    -> {}
        [] OTHER       -> {from + k : k \in 1 .. cell}

(* The receiver's clock goes through the frame as the sender's does, stuff  *)
(* bit or none, and is back for a frame that follows as closely as one may: *)
(* the host gets the frame's bits without the stuff bits, and the residue   *)
(* that says the CRC was right; a frame with a stuff or form error ends in  *)
(* an error flag, stops its sender, and takes nothing with it to the next;  *)
(* what is left of a frame joined late is let pass.  The core is on the bus *)
(* for its answer and at no other time.                                     *)
DestuffedBytes ==
  kind = "receiving" =>
    /\ Len(log) <= Len(job.heard)
    /\ \A k \in DOMAIN log : log[k] % job.heard[k][2] = job.heard[k][1]
    /\ Rests => Len(log) = Len(job.heard)
    /\ IF turn = 0 THEN gpio[0] = 1
       ELSE LET f == job.frames[turn] IN
            IF f.wrong = 0 THEN gpio[0] = 0 <=> clock \in Answers(f)
            ELSE /\ gpio[0] = 0 => clock \in Answers(f)
                 /\ clock \in Answers(f) /\ clock - 1 \in Answers(f) /\ clock + 1 \in Answers(f) => gpio[0] = 0
                 /\ clock > Over => lost

(* REPEAT, REPEAT_NEXT, LOAD and DJNZ, and the bursts do, clock for clock,  *)
(* under any levels and any host, with stalls inside the body and restarts, *)
(* what the golden model does with the loop written out.                    *)
ImplementsUnrolled ==
  /\ kind = "repeat" => Golden!Init
  /\ [][kind = "repeat" => Golden!Next \/ UNCHANGED Golden!vars]_cpuVars

(* What a class keeps of the pin it samples is the samples: D's counter is  *)
(* the length of the run they end on, up to 7, since the last restart, and  *)
(* the far stage carries the register on, so that each age a SKIP can reach *)
(* is that sample, in either direction of shift.                            *)
RegistersAreHistory ==
  /\ Is("Same") /\ kind = "stuffing" =>
       own.same = LET Run(n) == n <= Len(samples) /\ \A k \in 1 .. n : samples[k] = samples[1]
                  IN  Cardinality({n \in 1 .. 7 : Run(n)})
  /\ Is("Wide") => \A i \in 0 .. WIDTH(candidate) - 1 :
                     i < Len(samples) => age(i) = samples[i + 1]

(* Every program comes to its end, or round to where it waits for another  *)
(* frame: no path through the decisions, and no count, goes on for ever,    *)
(* once it is no longer restarted, the host has written its bytes and the   *)
(* frames to receive have begun.                                            *)
Finishes == kind /= "repeat" => <>Rests \/ []<><<Restart>>_vars

=============================================================================
