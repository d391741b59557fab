------------------------------ MODULE AxiChip ------------------------------
(***************************************************************************)
(* fpga/pynq_z2/smallcore_pynq_axi.v: smallcore_axi.v and smallcore.v on    *)
(* one clock and one reset.  The chip is host.v as it is (Host), its two    *)
(* FIFOs, and a core that runs any program: what it can do to the FIFOs and *)
(* to the halted wire, with a PUSH that waits for room.                     *)
(***************************************************************************)
EXTENDS AxiHost

CONSTANTS
  Sessions,         \* programs at both ends: what the ARM writes, reads and does
                    \* only at rest ("run", "rx_clear"), what the core pushes, and
                    \* the levels the hard reset line takes meanwhile
  Ready,            \* the levels the ARM's bready and rready take
  DEPTH,            \* the chip's FIFOs
  RamWords, MinHigh, MinLow, Junk

ASSUME ChipAssumption == DEPTH \in Nat \ {0} /\ RamWords \in 1 .. 256 /\ Junk \in Nat /\ Junk < 256 * 256

(* What host.v's header asks for is no more than what the engine waits.     *)
ASSUME TimingAssumption == MinHigh \in 1 .. 4 /\ MinLow \in 1 .. 3

(* What fits the fields of the registers and the eight bits of a byte.      *)
Fits(w) ==
  /\ w.reg = "CTRL" => w.ctrl \in [reset : BOOLEAN, rx_en : BOOLEAN]
  /\ w.reg = "SLOT" => w.slot \in 0 .. 255
  /\ w.reg = "TX_DATA" => w.byte \in 0 .. 255
  /\ w.reg = "RAW" => w.raw \in [write : BOOLEAN, addr : 0 .. 3, wdata : 0 .. 255, pop : BOOLEAN]

ASSUME SessionsAssumption ==
  \A s \in Sessions : s.bytes \subseteq 0 .. 255 /\ \A w \in s.writes : Fits(w)

VARIABLES
  session,          \* the one of Sessions that runs
  edges,
  we_sync, re_sync, sel, load_mode, ram_select, prog_addr, prog_words, prog_low,
  byte_phase, mem,
  tx_fifo, rx_fifo,
  halted,
  pushing,          \* the byte a PUSH of the core waits with, if any
  run,              \* history: how far the last COMMAND RUN has come
  raw,              \* history: how far the last raw request has come
  delivered         \* history: staged bytes host.v acted on since the last clear

hostRegs == <<we_sync, re_sync, sel, load_mode, ram_select, prog_addr,
              prog_words, prog_low, byte_phase, mem>>

chipVars == <<edges, hostRegs, tx_fifo, rx_fifo, halted, pushing>>

vars == <<engineVars, axiVars, chipVars, session, run, raw, delivered>>

Strobe == IF e_we THEN "we" ELSE IF e_re THEN "re" ELSE "none"

H == INSTANCE Host
       WITH strobe <- Strobe, addr <- e_addr, wdata <- e_wdata,
            HostBytes <- [a \in 0 .. 3 |-> 0 .. 255]

Fifo == INSTANCE QueueStep WITH Capacity <- DEPTH

host_rdata ==
  CASE e_addr = H!TX_DATA -> 0
    [] e_addr = H!RX_DATA -> IF rx_fifo = <<>> THEN 0 ELSE Head(rx_fifo)
    [] e_addr = H!STATUS  -> (IF halted THEN 4 ELSE 0)
                               + (IF Len(tx_fifo) = DEPTH THEN 2 ELSE 0)
                               + (IF rx_fifo = <<>> THEN 1 ELSE 0)
    [] e_addr = H!CONTROL -> IF load_mode THEN 32 ELSE IF ram_select THEN 16 ELSE sel

-----------------------------------------------------------------------------
Init ==
  /\ EngineInit
  /\ AxiInit
  /\ session \in Sessions
  /\ edges = 0
  /\ we_sync = [k \in 0 .. 2 |-> TRUE] /\ re_sync = [k \in 0 .. 2 |-> TRUE]
  /\ sel = 0 /\ load_mode = FALSE /\ ram_select = FALSE
  /\ prog_addr = 0 /\ prog_words = 0 /\ prog_low = 0 /\ byte_phase = FALSE
  /\ mem = [a \in 0 .. RamWords - 1 |-> Junk]
  /\ tx_fifo = <<>> /\ rx_fifo = <<>>
  /\ halted = TRUE /\ pushing = <<>>
  /\ run = "none" /\ raw = "none" /\ delivered = 0

(* The core on a clock: what it pulls and pushes.  A PUSH that finds the RX *)
(* FIFO full waits, and nothing else happens until it has its room.         *)
CoreIdle == UNCHANGED <<halted, pushing>>

CoreRuns(pull, pushed) ==
  /\ ~halted
  /\ IF pushing /= <<>>
       THEN /\ ~pull /\ UNCHANGED halted
            /\ pushed = IF Len(rx_fifo) < DEPTH THEN pushing ELSE <<>>
            /\ pushing' = IF Len(rx_fifo) < DEPTH THEN <<>> ELSE pushing
       ELSE \/ pull /\ tx_fifo /= <<>> /\ pushed = <<>> /\ CoreIdle
            \/ ~pull /\ pushed /= <<>> /\ Len(rx_fifo) < DEPTH /\ CoreIdle
            \/ /\ ~pull /\ pushed = <<>> /\ Len(rx_fifo) = DEPTH /\ UNCHANGED halted
               /\ pushing' \in {<<b>> : b \in session.bytes}
            \/ ~pull /\ pushed = <<>> /\ halted' \in BOOLEAN /\ UNCHANGED pushing

(* A restart puts the core at the start of a program, which is empty in     *)
(* slot 0, while loading and when nothing was loaded.                       *)
CoreRestarts(pull, pushed) ==
  /\ ~pull /\ pushed = <<>>
  /\ pushing' = <<>>
  /\ IF e_wdata = 0 \/ H!load_cmd \/ (H!run_ram_cmd /\ prog_words = 0)
       THEN halted' = TRUE ELSE halted' \in BOOLEAN

ChipClock(pull, pushed) ==
  /\ H!HostClock
  /\ IF H!restart THEN CoreRestarts(pull, pushed)
     ELSE CoreRuns(pull, pushed) \/ (halted /\ ~pull /\ pushed = <<>> /\ CoreIdle)
  /\ tx_fifo' = Fifo!Advance(tx_fifo, H!tx_push, pull, e_wdata)
  /\ rx_fifo' = Fifo!Advance(rx_fifo, pushed /= <<>>, H!rx_pop,
                             IF pushed = <<>> THEN 0 ELSE Head(pushed))

ChipReset ==
  /\ H!HostReset
  /\ tx_fifo' = <<>> /\ rx_fifo' = <<>>
  /\ halted' = TRUE /\ pushing' = <<>>

-----------------------------------------------------------------------------
(* The words the ARM writes, smallcore.h's names for them.                  *)
None == [reg |-> "none"]

Ctrl(reset, rx_en) == [reg |-> "CTRL", ctrl |-> [reset |-> reset, rx_en |-> rx_en]]

Slot(value) == [reg |-> "SLOT", slot |-> value]

TxData(b) == [reg |-> "TX_DATA", byte |-> b]

Raw(write, a, b, pop) ==
  [reg |-> "RAW", raw |-> [write |-> write, addr |-> a, wdata |-> b, pop |-> pop]]

Cmd(name) ==
  [reg |-> "COMMAND", run |-> name = "run", rx_clear |-> name = "rx_clear",
   flush |-> name = "flush", commit_clear |-> name = "commit_clear"]

Run == Cmd("run")

RxClear == Cmd("rx_clear")

Flush == Cmd("flush")

CommitClear == Cmd("commit_clear")

(* The ARM: a write or a read stays on the bus until its transfer.  Its     *)
(* test programs command some things only with the core halted and drained. *)

AtRest == halted /\ rx_fifo = <<>>

MayWrite(w) ==
  w.reg = "COMMAND" =>
    /\ w.run /\ "run" \in session.quiet => AtRest
    /\ w.rx_clear /\ "rx_clear" \in session.quiet => AtRest

Bus ==
  [aresetn : session.aresetn,
   valid   : IF awready THEN {TRUE} ELSE BOOLEAN,
   write   : IF awready THEN {w \in session.writes : MayWrite(w)} ELSE {None},
   bready  : IF bvalid THEN Ready ELSE {TRUE},
   arvalid : IF arready THEN {TRUE} ELSE IF session.reads = {} THEN {FALSE} ELSE BOOLEAN,
   read    : IF arready THEN session.reads ELSE {"none"},
   rready  : IF rvalid THEN Ready ELSE {TRUE}]

(* History: RUN asked, its CONTROL taken, acted on by host.v, and STATUS    *)
(* read after that.  A reset ends it.                                       *)
RunHistory(bus, in) ==
  run' = IF core_reset(bus) THEN "none"
         ELSE IF take_ctrl(in) THEN "taken"
         ELSE IF run_p THEN "asked"
         ELSE IF run = "taken" /\ H!control_write THEN "acted"
         ELSE IF run = "acted" /\ deciding(in) THEN "read"
         ELSE run

RawHistory(bus) ==
  raw' = IF raw_p THEN "asked"
         ELSE IF core_reset(bus) THEN "dropped"
         ELSE IF ~ (e_raw /\ (H!we_rise \/ H!re_rise)) THEN raw
         ELSE IF raw = "asked" THEN "acted" ELSE "twice"

(* A byte acted on during the clock of a clear is still to be committed.    *)
Delivery(bus) ==
  LET acts == IF e_tx /\ H!we_rise THEN 1 ELSE 0
  IN  delivered' = IF core_reset(bus) THEN 0
                   ELSE IF commit_clear(bus) THEN acts
                   ELSE (delivered + acts) % CountSize

Clock(bus) ==
  /\ AxiClock(bus, host_rdata)
  /\ IF core_reset(bus) THEN ChipReset
     ELSE \E pull \in BOOLEAN, pushed \in {<<>>} \cup {<<b>> : b \in session.bytes} :
            ChipClock(pull, pushed)
  /\ edges' = IF Strobe' /= Strobe \/ (core_reset(bus) /\ Strobe = "none")
                THEN 0 ELSE H!Counted
  /\ RunHistory(bus, In(bus, host_rdata))
  /\ RawHistory(bus)
  /\ Delivery(bus)
  /\ UNCHANGED session

Next == \E bus \in Bus : Clock(bus)

(* The clock never stops. *)
Spec == Init /\ [][Next]_vars /\ WF_vars(Next)

-----------------------------------------------------------------------------
(* The registers keep to their widths, and the flags that say whose         *)
(* transaction is on the bus name one owner at most.                        *)
AxiTypeOK ==
  /\ state \in {"LOW0", "STAT", "SETUP", "HIGH"} /\ count \in 0 .. 4
  /\ e_addr \in 0 .. 3 /\ e_wdata \in 0 .. 255
  /\ ~ (e_we /\ e_re)
  /\ ~ (e_read /\ e_tx) /\ ~ (e_read /\ e_raw) /\ ~ (e_tx /\ e_raw)
  /\ status \in 0 .. 7 /\ raw_rdata \in 0 .. 255
  /\ rx_wr \in 0 .. RX_SIZE - 1 /\ rx_rd \in 0 .. RX_SIZE - 1
  /\ rx_count \in 0 .. RX_SIZE
  /\ rx_buf \in [0 .. RX_SIZE - 1 -> 0 .. 255]
  /\ Len(stg) <= TX_DEPTH /\ committed \in 0 .. CountSize - 1
  /\ Len(tx_fifo) <= DEPTH /\ Len(rx_fifo) <= DEPTH

(* The timing rules of host.v's header, which everything said of the        *)
(* register block assumes, kept by the engine for any mix of requests and   *)
(* resets: 4 clocks up, 3 down, 3 after a reset, address and data set       *)
(* before the rise and still until the fall.                                *)
TimingRules ==
  [][/\ Strobe = "none" /\ Strobe' /= "none" =>
          H!LongEnough /\ UNCHANGED <<e_addr, e_wdata>>
     /\ Strobe /= "none" =>
          \/ Strobe' = Strobe /\ UNCHANGED <<e_addr, e_wdata>>
          \/ Strobe' = "none" /\ H!LongEnough
          \/ ChipReset]_vars

(* TX_COMMITTED counts exactly the bytes that host.v acted on since it was  *)
(* cleared, one clock late; a clear, a flush or a reset on any clock leaves *)
(* no byte counted twice or counted without having arrived.                 *)
CommittedAreDelivered ==
  delivered = (committed + IF e_tx /\ state = "HIGH" /\ count = 3 THEN 1 ELSE 0)
                % CountSize

(* smallcore_axi.v's promise for RUN busy: once it is down, CONTROL was     *)
(* written and STATUS read again, so CORE_STATUS describes the program that *)
(* the last RUN started, however many RUNs were asked on the way.           *)
StatusDescribesTheRun == ~run_busy => run \in {"none", "read"}

(* A raw request that reports done made its one transaction, or none if it  *)
(* was a plain read; unless a reset dropped it.                             *)
RawDoneWhenActed ==
  raw_done_q /\ ~raw_busy_any =>
    raw \in {"dropped", IF raw_q.write \/ raw_q.pop THEN "acted" ELSE "asked"}

(* smallcore_axi.v on RAW: "with a read of RX_DATA, pop it".  The read is   *)
(* three clocks before the pop, and a byte pushed into an empty FIFO in     *)
(* between is popped unread.                                                *)
RawPopsWhatItRead ==
  [][e_raw /\ H!rx_pop /\ rx_fifo /= <<>>
       => raw_rdata = Head(rx_fifo) \/ ChipReset]_vars

(* can_host_engine.v: "rx_clear rising empties the ring".  At most a byte   *)
(* stored on that very clock could remain; but the store keeps the old      *)
(* count, and only the read pointer goes back.                              *)
ClearEmptiesRing == [][rx_clear_p /\ ~rx_clear_d => rx_count' <= 1]_vars

-----------------------------------------------------------------------------
(* The mapping to AxiService: a byte is with the chip once host.v has acted *)
(* on it, and in the ring once the engine has read it, two HIGH clocks      *)
(* before its pop.                                                          *)
OnTheWay == state = "SETUP" \/ (state = "HIGH" /\ count <= 2)

Service == INSTANCE AxiService
  WITH RamBytes <- 2 * RamWords,
       staged   <- IF e_tx /\ OnTheWay THEN <<e_wdata>> \o stg ELSE stg,
       rx_fifo  <- IF e_read /\ state = "HIGH" /\ count <= 2 THEN Tail(rx_fifo) ELSE rx_fifo,
       loading  <- load_mode,
       program  <- H!LoadedBytes,
       ring     <- [i \in 1 .. rx_count |-> rx_buf[(rx_rd + i - 1) % RX_SIZE]],
       overflow <- rx_overflow,
       read     <- s_axi_rdata

(* The peripheral and the chip move every byte once, in order, into a FIFO  *)
(* with room for it, whatever else the ARM and the program do.              *)
ImplementsService == Service!Spec

=============================================================================
