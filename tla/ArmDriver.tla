----------------------------- MODULE ArmDriver -----------------------------
(***************************************************************************)
(* fpga/pynq_z2/arm/smallcore.c on the ARM in front of AxiChip.  A call of  *)
(* the driver is the sequence of its register accesses; a poll that has not *)
(* read what it waits for reads again or, in a session that is not patient, *)
(* finds its time over.  Between two accesses any time may pass.  A session *)
(* has the calls of one caller, round after round.                          *)
(***************************************************************************)
EXTENDS AxiChip, FiniteSetsExt

CONSTANT Prefill      \* the bytes sc_wait_prefill looks for at most, 4: the TX FIFO

VARIABLES
  at,           \* the call under way and its access
  ok,           \* no checked call of this round has failed
  returned,     \* the call that returned last, and its result
  answer,       \* what the last read of RAW returned
  own           \* history: whether the request of this call was taken, and what
                \* the chip gave or got by it

driverVars == <<at, ok, returned, answer, own>>

LOAD_RAM == 32

-----------------------------------------------------------------------------
(* The accesses of a call, in order. *)

Store(w) == [kind |-> "store", write |-> w]

Poll(reg, until, n) == [kind |-> "poll", reg |-> reg, until |-> until, n |-> n]

Answer(want) == [kind |-> "answer", reg |-> "RAW", want |-> want]

Take == [kind |-> "take", reg |-> "RX_DATA"]

Runs == [kind |-> "runs", reg |-> "CORE_STATUS"]

sc_reset(rx_en) == <<Store(Ctrl(TRUE, rx_en)), Store(Ctrl(FALSE, rx_en))>>

sc_run_slot(control) ==
  <<Store(Slot(control)), Store(Run), Poll("STATUS", "RUN not busy", 0)>>

sc_tx(bytes) ==
  [k \in 1 .. 2 * Len(bytes) |-> IF k % 2 = 1 THEN Poll("STATUS", "TX not full", 0)
                                              ELSE Store(TxData(bytes[k \div 2]))]

(* A prefill that trusts the committed count, whoever counted.              *)
sc_wait_prefill_counted(n) ==
  <<Poll("TX_COMMITTED", "at least", IF n < Prefill THEN n ELSE Prefill)>>

sc_wait_prefill(n) ==
  <<Poll("TX_COMMITTED", "at least", IF n < Prefill THEN n ELSE Prefill)>>
    \o IF n >= Prefill THEN <<Poll("CORE_STATUS", "TX FIFO full", 0)>> ELSE <<>>

(* A request that does not wait for the one before it.                      *)
raw_unwaited(request, want) ==
  <<Store(request), Poll("RAW", "raw done", 0), Answer(want)>>

raw_access(request, want) ==
  <<Poll("STATUS", "raw not busy", 0), Store(request), Poll("RAW", "raw done", 0), Answer(want)>>

sc_raw_read(a, pop, want) == raw_access(Raw(FALSE, a, 0, pop), want)

sc_raw_write(a, value) == raw_access(Raw(TRUE, a, value, FALSE), 0 .. 255)

(* The words as bytes, low before high; they fit the RAM.                   *)
sc_load_ram(bytes) ==
  sc_run_slot(LOAD_RAM) \o <<Poll("STATUS", "idle", 0)>>
    \o sc_raw_read(H!CONTROL, FALSE, {LOAD_RAM})
    \o <<Store(CommitClear)>> \o sc_tx(bytes)
    \o <<Poll("TX_COMMITTED", "exactly", Len(bytes)), Poll("STATUS", "idle", 0)>>

Accesses(call) ==
  CASE call.fn = "sc_reset"        -> sc_reset(call.rx_en)
    [] call.fn = "command"         -> <<Store(call.command)>>
    [] call.fn = "sc_run_slot"     -> sc_run_slot(call.control)
    [] call.fn = "sc_wait_halted"  -> <<Poll("CORE_STATUS", "halted", 0)>>
    [] call.fn = "still_runs"      -> <<Runs>>
    [] call.fn = "wait_room"       -> <<Poll("CORE_STATUS", "TX FIFO not full", 0)>>
    [] call.fn = "sc_tx"           -> sc_tx(call.bytes)
    [] call.fn = "sc_wait_prefill" -> sc_wait_prefill(call.n)
    [] call.fn = "sc_raw_read"     -> sc_raw_read(call.addr, FALSE, 0 .. 255)
    [] call.fn = "sc_raw_write"    -> sc_raw_write(call.addr, call.value)
    [] call.fn = "sc_load_ram"     -> sc_load_ram(call.bytes)
    [] call.fn = "sc_rx"           -> [i \in 1 .. call.max |-> Take]

(* What the driver's functions are called with: bytes and registers that    *)
(* are some, and commands of which a RUN is none, since sc_run_slot has it. *)
Callable(call) ==
  \/ call.fn = "sc_reset" /\ call.rx_en \in BOOLEAN
  \/ call.fn = "command" /\ call.command \in {RxClear, Flush, CommitClear}
  \/ call.fn = "sc_run_slot" /\ call.control \in 0 .. 255
  \/ call.fn \in {"sc_wait_halted", "still_runs", "wait_room"}
  \/ call.fn = "sc_tx" /\ call.bytes \in Seq(0 .. 255) \ {<<>>}
  \/ call.fn = "sc_wait_prefill" /\ call.n \in Nat
  \/ call.fn = "sc_raw_read" /\ call.addr \in 0 .. 3
  \/ call.fn = "sc_raw_write" /\ call.addr \in 0 .. 3 /\ call.value \in 0 .. 255
  \/ call.fn = "sc_load_ram" /\ call.bytes \in Seq(0 .. 255)
  \/ call.fn = "sc_rx" /\ call.max \in Nat \ {0}

(* What a session's calls access is the traffic that AxiChip knows it by.   *)
InTraffic(access, s) ==
  IF access.kind = "store" THEN access.write \in s.writes ELSE access.reg \in s.reads

ASSUME CallsAssumption ==
  /\ TRUE \in Ready
  /\ \A s \in Sessions :
       /\ TRUE \in s.aresetn /\ s.quiet = {}
       /\ DOMAIN s.calls \subseteq Nat /\ 1 \in DOMAIN s.calls
       /\ \A c \in DOMAIN s.calls :
            /\ Callable(s.calls[c])
            /\ \A k \in DOMAIN Accesses(s.calls[c]) : InTraffic(Accesses(s.calls[c])[k], s)

-----------------------------------------------------------------------------
(* What a register's read finds, by the assignments to s_axi_rdata.         *)

idle ==
  /\ ~ctrl.reset /\ state = "STAT" /\ ~ctrl_pending /\ ~raw_pending /\ stg = <<>>
  /\ ~run_p /\ ~raw_p /\ ~rx_clear_p

Met(poll) ==
  CASE poll.until = "RUN not busy" -> ~run_busy
    [] poll.until = "TX not full"  -> Len(stg) < TX_DEPTH
    [] poll.until = "raw not busy" -> ~raw_busy_any
    [] poll.until = "raw done"     -> raw_done_q
    [] poll.until = "idle"         -> idle
    [] poll.until = "halted"       -> Flag(status, 4)
    [] poll.until = "TX FIFO full" -> Flag(status, 2)
    [] poll.until = "TX FIFO not full" -> ~Flag(status, 2)
    [] poll.until = "at least"     -> committed >= poll.n
    [] poll.until = "exactly"      -> committed = poll.n

-----------------------------------------------------------------------------
Call == session.calls[at.call]

Access == Accesses(Call)[at.access]

(* Of a round's calls some are made only while all is well, and some are    *)
(* checked.  A round begins with a reset.                                   *)
Follows(c, well) ==
  LET later == {d \in DOMAIN session.calls : d > c /\ (well \/ ~session.calls[d].if_ok)}
  IN  IF later = {} THEN 1 ELSE Min(later)

Returns(result) ==
  LET well == ok /\ (result = "ok" \/ ~Call.checked)
  IN  /\ returned' = [call |-> at.call, result |-> result]
      /\ at' = [call |-> Follows(at.call, well), access |-> 1]
      /\ ok' = (well \/ at'.call = 1)

Goes ==
  IF at.access = Len(Accesses(Call)) THEN Returns("ok")
  ELSE at' = [at EXCEPT !.access = @ + 1] /\ UNCHANGED <<ok, returned>>

(* diag_tx.c waits for room without a limit. *)
TimesOut(poll) == ~session.patient /\ poll.until /= "TX FIFO not full"

Drives(bus) ==
  IF ~wr(bus) /\ ~rd(bus) THEN UNCHANGED <<at, ok, returned, answer>>
  ELSE \/ Access.kind = "store" /\ Goes /\ UNCHANGED answer
       \/ Access.kind = "poll" /\ Met(Access) /\ Goes /\ UNCHANGED answer
       \/ /\ Access.kind = "poll" /\ ~Met(Access)
          /\ UNCHANGED <<at, ok, returned, answer>>
       \/ /\ Access.kind = "poll" /\ ~Met(Access) /\ TimesOut(Access)
          /\ Returns("timeout") /\ UNCHANGED answer
       \/ /\ Access.kind = "take"
          /\ IF rx_count = 0 THEN Returns("ok") ELSE Goes
          /\ UNCHANGED answer
       \/ /\ Access.kind = "runs"
          /\ IF Flag(status, 4) THEN Returns("bad state") ELSE Goes
          /\ UNCHANGED answer
       \/ /\ Access.kind = "answer"
          /\ answer' = raw_rdata
          /\ IF raw_rdata \in Access.want THEN Goes ELSE Returns("bad state")

(* History: a request this call made, and the transaction it came to.       *)
Acted(in) ==
  CASE e_raw /\ ~in.reset /\ state = "SETUP" /\ ~raw_q.write -> {in.rdata}
    [] (H!we_rise /\ e_raw) \/ H!control_write -> {e_wdata}
    [] OTHER -> {}

Owns(bus, in) ==
  own' = IF writes(bus, "RAW") THEN [taken |-> ~raw_busy_any, by |-> {}]
         ELSE IF writes(bus, "COMMAND") /\ bus.write.run THEN [taken |-> TRUE, by |-> {}]
         ELSE IF own.taken /\ Acted(in) /= {} THEN [own EXCEPT !.by = Acted(in)]
         ELSE own

DriverBus ==
  LET writing == Access.kind = "store" IN
  [aresetn : {TRUE},
   valid   : IF ~writing THEN {FALSE} ELSE IF awready THEN {TRUE} ELSE BOOLEAN,
   write   : {IF awready THEN Access.write ELSE None},
   bready  : {TRUE},
   arvalid : IF writing THEN {FALSE} ELSE IF arready THEN {TRUE} ELSE BOOLEAN,
   read    : {IF arready THEN Access.reg ELSE "none"},
   rready  : {TRUE}]

-----------------------------------------------------------------------------
DriverInit ==
  /\ Init
  /\ at = [call |-> 1, access |-> 1] /\ ok = TRUE
  /\ returned = [call |-> 0, result |-> "none"]
  /\ answer = 0 /\ own = [taken |-> FALSE, by |-> {}]

DriverClock(bus) ==
  /\ Clock(bus)
  /\ Drives(bus)
  /\ Owns(bus, In(bus, host_rdata))

DriverNext == \E bus \in DriverBus : DriverClock(bus)

(* The ARM's code goes on, and the clock with it. *)
GoesOn == \E bus \in DriverBus : (bus.valid \/ bus.arvalid) /\ DriverClock(bus)

DriverSpec ==
  DriverInit /\ [][DriverNext]_<<vars, driverVars>> /\ WF_<<vars, driverVars>>(GoesOn)

-----------------------------------------------------------------------------
JustReturned(fn) ==
  /\ at.access = 1 /\ returned.result = "ok"
  /\ session.calls[returned.call].fn = fn

Done == session.calls[returned.call]

(* What sc_load_ram and sc_wait_prefill say the chip holds when they return *)
(* SC_OK, it holds until the next access: the words and nothing else, and   *)
(* the frame's first bytes in order; whatever timed out in rounds before.   *)
(* A byte written raw once CORE_STATUS says that there is room has room, if *)
(* no write before it timed out: no STATUS older than that write is read.   *)
HeldByTheChip ==
  /\ session.patient /\ e_raw /\ H!tx_push => Len(tx_fifo) < DEPTH
  /\ JustReturned("sc_load_ram") => load_mode /\ H!LoadedBytes = Done.bytes
  /\ JustReturned("sc_wait_prefill") =>
       tx_fifo = SubSeq(Done.frame, 1, IF Done.n < Prefill THEN Done.n ELSE Prefill)

(* A call that returns SC_OK got its own request done: a raw access that    *)
(* comes after one that timed out never takes the late answer for its own,  *)
(* and a RUN has written its own slot and CORE_STATUS was read after it.    *)
AnswersItsOwn ==
  /\ JustReturned("sc_raw_read") => own = [taken |-> TRUE, by |-> {answer}]
  /\ JustReturned("sc_raw_write") => own = [taken |-> TRUE, by |-> {Done.value}]
  /\ JustReturned("sc_run_slot") =>
       own = [taken |-> TRUE, by |-> {Done.control}] /\ run = "read"

(* With patience every call returns that does not wait for the program, for *)
(* its end or its room: the ARM goes on from access to access and polls     *)
(* nothing for ever.                                                        *)
CallsReturn ==
  \/ <>[](~session.patient \/ Call.fn \in {"sc_wait_halted", "wait_room"})
  \/ []<><<at' /= at>>_at

(* A PUSH never waits forever on a full TX FIFO, full staging and a full    *)
(* ring: with the drain on and no requests ahead of it, the core's RX FIFO  *)
(* gets room, though staged bytes go first and an unread ring overflows.    *)
PushServed ==
  <>[](~ctrl.reset /\ ctrl.rx_en /\ ~run_busy /\ ~raw_busy_any)
    => (pushing /= <<>> ~> pushing = <<>>)

=============================================================================
