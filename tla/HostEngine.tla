----------------------------- MODULE HostEngine -----------------------------
(***************************************************************************)
(* fpga/pynq_z2/can_host_engine.v, module host_engine: it owns the chip's   *)
(* host bus and turns commands into transactions to host.v's timing.  One   *)
(* clock is one step; `in` is the record of its input ports on that clock.  *)
(*                                                                         *)
(* Of the ports only the VIO client drives, manual (tied low by             *)
(* smallcore_axi.v) and the ring's read window rx_rd_idx are left out.      *)
(***************************************************************************)
EXTENDS Integers, Sequences

CONSTANT RX_SIZE      \* bytes of the RX ring, 2^RX_LOG2

ASSUME RingAssumption == RX_SIZE \in Nat \ {0}

VARIABLES
  state, count,                       \* the phase of a transaction, and its HIGH clocks
  e_we, e_re, e_addr, e_wdata,        \* the bus
  e_read, e_tx, e_raw,                \* what the transaction in flight is for
  status,                             \* the chip's STATUS as read last
  ctrl_go_d, raw_go_d, rx_clear_d,    \* the requests of the clock before
  ctrl_pending, ctrl_flight,
  raw_pending, raw_q, raw_done, raw_rdata,
  rx_buf, rx_wr, rx_rd, rx_count, rx_overflow

busVars == <<state, count, e_we, e_re, e_addr, e_wdata, e_read, e_tx, e_raw,
             status, ctrl_flight, raw_rdata>>

requestVars == <<ctrl_go_d, raw_go_d, ctrl_pending, raw_pending, raw_q, raw_done>>

ringVars == <<rx_clear_d, rx_buf, rx_wr, rx_rd, rx_count, rx_overflow>>

engineVars == <<busVars, requestVars, ringVars>>

NoRaw == [write |-> FALSE, addr |-> 0, wdata |-> 0, pop |-> FALSE]

Flag(byte, bit) == (byte \div bit) % 2 = 1

EngineInit ==
  /\ state = "LOW0" /\ count = 0
  /\ e_we = FALSE /\ e_re = FALSE /\ e_addr = 2 /\ e_wdata = 0
  /\ e_read = FALSE /\ e_tx = FALSE /\ e_raw = FALSE
  /\ status = 5
  /\ ctrl_go_d = FALSE /\ raw_go_d = FALSE /\ rx_clear_d = FALSE
  /\ ctrl_pending = FALSE /\ ctrl_flight = FALSE
  /\ raw_pending = FALSE /\ raw_q = NoRaw /\ raw_done = FALSE /\ raw_rdata = 0
  /\ rx_buf = [a \in 0 .. RX_SIZE - 1 |-> 0]
  /\ rx_wr = 0 /\ rx_rd = 0 /\ rx_count = 0 /\ rx_overflow = FALSE

-----------------------------------------------------------------------------
(* The decision of STAT, in priority order. *)

deciding(in) == ~in.reset /\ state = "STAT"

take_ctrl(in) == deciding(in) /\ ctrl_pending

take_raw(in) == deciding(in) /\ ~ctrl_pending /\ raw_pending

(* A decision that forgets to look at STATUS. *)
take_tx_blind(in) ==
  deciding(in) /\ ~ctrl_pending /\ ~raw_pending /\ in.tx_valid

take_tx(in) ==
  deciding(in) /\ ~ctrl_pending /\ ~raw_pending /\ in.tx_valid /\ ~Flag(in.rdata, 2)

(* A drain that waits for staging to be empty, not for nothing to take. *)
take_rx_unstaged(in) ==
  /\ deciding(in) /\ ~ctrl_pending /\ ~raw_pending
  /\ ~in.tx_valid /\ in.rx_en /\ ~Flag(in.rdata, 1)

take_rx(in) ==
  /\ deciding(in) /\ ~ctrl_pending /\ ~raw_pending
  /\ ~ (in.tx_valid /\ ~Flag(in.rdata, 2))
  /\ in.rx_en /\ ~Flag(in.rdata, 1)

(* The last HIGH clock, and one clock short of it. *)
high_done_early == count = 2

high_done == count = 3

last_high(in) == ~in.reset /\ state = "HIGH" /\ high_done

(* A commit when the strobe rises, before host.v has acted. *)
tx_commit_early(in) == ~in.reset /\ state = "HIGH" /\ count = 0 /\ e_tx

tx_commit(in) == last_high(in) /\ e_tx

ctrl_busy == ctrl_pending \/ ctrl_flight

-----------------------------------------------------------------------------
(* The requests.  CONTROL taken on the clock another one rises is that one  *)
(* too; a raw request ends with its strobe, with its read, or with a reset. *)

raw_accepted(in) == in.raw_go /\ ~raw_go_d /\ ~raw_pending

(* A reset that drops a raw request without finishing it. *)
raw_ends_unreset(in) ==
  \/ ~in.reset /\ state = "SETUP" /\ e_raw /\ ~raw_q.write /\ ~raw_q.pop
  \/ last_high(in) /\ e_raw

(* Every request finished by its strobe, as if a plain read had one. *)
raw_ends_strobed(in) ==
  \/ in.reset /\ raw_pending
  \/ last_high(in) /\ e_raw

raw_ends(in) ==
  \/ in.reset /\ raw_pending
  \/ ~in.reset /\ state = "SETUP" /\ e_raw /\ ~raw_q.write /\ ~raw_q.pop
  \/ last_high(in) /\ e_raw

Requests(in) ==
  /\ ctrl_go_d' = in.ctrl_go
  /\ raw_go_d' = in.raw_go
  /\ ctrl_pending' = (~take_ctrl(in) /\ (ctrl_pending \/ (in.ctrl_go /\ ~ctrl_go_d)))
  /\ raw_pending' = (~raw_ends(in) /\ (raw_pending \/ raw_accepted(in)))
  /\ raw_q' = IF raw_accepted(in) THEN in.raw ELSE raw_q
  /\ raw_done' = raw_ends(in)

-----------------------------------------------------------------------------
(* The RX ring.  Later assignments of a clock win: a byte stored on the     *)
(* clock of a clear keeps the write pointer and the count from being reset. *)

captures(in) == ~in.reset /\ state = "SETUP" /\ e_read

stores(in) == captures(in) /\ rx_count < RX_SIZE

clears(in) == in.rx_clear /\ ~rx_clear_d

pops(in) == in.rx_pop /\ rx_count /= 0

After(a) == (a + 1) % RX_SIZE

stored_count(in) == rx_count + 1 - (IF pops(in) THEN 1 ELSE 0)

Ring(in) ==
  /\ rx_clear_d' = in.rx_clear
  /\ rx_buf' = IF stores(in) THEN [rx_buf EXCEPT ![rx_wr] = in.rdata] ELSE rx_buf
  /\ rx_wr' = IF stores(in) THEN After(rx_wr) ELSE IF clears(in) THEN 0 ELSE rx_wr
  /\ rx_rd' = IF clears(in) THEN 0 ELSE IF pops(in) THEN After(rx_rd) ELSE rx_rd
  /\ rx_count' = IF stores(in) THEN stored_count(in)
                 ELSE IF clears(in) THEN 0
                 ELSE IF pops(in) THEN rx_count - 1 ELSE rx_count
  /\ rx_overflow' = ((captures(in) /\ ~stores(in)) \/ (rx_overflow /\ ~clears(in)))

-----------------------------------------------------------------------------
(* The bus, phase by phase. *)

Hold(in) ==
  /\ in.reset
  /\ state' = "LOW0" /\ count' = 0
  /\ e_we' = FALSE /\ e_re' = FALSE /\ e_addr' = 2
  /\ e_tx' = FALSE /\ e_raw' = FALSE
  /\ ctrl_flight' = FALSE
  /\ UNCHANGED <<e_wdata, e_read, status, raw_rdata>>

Low0(in) ==
  /\ ~in.reset /\ state = "LOW0"
  /\ e_addr' = 2
  /\ state' = "STAT"
  /\ UNCHANGED <<count, e_we, e_re, e_wdata, e_read, e_tx, e_raw, status,
                 ctrl_flight, raw_rdata>>

Stat(in) ==
  /\ deciding(in)
  /\ status' = in.rdata % 8
  /\ ctrl_flight' = take_ctrl(in)
  /\ e_raw' = take_raw(in)
  /\ e_tx' = take_tx(in)
  /\ e_read' = take_rx(in)
  /\ e_addr' = CASE take_ctrl(in) -> 3
                 [] take_raw(in) -> raw_q.addr
                 [] take_tx(in) -> 0
                 [] take_rx(in) -> 1
                 [] OTHER -> e_addr
  /\ e_wdata' = CASE take_ctrl(in) -> in.ctrl_value
                  [] take_raw(in) -> raw_q.wdata
                  [] take_tx(in) -> in.tx_data
                  [] OTHER -> e_wdata
  /\ state' = IF take_ctrl(in) \/ take_raw(in) \/ take_tx(in) \/ take_rx(in)
                THEN "SETUP" ELSE "STAT"
  /\ UNCHANGED <<count, e_we, e_re, raw_rdata>>

(* A raw read without a pop needs no strobe. *)
Setup(in) ==
  /\ ~in.reset /\ state = "SETUP"
  /\ count' = 0
  /\ LET raw_read == e_raw /\ ~raw_q.write IN
       /\ raw_rdata' = IF raw_read THEN in.rdata ELSE raw_rdata
       /\ e_re' = IF raw_read THEN raw_q.pop ELSE e_read
       /\ e_we' = (~raw_read /\ ~e_read)
       /\ state' = IF raw_read /\ ~raw_q.pop THEN "LOW0" ELSE "HIGH"
  /\ UNCHANGED <<e_addr, e_wdata, e_read, e_tx, e_raw, status, ctrl_flight>>

High(in) ==
  /\ ~in.reset /\ state = "HIGH"
  /\ count' = (count + 1) % 8
  /\ IF high_done
       THEN e_we' = FALSE /\ e_re' = FALSE /\ state' = "LOW0"
       ELSE UNCHANGED <<e_we, e_re, state>>
  /\ UNCHANGED <<e_addr, e_wdata, e_read, e_tx, e_raw, status, ctrl_flight, raw_rdata>>

EngineClock(in) ==
  /\ Requests(in)
  /\ Ring(in)
  /\ Hold(in) \/ Low0(in) \/ Stat(in) \/ Setup(in) \/ High(in)

=============================================================================
