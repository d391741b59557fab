------------------------------ MODULE AxiHost ------------------------------
(***************************************************************************)
(* fpga/pynq_z2/smallcore_axi.v: the ARM's registers in front of the host   *)
(* engine.  Its input on a clock is the record `bus`:                       *)
(*   aresetn            the hard reset, low                                 *)
(*   valid, write       awvalid and wvalid with what is written; bready     *)
(*   arvalid, read      the register that is read; rready                   *)
(* AW and W come together, strobes select whole registers, and CTRL's pad   *)
(* select, SCRATCH and the registers that only report are not state here.   *)
(***************************************************************************)
EXTENDS HostEngine

CONSTANTS
  TX_DEPTH,     \* bytes of the TX staging FIFO, 2^TX_DEPTH_LOG2
  CountSize     \* the committed count wraps here, at 2^16

ASSUME StagingAssumption == TX_DEPTH \in Nat \ {0} /\ CountSize \in Nat \ {0, 1}

VARIABLES
  awready, bvalid, arready, rvalid,   \* the handshakes
  ctrl, slot,                         \* CTRL's reset and RX enable; SLOT
  run_p, rx_clear_p, raw_p, raw_req, raw_done_q,
  stg,                                \* the staged bytes, oldest first
  committed,
  s_axi_rdata                         \* RX_DATA as read last: valid, byte

axiVars == <<awready, bvalid, arready, rvalid, ctrl, slot, run_p, rx_clear_p,
             raw_p, raw_req, raw_done_q, stg, committed, s_axi_rdata>>

NothingRead == [valid |-> FALSE, byte |-> 0]

AxiInit ==
  /\ awready = FALSE /\ bvalid = FALSE /\ arready = FALSE /\ rvalid = FALSE
  /\ ctrl = [reset |-> FALSE, rx_en |-> FALSE] /\ slot = 0
  /\ run_p = FALSE /\ rx_clear_p = FALSE /\ raw_p = FALSE
  /\ raw_req = NoRaw /\ raw_done_q = FALSE
  /\ stg = <<>> /\ committed = 0
  /\ s_axi_rdata = NothingRead

-----------------------------------------------------------------------------
core_reset(bus) == ~bus.aresetn \/ ctrl.reset

(* One transfer per handshake: ready for a clock, then the response. *)

wr_accept(bus) == bus.valid /\ ~bvalid /\ ~awready

rd_accept(bus) == bus.arvalid /\ ~rvalid /\ ~arready

wr(bus) == awready /\ bus.valid

rd(bus) == arready /\ bus.arvalid

writes(bus, reg) == wr(bus) /\ bus.write.reg = reg

(* A staging FIFO that takes bytes when full. *)
stage_any(bus) == writes(bus, "TX_DATA")

stage(bus) == writes(bus, "TX_DATA") /\ Len(stg) < TX_DEPTH

flush(bus) == core_reset(bus) \/ (writes(bus, "COMMAND") /\ bus.write.flush)

commit_clear(bus) ==
  flush(bus) \/ (writes(bus, "COMMAND") /\ bus.write.commit_clear)

rx_pop(bus) == rd(bus) /\ bus.read = "RX_DATA" /\ rx_count /= 0

rx_head == rx_buf[rx_rd]

raw_busy_any == raw_p \/ raw_pending

(* A busy flag that forgets the pulse on its way to the engine, and one     *)
(* that is down as soon as CONTROL is taken.                                *)
run_busy_pending == run_p \/ ctrl_pending

run_busy == run_p \/ ctrl_busy

In(bus, rdata) ==
  [reset |-> core_reset(bus), rdata |-> rdata,
   ctrl_value |-> slot, ctrl_go |-> run_p,
   raw_go |-> raw_p, raw |-> raw_req,
   tx_valid |-> stg /= <<>>, tx_data |-> IF stg = <<>> THEN 0 ELSE Head(stg),
   rx_en |-> ctrl.rx_en, rx_clear |-> rx_clear_p, rx_pop |-> rx_pop(bus)]

-----------------------------------------------------------------------------
Staging(bus, in) ==
  LET kept == IF flush(bus) THEN <<>> ELSE IF take_tx(in) THEN Tail(stg) ELSE stg
  IN  /\ stg' = IF stage(bus) /\ ~flush(bus) THEN Append(kept, bus.write.byte) ELSE kept
      /\ committed' = IF commit_clear(bus) THEN 0
                      ELSE IF tx_commit(in) THEN (committed + 1) % CountSize
                      ELSE committed

(* The write channel and the registers it writes. *)
WriteSide(bus) ==
  IF ~bus.aresetn
    THEN /\ awready' = FALSE /\ bvalid' = FALSE
         /\ ctrl' = [reset |-> FALSE, rx_en |-> FALSE] /\ slot' = 0
         /\ run_p' = FALSE /\ rx_clear_p' = FALSE /\ raw_p' = FALSE
         /\ raw_req' = NoRaw /\ raw_done_q' = FALSE
    ELSE /\ awready' = wr_accept(bus)
         /\ bvalid' = (wr(bus) \/ (bvalid /\ ~bus.bready))
         /\ ctrl' = IF writes(bus, "CTRL") THEN bus.write.ctrl ELSE ctrl
         /\ slot' = IF writes(bus, "SLOT") THEN bus.write.slot ELSE slot
         /\ run_p' = (writes(bus, "COMMAND") /\ bus.write.run)
         /\ rx_clear_p' = (writes(bus, "COMMAND") /\ bus.write.rx_clear)
         /\ raw_p' = (writes(bus, "RAW") /\ ~raw_busy_any)
         /\ IF writes(bus, "RAW") /\ ~raw_busy_any
              THEN raw_req' = bus.write.raw /\ raw_done_q' = FALSE
              ELSE raw_req' = raw_req /\ raw_done_q' = (raw_done_q \/ raw_done)

ReadSide(bus) ==
  IF ~bus.aresetn
    THEN arready' = FALSE /\ rvalid' = FALSE /\ s_axi_rdata' = NothingRead
    ELSE /\ arready' = rd_accept(bus)
         /\ rvalid' = (rd(bus) \/ (rvalid /\ ~bus.rready))
         /\ s_axi_rdata' =
              IF rd(bus) /\ bus.read = "RX_DATA"
                THEN IF rx_count = 0 THEN NothingRead
                                     ELSE [valid |-> TRUE, byte |-> rx_head]
                ELSE s_axi_rdata

AxiClock(bus, rdata) ==
  LET in == In(bus, rdata)
  IN  /\ WriteSide(bus)
      /\ ReadSide(bus)
      /\ Staging(bus, in)
      /\ EngineClock(in)

=============================================================================
