------------------------------ MODULE AxiProofs ------------------------------
(***************************************************************************)
(* Theorems about the ARM's peripheral in front of the chip, for every ring *)
(* and staging size, every FIFO depth, every set of things the ARM may do   *)
(* and every order and time in which it does them; that it implements       *)
(* AxiService; and last, what the driver's calls get from it.               *)
(***************************************************************************)
EXTENDS ArmDriver, SequenceTheorems, WellFoundedInduction, TLAPS

Octet == 0 .. 255

RawRequest == [write : BOOLEAN, addr : 0 .. 3, wdata : Octet, pop : BOOLEAN]

-----------------------------------------------------------------------------
(* The inductive invariant: types, then what each phase of a transaction    *)
(* says of the strobes and of the host's synchronizers.                     *)

EngineTypes ==
  /\ state \in {"LOW0", "STAT", "SETUP", "HIGH"}
  /\ count \in 0 .. 4 /\ (state = "HIGH" => count <= 3)
  /\ e_addr \in 0 .. 3 /\ e_wdata \in Octet
  /\ status \in 0 .. 7 /\ raw_rdata \in Octet
  /\ raw_q \in RawRequest

RingTypes ==
  /\ rx_wr \in 0 .. RX_SIZE - 1 /\ rx_rd \in 0 .. RX_SIZE - 1
  /\ rx_count \in 0 .. RX_SIZE
  /\ rx_buf \in [0 .. RX_SIZE - 1 -> Octet]

PeripheralTypes ==
  /\ session \in Sessions
  /\ ctrl \in [reset : BOOLEAN, rx_en : BOOLEAN]
  /\ slot \in Octet
  /\ raw_req \in RawRequest
  /\ stg \in Seq(Octet) /\ Len(stg) <= TX_DEPTH
  /\ committed \in 0 .. CountSize - 1

ChipTypes ==
  /\ tx_fifo \in Seq(Octet) /\ Len(tx_fifo) <= DEPTH
  /\ rx_fifo \in Seq(Octet) /\ Len(rx_fifo) <= DEPTH
  /\ sel \in 0 .. 15
  /\ pushing \in {<<>>} \cup {<<b>> : b \in Octet}

(* A strobe is up in HIGH and at no other time, and whose it is.            *)
Phases ==
  /\ state = "HIGH" <=> (e_we \/ e_re)
  /\ ~ (e_we /\ e_re)
  /\ state = "HIGH" /\ e_tx => e_we
  /\ ~ (e_read /\ e_tx) /\ ~ (e_read /\ e_raw) /\ ~ (e_tx /\ e_raw)

Types == EngineTypes /\ RingTypes /\ PeripheralTypes /\ ChipTypes /\ Phases

-----------------------------------------------------------------------------
(* Bytes and the ports they pass. *)

LEMMA TypesGiveAxiTypes == Types => AxiTypeOK
BY DEF Types, EngineTypes, RingTypes, PeripheralTypes, ChipTypes, Phases, AxiTypeOK, Octet

LEMMA HeadIsOctet ==
  ASSUME NEW q \in Seq(Octet), q /= <<>>
  PROVE  Head(q) \in Octet /\ Tail(q) \in Seq(Octet) /\ Len(Tail(q)) = Len(q) - 1
BY HeadTailProperties

LEMMA HostRdataType ==
  ASSUME Types
  PROVE  host_rdata \in Octet
<1>1. rx_fifo /= <<>> => Head(rx_fifo) \in Octet
  BY HeadIsOctet DEF Types, ChipTypes
<1>2. e_addr \in 0 .. 3 /\ sel \in 0 .. 15
  BY DEF Types, EngineTypes, ChipTypes
<1> QED BY <1>1, <1>2 DEF host_rdata, H!TX_DATA, H!RX_DATA, H!STATUS, H!CONTROL, Octet

(* What a write on the bus carries. *)
LEMMA WriteTypes ==
  ASSUME Types, NEW bus \in Bus, wr(bus)
  PROVE  Fits(bus.write)
<1>1. awready
  BY DEF wr
<1>2. bus.write \in session.writes
  BY <1>1 DEF Bus
<1> QED BY <1>2, SessionsAssumption DEF Types, PeripheralTypes

(* The engine's ports. *)
LEMMA PortTypes ==
  ASSUME Types, NEW bus \in Bus
  PROVE  LET in == In(bus, host_rdata)
         IN  /\ in.reset = core_reset(bus) /\ in.rdata = host_rdata
             /\ in.rdata \in Octet
             /\ in.ctrl_value = slot /\ in.ctrl_value \in Octet
             /\ in.ctrl_go = run_p /\ in.raw_go = raw_p
             /\ in.raw = raw_req /\ in.raw \in RawRequest
             /\ in.tx_valid = (stg /= <<>>)
             /\ in.tx_data \in Octet
             /\ stg /= <<>> => in.tx_data = Head(stg)
             /\ in.rx_en = ctrl.rx_en /\ in.rx_clear = rx_clear_p
             /\ in.rx_pop = rx_pop(bus)
<1>1. stg /= <<>> => Head(stg) \in Octet
  BY HeadIsOctet DEF Types, PeripheralTypes
<1>2. 0 \in Octet
  BY DEF Octet
<1> QED BY <1>1, <1>2, HostRdataType DEF In, Types, PeripheralTypes

-----------------------------------------------------------------------------
(* The engine, whatever its ports carry. *)

LEMMA EngineStep ==
  ASSUME Types, NEW in, EngineClock(in),
         in.rdata \in Octet, in.ctrl_value \in Octet, in.tx_data \in Octet, in.raw \in RawRequest
  PROVE  EngineTypes' /\ Phases'
<1>1. EngineTypes /\ Phases
  BY DEF Types
<1>2. raw_q' \in RawRequest
  BY <1>1 DEF EngineClock, Requests, EngineTypes
<1>3. CASE Hold(in)
  <2>1. /\ state' = "LOW0" /\ count' = 0 /\ e_we' = FALSE /\ e_re' = FALSE /\ e_addr' = 2
        /\ e_tx' = FALSE /\ e_raw' = FALSE /\ UNCHANGED <<e_wdata, e_read, status, raw_rdata>>
    BY <1>3 DEF Hold
  <2>2. EngineTypes'
    BY <1>1, <1>2, <2>1 DEF EngineTypes
  <2> QED BY <2>1, <2>2 DEF Phases
<1>4. CASE Low0(in)
  BY <1>1, <1>2, <1>4 DEF Low0, EngineTypes, Phases
<1>5. CASE Stat(in)
  <2>1. raw_q.addr \in 0 .. 3 /\ raw_q.wdata \in Octet /\ in.rdata % 8 \in 0 .. 7
    BY <1>1 DEF EngineTypes, RawRequest, Octet
  <2>2. /\ take_ctrl(in) \in BOOLEAN /\ take_raw(in) \in BOOLEAN
        /\ take_tx(in) \in BOOLEAN /\ take_rx(in) \in BOOLEAN
        /\ ~ (take_rx(in) /\ take_tx(in)) /\ ~ (take_rx(in) /\ take_raw(in))
        /\ ~ (take_tx(in) /\ take_raw(in))
    BY DEF take_ctrl, take_raw, take_tx, take_rx
  <2>3. state = "STAT" /\ state' \in {"STAT", "SETUP"} /\ UNCHANGED <<count, e_we, e_re, raw_rdata>>
    BY <1>5 DEF Stat, deciding
  <2>4. e_addr' \in 0 .. 3 /\ e_wdata' \in Octet /\ status' \in 0 .. 7
    BY <1>1, <1>5, <2>1 DEF Stat, EngineTypes
  <2>5. e_read' = take_rx(in) /\ e_tx' = take_tx(in) /\ e_raw' = take_raw(in)
    BY <1>5 DEF Stat
  <2> QED BY <1>1, <1>2, <2>2, <2>3, <2>4, <2>5 DEF EngineTypes, Phases
<1>6. CASE Setup(in)
  <2>1. raw_q.pop \in BOOLEAN /\ raw_q.write \in BOOLEAN
    BY <1>1 DEF EngineTypes, RawRequest
  <2>2. /\ state = "SETUP" /\ count' = 0 /\ state' \in {"LOW0", "HIGH"}
        /\ UNCHANGED <<e_addr, e_wdata, e_read, e_tx, e_raw, status>>
    BY <1>6 DEF Setup
  <2>4. raw_rdata' \in Octet
    BY <1>1, <1>6, <2>1 DEF Setup, EngineTypes
  <2>5. EngineTypes'
    BY <1>1, <1>2, <2>2, <2>4 DEF EngineTypes
  <2>6. /\ ~ (e_read /\ e_tx) /\ ~ (e_read /\ e_raw) /\ ~ (e_tx /\ e_raw)
    BY <1>1 DEF Phases
  <2>7. /\ state' = "HIGH" <=> (e_we' \/ e_re')
        /\ ~ (e_we' /\ e_re')
        /\ state' = "HIGH" /\ e_tx => e_we'
    BY <1>6, <2>1, <2>6 DEF Setup
  <2> QED BY <2>2, <2>5, <2>6, <2>7 DEF Phases
<1>7. CASE High(in)
  <2>1. count \in 0 .. 3 /\ count' = count + 1
    BY <1>1, <1>7 DEF High, EngineTypes
  <2>2. /\ state = "HIGH" /\ UNCHANGED <<e_addr, e_wdata, e_read, e_tx, e_raw, status, raw_rdata>>
        /\ IF count = 3 THEN e_we' = FALSE /\ e_re' = FALSE /\ state' = "LOW0"
                        ELSE UNCHANGED <<e_we, e_re, state>>
    BY <1>7 DEF High, high_done
  <2>3. EngineTypes'
    BY <1>1, <1>2, <2>1, <2>2 DEF EngineTypes
  <2>4. Phases'
    BY <1>1, <2>2 DEF Phases
  <2> QED BY <2>3, <2>4
<1> QED BY <1>3, <1>4, <1>5, <1>6, <1>7 DEF EngineClock

LEMMA RingStep ==
  ASSUME Types, NEW in, Ring(in), in.rdata \in Octet
  PROVE  RingTypes'
<1>1. RingTypes /\ RX_SIZE \in Nat \ {0}
  BY RingAssumption DEF Types
<1>2. 0 \in 0 .. RX_SIZE - 1 /\ \A a \in 0 .. RX_SIZE - 1 : After(a) \in 0 .. RX_SIZE - 1
  BY <1>1 DEF After
<1>3. rx_buf' \in [0 .. RX_SIZE - 1 -> Octet]
  BY <1>1 DEF Ring, RingTypes
<1>4. rx_wr' \in 0 .. RX_SIZE - 1 /\ rx_rd' \in 0 .. RX_SIZE - 1
  BY <1>1, <1>2 DEF Ring, RingTypes
<1>5. rx_count' \in 0 .. RX_SIZE
  BY <1>1 DEF Ring, RingTypes, stored_count, stores, pops
<1> QED BY <1>3, <1>4, <1>5 DEF RingTypes

-----------------------------------------------------------------------------
(* The rest of the peripheral, and the chip. *)

LEMMA PeripheralStep ==
  ASSUME Types, NEW bus \in Bus, Clock(bus)
  PROVE  PeripheralTypes'
<1> DEFINE in == In(bus, host_rdata)
<1>1. PeripheralTypes
  BY DEF Types
<1>2. WriteSide(bus) /\ Staging(bus, in) /\ session' = session
  BY DEF Clock, AxiClock
<1>3. wr(bus) => Fits(bus.write)
  BY WriteTypes
<1> HIDE DEF in
<1>4. ctrl' \in [reset : BOOLEAN, rx_en : BOOLEAN] /\ slot' \in Octet
  <2>1. /\ ctrl' \in {ctrl, [reset |-> FALSE, rx_en |-> FALSE]} \/ (writes(bus, "CTRL") /\ ctrl' = bus.write.ctrl)
        /\ slot' \in {slot, 0} \/ (writes(bus, "SLOT") /\ slot' = bus.write.slot)
    BY <1>2 DEF WriteSide
  <2>2. /\ writes(bus, "CTRL") => bus.write.ctrl \in [reset : BOOLEAN, rx_en : BOOLEAN]
        /\ writes(bus, "SLOT") => bus.write.slot \in Octet
    BY <1>3 DEF writes, Fits, Octet
  <2>3. [reset |-> FALSE, rx_en |-> FALSE] \in [reset : BOOLEAN, rx_en : BOOLEAN] /\ 0 \in Octet
    BY DEF Octet
  <2>4. ctrl \in [reset : BOOLEAN, rx_en : BOOLEAN] /\ slot \in Octet
    BY <1>1 DEF PeripheralTypes
  <2>5. ctrl' \in [reset : BOOLEAN, rx_en : BOOLEAN]
    BY <2>1, <2>2, <2>3, <2>4
  <2>6. slot' \in Octet
    BY <2>1, <2>2, <2>3, <2>4
  <2> QED BY <2>5, <2>6
<1>5. raw_req' \in RawRequest
  <2>1. raw_req' \in {raw_req, NoRaw} \/ (writes(bus, "RAW") /\ raw_req' = bus.write.raw)
    BY <1>2 DEF WriteSide
  <2>2. writes(bus, "RAW") => bus.write.raw \in RawRequest
    BY <1>3 DEF writes, Fits, RawRequest, Octet
  <2>3. NoRaw \in RawRequest
    BY DEF NoRaw, RawRequest, Octet
  <2> QED BY <1>1, <2>1, <2>2, <2>3 DEF PeripheralTypes
<1>6. committed' \in 0 .. CountSize - 1
  BY <1>1, <1>2, StagingAssumption DEF Staging, PeripheralTypes
<1>7. stg' \in Seq(Octet) /\ Len(stg') <= TX_DEPTH
  <2> DEFINE kept == IF flush(bus) THEN <<>> ELSE IF take_tx(in) THEN Tail(stg) ELSE stg
  <2>1. stg \in Seq(Octet) /\ Len(stg) <= TX_DEPTH /\ TX_DEPTH \in Nat
    BY <1>1, StagingAssumption DEF PeripheralTypes
  <2>2. take_tx(in) => stg /= <<>>
    BY PortTypes DEF take_tx, in
  <2>3. kept \in Seq(Octet) /\ Len(kept) <= Len(stg)
    BY <2>1, <2>2, HeadIsOctet
  <2>4. stage(bus) => Len(stg) < TX_DEPTH /\ bus.write.byte \in Octet
    BY <1>3 DEF stage, writes, Fits, Octet
  <2>5. stg' = IF stage(bus) /\ ~flush(bus) THEN Append(kept, bus.write.byte) ELSE kept
    BY <1>2 DEF Staging
  <2> HIDE DEF kept
  <2> QED BY <2>1, <2>3, <2>4, <2>5, AppendProperties
<1>8. session' \in Sessions
  BY <1>1, <1>2 DEF PeripheralTypes
<1> QED BY <1>4, <1>5, <1>6, <1>7, <1>8 DEF PeripheralTypes

(* A queue stays a queue within its depth. *)
LEMMA AdvanceOctets ==
  ASSUME NEW q \in Seq(Octet), Len(q) <= DEPTH,
         NEW push \in BOOLEAN, NEW pop \in BOOLEAN, NEW byte, push => byte \in Octet
  PROVE  /\ Fifo!Advance(q, push, pop, byte) \in Seq(Octet)
         /\ Len(Fifo!Advance(q, push, pop, byte)) <= DEPTH
<1> DEFINE r == Fifo!Remaining(q, pop)
<1>1. Len(q) \in Nat /\ DEPTH \in Nat \ {0}
  BY ChipAssumption
<1>2. /\ r \in Seq(Octet) /\ Len(r) <= Len(q)
      /\ pop /\ q /= <<>> => Len(r) = Len(q) - 1
  BY HeadIsOctet DEF Fifo!Remaining
<1>3. Fifo!Accepts(q, pop) => Len(r) < DEPTH
  <2>1. q = <<>> => Len(q) = 0
    OBVIOUS
  <2> QED BY <1>1, <1>2, <2>1 DEF Fifo!Accepts
<1>4. push => Append(r, byte) \in Seq(Octet) /\ Len(Append(r, byte)) = Len(r) + 1
  BY <1>2, AppendProperties
<1> HIDE DEF r
<1>5. Fifo!Advance(q, push, pop, byte)
        = IF push /\ Fifo!Accepts(q, pop) THEN Append(r, byte) ELSE r
  BY DEF Fifo!Advance, r
<1>6. Len(r) \in Nat
  BY <1>2
<1> QED BY <1>1, <1>2, <1>3, <1>4, <1>5, <1>6

LEMMA EmptyFits == ASSUME NEW n, n = 0 PROVE n <= DEPTH
<1>1. 0 <= DEPTH
  BY ChipAssumption
<1> QED BY <1>1

LEMMA ChipStep ==
  ASSUME Types, NEW bus \in Bus, Clock(bus)
  PROVE  ChipTypes'
<1>1. ChipTypes /\ e_wdata \in Octet /\ session.bytes \subseteq Octet
  BY SessionsAssumption DEF Types, PeripheralTypes, EngineTypes, Octet
<1>2. CASE core_reset(bus)
  <2>1. ChipReset
    BY <1>2 DEF Clock
  <2>2. /\ tx_fifo' \in Seq(Octet) /\ Len(tx_fifo') = 0
        /\ rx_fifo' \in Seq(Octet) /\ Len(rx_fifo') = 0
    BY <2>1 DEF ChipReset
  <2>3. sel' = 0 /\ pushing' = <<>>
    BY <2>1 DEF ChipReset, H!HostReset
  <2>4. Len(tx_fifo') <= DEPTH /\ Len(rx_fifo') <= DEPTH
    BY <2>2, EmptyFits
  <2> QED BY <2>2, <2>3, <2>4 DEF ChipTypes
<1>3. CASE ~ core_reset(bus)
  <2>1. PICK pull \in BOOLEAN, pushed \in {<<>>} \cup {<<b>> : b \in session.bytes} :
          ChipClock(pull, pushed)
    BY <1>3 DEF Clock
  <2>2. pushed /= <<>> => Head(pushed) \in Octet
    BY <1>1, <2>1
  <2>3. tx_fifo' \in Seq(Octet) /\ Len(tx_fifo') <= DEPTH
    <3>1. tx_fifo' = Fifo!Advance(tx_fifo, H!tx_push, pull, e_wdata)
      BY <2>1 DEF ChipClock
    <3>2. H!tx_push \in BOOLEAN
      BY DEF H!tx_push
    <3> QED BY <1>1, <3>1, <3>2, AdvanceOctets DEF ChipTypes
  <2>4. rx_fifo' \in Seq(Octet) /\ Len(rx_fifo') <= DEPTH
    <3> DEFINE byte == IF pushed = <<>> THEN 0 ELSE Head(pushed)
    <3>1. rx_fifo' = Fifo!Advance(rx_fifo, pushed /= <<>>, H!rx_pop, byte)
      BY <2>1 DEF ChipClock
    <3>2. H!rx_pop \in BOOLEAN /\ (pushed /= <<>>) \in BOOLEAN
      BY DEF H!rx_pop
    <3> QED BY <1>1, <2>2, <3>1, <3>2, AdvanceOctets DEF ChipTypes
  <2>5. sel' \in 0 .. 15
    <3>1. e_wdata % 16 \in 0 .. 15
      BY <1>1 DEF Octet
    <3> QED BY <1>1, <2>1, <3>1
            DEF ChipClock, H!HostClock, H!Command, H!ProgramByte, ChipTypes
  <2>6. pushing' \in {<<>>} \cup {<<b>> : b \in Octet}
    BY <1>1, <2>1 DEF ChipClock, CoreRestarts, CoreRuns, CoreIdle, ChipTypes
  <2> QED BY <2>3, <2>4, <2>5, <2>6 DEF ChipTypes
<1> QED BY <1>2, <1>3

LEMMA TypesStep == Types /\ [Next]_vars => Types'
<1>1. ASSUME Types, NEW bus \in Bus, Clock(bus) PROVE Types'
  <2>1. EngineClock(In(bus, host_rdata)) /\ Ring(In(bus, host_rdata))
    BY <1>1 DEF Clock, AxiClock, EngineClock
  <2>2. EngineTypes' /\ Phases' /\ RingTypes'
    BY <1>1, <2>1, PortTypes, EngineStep, RingStep
  <2> QED BY <1>1, <2>2, PeripheralStep, ChipStep DEF Types
<1>2. ASSUME Types, UNCHANGED vars PROVE Types'
  BY <1>2 DEF vars, engineVars, busVars, requestVars, ringVars, axiVars, chipVars, hostRegs,
              Types, EngineTypes, RingTypes, PeripheralTypes, ChipTypes, Phases
<1> QED BY <1>1, <1>2 DEF Next

LEMMA InitTypes == Init => Types
<1> SUFFICES ASSUME Init PROVE Types
  OBVIOUS
<1>1. EngineTypes
  BY DEF Init, EngineInit, EngineTypes, NoRaw, RawRequest, Octet
<1>2. Phases
  BY DEF Init, EngineInit, Phases
<1>3. RingTypes
  BY RingAssumption DEF Init, EngineInit, RingTypes, Octet
<1>4. PeripheralTypes
  BY StagingAssumption DEF Init, AxiInit, PeripheralTypes, NoRaw, RawRequest, Octet
<1>5. ChipTypes
  <2>1. /\ tx_fifo \in Seq(Octet) /\ Len(tx_fifo) = 0
        /\ rx_fifo \in Seq(Octet) /\ Len(rx_fifo) = 0
        /\ sel = 0 /\ pushing = <<>>
    BY DEF Init
  <2>2. Len(tx_fifo) <= DEPTH /\ Len(rx_fifo) <= DEPTH
    BY <2>1, EmptyFits
  <2> QED BY <2>1, <2>2 DEF ChipTypes
<1> QED BY <1>1, <1>2, <1>3, <1>4, <1>5 DEF Types

(* Every register of the peripheral keeps its width, the ring, the staging  *)
(* FIFO and the chip's FIFOs their size, and a transaction one owner, in    *)
(* any traffic.                                                             *)
THEOREM TypeCorrect == Spec => []AxiTypeOK
BY InitTypes, TypesStep, TypesGiveAxiTypes, PTL DEF Spec

-----------------------------------------------------------------------------
(* The strobes and the synchronizers of host.v. *)

(* How far a strobe, or its end, has come through a synchronizer.           *)
Syncs(s, pin) ==
  /\ s \in [0 .. 2 -> BOOLEAN]
  /\ state = "LOW0" => (s[0] => s[1]) /\ (s[1] => s[2])
  /\ state = "STAT" => ~s[0] /\ (s[1] => s[2])
  /\ state = "SETUP" => ~s[0] /\ ~s[1]
  /\ state = "HIGH" => /\ s[0] <=> pin /\ count \in 1 .. 3
                       /\ s[1] <=> pin /\ count \in 2 .. 3
                       /\ s[2] <=> pin /\ count = 3

Synchronized == Syncs(we_sync, H!we) /\ Syncs(re_sync, H!re)

LEMMA Pins == (H!we <=> e_we) /\ (H!re <=> ~e_we /\ e_re)
BY DEF H!we, H!re, Strobe

(* What a clock may do to the phase and the strobes.                        *)
LEMMA Moves ==
  ASSUME Types, NEW in, EngineClock(in)
  PROVE  \/ in.reset /\ state' = "LOW0" /\ e_we' = FALSE /\ e_re' = FALSE
         \/ ~in.reset /\ state = "LOW0" /\ state' = "STAT" /\ UNCHANGED <<e_we, e_re>>
         \/ /\ ~in.reset /\ state = "STAT" /\ state' \in {"STAT", "SETUP"}
            /\ UNCHANGED <<e_we, e_re>>
         \/ ~in.reset /\ state = "SETUP" /\ state' = "LOW0" /\ e_we' = FALSE /\ e_re' = FALSE
         \/ ~in.reset /\ state = "SETUP" /\ state' = "HIGH" /\ count' = 0
         \/ /\ ~in.reset /\ state = "HIGH" /\ state' = "HIGH"
            /\ count \in 0 .. 2 /\ count' = count + 1 /\ UNCHANGED <<e_we, e_re>>
         \/ /\ ~in.reset /\ state = "HIGH" /\ count = 3 /\ state' = "LOW0"
            /\ e_we' = FALSE /\ e_re' = FALSE
<1>1. CASE Hold(in)
  BY <1>1 DEF Hold
<1>2. CASE Low0(in)
  BY <1>2 DEF Low0
<1>3. CASE Stat(in)
  BY <1>3 DEF Stat, deciding
<1>4. CASE Setup(in)
  <2>1. raw_q.pop \in BOOLEAN /\ raw_q.write \in BOOLEAN
    BY DEF Types, EngineTypes, RawRequest
  <2> QED BY <1>4, <2>1 DEF Setup
<1>5. CASE High(in)
  <2>1. count \in 0 .. 3
    BY <1>5 DEF High, Types, EngineTypes
  <2>2. count' = count + 1
    BY <1>5, <2>1 DEF High
  <2> QED BY <1>5, <2>1, <2>2 DEF High, high_done
<1> QED BY <1>1, <1>2, <1>3, <1>4, <1>5 DEF EngineClock

(* A synchronizer on a clock.                                               *)
LEMMA SyncsStep ==
  ASSUME Types, NEW in, EngineClock(in), ~in.reset,
         NEW s, NEW pin \in BOOLEAN, NEW pinNext \in BOOLEAN,
         Syncs(s, pin),
         state /= "HIGH" => ~pin,
         state = "HIGH" /\ state' = "HIGH" => pinNext = pin
  PROVE  LET t == H!Synced(s, pin)
         IN  /\ t \in [0 .. 2 -> BOOLEAN]
             /\ state' = "LOW0" => (t[0] => t[1]) /\ (t[1] => t[2])
             /\ state' = "STAT" => ~t[0] /\ (t[1] => t[2])
             /\ state' = "SETUP" => ~t[0] /\ ~t[1]
             /\ state' = "HIGH" => /\ t[0] <=> pinNext /\ count' \in 1 .. 3
                                   /\ t[1] <=> pinNext /\ count' \in 2 .. 3
                                   /\ t[2] <=> pinNext /\ count' = 3
<1> DEFINE t == H!Synced(s, pin)
<1>1. t \in [0 .. 2 -> BOOLEAN] /\ (t[0] <=> pin) /\ (t[1] <=> s[0]) /\ (t[2] <=> s[1])
  BY DEF H!Synced, Syncs
<1> HIDE DEF t
<1>2. state' \in {"LOW0", "STAT", "SETUP", "HIGH"}
  BY Moves
<1>3. state' = "LOW0" => (t[0] => t[1]) /\ (t[1] => t[2])
  <2>1. state' = "LOW0" => state = "SETUP" \/ (state = "HIGH" /\ count = 3)
    BY Moves
  <2>2. state = "HIGH" /\ count = 3 => (s[0] <=> pin) /\ (s[1] <=> pin)
    BY DEF Syncs
  <2>3. state = "SETUP" => ~s[0] /\ ~s[1] /\ ~pin
    BY DEF Syncs
  <2> QED BY <1>1, <2>1, <2>2, <2>3
<1>4. state' = "STAT" => ~t[0] /\ (t[1] => t[2])
  <2>1. state' = "STAT" => state \in {"LOW0", "STAT"}
    BY Moves
  <2>2. state \in {"LOW0", "STAT"} => ~pin /\ (s[0] => s[1])
    BY DEF Syncs
  <2> QED BY <1>1, <2>1, <2>2
<1>5. state' = "SETUP" => ~t[0] /\ ~t[1]
  <2>1. state' = "SETUP" => state = "STAT"
    BY Moves
  <2>2. state = "STAT" => ~pin /\ ~s[0]
    BY DEF Syncs
  <2> QED BY <1>1, <2>1, <2>2
<1>6. ASSUME state' = "HIGH"
      PROVE  /\ t[0] <=> pinNext /\ count' \in 1 .. 3
             /\ t[1] <=> pinNext /\ count' \in 2 .. 3
             /\ t[2] <=> pinNext /\ count' = 3
  <2>1. CASE state = "SETUP"
    <3>1. count' = 0
      BY <1>6, <2>1, Moves
    <3>2. ~pin /\ ~s[0] /\ ~s[1]
      BY <2>1 DEF Syncs
    <3>3. ~ count' \in 1 .. 3 /\ ~ count' \in 2 .. 3 /\ ~ count' = 3
      BY <3>1
    <3> QED BY <1>1, <3>2, <3>3
  <2>2. CASE state = "HIGH"
    <3>1. count \in 0 .. 2 /\ count' = count + 1
      BY <1>6, <2>2, Moves
    <3>2. /\ count' \in 1 .. 3
          /\ count' \in 2 .. 3 <=> count \in 1 .. 3
          /\ count' = 3 <=> count \in 2 .. 3
      BY <3>1
    <3>3. /\ pinNext <=> pin
          /\ s[0] <=> pin /\ count \in 1 .. 3
          /\ s[1] <=> pin /\ count \in 2 .. 3
      BY <1>6, <2>2 DEF Syncs
    <3> QED BY <1>1, <3>2, <3>3
  <2>3. state \in {"SETUP", "HIGH"}
    BY <1>6, Moves
  <2> QED BY <2>1, <2>2, <2>3
<1> QED BY <1>1, <1>3, <1>4, <1>5, <1>6 DEF t

LEMMA SynchronizedStep ==
  ASSUME Types, Synchronized, NEW bus \in Bus, Clock(bus)
  PROVE  Synchronized'
<1> DEFINE in == In(bus, host_rdata)
<1>1. EngineClock(in) /\ in.reset = core_reset(bus)
  BY PortTypes DEF Clock, AxiClock
<1> HIDE DEF in
<1>2. CASE core_reset(bus)
  <2>1. state' = "LOW0"
    BY <1>1, <1>2, Moves
  <2>2. we_sync' = [k \in 0 .. 2 |-> TRUE] /\ re_sync' = [k \in 0 .. 2 |-> TRUE]
    BY <1>2 DEF Clock, ChipReset, H!HostReset
  <2> QED BY <2>1, <2>2 DEF Synchronized, Syncs
<1>3. CASE ~ core_reset(bus)
  <2>1. we_sync' = H!Synced(we_sync, H!we) /\ re_sync' = H!Synced(re_sync, H!re)
    BY <1>3 DEF Clock, ChipClock, H!HostClock
  <2>2. /\ H!we \in BOOLEAN /\ H!re \in BOOLEAN /\ H!we' \in BOOLEAN /\ H!re' \in BOOLEAN
        /\ state /= "HIGH" => ~H!we /\ ~H!re
    BY Pins DEF H!we, H!re, Types, Phases
  <2>3. state = "HIGH" /\ state' = "HIGH" => H!we' = H!we /\ H!re' = H!re
    <3>1. state = "HIGH" /\ state' = "HIGH" => UNCHANGED <<e_we, e_re>>
      BY <1>1, <1>3, Moves
    <3> QED BY <3>1 DEF H!we, H!re, Strobe
  <2>4. Syncs(we_sync, H!we) /\ Syncs(re_sync, H!re)
    BY DEF Synchronized
  <2>5. Syncs(we_sync, H!we)'
    BY <1>1, <1>3, <2>1, <2>2, <2>3, <2>4, SyncsStep DEF Syncs
  <2>6. Syncs(re_sync, H!re)'
    BY <1>1, <1>3, <2>1, <2>2, <2>3, <2>4, SyncsStep DEF Syncs
  <2> QED BY <2>5, <2>6 DEF Synchronized
<1> QED BY <1>2, <1>3

(* host.v acts on a strobe on the third of its four HIGH clocks.            *)
LEMMA Acts ==
  ASSUME Types, Synchronized
  PROVE  /\ H!we_rise <=> state = "HIGH" /\ count = 2 /\ e_we
         /\ H!re_rise <=> state = "HIGH" /\ count = 2 /\ e_re
<1>1. state \in {"LOW0", "STAT", "SETUP", "HIGH"} /\ count \in 0 .. 4
  BY DEF Types, EngineTypes
<1>2. (H!we <=> e_we) /\ (H!re <=> e_re)
  BY Pins DEF Types, Phases
<1>3. count \in 2 .. 3 /\ ~ count = 3 <=> count = 2
  BY <1>1
<1> QED BY <1>1, <1>2, <1>3 DEF Synchronized, Syncs, H!we_rise, H!re_rise

(* Types and synchronizers: what everything below rests on.                 *)
Bounds == Types /\ Synchronized

LEMMA InitBounds == Init => Bounds
<1> SUFFICES ASSUME Init PROVE Synchronized
  BY InitTypes DEF Bounds
<1>1. state = "LOW0" /\ we_sync = [k \in 0 .. 2 |-> TRUE] /\ re_sync = [k \in 0 .. 2 |-> TRUE]
  BY DEF Init, EngineInit
<1>2. /\ we_sync \in [0 .. 2 -> BOOLEAN] /\ we_sync[0] /\ we_sync[1] /\ we_sync[2]
      /\ re_sync \in [0 .. 2 -> BOOLEAN] /\ re_sync[0] /\ re_sync[1] /\ re_sync[2]
  BY <1>1
<1> QED BY <1>1, <1>2 DEF Synchronized, Syncs

LEMMA BoundsStep == Bounds /\ [Next]_vars => Bounds'
<1>1. ASSUME Bounds, UNCHANGED vars PROVE Synchronized'
  <2>1. UNCHANGED <<we_sync, re_sync, state, count, e_we, e_re>>
    BY <1>1 DEF vars, engineVars, busVars, chipVars, hostRegs
  <2> QED BY <1>1, <2>1 DEF Bounds, Synchronized, Syncs, H!we, H!re, Strobe
<1> QED BY <1>1, TypesStep, SynchronizedStep DEF Bounds, Next

-----------------------------------------------------------------------------
(* The committed count. *)

(* The byte in flight that host.v has acted on and is not committed yet.    *)
InFlight == IF e_tx /\ state = "HIGH" /\ count = 3 THEN 1 ELSE 0

LEMMA Wraps ==
  ASSUME NEW n \in 0 .. CountSize - 1
  PROVE  n % CountSize = n /\ (n + 0) % CountSize = n /\ 1 % CountSize = 1
BY StagingAssumption

LEMMA DeliveredStep ==
  ASSUME Bounds, CommittedAreDelivered, NEW bus \in Bus, Clock(bus)
  PROVE  CommittedAreDelivered'
<1> DEFINE in == In(bus, host_rdata)
           acts == IF e_tx /\ H!we_rise THEN 1 ELSE 0
<1>1. EngineClock(in) /\ in.reset = core_reset(bus)
  BY PortTypes DEF Clock, AxiClock, Bounds
<1>2. committed' = IF commit_clear(bus) THEN 0
                   ELSE IF tx_commit(in) THEN (committed + 1) % CountSize ELSE committed
  BY DEF Clock, AxiClock, Staging
<1>3. delivered' = IF core_reset(bus) THEN 0
                   ELSE IF commit_clear(bus) THEN acts ELSE (delivered + acts) % CountSize
  BY DEF Clock, Delivery
<1>4. committed \in 0 .. CountSize - 1 /\ (committed + 1) % CountSize \in 0 .. CountSize - 1
  BY StagingAssumption DEF Bounds, Types, PeripheralTypes
<1>5. delivered = (committed + InFlight) % CountSize
  BY DEF CommittedAreDelivered, InFlight
<1> HIDE DEF in
<1>6. CASE core_reset(bus)
  <2>1. state' = "LOW0" /\ commit_clear(bus)
    BY <1>1, <1>6, Moves DEF commit_clear, flush, Bounds
  <2> QED BY <1>2, <1>3, <1>6, <2>1, StagingAssumption DEF CommittedAreDelivered
<1>7. CASE ~ core_reset(bus)
  <2>1. acts = IF e_tx /\ state = "HIGH" /\ count = 2 THEN 1 ELSE 0
    BY Acts DEF Bounds, Types, Phases
  <2>2. tx_commit(in) <=> InFlight = 1
    BY <1>1, <1>7 DEF tx_commit, last_high, high_done, InFlight
  <2>3. InFlight' = acts
    <3>1. CASE state = "HIGH" /\ count = 2
      <4>1. High(in)
        BY <1>1, <1>7, <3>1 DEF EngineClock, Hold, Low0, Stat, deciding, Setup
      <4>2. state' = "HIGH" /\ count' = 3 /\ e_tx' = e_tx
        BY <3>1, <4>1 DEF High, high_done
      <4> QED BY <2>1, <3>1, <4>2 DEF InFlight
    <3>2. CASE ~ (state = "HIGH" /\ count = 2)
      <4>1. state' = "HIGH" => \/ count' = 0
                               \/ state = "HIGH" /\ count \in 0 .. 2 /\ count' = count + 1
        BY <1>1, Moves DEF Bounds
      <4>2. ~ (state' = "HIGH" /\ count' = 3)
        BY <3>2, <4>1
      <4> QED BY <2>1, <3>2, <4>2 DEF InFlight
    <3> QED BY <3>1, <3>2
  <2>4. InFlight = 0 \/ (InFlight = 1 /\ acts = 0)
    BY <2>1 DEF InFlight
  <2>5. acts \in {0, 1}
    OBVIOUS
  <2> HIDE DEF acts
  <2>6. delivered' = (committed' + acts) % CountSize
    <3>1. CASE commit_clear(bus)
      BY <1>2, <1>3, <1>7, <2>5, <3>1, StagingAssumption, Wraps
    <3>2. CASE ~commit_clear(bus) /\ InFlight = 1
      <4>1. delivered = committed' /\ delivered \in 0 .. CountSize - 1
        BY <1>2, <1>4, <1>5, <2>2, <3>2
      <4>2. acts = 0
        BY <2>4, <3>2
      <4> QED BY <1>3, <1>7, <3>2, <4>1, <4>2
    <3>3. CASE ~commit_clear(bus) /\ InFlight = 0
      <4>1. delivered = committed /\ committed' = committed
        BY <1>2, <1>4, <1>5, <2>2, <3>3, Wraps
      <4> QED BY <1>3, <1>7, <3>3, <4>1
    <3> QED BY <2>4, <3>1, <3>2, <3>3
  <2> QED BY <2>3, <2>6 DEF CommittedAreDelivered, InFlight
<1> QED BY <1>6, <1>7

(* TX_COMMITTED counts exactly the bytes that host.v acted on since it was  *)
(* cleared, one clock late, whatever the ARM flushes, clears and resets.    *)
THEOREM CommittedIsExact == Spec => []CommittedAreDelivered
<1>1. Init => CommittedAreDelivered
  BY StagingAssumption DEF Init, EngineInit, AxiInit, CommittedAreDelivered
<1>2. Bounds /\ CommittedAreDelivered /\ [Next]_vars => CommittedAreDelivered'
  <2>1. ASSUME UNCHANGED vars, CommittedAreDelivered PROVE CommittedAreDelivered'
    BY <2>1 DEF vars, engineVars, busVars, axiVars, CommittedAreDelivered
  <2> QED BY <2>1, DeliveredStep DEF Next
<1> QED BY <1>1, <1>2, InitBounds, BoundsStep, PTL DEF Spec

-----------------------------------------------------------------------------
(* RUN: where the request is, however many follow it. *)

(* A request not taken is with the engine; one taken is on the bus until    *)
(* host.v acts on it; then STATUS is still to be read.                      *)
RunPhases ==
  /\ run \in {"none", "asked", "taken", "acted", "read"}
  /\ run_p => ~awready /\ ~ctrl_go_d
  /\ run = "asked" => ctrl_pending
  /\ run = "taken" =>
       /\ ctrl_flight /\ e_addr = 3
       /\ \/ state = "SETUP" /\ ~e_read /\ ~e_raw
          \/ state = "HIGH" /\ count \in 0 .. 2 /\ e_we
  /\ run = "acted" =>
       ctrl_flight /\ (state \in {"LOW0", "STAT"} \/ (state = "HIGH" /\ count = 3))

LEMMA RunPhasesStep ==
  ASSUME Bounds, RunPhases, NEW bus \in Bus, Clock(bus)
  PROVE  RunPhases'
<1> DEFINE in == In(bus, host_rdata)
<1>1. /\ EngineClock(in) /\ in.reset = core_reset(bus) /\ in.ctrl_go = run_p
      /\ Types /\ Synchronized
  BY PortTypes DEF Clock, AxiClock, Bounds
<1>2. run' = IF core_reset(bus) THEN "none"
             ELSE IF take_ctrl(in) THEN "taken"
             ELSE IF run_p THEN "asked"
             ELSE IF run = "taken" /\ H!control_write THEN "acted"
             ELSE IF run = "acted" /\ deciding(in) THEN "read"
             ELSE run
  BY DEF Clock, RunHistory
<1>3. run' \in {"none", "asked", "taken", "acted", "read"}
  BY <1>2 DEF RunPhases
<1>4. run_p' => ~awready' /\ ~ctrl_go_d'
  <2>1. run_p' => awready /\ ~awready'
    BY DEF Clock, AxiClock, WriteSide, writes, wr, wr_accept
  <2>2. ctrl_go_d' = run_p
    BY <1>1 DEF EngineClock, Requests
  <2> QED BY <2>1, <2>2 DEF RunPhases
<1>5. run' = "asked" => ctrl_pending'
  <2>1. ctrl_pending' = (~take_ctrl(in) /\ (ctrl_pending \/ (run_p /\ ~ctrl_go_d)))
    BY <1>1 DEF EngineClock, Requests
  <2> QED BY <1>2, <2>1 DEF RunPhases
<1>6. H!control_write <=> state = "HIGH" /\ count = 2 /\ e_we /\ e_addr = 3
  BY <1>1, Acts DEF H!control_write, H!CONTROL
<1> HIDE DEF in
<1>7. run' = "taken" =>
        /\ ctrl_flight' /\ e_addr' = 3
        /\ \/ state' = "SETUP" /\ ~e_read' /\ ~e_raw'
           \/ state' = "HIGH" /\ count' \in 0 .. 2 /\ e_we'
  <2>1. CASE ~core_reset(bus) /\ take_ctrl(in)
    <3>1. Stat(in) /\ ~take_raw(in) /\ ~take_rx(in)
      BY <1>1, <2>1 DEF EngineClock, Hold, Low0, Setup, High, take_ctrl, deciding, take_raw, take_rx
    <3>2. state' = "SETUP" /\ e_addr' = 3
      BY <2>1, <3>1 DEF Stat, take_ctrl, take_raw, take_tx, take_rx
    <3>3. ctrl_flight' /\ ~e_read' /\ ~e_raw'
      BY <2>1, <3>1 DEF Stat
    <3> QED BY <3>2, <3>3
  <2>2. CASE ~core_reset(bus) /\ run = "taken" /\ state = "SETUP"
    <3>1. Setup(in) /\ ctrl_flight /\ e_addr = 3 /\ ~e_read /\ ~e_raw
      BY <1>1, <2>2 DEF EngineClock, Hold, Low0, Stat, High, deciding, RunPhases
    <3>2. state' = "HIGH" /\ ctrl_flight' /\ e_addr' = 3 /\ e_we'
      BY <3>1 DEF Setup
    <3>3. count' \in 0 .. 2
      BY <3>1 DEF Setup
    <3> QED BY <3>2, <3>3
  <2>3. CASE ~core_reset(bus) /\ run = "taken" /\ state = "HIGH" /\ ~H!control_write
    <3>1. High(in) /\ ctrl_flight /\ e_addr = 3 /\ count \in 0 .. 2 /\ e_we
      BY <1>1, <2>3 DEF EngineClock, Hold, Low0, Stat, Setup, deciding, RunPhases
    <3>2. count \in 0 .. 1
      BY <1>6, <2>3, <3>1
    <3>3. count' = count + 1 /\ count /= 3
      BY <3>1, <3>2 DEF High
    <3>4. count' \in 0 .. 2
      BY <3>2, <3>3
    <3> QED BY <2>3, <3>1, <3>3, <3>4 DEF High, high_done
  <2>4. run = "taken" => state \in {"SETUP", "HIGH"}
    BY DEF RunPhases
  <2> QED BY <1>2, <2>1, <2>2, <2>3, <2>4
<1>8. run' = "acted" =>
        ctrl_flight' /\ (state' \in {"LOW0", "STAT"} \/ (state' = "HIGH" /\ count' = 3))
  <2>1. CASE ~core_reset(bus) /\ run = "taken" /\ H!control_write
    <3>1. state = "HIGH" /\ count = 2
      BY <1>6, <2>1
    <3>2. ctrl_flight
      BY <2>1 DEF RunPhases
    <3>3. High(in)
      BY <1>1, <2>1, <3>1 DEF EngineClock, Hold, Low0, Stat, Setup, deciding
    <3>4. state' = "HIGH" /\ count' = 3 /\ ctrl_flight' = ctrl_flight
      BY <3>1, <3>3 DEF High, high_done
    <3> QED BY <3>2, <3>4
  <2>2. CASE ~core_reset(bus) /\ run = "acted" /\ ~deciding(in)
    <3>1. ctrl_flight /\ (state = "LOW0" \/ (state = "HIGH" /\ count = 3))
      BY <1>1, <2>2 DEF RunPhases, deciding
    <3>2. Low0(in) \/ High(in)
      BY <1>1, <2>2, <3>1 DEF EngineClock, Hold, Stat, Setup
    <3>3. state' \in {"LOW0", "STAT"} /\ ctrl_flight' = ctrl_flight
      BY <3>1, <3>2 DEF Low0, High, high_done
    <3> QED BY <3>1, <3>3
  <2> QED BY <1>2, <2>1, <2>2
<1> QED BY <1>3, <1>4, <1>5, <1>7, <1>8 DEF RunPhases

(* Once RUN busy is down, CONTROL was written and STATUS read again after   *)
(* the last RUN, however many RUNs and resets came on the way.              *)
THEOREM StatusIsOfTheRun == Spec => []StatusDescribesTheRun
<1>1. Init => RunPhases
  BY DEF Init, EngineInit, AxiInit, RunPhases
<1>2. Bounds /\ RunPhases /\ [Next]_vars => RunPhases'
  <2>1. ASSUME UNCHANGED vars, RunPhases PROVE RunPhases'
    BY <2>1 DEF vars, engineVars, busVars, requestVars, axiVars, RunPhases
  <2> QED BY <2>1, RunPhasesStep DEF Next
<1>3. RunPhases => StatusDescribesTheRun
  BY DEF RunPhases, StatusDescribesTheRun, run_busy, ctrl_busy
<1> QED BY <1>1, <1>2, <1>3, InitBounds, BoundsStep, PTL DEF Spec

-----------------------------------------------------------------------------
(* A raw request: what it asks for, and whether host.v has done it. *)

Made == IF raw_q.write \/ raw_q.pop THEN "acted" ELSE "asked"

(* On its last HIGH clock a raw transaction has been acted on.              *)
RawHigh(c) == state = "HIGH" /\ count = c /\ e_raw

(* A request is pending until its transaction ends or a reset drops it, and *)
(* done is not said before.                                                 *)
RawPhases ==
  /\ raw_p => ~raw_pending /\ ~raw_go_d /\ ~raw_done /\ ~raw_done_q
  /\ raw_pending => /\ ~raw_done /\ ~raw_done_q
                    /\ raw = IF RawHigh(3) THEN "acted" ELSE "asked"
  /\ state \in {"SETUP", "HIGH"} /\ e_raw => raw_pending
  /\ state = "HIGH" /\ e_raw => raw_q.write \/ raw_q.pop
  /\ raw_done \/ raw_done_q => raw \in {"dropped", Made}

LEMMA RawPhasesStep ==
  ASSUME Bounds, RawPhases, NEW bus \in Bus, Clock(bus)
  PROVE  RawPhases'
<1> DEFINE in == In(bus, host_rdata)
<1>1. /\ EngineClock(in) /\ in.reset = core_reset(bus) /\ in.raw_go = raw_p /\ in.raw = raw_req
      /\ Types /\ Synchronized
  BY PortTypes DEF Clock, AxiClock, Bounds
<1>2. raw' = IF raw_p THEN "asked"
             ELSE IF core_reset(bus) THEN "dropped"
             ELSE IF ~RawHigh(2) THEN raw
             ELSE IF raw = "asked" THEN "acted" ELSE "twice"
  <2>1. e_raw /\ (H!we_rise \/ H!re_rise) <=> RawHigh(2)
    BY <1>1, Acts DEF RawHigh, Types, Phases
  <2> QED BY <2>1 DEF Clock, RawHistory
<1>3. /\ raw_go_d' = raw_p
      /\ raw_pending' = (~raw_ends(in) /\ (raw_pending \/ raw_accepted(in)))
      /\ raw_q' = IF raw_accepted(in) THEN raw_req ELSE raw_q
      /\ raw_done' = raw_ends(in)
  BY <1>1 DEF EngineClock, Requests
<1>4. raw_accepted(in) <=> raw_p
  BY <1>1 DEF raw_accepted, RawPhases
<1>5. \/ raw_p' = FALSE /\ raw_done_q' = FALSE
      \/ raw_p' = FALSE /\ raw_done_q' = (raw_done_q \/ raw_done)
      \/ raw_p' = TRUE /\ ~raw_p /\ ~raw_pending /\ raw_done_q' = FALSE
  BY DEF Clock, AxiClock, WriteSide, raw_busy_any, writes, wr
<1> HIDE DEF in
<1>6. raw_ends(in) <=> \/ core_reset(bus) /\ raw_pending
                       \/ ~core_reset(bus) /\ state = "SETUP" /\ e_raw /\ ~raw_q.write /\ ~raw_q.pop
                       \/ ~core_reset(bus) /\ RawHigh(3)
  BY <1>1 DEF raw_ends, last_high, high_done, RawHigh
<1>7. /\ RawHigh(2) => raw_pending /\ state = "HIGH" /\ e_raw
      /\ RawHigh(3) => raw_pending /\ state = "HIGH" /\ e_raw
      /\ raw_ends(in) => raw_pending
      /\ ~ (RawHigh(2) /\ RawHigh(3))
  <2>1. RawHigh(2) \/ RawHigh(3) => state = "HIGH" /\ e_raw
    BY DEF RawHigh
  <2>2. ~ (RawHigh(2) /\ RawHigh(3))
    BY DEF RawHigh
  <2> QED BY <1>6, <2>1, <2>2 DEF RawPhases
<1>8. RawHigh(3)' <=> ~core_reset(bus) /\ RawHigh(2)
  <2>1. CASE core_reset(bus)
    <3>1. state' = "LOW0"
      BY <1>1, <2>1, Moves
    <3> QED BY <2>1, <3>1 DEF RawHigh
  <2>2. CASE ~core_reset(bus) /\ state = "HIGH"
    <3>1. High(in)
      BY <1>1, <2>2 DEF EngineClock, Hold, Low0, Stat, deciding, Setup
    <3>2. e_raw' = e_raw
      BY <3>1 DEF High
    <3>3. state' = "HIGH" /\ count' = 3 <=> count = 2
      <4>1. count \in 0 .. 3
        BY <1>1, <2>2 DEF Types, EngineTypes
      <4>2. count' = count + 1 /\ (state' = "HIGH" <=> count /= 3)
        BY <2>2, <3>1, <4>1 DEF High, high_done
      <4> QED BY <4>1, <4>2
    <3> QED BY <2>2, <3>2, <3>3 DEF RawHigh
  <2>3. CASE ~core_reset(bus) /\ state /= "HIGH"
    <3>1. state' = "HIGH" => count' = 0
      BY <1>1, <2>3, Moves
    <3> QED BY <2>3, <3>1 DEF RawHigh
  <2> QED BY <2>1, <2>2, <2>3
<1>9. state' \in {"SETUP", "HIGH"} /\ e_raw' =>
        /\ ~core_reset(bus) /\ raw_pending /\ ~RawHigh(3)
        /\ ~ (state = "SETUP" /\ e_raw /\ ~raw_q.write /\ ~raw_q.pop)
        /\ state' = "HIGH" => raw_q.write \/ raw_q.pop
  <2>1. CASE Hold(in)
    BY <2>1 DEF Hold
  <2>2. CASE Low0(in)
    BY <2>2 DEF Low0
  <2>3. CASE Stat(in)
    <3>1. /\ state = "STAT" /\ ~core_reset(bus) /\ state' \in {"STAT", "SETUP"}
          /\ e_raw' = take_raw(in)
      BY <1>1, <2>3 DEF Stat, deciding
    <3> QED BY <3>1 DEF take_raw, RawHigh
  <2>4. CASE Setup(in)
    <3>1. raw_q.pop \in BOOLEAN /\ raw_q.write \in BOOLEAN
      BY <1>1 DEF Types, EngineTypes, RawRequest
    <3>2. /\ state = "SETUP" /\ ~core_reset(bus) /\ e_raw' = e_raw
          /\ state' = IF e_raw /\ ~raw_q.write /\ ~raw_q.pop THEN "LOW0" ELSE "HIGH"
      BY <1>1, <2>4 DEF Setup
    <3> QED BY <3>1, <3>2 DEF RawPhases, RawHigh
  <2>5. CASE High(in)
    <3>1. /\ state = "HIGH" /\ ~core_reset(bus) /\ e_raw' = e_raw
          /\ state' \in {"SETUP", "HIGH"} => count /= 3
      BY <1>1, <2>5 DEF High, high_done
    <3> QED BY <3>1 DEF RawPhases, RawHigh
  <2> QED BY <1>1, <2>1, <2>2, <2>3, <2>4, <2>5 DEF EngineClock
<1>10. raw_p' => ~raw_pending' /\ ~raw_go_d' /\ ~raw_done' /\ ~raw_done_q'
  BY <1>3, <1>4, <1>5, <1>7
<1>11. raw_pending' => ~raw_done' /\ ~raw_done_q'
  BY <1>3, <1>4, <1>5 DEF RawPhases
<1>12. raw_pending' => raw' = IF RawHigh(3)' THEN "acted" ELSE "asked"
  <2>1. CASE raw_p
    BY <1>2, <1>7, <1>8, <2>1 DEF RawPhases
  <2>2. CASE ~raw_p
    <3>1. raw_pending' => raw_pending /\ ~core_reset(bus) /\ ~RawHigh(3)
      BY <1>3, <1>4, <1>6, <2>2
    <3>2. raw_pending' => raw = "asked"
      BY <3>1 DEF RawPhases
    <3> QED BY <1>2, <1>8, <2>2, <3>1, <3>2
  <2> QED BY <2>1, <2>2
<1>13. state' \in {"SETUP", "HIGH"} /\ e_raw' => raw_pending'
  BY <1>3, <1>6, <1>9
<1>14. state' = "HIGH" /\ e_raw' => raw_q'.write \/ raw_q'.pop
  <2>1. state' = "HIGH" /\ e_raw' => raw_pending /\ (raw_q.write \/ raw_q.pop)
    BY <1>9
  <2>2. raw_pending => raw_q' = raw_q
    BY <1>3, <1>4 DEF RawPhases
  <2> QED BY <2>1, <2>2
<1>15. raw_done' \/ raw_done_q' => raw' \in {"dropped", Made'}
  <2>1. raw_pending => ~raw_p /\ ~raw_done /\ ~raw_done_q
    BY DEF RawPhases
  <2>2. ~raw_p => raw_q' = raw_q /\ Made' = Made
    BY <1>3, <1>4 DEF Made
  <2>3. CASE raw_ends(in)
    <3>1. raw_pending /\ ~raw_p
      BY <1>7, <2>1, <2>3
    <3>2. CASE core_reset(bus)
      BY <1>2, <3>1, <3>2
    <3>3. CASE ~core_reset(bus) /\ RawHigh(3)
      <4>1. raw' = raw /\ raw = "acted"
        BY <1>2, <1>7, <3>1, <3>3 DEF RawPhases
      <4>2. Made = "acted"
        BY <1>7, <3>3 DEF RawPhases, Made
      <4> QED BY <2>2, <3>1, <4>1, <4>2
    <3>4. CASE ~core_reset(bus) /\ state = "SETUP" /\ e_raw /\ ~raw_q.write /\ ~raw_q.pop
      <4>1. ~RawHigh(2) /\ ~RawHigh(3)
        BY <3>4 DEF RawHigh
      <4>2. raw' = raw /\ raw = "asked"
        BY <1>2, <3>1, <3>4, <4>1 DEF RawPhases
      <4>3. Made = "asked"
        BY <3>4 DEF Made
      <4> QED BY <2>2, <3>1, <4>2, <4>3
    <3> QED BY <1>6, <2>3, <3>2, <3>3, <3>4
  <2>4. CASE ~raw_ends(in)
    <3>1. raw_done' \/ raw_done_q' => raw_done \/ raw_done_q
      BY <1>3, <1>5, <2>4
    <3>2. raw_done \/ raw_done_q => ~raw_p /\ ~raw_pending /\ raw \in {"dropped", Made}
      BY DEF RawPhases
    <3>3. raw_done \/ raw_done_q => raw' \in {"dropped", raw} /\ Made' = Made
      BY <1>2, <1>7, <2>2, <3>2
    <3> QED BY <3>1, <3>2, <3>3
  <2> QED BY <2>3, <2>4
<1> QED BY <1>10, <1>11, <1>12, <1>13, <1>14, <1>15 DEF RawPhases

(* A raw request that says it is done made its one transaction, none if it  *)
(* was a plain read, or was dropped by a reset.                             *)
THEOREM RawDoneIsTrue == Spec => []RawDoneWhenActed
<1>1. Init => RawPhases
  BY DEF Init, EngineInit, AxiInit, RawPhases
<1>2. Bounds /\ RawPhases /\ [Next]_vars => RawPhases'
  <2>1. ASSUME UNCHANGED vars, RawPhases PROVE RawPhases'
    BY <2>1 DEF vars, engineVars, busVars, requestVars, axiVars, RawPhases, RawHigh, Made
  <2> QED BY <2>1, RawPhasesStep DEF Next
<1>3. RawPhases => RawDoneWhenActed
  BY DEF RawPhases, RawDoneWhenActed, Made
<1> QED BY <1>1, <1>2, <1>3, InitBounds, BoundsStep, PTL DEF Spec

-----------------------------------------------------------------------------
(* The timing rules of host.v's header. *)

(* How long the strobe has been as it is, against the phase: STAT comes a   *)
(* clock after the fall or the reset, SETUP two, and HIGH counts.           *)
Timed ==
  /\ edges \in Nat
  /\ state = "STAT" => edges >= 1 \/ edges + 1 >= MinLow
  /\ state = "SETUP" => edges >= 2 \/ edges + 1 >= MinLow
  /\ state = "HIGH" => edges >= count \/ edges + 1 >= MinHigh

LEMMA StrobeIsPhase ==
  ASSUME Types
  PROVE  /\ Strobe \in {"none", "we", "re"}
         /\ Strobe = "none" <=> state /= "HIGH"
BY DEF Types, Phases, Strobe

(* The pins on a clock.                                                     *)
LEMMA PinsStep ==
  ASSUME Types, Types', NEW in, EngineClock(in)
  PROVE  /\ state = "HIGH" /\ state' = "HIGH" =>
              Strobe' = Strobe /\ UNCHANGED <<e_addr, e_wdata>>
         /\ state /= "HIGH" /\ state' /= "HIGH" => Strobe' = Strobe
         /\ state = "HIGH" /\ state' /= "HIGH" => Strobe' = "none"
         /\ state /= "HIGH" /\ state' = "HIGH" =>
              ~in.reset /\ state = "SETUP" /\ Strobe' /= "none" /\ UNCHANGED <<e_addr, e_wdata>>
<1>1. /\ Strobe = "none" <=> state /= "HIGH"
      /\ Strobe' = "none" <=> state' /= "HIGH"
  BY StrobeIsPhase DEF Types, Phases, Strobe
<1>2. CASE state = "HIGH" /\ state' = "HIGH"
  <2>1. High(in)
    BY <1>2 DEF EngineClock, Hold, Low0, Stat, deciding, Setup
  <2>2. UNCHANGED <<e_we, e_re, e_addr, e_wdata>>
    BY <1>2, <2>1 DEF High, high_done
  <2> QED BY <1>2, <2>2 DEF Strobe
<1>3. CASE state /= "HIGH" /\ state' = "HIGH"
  <2>1. Setup(in)
    BY <1>3 DEF EngineClock, Hold, Low0, Stat, deciding, High
  <2> QED BY <1>1, <1>3, <2>1 DEF Setup
<1> QED BY <1>1, <1>2, <1>3

LEMMA TimedStep ==
  ASSUME Types, Types', Timed, NEW bus \in Bus, Clock(bus)
  PROVE  Timed'
<1> DEFINE in == In(bus, host_rdata)
<1>1. EngineClock(in) /\ in.reset = core_reset(bus)
  BY PortTypes DEF Clock, AxiClock
<1>2. edges' = IF Strobe' /= Strobe \/ (core_reset(bus) /\ Strobe = "none") THEN 0 ELSE H!Counted
  BY DEF Clock
<1> HIDE DEF in
<1>3. /\ MinLow \in 1 .. 3 /\ MinHigh \in 1 .. 4 /\ edges \in Nat /\ count \in 0 .. 4
  BY TimingAssumption DEF Timed, Types, EngineTypes
<1>4. /\ state /= "HIGH" => H!Counted = IF edges + 1 >= MinLow THEN edges ELSE edges + 1
      /\ state = "HIGH" => H!Counted = IF edges + 1 >= MinHigh THEN edges ELSE edges + 1
  BY StrobeIsPhase DEF H!Counted, H!LongEnough, H!Minimum
<1>5. edges' \in Nat
  BY <1>2, <1>3, <1>4
<1>6. state' = "STAT" => edges' >= 1 \/ edges' + 1 >= MinLow
  <2>1. state' = "STAT" => state /= "HIGH" /\ ~core_reset(bus)
    BY <1>1, Moves
  <2>2. state' = "STAT" => edges' = H!Counted
    BY <1>1, <1>2, <2>1, PinsStep
  <2> QED BY <1>3, <1>4, <2>1, <2>2
<1>7. state' = "SETUP" => edges' >= 2 \/ edges' + 1 >= MinLow
  <2>1. state' = "SETUP" => state = "STAT" /\ ~core_reset(bus)
    BY <1>1, Moves
  <2>2. state' = "SETUP" => edges' = H!Counted
    BY <1>1, <1>2, <2>1, PinsStep
  <2>3. state = "STAT" => edges >= 1 \/ edges + 1 >= MinLow
    BY DEF Timed
  <2> QED BY <1>3, <1>4, <2>1, <2>2, <2>3
<1>8. state' = "HIGH" => edges' >= count' \/ edges' + 1 >= MinHigh
  <2>1. CASE state' = "HIGH" /\ state = "HIGH"
    <3>1. ~core_reset(bus) /\ count' = count + 1
      BY <1>1, <2>1, Moves
    <3>2. edges' = H!Counted
      BY <1>1, <1>2, <2>1, <3>1, PinsStep
    <3>3. edges >= count \/ edges + 1 >= MinHigh
      BY <2>1 DEF Timed
    <3> QED BY <1>3, <1>4, <2>1, <3>1, <3>2, <3>3
  <2>2. CASE state' = "HIGH" /\ state /= "HIGH"
    <3>1. count' = 0
      BY <1>1, <2>2, Moves
    <3> QED BY <1>5, <3>1
  <2> QED BY <2>1, <2>2
<1> QED BY <1>5, <1>6, <1>7, <1>8 DEF Timed

(* The engine keeps the rules that host.v's header asks of its master, for  *)
(* any mix of requests and resets.                                          *)
THEOREM EngineKeepsTheTiming == Spec => TimingRules
<1> DEFINE Rule == /\ Strobe = "none" /\ Strobe' /= "none" =>
                        H!LongEnough /\ UNCHANGED <<e_addr, e_wdata>>
                   /\ Strobe /= "none" =>
                        \/ Strobe' = Strobe /\ UNCHANGED <<e_addr, e_wdata>>
                        \/ Strobe' = "none" /\ H!LongEnough
                        \/ ChipReset
<1>1. Init => Timed
  BY DEF Init, EngineInit, Timed
<1>2. Types /\ Types' /\ Timed /\ [Next]_vars => Timed'
  <2>1. ASSUME UNCHANGED vars, Timed PROVE Timed'
    BY <2>1 DEF vars, engineVars, busVars, chipVars, Timed
  <2> QED BY <2>1, TimedStep DEF Next
<1>3. Types /\ Types' /\ Timed /\ [Next]_vars => Rule
  <2>1. ASSUME Types, Types', Timed, NEW bus \in Bus, Clock(bus) PROVE Rule
    <3> DEFINE in == In(bus, host_rdata)
    <3>1. EngineClock(in) /\ in.reset = core_reset(bus)
      BY <2>1, PortTypes DEF Clock, AxiClock
    <3> HIDE DEF in
    <3>2. /\ MinLow \in 1 .. 3 /\ MinHigh \in 1 .. 4 /\ edges \in Nat
      BY <2>1, TimingAssumption DEF Timed
    <3>3. /\ state /= "HIGH" => (H!LongEnough <=> edges + 1 >= MinLow)
          /\ state = "HIGH" => (H!LongEnough <=> edges + 1 >= MinHigh)
      BY <2>1, StrobeIsPhase DEF H!LongEnough, H!Minimum
    <3>4. /\ Strobe = "none" <=> state /= "HIGH"
          /\ Strobe' = "none" <=> state' /= "HIGH"
      BY <2>1, StrobeIsPhase DEF Types, Phases, Strobe
    <3>5. CASE state /= "HIGH" /\ state' = "HIGH"
      <4>1. state = "SETUP" /\ UNCHANGED <<e_addr, e_wdata>>
        BY <2>1, <3>1, <3>5, PinsStep
      <4>2. edges + 1 >= MinLow
        BY <2>1, <3>2, <4>1 DEF Timed
      <4> QED BY <3>3, <3>4, <3>5, <4>1, <4>2
    <3>6. CASE state = "HIGH" /\ state' = "HIGH"
      BY <2>1, <3>1, <3>4, <3>6, PinsStep
    <3>7. CASE state = "HIGH" /\ state' /= "HIGH"
      <4>1. CASE core_reset(bus)
        BY <2>1, <3>4, <3>7, <4>1 DEF Clock
      <4>2. CASE ~core_reset(bus)
        <5>1. count = 3
          BY <2>1, <3>1, <3>7, <4>2, Moves
        <5>2. edges + 1 >= MinHigh
          BY <2>1, <3>2, <3>7, <5>1 DEF Timed
        <5> QED BY <3>3, <3>4, <3>7, <5>2
      <4> QED BY <4>1, <4>2
    <3> QED BY <3>4, <3>5, <3>6, <3>7
  <2>2. ASSUME UNCHANGED vars PROVE Rule
    BY <2>2 DEF vars, engineVars, busVars, Strobe
  <2> QED BY <2>1, <2>2 DEF Next
<1> QED BY <1>1, <1>2, <1>3, InitTypes, TypesStep, PTL DEF Spec, TimingRules

-----------------------------------------------------------------------------
(* The refinement of AxiService.  First what the loader of the chip holds.  *)

(* The register block behind the engine's pins, with its lemmas, for the    *)
(* engine's own times of a strobe.                                          *)
Block == INSTANCE HostLemmas
           WITH strobe <- Strobe, addr <- e_addr, wdata <- e_wdata,
                HostBytes <- [a \in 0 .. 3 |-> 0 .. 255], MinHigh <- 4, MinLow <- 3

Loading == Block!HostTypeOK /\ Block!Loader

LEMMA BlockConstants ==
  /\ Block!RamAssumption /\ Block!HostBytesAssumption
  /\ Block!StrobeAssumption /\ Block!JunkAssumption
BY ChipAssumption
   DEF Block!RamAssumption, Block!HostBytesAssumption, Block!StrobeAssumption,
       Block!JunkAssumption, Block!RamWord

LEMMA SameClock == H!HostClock <=> Block!HostClock
BY DEF H!HostClock, H!Synced, H!we, H!re, H!control_write, H!Command, H!byte_taken,
       H!ProgramByte, H!RamEdge, H!rom_cmd, H!run_ram_cmd, H!load_cmd, H!prog_byte, H!prog_we,
       H!prog_wdata, H!we_rise, H!CONTROL, H!TX_DATA,
       Block!HostClock, Block!Synced, Block!we, Block!re, Block!control_write, Block!Command,
       Block!byte_taken, Block!ProgramByte, Block!RamEdge, Block!rom_cmd, Block!run_ram_cmd,
       Block!load_cmd, Block!prog_byte, Block!prog_we, Block!prog_wdata, Block!we_rise,
       Block!CONTROL, Block!TX_DATA

LEMMA SameReset == H!HostReset <=> Block!HostReset
BY DEF H!HostReset, H!RamEdge, H!prog_we, H!prog_wdata, H!prog_byte, H!we_rise, H!TX_DATA,
       Block!HostReset, Block!RamEdge, Block!prog_we, Block!prog_wdata, Block!prog_byte,
       Block!we_rise, Block!TX_DATA

LEMMA SameWires ==
  /\ H!byte_taken <=> Block!byte_taken
  /\ H!prog_byte <=> Block!prog_byte
  /\ H!control_write <=> Block!control_write
  /\ H!restart <=> Block!restart
  /\ H!LoadedBytes = Block!LoadedBytes
BY DEF H!byte_taken, H!prog_byte, H!control_write, H!restart, H!LoadedBytes, H!we_rise,
       H!CONTROL, H!TX_DATA, H!rom_cmd, H!run_ram_cmd, H!load_cmd,
       Block!byte_taken, Block!prog_byte, Block!control_write, Block!restart,
       Block!LoadedBytes, Block!we_rise, Block!CONTROL, Block!TX_DATA, Block!rom_cmd,
       Block!run_ram_cmd, Block!load_cmd

LEMMA SameBytes == H!LoadedBytes' = Block!LoadedBytes'
BY DEF H!LoadedBytes, Block!LoadedBytes

LEMMA LoadingStep ==
  ASSUME Types, Types', Timed', Loading, NEW bus \in Bus, Clock(bus)
  PROVE  Loading'
<1>1. Block!HostClock \/ Block!HostReset
  BY SameClock, SameReset DEF Clock, ChipClock, ChipReset
<1>2. Block!HostTypeOK /\ Block!Loader
  BY DEF Loading
<1>3. /\ mem' \in [0 .. RamWords - 1 -> Block!RamWord]
      /\ we_sync' \in Block!SyncState /\ re_sync' \in Block!SyncState
      /\ sel' \in 0 .. 15 /\ load_mode' \in BOOLEAN /\ ram_select' \in BOOLEAN
      /\ prog_addr' \in 0 .. RamWords - 1 /\ prog_words' \in 0 .. RamWords
      /\ prog_low' \in 0 .. 255 /\ byte_phase' \in BOOLEAN
  BY <1>1, <1>2, BlockConstants, Block!RegisterTypes
<1>4. Block!Loader'
  BY <1>1, <1>2, BlockConstants, Block!LoaderStep
<1>5. Strobe' \in {"none", "we", "re"}
  BY DEF Strobe
<1>6. e_addr' \in 0 .. 3 /\ e_wdata' \in 0 .. 255 /\ edges' \in Nat
  BY DEF Types, EngineTypes, Timed, Octet
<1> QED BY <1>3, <1>4, <1>5, <1>6 DEF Loading, Block!HostTypeOK

LEMMA InitLoading == Init => Loading
<1> SUFFICES ASSUME Init PROVE Loading
  OBVIOUS
<1>1. /\ RamWords \in 1 .. 256 /\ Junk \in Block!RamWord
      /\ [k \in 0 .. 2 |-> TRUE] \in Block!SyncState
  BY ChipAssumption DEF Block!RamWord, Block!SyncState
<1>2. Strobe \in {"none", "we", "re"} /\ e_addr = 2 /\ e_wdata = 0
  BY DEF Init, EngineInit, Strobe
<1>3. /\ edges = 0 /\ sel = 0 /\ prog_addr = 0 /\ prog_words = 0 /\ prog_low = 0
      /\ load_mode = FALSE /\ ram_select = FALSE /\ byte_phase = FALSE
      /\ we_sync \in Block!SyncState /\ re_sync \in Block!SyncState
      /\ mem \in [0 .. RamWords - 1 -> Block!RamWord]
  BY <1>1 DEF Init
<1>4. /\ 0 \in 0 .. 255 /\ 0 \in 0 .. 15 /\ 0 \in Nat /\ 2 \in 0 .. 3
      /\ 0 \in 0 .. RamWords - 1 /\ 0 \in 0 .. RamWords /\ 0 /= RamWords
  BY <1>1
<1>5. Block!HostTypeOK
  BY <1>2, <1>3, <1>4 DEF Block!HostTypeOK
<1> QED BY <1>3, <1>4, <1>5 DEF Loading, Block!Loader

(* The program bytes over a clock of the chip.                              *)
LEMMA LoadedStep ==
  ASSUME Types, Loading, H!HostClock
  PROVE  /\ H!LoadedBytes \in Seq(Octet)
         /\ H!byte_taken <=> H!prog_byte /\ Len(H!LoadedBytes) < 2 * RamWords
         /\ H!byte_taken =>
              H!LoadedBytes' = Append(H!LoadedBytes, e_wdata) /\ load_mode' = load_mode
         /\ ~H!control_write /\ ~H!byte_taken => UNCHANGED <<H!LoadedBytes, load_mode>>
         /\ H!control_write =>
              /\ load_mode' \in BOOLEAN
              /\ H!LoadedBytes' \in {H!LoadedBytes, <<>>,
                                    SubSeq(H!LoadedBytes, 1, 2 * (Len(H!LoadedBytes) \div 2))}
              /\ ~H!restart => UNCHANGED <<H!LoadedBytes, load_mode>>
<1>1. Block!HostTypeOK /\ Block!Loader /\ Block!HostClock
  BY SameClock DEF Loading
<1>2. /\ Block!LoadedBytes \in Seq(Block!Octet)
      /\ Block!byte_taken <=> Block!prog_byte /\ Len(Block!LoadedBytes) < 2 * RamWords
      /\ Block!byte_taken =>
           Block!LoadedBytes' = Append(Block!LoadedBytes, e_wdata) /\ load_mode' = load_mode
      /\ ~Block!control_write /\ ~Block!byte_taken => UNCHANGED <<Block!LoadedBytes, load_mode>>
      /\ Block!control_write =>
           /\ load_mode' \in BOOLEAN
           /\ Block!LoadedBytes' \in {Block!LoadedBytes, <<>>,
                                 SubSeq(Block!LoadedBytes, 1, 2 * (Len(Block!LoadedBytes) \div 2))}
           /\ ~Block!restart => UNCHANGED <<Block!LoadedBytes, load_mode>>
  BY <1>1, BlockConstants, Block!ProgramStep
<1>3. Block!Octet = Octet
  BY DEF Block!Octet, Octet
<1> QED BY <1>2, <1>3, SameWires, SameBytes

-----------------------------------------------------------------------------
(* Queues of bytes. *)

(* r is q, or q with one more byte.                                         *)
Longer(q, r) == r \in Seq(Octet) /\ (r = q \/ \E b \in Octet : r = Append(q, b))

LEMMA Whole ==
  ASSUME NEW q \in Seq(Octet)
  PROVE  SubSeq(q, 1, Len(q)) = q
<1>1. Len(q) \in Nat /\ \A i \in 1 .. Len(q) : q[i] \in Octet
  OBVIOUS
<1>2. /\ SubSeq(q, 1, Len(q)) \in Seq(Octet)
      /\ Len(SubSeq(q, 1, Len(q))) = IF 1 <= Len(q) THEN Len(q) - 1 + 1 ELSE 0
      /\ \A i \in 1 .. Len(q) - 1 + 1 : SubSeq(q, 1, Len(q))[i] = q[1 + i - 1]
  BY <1>1, SubSeqProperties
<1>3. Len(SubSeq(q, 1, Len(q))) = Len(q)
  BY <1>1, <1>2
<1>4. \A i \in 1 .. Len(q) : SubSeq(q, 1, Len(q))[i] = q[i]
  <2> TAKE i \in 1 .. Len(q)
  <2>1. i \in 1 .. Len(q) - 1 + 1 /\ 1 + i - 1 = i
    BY <1>1
  <2> QED BY <1>2, <2>1
<1> QED BY <1>2, <1>3, <1>4, SeqEqual

LEMMA FrontOfLonger ==
  ASSUME NEW q \in Seq(Octet), NEW b \in Octet
  PROVE  SubSeq(Append(q, b), 1, Len(q)) = q
<1> DEFINE a == Append(q, b)
<1>1. /\ a \in Seq(Octet) /\ Len(a) = Len(q) + 1 /\ Len(q) \in Nat
      /\ \A i \in 1 .. Len(q) : a[i] = q[i]
  BY AppendProperties
<1> HIDE DEF a
<1>2. \A i \in 1 .. Len(q) : a[i] \in Octet
  BY <1>1
<1>3. /\ SubSeq(a, 1, Len(q)) \in Seq(Octet)
      /\ Len(SubSeq(a, 1, Len(q))) = IF 1 <= Len(q) THEN Len(q) - 1 + 1 ELSE 0
      /\ \A i \in 1 .. Len(q) - 1 + 1 : SubSeq(a, 1, Len(q))[i] = a[1 + i - 1]
  BY <1>1, <1>2, SubSeqProperties
<1>4. Len(SubSeq(a, 1, Len(q))) = Len(q)
  BY <1>1, <1>3
<1>5. \A i \in 1 .. Len(q) : SubSeq(a, 1, Len(q))[i] = q[i]
  <2> TAKE i \in 1 .. Len(q)
  <2>1. i \in 1 .. Len(q) - 1 + 1 /\ 1 + i - 1 = i
    BY <1>1
  <2> QED BY <1>1, <1>3, <2>1
<1>6. SubSeq(a, 1, Len(q)) = q
  BY <1>3, <1>4, <1>5, SeqEqual
<1> QED BY <1>6 DEF a

LEMMA LongerGrows ==
  ASSUME NEW q \in Seq(Octet), NEW r, Longer(q, r)
  PROVE  Service!Grows(q, r)
<1>1. CASE r = q
  BY <1>1, Whole DEF Service!Grows
<1>2. ASSUME NEW b \in Octet, r = Append(q, b) PROVE Service!Grows(q, r)
  <2>1. Len(r) = Len(q) + 1
    BY <1>2, AppendProperties
  <2> QED BY <1>2, <2>1, FrontOfLonger DEF Service!Grows
<1> QED BY <1>1, <1>2 DEF Longer

LEMMA LongerSame == ASSUME NEW q \in Seq(Octet) PROVE Longer(q, q)
BY DEF Longer

LEMMA LongerAppend ==
  ASSUME NEW q \in Seq(Octet), NEW b \in Octet
  PROVE  Longer(q, Append(q, b))
BY AppendProperties DEF Longer

LEMMA ConsAppend ==
  ASSUME NEW a \in Octet, NEW q \in Seq(Octet), NEW b \in Octet
  PROVE  <<a>> \o Append(q, b) = Append(<<a>> \o q, b)
OBVIOUS

LEMMA LongerBehind ==
  ASSUME NEW a \in Octet, NEW q \in Seq(Octet), NEW r, Longer(q, r)
  PROVE  Longer(<<a>> \o q, <<a>> \o r)
<1>1. r \in Seq(Octet) /\ <<a>> \o r \in Seq(Octet)
  BY DEF Longer
<1>2. CASE r = q
  BY <1>1, <1>2 DEF Longer
<1>3. ASSUME NEW b \in Octet, r = Append(q, b) PROVE Longer(<<a>> \o q, <<a>> \o r)
  BY <1>1, <1>3, ConsAppend DEF Longer
<1> QED BY <1>2, <1>3 DEF Longer

LEMMA HeadAndTail ==
  ASSUME NEW q \in Seq(Octet), q /= <<>>
  PROVE  q = <<Head(q)>> \o Tail(q) /\ Head(q) = q[1] /\ 1 \in DOMAIN q
<1>1. Len(q) \in Nat /\ Len(q) /= 0
  BY EmptySeq
<1> QED BY <1>1

LEMMA LongerTail ==
  ASSUME NEW q \in Seq(Octet), q /= <<>>, NEW r, Longer(q, r)
  PROVE  /\ r \in Seq(Octet) /\ r /= <<>> /\ Head(r) = Head(q)
         /\ Longer(Tail(q), Tail(r))
<1>1. Tail(q) \in Seq(Octet) /\ Head(q) \in Octet
  BY HeadTailProperties
<1>2. CASE r = q
  BY <1>1, <1>2 DEF Longer
<1>3. ASSUME NEW b \in Octet, r = Append(q, b)
      PROVE  r /= <<>> /\ Head(r) = Head(q) /\ Longer(Tail(q), Tail(r))
  <2>1. r = <<Head(q)>> \o Append(Tail(q), b)
    BY <1>1, <1>3, HeadAndTail, ConsAppend
  <2>2. Append(Tail(q), b) \in Seq(Octet)
    BY <1>1
  <2>3. r /= <<>> /\ Head(r) = Head(q) /\ Tail(r) = Append(Tail(q), b)
    BY <1>1, <2>1, <2>2
  <2> QED BY <1>1, <2>3, LongerAppend
<1> QED BY <1>2, <1>3 DEF Longer

LEMMA TailIsPopped ==
  ASSUME NEW q \in Seq(Octet), q /= <<>>
  PROVE  Tail(q) \in Service!Popped(q)
<1>1. Tail(q) = SubSeq(q, 2, Len(q))
  OBVIOUS
<1> QED BY <1>1 DEF Service!Popped

(* A FIFO of the chip over a clock: s is q, perhaps without its first byte, *)
(* and with byte behind it when it is pushed and there is room.             *)
Passes(q, push, byte, s) ==
  \E r \in Service!Popped(q) :
    /\ r \in Seq(Octet) /\ Len(r) <= Len(q)
    /\ s \in {r, Append(r, byte)}
    /\ ~push => s = r
    /\ push /\ Len(q) < DEPTH => s = Append(r, byte)

LEMMA AdvanceIs ==
  ASSUME NEW q \in Seq(Octet), NEW push \in BOOLEAN, NEW pop \in BOOLEAN,
         NEW byte, push => byte \in Octet
  PROVE  /\ Passes(q, push, byte, Fifo!Advance(q, push, pop, byte))
         /\ ~pop \/ q = <<>> => Longer(q, Fifo!Advance(q, push, pop, byte))
         /\ pop /\ q /= <<>> => Longer(Tail(q), Fifo!Advance(q, push, pop, byte))
         /\ ~push /\ ~pop => Fifo!Advance(q, push, pop, byte) = q
<1> DEFINE r == Fifo!Remaining(q, pop)
           s == Fifo!Advance(q, push, pop, byte)
<1>1. /\ pop /\ q /= <<>> => r = Tail(q)
      /\ ~pop \/ q = <<>> => r = q
  BY DEF Fifo!Remaining
<1>2. r \in Service!Popped(q)
  BY <1>1, TailIsPopped DEF Service!Popped
<1>3. r \in Seq(Octet) /\ Len(r) <= Len(q)
  BY <1>1, HeadIsOctet
<1>4. /\ s \in {r, Append(r, byte)}
      /\ ~push => s = r
      /\ push /\ Len(q) < DEPTH => s = Append(r, byte)
      /\ ~push \/ byte \in Octet
  BY DEF Fifo!Advance, Fifo!Accepts
<1> HIDE DEF r, s
<1>5. Longer(r, s)
  BY <1>3, <1>4, LongerSame, LongerAppend
<1>6. Passes(q, push, byte, s)
  BY <1>2, <1>3, <1>4 DEF Passes
<1> QED BY <1>1, <1>4, <1>5, <1>6 DEF s

(* The two FIFOs on a clock that does not reset the core.                   *)
LEMMA FifosMove ==
  ASSUME Bounds, NEW bus \in Bus, Clock(bus), ~core_reset(bus)
  PROVE  /\ Passes(tx_fifo, H!tx_push, e_wdata, tx_fifo')
         /\ ~H!rx_pop \/ rx_fifo = <<>> => Longer(rx_fifo, rx_fifo')
         /\ H!rx_pop /\ rx_fifo /= <<>> => Longer(Tail(rx_fifo), rx_fifo')
         /\ H!restart => UNCHANGED <<tx_fifo, rx_fifo>>
         /\ halted /\ rx_fifo = <<>> => rx_fifo' = <<>>
         /\ H!HostClock
<1>1. PICK pull \in BOOLEAN, pushed \in {<<>>} \cup {<<b>> : b \in session.bytes} :
        ChipClock(pull, pushed)
  BY DEF Clock
<1> DEFINE byte == IF pushed = <<>> THEN 0 ELSE Head(pushed)
           some == pushed /= <<>>
<1>2. /\ tx_fifo' = Fifo!Advance(tx_fifo, H!tx_push, pull, e_wdata)
      /\ rx_fifo' = Fifo!Advance(rx_fifo, some, H!rx_pop, byte)
      /\ H!HostClock
      /\ IF H!restart THEN CoreRestarts(pull, pushed)
         ELSE CoreRuns(pull, pushed) \/ (halted /\ ~pull /\ pushed = <<>> /\ CoreIdle)
  BY <1>1 DEF ChipClock
<1>3. /\ tx_fifo \in Seq(Octet) /\ rx_fifo \in Seq(Octet) /\ e_wdata \in Octet
      /\ session.bytes \subseteq Octet
      /\ H!tx_push \in BOOLEAN /\ H!rx_pop \in BOOLEAN /\ some \in BOOLEAN
  BY SessionsAssumption
     DEF Bounds, Types, ChipTypes, EngineTypes, PeripheralTypes, Octet, H!tx_push, H!rx_pop
<1>4. some => byte \in Octet
  BY <1>1, <1>3
<1>5. H!restart => ~H!tx_push /\ ~H!rx_pop /\ ~pull /\ ~some
  BY <1>2 DEF H!restart, H!control_write, H!tx_push, H!rx_pop, H!CONTROL, H!TX_DATA, H!RX_DATA,
              CoreRestarts
<1>6. halted => ~some
  BY <1>2 DEF CoreRuns, CoreRestarts
<1> HIDE DEF byte, some
<1>7. /\ Passes(tx_fifo, H!tx_push, e_wdata, tx_fifo')
      /\ ~H!tx_push /\ ~pull => tx_fifo' = tx_fifo
  BY <1>2, <1>3, AdvanceIs
<1>8. /\ ~H!rx_pop \/ rx_fifo = <<>> => Longer(rx_fifo, rx_fifo')
      /\ H!rx_pop /\ rx_fifo /= <<>> => Longer(Tail(rx_fifo), rx_fifo')
      /\ ~some /\ ~H!rx_pop => rx_fifo' = rx_fifo
  BY <1>2, <1>3, <1>4, AdvanceIs
<1>9. ~some /\ rx_fifo = <<>> => rx_fifo' = <<>>
  BY <1>2 DEF Fifo!Advance, Fifo!Remaining
<1> QED BY <1>2, <1>5, <1>6, <1>7, <1>8, <1>9

-----------------------------------------------------------------------------
(* A transaction in flight. *)

(* A decision is made with STATUS on the bus; a byte on its way has room in *)
(* the FIFO it goes to, and a drain has the byte that it will take.         *)
Flight ==
  /\ state = "STAT" => e_addr = 2
  /\ e_tx /\ OnTheWay => e_addr = 0 /\ Len(tx_fifo) < DEPTH
  /\ e_read /\ OnTheWay => e_addr = 1 /\ rx_fifo /= <<>>
  /\ e_read /\ state = "HIGH" => e_re

(* What STATUS says, read back.                                             *)
LEMMA StatusFlags ==
  ASSUME Types, e_addr = 2
  PROVE  /\ Flag(host_rdata, 2) <=> Len(tx_fifo) = DEPTH
         /\ Flag(host_rdata, 1) <=> rx_fifo = <<>>
<1> DEFINE h == IF halted THEN 4 ELSE 0
           f == IF Len(tx_fifo) = DEPTH THEN 2 ELSE 0
           e == IF rx_fifo = <<>> THEN 1 ELSE 0
<1>1. host_rdata = h + f + e
  BY DEF host_rdata, H!TX_DATA, H!RX_DATA, H!STATUS, H!CONTROL
<1>2. h \in {0, 4} /\ f \in {0, 2} /\ e \in {0, 1}
  OBVIOUS
<1>3. (f = 2 <=> Len(tx_fifo) = DEPTH) /\ (e = 1 <=> rx_fifo = <<>>)
  OBVIOUS
<1> HIDE DEF h, f, e
<1>4. /\ ((h + f + e) \div 2) % 2 = 1 <=> f = 2
      /\ ((h + f + e) \div 1) % 2 = 1 <=> e = 1
  BY <1>2
<1> QED BY <1>1, <1>3, <1>4 DEF Flag

LEMMA OnTheWayStep ==
  ASSUME Types, NEW in, EngineClock(in)
  PROVE  OnTheWay' <=> \/ Stat(in) /\ state' = "SETUP"
                       \/ Setup(in) /\ state' = "HIGH"
                       \/ High(in) /\ state' = "HIGH" /\ count \in 0 .. 1
<1>1. CASE Hold(in)
  BY <1>1 DEF Hold, OnTheWay, Stat, Setup, High, deciding
<1>2. CASE Low0(in)
  BY <1>2 DEF Low0, OnTheWay, Stat, Setup, High, deciding
<1>3. CASE Stat(in)
  BY <1>3 DEF OnTheWay, Stat, Setup, High, deciding
<1>4. CASE Setup(in)
  BY <1>4 DEF OnTheWay, Stat, Setup, High, deciding
<1>5. CASE High(in)
  <2>1. count \in 0 .. 3
    BY <1>5 DEF High, Types, EngineTypes
  <2>2. count' = count + 1
    BY <1>5, <2>1 DEF High
  <2>3. state' \in {"LOW0", "HIGH"}
    BY <1>5 DEF High
  <2>4. ~Stat(in) /\ ~Setup(in)
    BY <1>5 DEF High, Stat, Setup, deciding
  <2> QED BY <1>5, <2>1, <2>2, <2>3, <2>4 DEF OnTheWay
<1> QED BY <1>1, <1>2, <1>3, <1>4, <1>5 DEF EngineClock

LEMMA FlightStep ==
  ASSUME Bounds, Flight, NEW bus \in Bus, Clock(bus)
  PROVE  Flight'
<1> DEFINE in == In(bus, host_rdata)
<1>1. /\ EngineClock(in) /\ in.reset = core_reset(bus) /\ in.rdata = host_rdata
      /\ Types /\ Synchronized
  BY PortTypes DEF Clock, AxiClock, Bounds
<1> HIDE DEF in
<1>2. ASSUME ~core_reset(bus), ~ (state = "HIGH" /\ count \in 2 .. 3)
      PROVE  /\ Len(tx_fifo) < DEPTH => Len(tx_fifo') < DEPTH
             /\ rx_fifo /= <<>> => rx_fifo' /= <<>>
  <2>1. ~H!tx_push /\ ~H!rx_pop
    BY <1>1, <1>2, Acts DEF H!tx_push, H!rx_pop
  <2>2. PICK q \in Seq(Octet) : Len(q) <= Len(tx_fifo) /\ tx_fifo' = q
    BY <1>2, <2>1, FifosMove DEF Passes
  <2>3. Longer(rx_fifo, rx_fifo')
    BY <1>2, <2>1, FifosMove
  <2>4. tx_fifo \in Seq(Octet) /\ rx_fifo \in Seq(Octet) /\ DEPTH \in Nat
    BY <1>1, ChipAssumption DEF Types, ChipTypes
  <2>5. Len(tx_fifo) < DEPTH => Len(tx_fifo') < DEPTH
    BY <2>2, <2>4
  <2> QED BY <2>3, <2>4, <2>5, LongerTail
<1>3. CASE Hold(in)
  BY <1>3 DEF Hold, Flight, OnTheWay
<1>4. CASE Low0(in)
  BY <1>4 DEF Low0, Flight, OnTheWay
<1>5. CASE Stat(in)
  <2>1. ~core_reset(bus) /\ state = "STAT" /\ e_addr = 2 /\ state' \in {"STAT", "SETUP"}
    BY <1>1, <1>5 DEF Stat, deciding, Flight
  <2>2. /\ take_tx(in) => Len(tx_fifo) < DEPTH
        /\ take_rx(in) => rx_fifo /= <<>>
    <3>1. Len(tx_fifo) \in Nat /\ Len(tx_fifo) <= DEPTH /\ DEPTH \in Nat
      BY <1>1, ChipAssumption DEF Types, ChipTypes
    <3> QED BY <1>1, <2>1, <3>1, StatusFlags DEF take_tx, take_rx
  <2>3. /\ state' = "STAT" => ~take_ctrl(in) /\ ~take_raw(in) /\ ~take_tx(in) /\ ~take_rx(in)
        /\ take_tx(in) => ~take_ctrl(in) /\ ~take_raw(in)
        /\ take_rx(in) => ~take_ctrl(in) /\ ~take_raw(in) /\ ~take_tx(in)
    BY <1>5 DEF Stat, take_ctrl, take_raw, take_tx, take_rx
  <2>4. /\ state' = "STAT" => e_addr' = 2
        /\ take_tx(in) => e_addr' = 0
        /\ take_rx(in) => e_addr' = 1
        /\ e_tx' = take_tx(in) /\ e_read' = take_rx(in)
    BY <1>5, <2>1, <2>3 DEF Stat
  <2>5. /\ Len(tx_fifo) < DEPTH => Len(tx_fifo') < DEPTH
        /\ rx_fifo /= <<>> => rx_fifo' /= <<>>
    BY <1>2, <2>1
  <2> QED BY <2>1, <2>2, <2>4, <2>5 DEF Flight
<1>6. CASE Setup(in)
  <2>1. ~core_reset(bus) /\ state = "SETUP" /\ state' \in {"LOW0", "HIGH"}
    BY <1>1, <1>6 DEF Setup
  <2>2. UNCHANGED <<e_addr, e_tx, e_read>> /\ (e_read /\ ~e_raw => e_re' = e_read)
    BY <1>6 DEF Setup
  <2>3. e_read => ~e_raw
    BY <1>1 DEF Types, Phases
  <2>4. /\ Len(tx_fifo) < DEPTH => Len(tx_fifo') < DEPTH
        /\ rx_fifo /= <<>> => rx_fifo' /= <<>>
    BY <1>2, <2>1
  <2>5. OnTheWay
    BY <2>1 DEF OnTheWay
  <2> QED BY <2>1, <2>2, <2>3, <2>4, <2>5 DEF Flight
<1>7. CASE High(in)
  <2>1. ~core_reset(bus) /\ state = "HIGH" /\ state' \in {"LOW0", "HIGH"}
    BY <1>1, <1>7 DEF High
  <2>2. UNCHANGED <<e_addr, e_tx, e_read>> /\ (state' = "HIGH" => e_re' = e_re)
    BY <1>7 DEF High
  <2>3. OnTheWay' => count \in 0 .. 1
    BY <1>1, <1>7, OnTheWayStep DEF High, Stat, Setup, deciding
  <2>4. count \in 0 .. 1 => OnTheWay /\ ~ count \in 2 .. 3
    BY <2>1 DEF OnTheWay
  <2>5. OnTheWay' => /\ Len(tx_fifo) < DEPTH => Len(tx_fifo') < DEPTH
                     /\ rx_fifo /= <<>> => rx_fifo' /= <<>>
    BY <1>2, <2>1, <2>3, <2>4
  <2>6. OnTheWay' => OnTheWay
    BY <2>3, <2>4
  <2> QED BY <2>1, <2>2, <2>5, <2>6 DEF Flight
<1> QED BY <1>1, <1>3, <1>4, <1>5, <1>6, <1>7 DEF EngineClock

LEMMA InitFlight == Init => Flight
BY DEF Init, EngineInit, Flight, OnTheWay

-----------------------------------------------------------------------------
(* The ring. *)

(* A session whose ARM clears the ring at rest, as the test programs do.    *)
QuietClears ==
  \A s \in Sessions : \A w \in s.writes :
    w.reg = "COMMAND" /\ w.rx_clear => "rx_clear" \in s.quiet

(* So no drain is under way when the clear arrives.                         *)
ClearsAtRest == rx_clear_p => rx_fifo = <<>>

LEMMA ClearsAtRestStep ==
  ASSUME Bounds, QuietClears, NEW bus \in Bus, Clock(bus)
  PROVE  ClearsAtRest'
<1> SUFFICES ASSUME rx_clear_p' PROVE rx_fifo' = <<>>
  BY DEF ClearsAtRest
<1>1. wr(bus) /\ bus.write.reg = "COMMAND" /\ bus.write.rx_clear
  BY DEF Clock, AxiClock, WriteSide, writes
<1>2. bus.write \in session.writes /\ MayWrite(bus.write) /\ session \in Sessions
  BY <1>1 DEF wr, Bus, Bounds, Types, PeripheralTypes
<1>3. "rx_clear" \in session.quiet
  BY <1>1, <1>2 DEF QuietClears
<1>4. halted /\ rx_fifo = <<>>
  BY <1>1, <1>2, <1>3 DEF MayWrite, AtRest
<1>5. CASE core_reset(bus)
  BY <1>5 DEF Clock, ChipReset
<1>6. CASE ~core_reset(bus)
  BY <1>4, <1>6, FifosMove
<1> QED BY <1>5, <1>6

(* The ring is fifo.v's, at other widths.                                   *)
Buffer == INSTANCE FifoProofs
            WITH Byte <- Octet, DEPTH <- RX_SIZE, NoByte <- 256,
                 mem <- rx_buf, rd_ptr <- rx_rd, wr_ptr <- rx_wr, count <- rx_count,
                 offered <- 256, taken <- 256

ReceivedFrom(m, r, n) == [i \in 1 .. n |-> m[(r + i - 1) % RX_SIZE]]

Received == ReceivedFrom(rx_buf, rx_rd, rx_count)

LEMMA BufferConstants == Buffer!DepthAssumption /\ Buffer!NoByteAssumption
BY RingAssumption DEF Buffer!DepthAssumption, Buffer!NoByteAssumption, Octet

LEMMA Wrapped ==
  ASSUME NEW n \in 0 .. 2 * RX_SIZE - 1
  PROVE  n % RX_SIZE = Buffer!Wrap(n)
<1>1. RX_SIZE \in Nat \ {0} /\ n \in Nat
  BY RingAssumption
<1>2. CASE n < RX_SIZE
  BY <1>1, <1>2 DEF Buffer!Wrap
<1>3. CASE n >= RX_SIZE
  <2>1. n - RX_SIZE \in 0 .. RX_SIZE - 1 /\ n = (n - RX_SIZE) + 1 * RX_SIZE
    BY <1>1, <1>3
  <2>2. n % RX_SIZE = n - RX_SIZE
    BY <1>1, <2>1
  <2> QED BY <1>3, <2>2 DEF Buffer!Wrap
<1> QED BY <1>1, <1>2, <1>3

LEMMA AfterIsNext ==
  ASSUME NEW a \in 0 .. RX_SIZE - 1
  PROVE  After(a) = Buffer!ptr_next(a) /\ After(a) \in 0 .. RX_SIZE - 1
<1>1. RX_SIZE \in Nat \ {0} /\ a + 1 \in 0 .. 2 * RX_SIZE - 1
  BY RingAssumption
<1>2. After(a) = Buffer!Wrap(a + 1)
  BY <1>1, Wrapped DEF After
<1> QED BY <1>1, <1>2 DEF Buffer!Wrap, Buffer!ptr_next

Buffers == [0 .. RX_SIZE - 1 -> Octet]

LEMMA ReceivedIs ==
  ASSUME NEW m \in Buffers, NEW r \in 0 .. RX_SIZE - 1, NEW n \in 0 .. RX_SIZE
  PROVE  /\ ReceivedFrom(m, r, n) = Buffer!Ring(m, r, n)
         /\ ReceivedFrom(m, r, n) \in Seq(Octet) /\ Len(ReceivedFrom(m, r, n)) = n
<1>1. RX_SIZE \in Nat \ {0} /\ Buffers = [Buffer!Address -> Octet] /\ r \in Buffer!Address
  BY RingAssumption DEF Buffers, Buffer!Address
<1>2. \A i \in 1 .. n : (r + i - 1) % RX_SIZE = Buffer!Wrap(r + (i - 1))
  <2> TAKE i \in 1 .. n
  <2>1. r + i - 1 \in 0 .. 2 * RX_SIZE - 1 /\ r + i - 1 = r + (i - 1)
    BY <1>1
  <2> QED BY <2>1, Wrapped
<1>3. ReceivedFrom(m, r, n) = Buffer!Ring(m, r, n)
  BY <1>2 DEF ReceivedFrom, Buffer!Ring
<1>4. Buffer!Ring(m, r, n) \in Seq(Octet) /\ Len(Buffer!Ring(m, r, n)) = n
  BY <1>1, BufferConstants, Buffer!RingProperties
<1> QED BY <1>3, <1>4

LEMMA ReceivedTail ==
  ASSUME NEW m \in Buffers, NEW r \in 0 .. RX_SIZE - 1, NEW n \in 1 .. RX_SIZE
  PROVE  /\ ReceivedFrom(m, r, n) /= <<>>
         /\ Head(ReceivedFrom(m, r, n)) = m[r]
         /\ Tail(ReceivedFrom(m, r, n)) = ReceivedFrom(m, Buffer!ptr_next(r), n - 1)
<1>1. RX_SIZE \in Nat \ {0} /\ Buffers = [Buffer!Address -> Octet] /\ r \in Buffer!Address
  BY RingAssumption DEF Buffers, Buffer!Address
<1>2. /\ Buffer!Ring(m, r, n) /= <<>> /\ Head(Buffer!Ring(m, r, n)) = m[r]
      /\ Tail(Buffer!Ring(m, r, n)) = Buffer!Ring(m, Buffer!ptr_next(r), n - 1)
  BY <1>1, BufferConstants, Buffer!RingTail
<1>3. n \in 0 .. RX_SIZE /\ n - 1 \in 0 .. RX_SIZE /\ Buffer!ptr_next(r) \in 0 .. RX_SIZE - 1
  BY <1>1, AfterIsNext
<1> QED BY <1>2, <1>3, ReceivedIs

LEMMA ReceivedAppend ==
  ASSUME NEW m \in Buffers, NEW r \in 0 .. RX_SIZE - 1, NEW n \in 0 .. RX_SIZE - 1,
         NEW byte \in Octet
  PROVE  ReceivedFrom([m EXCEPT ![Buffer!Wrap(r + n)] = byte], r, n + 1)
           = Append(ReceivedFrom(m, r, n), byte)
<1>1. RX_SIZE \in Nat \ {0} /\ Buffers = [Buffer!Address -> Octet] /\ r \in Buffer!Address
  BY RingAssumption DEF Buffers, Buffer!Address
<1>2. Buffer!Ring([m EXCEPT ![Buffer!Wrap(r + n)] = byte], r, n + 1)
        = Append(Buffer!Ring(m, r, n), byte)
  BY <1>1, BufferConstants, Buffer!RingAppend
<1>3. n \in 0 .. RX_SIZE /\ n + 1 \in 0 .. RX_SIZE
  BY <1>1
<1>4. [m EXCEPT ![Buffer!Wrap(r + n)] = byte] \in Buffers
  BY DEF Buffers
<1> QED BY <1>2, <1>3, <1>4, ReceivedIs

(* The ring over a clock on which it is not cleared as a byte arrives.      *)
Kept(in) == IF stores(in) THEN <<in.rdata>> ELSE <<>>

LEMMA ReceivedStep ==
  ASSUME Types, RingTypes', Buffer!PointersAgree, NEW in, Ring(in), in.rdata \in Octet,
         ~ (clears(in) /\ captures(in))
  PROVE  /\ Buffer!PointersAgree'
         /\ clears(in) => Received' = <<>>
         /\ ~clears(in) /\ pops(in) => Received' = Tail(Received) \o Kept(in)
         /\ ~clears(in) /\ ~pops(in) => Received' = Received \o Kept(in)
<1>1. /\ RX_SIZE \in Nat \ {0} /\ rx_rd \in 0 .. RX_SIZE - 1 /\ rx_count \in 0 .. RX_SIZE
      /\ rx_wr \in 0 .. RX_SIZE - 1 /\ rx_buf \in Buffers
      /\ rx_wr = Buffer!Wrap(rx_rd + rx_count)
  BY RingAssumption DEF Types, RingTypes, Buffer!PointersAgree, Buffers
<1>2. /\ Received \in Seq(Octet)
      /\ Received' = ReceivedFrom(rx_buf', rx_rd', rx_count')
      /\ Received' \in Seq(Octet) /\ Len(Received') = rx_count'
  <2>1. rx_buf' \in Buffers /\ rx_rd' \in 0 .. RX_SIZE - 1 /\ rx_count' \in 0 .. RX_SIZE
    BY DEF RingTypes, Buffers
  <2>2. Received' = ReceivedFrom(rx_buf', rx_rd', rx_count')
    BY DEF Received, ReceivedFrom
  <2> QED BY <1>1, <2>1, <2>2, ReceivedIs DEF Received
<1>3. CASE clears(in)
  <2>1. rx_rd' = 0 /\ rx_wr' = 0 /\ rx_count' = 0
    BY <1>3 DEF Ring, stores
  <2>2. Received' = <<>>
    BY <1>2, <2>1, EmptySeq
  <2>3. Buffer!PointersAgree'
    BY <1>1, <2>1 DEF Buffer!PointersAgree, Buffer!Wrap
  <2> QED BY <1>3, <2>2, <2>3
<1> DEFINE r == IF pops(in) THEN Buffer!ptr_next(rx_rd) ELSE rx_rd
           n == IF pops(in) THEN rx_count - 1 ELSE rx_count
           left == IF pops(in) THEN Tail(Received) ELSE Received
<1>4. /\ r \in 0 .. RX_SIZE - 1 /\ n \in 0 .. RX_SIZE
      /\ left = ReceivedFrom(rx_buf, r, n) /\ left \in Seq(Octet)
      /\ rx_wr = Buffer!Wrap(r + n)
  <2>1. CASE pops(in)
    <3>1. rx_count \in 1 .. RX_SIZE
      BY <1>1, <2>1 DEF pops
    <3>2. /\ Received /= <<>>
          /\ Tail(Received) = ReceivedFrom(rx_buf, Buffer!ptr_next(rx_rd), rx_count - 1)
      BY <1>1, <3>1, ReceivedTail DEF Received
    <3>3. Buffer!ptr_next(rx_rd) \in 0 .. RX_SIZE - 1
      BY <1>1, AfterIsNext
    <3>4. rx_wr = Buffer!Wrap(Buffer!ptr_next(rx_rd) + (rx_count - 1))
      BY <1>1, <3>1 DEF Buffer!Wrap, Buffer!ptr_next
    <3>5. Tail(Received) \in Seq(Octet)
      BY <1>2, <3>2, HeadIsOctet
    <3> QED BY <1>1, <2>1, <3>1, <3>2, <3>3, <3>4, <3>5
  <2>2. CASE ~pops(in)
    BY <1>1, <1>2, <2>2 DEF Received
  <2> QED BY <2>1, <2>2
<1>5. ~clears(in) => /\ rx_rd' = r
                     /\ rx_count' = IF stores(in) THEN n + 1 ELSE n
                     /\ rx_buf' = IF stores(in) THEN [rx_buf EXCEPT ![rx_wr] = in.rdata] ELSE rx_buf
                     /\ rx_wr' = IF stores(in) THEN Buffer!ptr_next(rx_wr) ELSE rx_wr
  <2>1. After(rx_rd) = Buffer!ptr_next(rx_rd) /\ After(rx_wr) = Buffer!ptr_next(rx_wr)
    BY <1>1, AfterIsNext
  <2>2. stored_count(in) = n + 1
    BY <1>1 DEF stored_count
  <2> QED BY <2>1, <2>2 DEF Ring
<1>9. Buffer!PointersAgree' <=> rx_wr' = Buffer!Wrap(rx_rd' + rx_count')
  BY DEF Buffer!PointersAgree, Buffer!Wrap
<1>6. stores(in) => n \in 0 .. RX_SIZE - 1
  BY <1>1, <1>4 DEF stores
<1> HIDE DEF r, n, left
<1>7. CASE ~clears(in) /\ stores(in)
  <2>1. Received' = ReceivedFrom([rx_buf EXCEPT ![Buffer!Wrap(r + n)] = in.rdata], r, n + 1)
    BY <1>2, <1>4, <1>5, <1>7
  <2>2. Received' = Append(left, in.rdata)
    <3>1. n \in 0 .. RX_SIZE - 1 /\ r \in 0 .. RX_SIZE - 1 /\ rx_buf \in Buffers
      BY <1>1, <1>4, <1>6, <1>7
    <3>2. ReceivedFrom([rx_buf EXCEPT ![Buffer!Wrap(r + n)] = in.rdata], r, n + 1)
            = Append(ReceivedFrom(rx_buf, r, n), in.rdata)
      BY <3>1, ReceivedAppend
    <3> QED BY <1>4, <2>1, <3>2
  <2>3. Received' = left \o Kept(in)
    BY <1>4, <1>7, <2>2 DEF Kept
  <2>4. Buffer!PointersAgree'
    <3>1. rx_wr' = Buffer!ptr_next(Buffer!Wrap(r + n)) /\ rx_rd' = r /\ rx_count' = n + 1
      BY <1>4, <1>5, <1>7
    <3>2. Buffer!ptr_next(Buffer!Wrap(r + n)) = Buffer!Wrap(r + (n + 1))
      BY <1>1, <1>4, <1>6, <1>7 DEF Buffer!Wrap, Buffer!ptr_next
    <3> QED BY <1>9, <3>1, <3>2
  <2> QED BY <1>7, <2>3, <2>4 DEF left
<1>8. CASE ~clears(in) /\ ~stores(in)
  <2>1. Received' = left /\ Kept(in) = <<>>
    BY <1>2, <1>4, <1>5, <1>8 DEF Kept
  <2>2. Received' = left \o Kept(in)
    BY <1>4, <2>1
  <2>3. Buffer!PointersAgree'
    BY <1>4, <1>5, <1>8, <1>9
  <2> QED BY <1>8, <2>2, <2>3 DEF left
<1> QED BY <1>3, <1>7, <1>8 DEF left

Drained(in) == IF captures(in) THEN <<in.rdata>> ELSE <<>>

(* What the ARM's read of RX_DATA returns.                                  *)
LEMMA ReadStep ==
  ASSUME Types, NEW bus \in Bus, ReadSide(bus), NEW in, in.rx_pop = rx_pop(bus)
  PROVE  /\ pops(in) => /\ Received /= <<>> /\ 1 \in 1 .. Len(Received)
                        /\ Head(Received) = Received[1]
                        /\ s_axi_rdata' \in {NothingRead, [valid |-> TRUE, byte |-> Head(Received)]}
         /\ ~pops(in) => s_axi_rdata' \in {s_axi_rdata, NothingRead}
<1>1. s_axi_rdata' \in {s_axi_rdata, NothingRead, [valid |-> TRUE, byte |-> rx_head]}
  BY DEF ReadSide
<1>2. CASE pops(in)
  <2>1. rd(bus) /\ bus.read = "RX_DATA" /\ rx_count /= 0
    BY <1>2 DEF pops, rx_pop
  <2>2. rx_buf \in Buffers /\ rx_rd \in 0 .. RX_SIZE - 1 /\ rx_count \in 1 .. RX_SIZE
    BY <2>1, RingAssumption DEF Types, RingTypes, Buffers
  <2>3. Received /= <<>> /\ Head(Received) = rx_head
    BY <2>2, ReceivedTail DEF Received, rx_head
  <2>4. Received \in Seq(Octet)
    BY <2>2, RingAssumption, ReceivedIs DEF Received
  <2>5. Head(Received) = Received[1] /\ 1 \in 1 .. Len(Received)
    BY <2>3, <2>4, HeadAndTail
  <2>6. s_axi_rdata' \in {NothingRead, [valid |-> TRUE, byte |-> rx_head]}
    BY <2>1 DEF ReadSide
  <2> QED BY <1>2, <2>3, <2>5, <2>6
<1>3. CASE ~pops(in)
  BY <1>3 DEF ReadSide, pops, rx_pop
<1> QED BY <1>2, <1>3

LEMMA ReceivingStep ==
  ASSUME Bounds, RingTypes', Flight, ClearsAtRest, Buffer!PointersAgree,
         NEW bus \in Bus, Clock(bus)
  PROVE  /\ Service!Receiving(Drained(In(bus, host_rdata)))
         /\ Buffer!PointersAgree'
<1> DEFINE in == In(bus, host_rdata)
<1>1. /\ Ring(in) /\ ReadSide(bus) /\ Types
      /\ in.rdata \in Octet /\ in.rx_clear = rx_clear_p /\ in.rx_pop = rx_pop(bus)
  BY PortTypes DEF Clock, AxiClock, EngineClock, Bounds
<1>2. SUFFICES Service!Receiving(Drained(in)) /\ Buffer!PointersAgree'
  OBVIOUS
<1> HIDE DEF in
<1>3. ~ (clears(in) /\ captures(in))
  BY <1>1 DEF clears, captures, ClearsAtRest, Flight, OnTheWay
<1>4. /\ Buffer!PointersAgree'
      /\ clears(in) => Received' = <<>>
      /\ ~clears(in) /\ pops(in) => Received' = Tail(Received) \o Kept(in)
      /\ ~clears(in) /\ ~pops(in) => Received' = Received \o Kept(in)
  BY <1>1, <1>3, ReceivedStep
<1>5. /\ pops(in) => /\ Received /= <<>> /\ 1 \in 1 .. Len(Received)
                     /\ Head(Received) = Received[1]
                     /\ s_axi_rdata' \in {NothingRead, [valid |-> TRUE, byte |-> Head(Received)]}
      /\ ~pops(in) => s_axi_rdata' \in {s_axi_rdata, NothingRead}
  BY <1>1, ReadStep
<1>6. Len(Received) = rx_count
  <2>1. rx_buf \in Buffers /\ rx_rd \in 0 .. RX_SIZE - 1 /\ rx_count \in 0 .. RX_SIZE
    BY <1>1 DEF Types, RingTypes, Buffers
  <2> QED BY <2>1, ReceivedIs DEF Received
<1> DEFINE kept == IF Len(Received) < RX_SIZE THEN Drained(in) ELSE <<>>
<1>7. kept = Kept(in) /\ (Drained(in) /= kept <=> captures(in) /\ ~stores(in))
  <2>1. <<in.rdata>> /= <<>>
    OBVIOUS
  <2> QED BY <1>6, <2>1 DEF Kept, Drained, stores
<1>8. rx_overflow' = ((captures(in) /\ ~stores(in)) \/ (rx_overflow /\ ~clears(in)))
  BY <1>1 DEF Ring
<1>9. Service!Receiving(Drained(in)) <=>
        \/ /\ rx_overflow' = (rx_overflow \/ Drained(in) /= kept)
           /\ \/ Received' = Received \o kept /\ s_axi_rdata' \in {s_axi_rdata, NothingRead}
              \/ /\ Received /= <<>> /\ Received' = Tail(Received) \o kept
                 /\ s_axi_rdata' \in {NothingRead, [valid |-> TRUE, byte |-> Head(Received)]}
        \/ /\ Drained(in) = <<>> /\ Received' = <<>> /\ rx_overflow' = FALSE
           /\ s_axi_rdata' \in {s_axi_rdata, NothingRead}
                \cup {[valid |-> TRUE, byte |-> Received[i]] : i \in 1 .. Len(Received)}
  BY DEF Service!Receiving, Service!Nothing, NothingRead, Received, ReceivedFrom
<1> HIDE DEF kept
<1>10. CASE clears(in)
  <2>1. Drained(in) = <<>> /\ rx_overflow' = FALSE
    BY <1>3, <1>8, <1>10 DEF Drained, stores
  <2>2. s_axi_rdata' \in {s_axi_rdata, NothingRead}
          \cup {[valid |-> TRUE, byte |-> Received[i]] : i \in 1 .. Len(Received)}
    BY <1>5
  <2> QED BY <1>4, <1>9, <1>10, <2>1, <2>2
<1>11. CASE ~clears(in)
  <2>1. rx_overflow' = (rx_overflow \/ Drained(in) /= kept)
    BY <1>7, <1>8, <1>11
  <2> QED BY <1>4, <1>5, <1>7, <1>9, <1>11, <2>1
<1> QED BY <1>10, <1>11

-----------------------------------------------------------------------------
(* Staging. *)

(* A byte the engine took is still staged until host.v acts on it.          *)
Lead == IF e_tx /\ OnTheWay THEN <<e_wdata>> ELSE <<>>

Staged == IF e_tx /\ OnTheWay THEN <<e_wdata>> \o stg ELSE stg

Sent == IF e_tx /\ state = "HIGH" /\ count = 2 THEN <<e_wdata>> ELSE <<>>

(* What a clock of the engine leaves of the staged bytes.                   *)
LEMMA EngineSends ==
  ASSUME Types, stg' \in Seq(Octet), NEW in, EngineClock(in), ~in.reset,
         in.tx_valid = (stg /= <<>>), stg /= <<>> => in.tx_data = Head(stg)
  PROVE  /\ take_tx(in) => /\ Lead = <<>> /\ Sent = <<>> /\ stg /= <<>>
                           /\ Staged' = <<Head(stg)>> \o stg'
         /\ ~take_tx(in) => Sent \o Staged' = Lead \o stg'
<1>1. OnTheWay' <=> \/ Stat(in) /\ state' = "SETUP"
                    \/ Setup(in) /\ state' = "HIGH"
                    \/ High(in) /\ state' = "HIGH" /\ count \in 0 .. 1
  BY OnTheWayStep
<1>2. /\ e_tx' /\ OnTheWay' => Staged' = <<e_wdata'>> \o stg'
      /\ ~ (e_tx' /\ OnTheWay') => Staged' = stg'
      /\ <<>> \o stg' = stg'
  BY DEF Staged
<1>3. CASE Low0(in)
  <2>1. Lead = <<>> /\ Sent = <<>> /\ ~take_tx(in) /\ ~OnTheWay'
    BY <1>1, <1>3 DEF Low0, Lead, Sent, OnTheWay, take_tx, deciding, Stat, Setup, High
  <2> QED BY <1>2, <2>1
<1>4. CASE Stat(in)
  <2>1. Lead = <<>> /\ Sent = <<>> /\ (OnTheWay' <=> state' = "SETUP")
    BY <1>1, <1>4 DEF Stat, Lead, Sent, OnTheWay, deciding, Setup, High
  <2>2. take_tx(in) => /\ e_tx' /\ state' = "SETUP" /\ stg /= <<>> /\ e_wdata' = Head(stg)
    <3>1. take_tx(in) => ~take_ctrl(in) /\ ~take_raw(in) /\ stg /= <<>>
      BY DEF take_tx, take_ctrl, take_raw
    <3> QED BY <1>4, <3>1 DEF Stat
  <2>3. ~take_tx(in) => ~e_tx'
    BY <1>4 DEF Stat
  <2> QED BY <1>2, <2>1, <2>2, <2>3
<1>5. CASE Setup(in)
  <2>1. state = "SETUP" /\ UNCHANGED <<e_tx, e_wdata>> /\ (e_tx => state' = "HIGH")
    BY <1>5 DEF Setup, Types, Phases
  <2>2. Sent = <<>> /\ Lead = (IF e_tx THEN <<e_wdata>> ELSE <<>>) /\ ~take_tx(in)
    BY <2>1 DEF Sent, Lead, OnTheWay, take_tx, deciding
  <2>3. e_tx => OnTheWay'
    BY <1>1, <1>5, <2>1
  <2>4. <<>> \o Staged' = Staged'
    BY <1>2, <2>1
  <2> QED BY <1>2, <2>1, <2>2, <2>3, <2>4
<1>6. CASE High(in)
  <2>1. state = "HIGH" /\ UNCHANGED <<e_tx, e_wdata>> /\ ~take_tx(in) /\ count \in 0 .. 3
    BY <1>6 DEF High, take_tx, deciding, Types, EngineTypes
  <2>2. OnTheWay' <=> state' = "HIGH" /\ count \in 0 .. 1
    BY <1>1, <1>6, <2>1 DEF Stat, Setup, deciding
  <2>3. count /= 3 => state' = "HIGH"
    BY <1>6 DEF High, high_done
  <2>4. CASE count \in 0 .. 1
    <3>1. Sent = <<>> /\ Lead = (IF e_tx THEN <<e_wdata>> ELSE <<>>) /\ OnTheWay'
      BY <2>1, <2>2, <2>3, <2>4 DEF Sent, Lead, OnTheWay
    <3>2. <<>> \o Staged' = Staged'
      BY <1>2, <2>1
    <3> QED BY <1>2, <2>1, <3>1, <3>2
  <2>5. CASE count = 2
    <3>1. Sent = Lead /\ ~OnTheWay'
      BY <2>1, <2>2, <2>5 DEF Sent, Lead, OnTheWay
    <3> QED BY <1>2, <2>1, <3>1
  <2>6. CASE count = 3
    <3>1. Sent = <<>> /\ Lead = <<>> /\ ~OnTheWay'
      BY <2>1, <2>2, <2>6 DEF Sent, Lead, OnTheWay
    <3> QED BY <1>2, <2>1, <3>1
  <2> QED BY <2>1, <2>4, <2>5, <2>6
<1> QED BY <1>3, <1>4, <1>5, <1>6 DEF EngineClock, Hold

LEMMA HeadInFront ==
  ASSUME NEW q \in Seq(Octet), q /= <<>>
  PROVE  <<Head(q)>> \in Service!Front(q)
<1>1. Head(q) = q[1] /\ 1 \in DOMAIN q
  BY HeadAndTail
<1> QED BY <1>1 DEF Service!Front

LEMMA LeadInFront ==
  ASSUME NEW a \in Octet, NEW q \in Seq(Octet)
  PROVE  <<a>> \in Service!Front(<<a>> \o q)
<1>1. /\ <<a>> \o q \in Seq(Octet) /\ <<a>> \o q /= <<>> /\ Head(<<a>> \o q) = a
  OBVIOUS
<1> QED BY <1>1, HeadInFront

LEMMA TakenMoves ==
  ASSUME NEW q \in Seq(Octet), q /= <<>>, NEW r
  PROVE  /\ Longer(Tail(q), r) => Longer(q, <<Head(q)>> \o r)
         /\ r = <<>> => <<Head(q)>> \o r \in Service!Front(q)
<1>1. Head(q) \in Octet /\ Tail(q) \in Seq(Octet) /\ q = <<Head(q)>> \o Tail(q)
  BY HeadIsOctet, HeadAndTail
<1>2. <<Head(q)>> \o <<>> = <<Head(q)>>
  BY <1>1
<1>3. r = <<>> => <<Head(q)>> \o r \in Service!Front(q)
  BY <1>2, HeadInFront
<1>4. Longer(Tail(q), r) => Longer(<<Head(q)>> \o Tail(q), <<Head(q)>> \o r)
  BY <1>1, LongerBehind
<1> QED BY <1>1, <1>3, <1>4

LEMMA LedMoves ==
  ASSUME NEW q \in Seq(Octet), NEW r, NEW a \in Octet, NEW lead \in {<<>>, <<a>>}
  PROVE  /\ Longer(q, r) => Longer(lead \o q, lead \o r)
         /\ r = <<>> => lead \o r \in Service!Front(lead \o q)
<1>1. CASE lead = <<>>
  <2>1. <<>> \o q = q /\ (r \in Seq(Octet) => <<>> \o r = r)
    OBVIOUS
  <2>2. <<>> \in Seq(Octet) /\ <<>> \in Service!Front(q)
    BY DEF Service!Front
  <2> QED BY <1>1, <2>1, <2>2 DEF Longer
<1>2. CASE lead = <<a>>
  <2>1. <<a>> \o <<>> = <<a>>
    OBVIOUS
  <2> QED BY <1>2, <2>1, LongerBehind, LeadInFront
<1> QED BY <1>1, <1>2

LEMMA StagingStep ==
  ASSUME Types, Types', NEW bus \in Bus, Clock(bus), ~core_reset(bus)
  PROVE  Service!Staging(Sent) /\ Sent \in Service!Front(Staged)
<1> DEFINE in == In(bus, host_rdata)
           kept == IF flush(bus) THEN <<>> ELSE IF take_tx(in) THEN Tail(stg) ELSE stg
<1>1. /\ EngineClock(in) /\ ~in.reset
      /\ in.tx_valid = (stg /= <<>>) /\ (stg /= <<>> => in.tx_data = Head(stg))
      /\ stg' = IF stage(bus) /\ ~flush(bus) THEN Append(kept, bus.write.byte) ELSE kept
  BY PortTypes DEF Clock, AxiClock, Staging
<1>2. stage(bus) => bus.write.byte \in Octet
  BY WriteTypes DEF stage, writes, Fits, Octet
<1>3. /\ stg \in Seq(Octet) /\ stg' \in Seq(Octet) /\ Len(stg') <= TX_DEPTH
      /\ TX_DEPTH \in Nat /\ e_wdata \in Octet
  BY StagingAssumption DEF Types, PeripheralTypes, EngineTypes
<1> HIDE DEF in
<1>4. /\ take_tx(in) => /\ Lead = <<>> /\ Sent = <<>> /\ stg /= <<>>
                        /\ Staged' = <<Head(stg)>> \o stg'
      /\ ~take_tx(in) => Sent \o Staged' = Lead \o stg'
  BY <1>1, <1>3, EngineSends
<1>5. Staged = Lead \o stg /\ Lead \in {<<>>, <<e_wdata>>}
  BY <1>3 DEF Staged, Lead
<1>6. Sent \in {<<>>, Lead} /\ Staged' \in {stg', <<e_wdata'>> \o stg'}
  BY DEF Sent, Lead, OnTheWay, Staged
<1>7. /\ flush(bus) => stg' = <<>>
      /\ ~flush(bus) /\ take_tx(in) => Longer(Tail(stg), stg')
      /\ ~flush(bus) /\ ~take_tx(in) => Longer(stg, stg')
  <2>1. kept \in Seq(Octet)
    BY <1>3, <1>4, HeadIsOctet
  <2>2. ~flush(bus) => stg' = kept \/ (stage(bus) /\ stg' = Append(kept, bus.write.byte))
    BY <1>1
  <2>3. flush(bus) => stg' = kept
    BY <1>1
  <2>4. /\ flush(bus) => kept = <<>>
        /\ ~flush(bus) /\ take_tx(in) => kept = Tail(stg)
        /\ ~flush(bus) /\ ~take_tx(in) => kept = stg
    OBVIOUS
  <2> HIDE DEF kept
  <2>5. ~flush(bus) => Longer(kept, stg')
    BY <1>2, <2>1, <2>2, LongerSame, LongerAppend
  <2> QED BY <2>3, <2>4, <2>5
<1> HIDE DEF kept
<1>8. Longer(Staged, Sent \o Staged') \/ Sent \o Staged' \in Service!Front(Staged)
  <2>1. CASE take_tx(in)
    <3>1. Head(stg) \in Octet
      BY <1>3, <1>4, <2>1, HeadIsOctet
    <3>2. <<>> \o (<<Head(stg)>> \o stg') = <<Head(stg)>> \o stg' /\ <<>> \o stg = stg
      BY <1>3, <3>1
    <3>3. Staged = stg /\ Sent \o Staged' = <<Head(stg)>> \o stg'
      BY <1>4, <1>5, <2>1, <3>2
    <3> QED BY <1>3, <1>4, <1>7, <2>1, <3>3, TakenMoves
  <2>2. CASE ~take_tx(in)
    <3>1. \/ Longer(Lead \o stg, Lead \o stg')
          \/ Lead \o stg' \in Service!Front(Lead \o stg)
      BY <1>3, <1>5, <1>7, <2>2, LedMoves
    <3> QED BY <1>4, <1>5, <2>2, <3>1
  <2> QED BY <2>1, <2>2
<1>9. Longer(Staged, Sent \o Staged') => Service!Grows(Staged, Sent \o Staged')
  <2>1. Staged \in Seq(Octet)
    <3>1. <<>> \o stg \in Seq(Octet) /\ <<e_wdata>> \o stg \in Seq(Octet)
      BY <1>3
    <3> QED BY <1>5, <3>1
  <2> QED BY <2>1, LongerGrows
<1>10. Len(Staged') <= TX_DEPTH + 1
  <2>1. e_wdata' \in Octet
    BY DEF Types, EngineTypes
  <2>2. Len(<<e_wdata'>> \o stg') = 1 + Len(stg') /\ Len(stg') \in Nat
    BY <1>3, <2>1
  <2> QED BY <1>3, <1>6, <2>2
<1>11. Sent \in Service!Front(Staged)
  <2>1. <<>> \in Service!Front(Staged)
    BY DEF Service!Front
  <2> QED BY <1>3, <1>5, <1>6, <2>1, LeadInFront
<1>12. Service!Staging(Sent)
  BY <1>8, <1>9, <1>10 DEF Service!Staging, Staged
<1> QED BY <1>11, <1>12

-----------------------------------------------------------------------------
(* The chip's side. *)

(* A byte the engine has read is in the ring, two HIGH clocks before its    *)
(* pop.                                                                     *)
Unread == IF e_read /\ state = "HIGH" /\ count <= 2 THEN Tail(rx_fifo) ELSE rx_fifo

(* A pop that is not the engine's own drain.                                *)
RawPops == H!rx_pop /\ ~e_read /\ rx_fifo /= <<>>

LEMMA ReadMoves ==
  ASSUME Types, NEW in, EngineClock(in), ~in.reset
  PROVE  e_read' /\ state' = "HIGH" /\ count' <= 2
           <=> captures(in) \/ (e_read /\ state = "HIGH" /\ count \in 0 .. 1)
<1>1. CASE Low0(in)
  BY <1>1 DEF Low0, captures
<1>2. CASE Stat(in)
  BY <1>2 DEF Stat, deciding, captures
<1>3. CASE Setup(in)
  BY <1>3 DEF Setup, captures, Types, Phases
<1>4. CASE High(in)
  <2>1. count \in 0 .. 3 /\ state = "HIGH"
    BY <1>4 DEF High, Types, EngineTypes
  <2>2. e_read' = e_read /\ count' = count + 1 /\ (state' = "HIGH" <=> count /= 3)
    BY <1>4, <2>1 DEF High, high_done
  <2> QED BY <2>1, <2>2 DEF captures
<1> QED BY <1>1, <1>2, <1>3, <1>4 DEF EngineClock, Hold

LEMMA UnreadStep ==
  ASSUME Bounds, Types', Flight, NEW bus \in Bus, Clock(bus), ~core_reset(bus)
  PROVE  LET drained == Drained(In(bus, host_rdata))
         IN  /\ drained \in Service!Front(Unread)
             /\ Unread \in Seq(Octet) /\ Len(Unread') <= DEPTH
             /\ state = "HIGH" => drained = <<>>
             /\ RawPops => Unread = rx_fifo /\ Longer(Tail(Unread), Unread')
             /\ ~RawPops => Longer(Unread, drained \o Unread')
             /\ state = "HIGH" /\ e_we => Unread = rx_fifo /\ Unread' = rx_fifo'
<1> DEFINE in == In(bus, host_rdata)
           drained == Drained(in)
<1>1. /\ EngineClock(in) /\ ~in.reset /\ in.rdata = host_rdata
      /\ Types /\ Synchronized
  BY PortTypes DEF Clock, AxiClock, Bounds
<1>2. /\ ~H!rx_pop \/ rx_fifo = <<>> => Longer(rx_fifo, rx_fifo')
      /\ H!rx_pop /\ rx_fifo /= <<>> => Longer(Tail(rx_fifo), rx_fifo')
  BY FifosMove
<1>3. H!rx_pop <=> state = "HIGH" /\ count = 2 /\ e_re /\ e_addr = 1
  BY <1>1, Acts DEF H!rx_pop, H!RX_DATA
<1>4. /\ rx_fifo \in Seq(Octet) /\ rx_fifo' \in Seq(Octet) /\ Len(rx_fifo') <= DEPTH
      /\ DEPTH \in Nat /\ count \in 0 .. 4 /\ count' \in 0 .. 4 /\ (state = "HIGH" => count \in 0 .. 3)
  BY <1>1, ChipAssumption DEF Types, ChipTypes, EngineTypes
<1> SUFFICES /\ drained \in Service!Front(Unread)
             /\ Unread \in Seq(Octet) /\ Len(Unread') <= DEPTH
             /\ state = "HIGH" => drained = <<>>
             /\ RawPops => Unread = rx_fifo /\ Longer(Tail(Unread), Unread')
             /\ ~RawPops => Longer(Unread, drained \o Unread')
             /\ state = "HIGH" /\ e_we => Unread = rx_fifo /\ Unread' = rx_fifo'
  OBVIOUS
<1> HIDE DEF in
<1>5. e_read' /\ state' = "HIGH" /\ count' <= 2
        <=> captures(in) \/ (e_read /\ state = "HIGH" /\ count \in 0 .. 1)
  BY <1>1, ReadMoves
<1>6. /\ captures(in) => state = "SETUP" /\ e_read /\ drained = <<host_rdata>>
      /\ ~captures(in) => drained = <<>>
  BY <1>1 DEF captures, Drained
<1> HIDE DEF drained
<1>7. <<>> \o rx_fifo' = rx_fifo' /\ <<>> \in Service!Front(Unread)
  BY <1>4 DEF Service!Front
<1>8. CASE captures(in)
  <2>1. state = "SETUP" /\ e_addr = 1 /\ rx_fifo /= <<>>
    BY <1>6, <1>8 DEF Flight, OnTheWay
  <2>2. host_rdata = Head(rx_fifo)
    BY <2>1 DEF host_rdata, H!TX_DATA, H!RX_DATA, H!STATUS, H!CONTROL
  <2>3. Unread = rx_fifo /\ Unread' = Tail(rx_fifo')
    BY <1>5, <1>8, <2>1 DEF Unread
  <2>4. ~H!rx_pop /\ Longer(rx_fifo, rx_fifo')
    BY <1>2, <1>3, <2>1
  <2>5. rx_fifo' /= <<>> /\ rx_fifo' = <<Head(rx_fifo)>> \o Tail(rx_fifo')
    BY <1>4, <2>1, <2>4, LongerTail, HeadAndTail
  <2>6. <<Head(rx_fifo)>> \in Service!Front(rx_fifo)
    BY <1>4, <2>1, HeadInFront
  <2>7. Len(Unread') <= DEPTH
    BY <1>4, <2>3, <2>5, HeadIsOctet
  <2>8. drained = <<Head(rx_fifo)>> /\ drained \o Unread' = rx_fifo'
    BY <1>6, <1>8, <2>2, <2>3, <2>5
  <2> QED BY <1>4, <2>1, <2>3, <2>4, <2>6, <2>7, <2>8 DEF RawPops
<1>9. CASE e_read /\ state = "HIGH" /\ count \in 0 .. 1
  <2>1. rx_fifo /= <<>> /\ ~e_we
    BY <1>1, <1>4, <1>9 DEF Flight, OnTheWay, Types, Phases
  <2>2. ~captures(in) /\ ~RawPops
    BY <1>9 DEF captures, RawPops
  <2>3. Unread = Tail(rx_fifo) /\ Unread' = Tail(rx_fifo')
    <3>1. count <= 2
      BY <1>9
    <3> QED BY <1>5, <1>9, <3>1 DEF Unread
  <2>4. Longer(rx_fifo, rx_fifo')
    BY <1>2, <1>3, <1>9
  <2>5. rx_fifo' /= <<>> /\ Longer(Tail(rx_fifo), Tail(rx_fifo'))
    BY <1>4, <2>1, <2>4, LongerTail
  <2>6. Tail(rx_fifo) \in Seq(Octet) /\ Tail(rx_fifo') \in Seq(Octet) /\ Len(Tail(rx_fifo')) <= DEPTH
    BY <1>4, <2>1, <2>5, HeadIsOctet
  <2>7. drained = <<>> /\ <<>> \o Tail(rx_fifo') = Tail(rx_fifo')
    BY <1>6, <2>2, <2>6
  <2> QED BY <1>7, <2>1, <2>2, <2>3, <2>5, <2>6, <2>7
<1>10. CASE e_read /\ state = "HIGH" /\ count = 2
  <2>1. e_re /\ e_addr = 1 /\ rx_fifo /= <<>> /\ ~e_we
    BY <1>1, <1>10 DEF Flight, OnTheWay, Types, Phases
  <2>2. ~captures(in) /\ ~RawPops
    BY <1>10 DEF captures, RawPops
  <2>3. Unread = Tail(rx_fifo) /\ Unread' = rx_fifo'
    <3>1. count <= 2 /\ ~ count \in 0 .. 1
      BY <1>10
    <3> QED BY <1>5, <1>10, <2>2, <3>1 DEF Unread
  <2>4. Longer(Tail(rx_fifo), rx_fifo')
    BY <1>2, <1>3, <1>10, <2>1
  <2>5. Tail(rx_fifo) \in Seq(Octet)
    BY <1>4, <2>1, HeadIsOctet
  <2> QED BY <1>4, <1>6, <1>7, <2>1, <2>2, <2>3, <2>4, <2>5
<1>11. CASE ~captures(in) /\ ~ (e_read /\ state = "HIGH" /\ count \in 0 .. 2)
  <2>1. e_read /\ state = "HIGH" => count = 3
    BY <1>4, <1>11
  <2>2. Unread = rx_fifo /\ Unread' = rx_fifo'
    <3>1. count = 3 => ~ count <= 2 /\ ~ count \in 0 .. 1
      OBVIOUS
    <3> QED BY <1>5, <1>11, <2>1, <3>1 DEF Unread
  <2>3. e_read => ~H!rx_pop
    BY <1>3, <2>1
  <2>4. /\ RawPops => Longer(Tail(rx_fifo), rx_fifo')
        /\ ~RawPops => Longer(rx_fifo, rx_fifo')
    BY <1>2, <2>3 DEF RawPops
  <2> QED BY <1>4, <1>6, <1>7, <1>11, <2>2, <2>4
<1>12. e_read /\ state = "HIGH" => count \in 0 .. 1 \/ count = 2 \/ ~ count \in 0 .. 2
  BY <1>4
<1> QED BY <1>6, <1>8, <1>9, <1>10, <1>11, <1>12

LEMMA PassesAs ==
  ASSUME NEW q \in Seq(Octet), NEW push \in BOOLEAN, NEW byte \in Octet, NEW s,
         Passes(q, push, byte, s)
  PROVE  /\ ~push => s \in Service!Popped(q) /\ s \in {r \o <<>> : r \in Service!Popped(q)}
         /\ push /\ Len(q) < DEPTH => s \in {r \o <<byte>> : r \in Service!Popped(q)}
         /\ \E r \in Service!Popped(q) : Service!Grows(r, s)
<1>1. PICK r \in Service!Popped(q) :
        /\ r \in Seq(Octet)
        /\ s \in {r, Append(r, byte)}
        /\ ~push => s = r
        /\ push /\ Len(q) < DEPTH => s = Append(r, byte)
  BY DEF Passes
<1>2. r \o <<>> = r /\ r \o <<byte>> = Append(r, byte)
  BY <1>1
<1>3. Service!Grows(r, s)
  BY <1>1, LongerSame, LongerAppend, LongerGrows
<1> QED BY <1>1, <1>2, <1>3

(* The clock on which host.v acts on a staged byte: there is room for it.   *)
LEMMA Sends ==
  ASSUME Types, Synchronized, Flight
  PROVE  /\ Sent \in {<<>>, <<e_wdata>>}
         /\ Sent /= <<>> => H!we_rise /\ e_addr = 0 /\ Len(tx_fifo) < DEPTH
         /\ H!we_rise => state = "HIGH" /\ e_we /\ ~H!rx_pop
         /\ H!we_rise /\ Sent = <<>> => ~e_tx
         /\ H!rx_pop => state = "HIGH"
<1>1. /\ H!we_rise <=> state = "HIGH" /\ count = 2 /\ e_we
      /\ H!re_rise <=> state = "HIGH" /\ count = 2 /\ e_re
  BY Acts
<1>2. ~ (e_we /\ e_re) /\ (state = "HIGH" /\ e_tx => e_we)
  BY DEF Types, Phases
<1>3. state = "HIGH" /\ count = 2 => OnTheWay
  BY DEF OnTheWay
<1>4. <<e_wdata>> /= <<>>
  OBVIOUS
<1>5. e_tx /\ OnTheWay => e_addr = 0 /\ Len(tx_fifo) < DEPTH
  BY DEF Flight
<1> QED BY <1>1, <1>2, <1>3, <1>4, <1>5 DEF Sent, H!rx_pop

LEMMA ClockStep ==
  ASSUME Bounds, Types', Loading, Flight, ClearsAtRest, Buffer!PointersAgree,
         NEW bus \in Bus, Clock(bus), ~core_reset(bus)
  PROVE  Service!Clock
<1> DEFINE drained == Drained(In(bus, host_rdata))
<1>1. Types /\ Synchronized /\ RingTypes' /\ H!HostClock
  BY FifosMove DEF Bounds, Types
<1>2. Service!Staging(Sent) /\ Sent \in Service!Front(Staged)
  BY <1>1, StagingStep
<1>3. Service!Receiving(drained)
  BY <1>1, ReceivingStep
<1>4. /\ drained \in Service!Front(Unread)
      /\ Unread \in Seq(Octet) /\ Len(Unread') <= DEPTH
      /\ state = "HIGH" => drained = <<>>
      /\ RawPops => Unread = rx_fifo /\ Longer(Tail(Unread), Unread')
      /\ ~RawPops => Longer(Unread, drained \o Unread')
      /\ state = "HIGH" /\ e_we => Unread = rx_fifo /\ Unread' = rx_fifo'
  BY UnreadStep
<1> HIDE DEF drained
<1>5. tx_fifo \in Seq(Octet) /\ e_wdata \in Octet /\ H!tx_push \in BOOLEAN
  BY <1>1 DEF Types, ChipTypes, EngineTypes, H!tx_push
<1>6. /\ ~H!tx_push => /\ tx_fifo' \in Service!Popped(tx_fifo)
                       /\ tx_fifo' \in {r \o <<>> : r \in Service!Popped(tx_fifo)}
      /\ H!tx_push /\ Len(tx_fifo) < DEPTH =>
           tx_fifo' \in {r \o <<e_wdata>> : r \in Service!Popped(tx_fifo)}
      /\ \E r \in Service!Popped(tx_fifo) : Service!Grows(r, tx_fifo')
  BY <1>5, FifosMove, PassesAs
<1>7. Len(tx_fifo') <= DEPTH
  BY DEF Types, ChipTypes
<1>8. /\ ~RawPops => Service!Grows(Unread, drained \o Unread')
      /\ RawPops => Service!Grows(Tail(Unread), Unread') /\ Unread /= <<>>
  BY <1>4, LongerGrows, HeadIsOctet DEF RawPops
<1>9. /\ H!LoadedBytes \in Seq(Octet)
      /\ H!byte_taken <=> H!prog_byte /\ Len(H!LoadedBytes) < 2 * RamWords
      /\ H!byte_taken =>
           H!LoadedBytes' = Append(H!LoadedBytes, e_wdata) /\ load_mode' = load_mode
      /\ ~H!control_write /\ ~H!byte_taken => UNCHANGED <<H!LoadedBytes, load_mode>>
      /\ H!control_write =>
           /\ load_mode' \in BOOLEAN
           /\ H!LoadedBytes' \in {H!LoadedBytes, <<>>,
                                 SubSeq(H!LoadedBytes, 1, 2 * (Len(H!LoadedBytes) \div 2))}
           /\ ~H!restart => UNCHANGED <<H!LoadedBytes, load_mode>>
  BY <1>1, LoadedStep
<1>10. /\ H!control_write <=> H!we_rise /\ e_addr = 3
       /\ H!prog_byte <=> H!we_rise /\ e_addr = 0 /\ load_mode
       /\ H!tx_push <=> H!we_rise /\ e_addr = 0 /\ ~load_mode
  BY DEF H!control_write, H!prog_byte, H!tx_push, H!CONTROL, H!TX_DATA
<1>11. /\ Sent \in {<<>>, <<e_wdata>>}
       /\ Sent /= <<>> => H!we_rise /\ e_addr = 0 /\ Len(tx_fifo) < DEPTH
       /\ H!we_rise => state = "HIGH" /\ e_we /\ ~H!rx_pop
       /\ H!rx_pop => state = "HIGH"
  BY <1>1, Sends
<1> DEFINE Stays == UNCHANGED <<H!LoadedBytes, load_mode>>
<1>12. \/ Service!Chip(Sent, drained)
       \/ /\ Sent = <<>> /\ drained = <<>>
          /\ Service!Control \/ Service!RawWrite \/ Service!RawPop
  <2>1. CASE RawPops
    <3>1. ~H!we_rise /\ Sent = <<>> /\ drained = <<>>
      BY <1>4, <1>11, <2>1 DEF RawPops
    <3>2. tx_fifo' \in Service!Popped(tx_fifo)
      BY <1>6, <1>10, <3>1
    <3>3. UNCHANGED <<H!LoadedBytes, load_mode>>
      BY <1>9, <1>10, <3>1
    <3>4. Unread /= <<>> /\ Service!Grows(Tail(Unread), Unread')
      BY <1>8, <2>1
    <3>5. Service!RawPop
      BY <3>2, <3>3, <3>4 DEF Service!RawPop, Unread
    <3> QED BY <3>1, <3>5
  <2>2. CASE H!control_write /\ H!restart
    <3>1. Sent = <<>> /\ drained = <<>> /\ state = "HIGH" /\ e_we
      <4>1. e_addr = 3 => e_addr /= 0
        OBVIOUS
      <4> QED BY <1>4, <1>10, <1>11, <2>2, <4>1
    <3>2. tx_fifo' = tx_fifo /\ Unread' = Unread
      BY <1>4, <2>2, <3>1, FifosMove
    <3>3. Service!Control
      BY <1>9, <2>2, <3>2 DEF Service!Control, Unread
    <3> QED BY <3>1, <3>3
  <2>3. CASE ~RawPops /\ ~H!byte_taken /\ ~H!tx_push /\ Sent = <<>> /\ Stays
    <3>1. /\ Service!Grows(Unread, drained \o Unread')
          /\ tx_fifo' \in {r \o <<>> : r \in Service!Popped(tx_fifo)}
      BY <1>6, <1>8, <2>3
    <3>2. H!LoadedBytes \o <<>> = H!LoadedBytes
      BY <1>9
    <3>3. Service!Chip(<<>>, drained)
      BY <1>4, <1>7, <2>3, <3>1, <3>2 DEF Service!Chip, Unread
    <3> QED BY <2>3, <3>3
  <2>4. CASE H!we_rise /\ e_addr = 0 /\ Sent /= <<>>
    <3>1. /\ Sent = <<e_wdata>> /\ Len(tx_fifo) < DEPTH /\ ~RawPops
          /\ ~H!control_write
      BY <1>10, <1>11, <2>4 DEF RawPops
    <3>2. Service!Grows(Unread, drained \o Unread')
      BY <1>8, <3>1
    <3>3. tx_fifo' \in {r \o (IF load_mode THEN <<>> ELSE <<e_wdata>>) : r \in Service!Popped(tx_fifo)}
      BY <1>6, <1>10, <2>4, <3>1
    <3>4. H!LoadedBytes' = IF load_mode /\ Len(H!LoadedBytes) < 2 * RamWords
                             THEN H!LoadedBytes \o <<e_wdata>> ELSE H!LoadedBytes
      <4>1. H!LoadedBytes \o <<e_wdata>> = Append(H!LoadedBytes, e_wdata)
        BY <1>5, <1>9
      <4> QED BY <1>9, <1>10, <2>4, <3>1, <4>1
    <3>5. load_mode' = load_mode
      BY <1>9, <3>1
    <3>6. Service!Chip(<<e_wdata>>, drained)
      BY <1>4, <1>7, <3>2, <3>3, <3>4, <3>5 DEF Service!Chip, Unread
    <3> QED BY <3>1, <3>6
  <2>5. CASE H!we_rise /\ e_addr = 0 /\ Sent = <<>>
    <3>1. drained = <<>> /\ ~RawPops /\ ~H!control_write /\ Unread' = rx_fifo' /\ Unread = rx_fifo
      BY <1>4, <1>10, <1>11, <2>5 DEF RawPops
    <3>2. Service!Grows(Unread, Unread')
      <4>1. <<>> \o rx_fifo' = rx_fifo'
        BY DEF Types, ChipTypes
      <4> QED BY <1>8, <3>1, <4>1
    <3>3. IF load_mode /\ Len(H!LoadedBytes) < 2 * RamWords
            THEN Service!Grows(H!LoadedBytes, H!LoadedBytes')
            ELSE H!LoadedBytes' = H!LoadedBytes
      <4>1. Service!Grows(H!LoadedBytes, Append(H!LoadedBytes, e_wdata))
        BY <1>5, <1>9, LongerAppend, LongerGrows
      <4> QED BY <1>9, <1>10, <2>5, <3>1, <4>1
    <3>4. load_mode' = load_mode
      BY <1>9, <3>1
    <3>5. Service!RawWrite
      BY <1>6, <3>2, <3>3, <3>4 DEF Service!RawWrite, Unread
    <3> QED BY <2>5, <3>1, <3>5
  <2>6. CASE H!control_write /\ ~H!restart
    <3>1. Sent = <<>> /\ ~H!tx_push /\ ~H!byte_taken /\ Stays /\ ~RawPops
      <4>1. e_addr = 3 => e_addr /= 0
        OBVIOUS
      <4> QED BY <1>9, <1>10, <1>11, <2>6, <4>1 DEF RawPops
    <3> QED BY <2>3, <3>1
  <2>7. CASE ~RawPops /\ ~ (H!we_rise /\ e_addr = 0) /\ ~ (H!we_rise /\ e_addr = 3)
    <3>1. Sent = <<>> /\ ~H!tx_push /\ ~H!byte_taken /\ Stays
      BY <1>9, <1>10, <1>11, <2>7
    <3> QED BY <2>3, <2>7, <3>1
  <2>8. \/ RawPops
        \/ H!we_rise /\ e_addr = 0
        \/ H!control_write
        \/ ~RawPops /\ ~ (H!we_rise /\ e_addr = 0) /\ ~ (H!we_rise /\ e_addr = 3)
    BY <1>10
  <2> QED BY <2>1, <2>2, <2>4, <2>5, <2>6, <2>7, <2>8
<1>13. PICK s, d : s = Sent /\ d = drained
  OBVIOUS
<1>14. Service!Staging(s) /\ Service!Receiving(d)
  BY <1>2, <1>3, <1>13 DEF Service!Staging, Service!Receiving
<1>15. Service!Chip(Sent, drained) => Service!Chip(s, d)
  BY <1>13 DEF Service!Chip
<1> QED BY <1>2, <1>4, <1>12, <1>13, <1>14, <1>15 DEF Service!Clock, Staged, Unread

(* The core's reset drops what host.v has not acted on.                     *)
LEMMA ResetStep ==
  ASSUME Bounds, RingTypes', Flight, ClearsAtRest, Buffer!PointersAgree,
         NEW bus \in Bus, Clock(bus), core_reset(bus)
  PROVE  Service!Reset
<1> DEFINE in == In(bus, host_rdata)
<1>1. EngineClock(in) /\ in.reset /\ Staging(bus, in) /\ ChipReset
  BY PortTypes DEF Clock, AxiClock, Bounds
<1>2. Service!Receiving(Drained(in))
  BY ReceivingStep
<1> HIDE DEF in
<1>3. Drained(in) = <<>>
  BY <1>1 DEF Drained, captures
<1>4. stg' = <<>>
  BY <1>1 DEF Staging, flush
<1>5. state' = "LOW0" /\ e_tx' = FALSE
  BY <1>1 DEF EngineClock, Hold, Low0, Stat, deciding, Setup, High
<1>6. Staged' = <<>> /\ Unread' = <<>> /\ tx_fifo' = <<>>
  BY <1>1, <1>4, <1>5 DEF Staged, Unread, ChipReset
<1>7. load_mode' = FALSE
  BY <1>1 DEF ChipReset, H!HostReset
<1>8. H!LoadedBytes' = <<>>
  <2>1. Block!HostReset
    BY <1>1, SameReset DEF ChipReset
  <2>2. Block!LoadedBytes' = <<>>
    BY <2>1, BlockConstants, Block!ResetUnloads
  <2> QED BY <2>2, SameBytes
<1>9. Service!Receiving(<<>>)
  BY <1>2, <1>3 DEF Service!Receiving
<1> QED BY <1>6, <1>7, <1>8, <1>9 DEF Service!Reset, Staged, Unread

-----------------------------------------------------------------------------
(* Everything the steps above rest on.                                      *)
Moving == Bounds /\ Timed /\ Loading /\ Flight /\ ClearsAtRest /\ Buffer!PointersAgree

LEMMA InitMoving == Init => Moving
<1> SUFFICES ASSUME Init PROVE Timed /\ ClearsAtRest /\ Buffer!PointersAgree
  BY InitBounds, InitLoading, InitFlight DEF Moving
<1>1. Timed
  BY DEF Init, EngineInit, Timed
<1>2. ClearsAtRest
  BY DEF Init, AxiInit, ClearsAtRest
<1>3. Buffer!PointersAgree
  BY RingAssumption DEF Init, EngineInit, Buffer!PointersAgree, Buffer!Wrap
<1> QED BY <1>1, <1>2, <1>3

LEMMA MovingStep ==
  ASSUME QuietClears, Moving, NEW bus \in Bus, Clock(bus)
  PROVE  Moving' /\ Service!Next
<1>1. /\ Bounds /\ Timed /\ Loading /\ Flight /\ ClearsAtRest /\ Buffer!PointersAgree
      /\ Types /\ [Next]_vars
  BY DEF Moving, Bounds, Next
<1>2. Bounds' /\ Types' /\ RingTypes'
  BY <1>1, BoundsStep DEF Bounds, Types
<1>3. Timed'
  BY <1>1, <1>2, TimedStep
<1>4. Loading'
  BY <1>1, <1>2, <1>3, LoadingStep
<1>5. Flight' /\ ClearsAtRest'
  BY <1>1, FlightStep, ClearsAtRestStep
<1>6. Buffer!PointersAgree'
  BY <1>1, <1>2, ReceivingStep
<1>7. Service!Next
  BY <1>1, <1>2, ClockStep, ResetStep DEF Service!Next
<1> QED BY <1>2, <1>3, <1>4, <1>5, <1>6, <1>7 DEF Moving

LEMMA MovingStutter ==
  ASSUME Moving, UNCHANGED vars
  PROVE  Moving' /\ UNCHANGED Service!vars
<1>1. /\ UNCHANGED <<state, count, e_we, e_re, e_addr, e_wdata, e_read, e_tx, stg, tx_fifo, rx_fifo>>
      /\ UNCHANGED <<we_sync, re_sync, sel, load_mode, ram_select, prog_addr, prog_words, prog_low>>
      /\ UNCHANGED <<byte_phase, mem, edges, rx_buf, rx_wr, rx_rd, rx_count, rx_overflow>>
      /\ UNCHANGED <<s_axi_rdata, rx_clear_p>>
  BY DEF vars, engineVars, busVars, ringVars, axiVars, chipVars, hostRegs
<1>2. Bounds'
  BY BoundsStep DEF Moving
<1>3. Timed' /\ Flight' /\ ClearsAtRest' /\ Buffer!PointersAgree'
  BY <1>1 DEF Moving, Timed, Flight, OnTheWay, ClearsAtRest, Buffer!PointersAgree
<1>4. Loading'
  BY <1>1 DEF Moving, Loading, Block!HostTypeOK, Block!Loader, Strobe
<1>5. UNCHANGED Service!vars
  BY <1>1 DEF Service!vars, OnTheWay, H!LoadedBytes
<1> QED BY <1>2, <1>3, <1>4, <1>5 DEF Moving

(* An ARM that clears the ring at rest: the peripheral and the chip move    *)
(* every byte once and in order, into a FIFO with room for it.              *)
THEOREM MovesEveryByteOnce ==
  ASSUME QuietClears
  PROVE  Spec => ImplementsService
<1>1. Init => Service!Init
  BY DEF Init, EngineInit, AxiInit, Service!Init, Service!Nothing, NothingRead, H!LoadedBytes
<1>2. Moving /\ [Next]_vars => Moving' /\ [Service!Next]_(Service!vars)
  BY MovingStep, MovingStutter DEF Next
<1> QED BY <1>1, <1>2, InitMoving, PTL DEF Spec, ImplementsService, Service!Spec

-----------------------------------------------------------------------------
(* The driver in front of the chip: that a call's answer is its own rests   *)
(* on when its request can come, and when the engine is free to take it.    *)

(* The accesses by what they are to the requests, RUN and RAW, and a reset. *)
Kind(a) ==
  IF a.kind = "store"
    THEN CASE a.write.reg = "SLOT" -> "slot"
           [] a.write.reg = "RAW" -> "raw"
           [] a.write.reg = "COMMAND" /\ a.write.run -> "run"
           [] a.write.reg = "CTRL" -> IF a.write.ctrl.reset THEN "hold" ELSE "release"
           [] OTHER -> "other"
  ELSE IF a.kind = "poll"
    THEN CASE a.until = "RUN not busy" -> "ran"
           [] a.until = "raw not busy" -> "ask"
           [] a.until = "raw done" -> "sent"
           [] OTHER -> "other"
  ELSE "other"

Firsts == {"slot", "ask", "hold", "other"}

Doing == Kind(Access)

Storing == Access.kind = "store"

Transfers == awready \/ arready

(* The clocks at least until the next request comes.                        *)
Notice ==
  CASE Doing = "run"  -> IF awready THEN 1 ELSE IF bvalid THEN 3 ELSE 2
    [] Doing = "raw"  -> IF awready THEN 1 ELSE 2
    [] Doing = "slot" -> IF awready THEN 4 ELSE 5
    [] Doing = "ask"  -> IF arready THEN 3 ELSE IF rvalid THEN 5 ELSE 4
    [] Doing \in {"ran", "sent"} -> IF arready THEN 6 ELSE 7
    [] OTHER -> 5

(* The clocks at most until the engine decides again.                       *)
UntilDecision ==
  CASE state = "STAT" -> 0
    [] state = "LOW0" -> 1
    [] state = "HIGH" -> 5 - count
    [] state = "SETUP" -> 6

Taken == e_raw /\ state \in {"SETUP", "HIGH"}

RawWaits == raw_pending /\ ~Taken

Waits == ctrl_pending \/ RawWaits

(* Where the call is, and what that says of the channels.                   *)
Placed ==
  /\ at \in [call : DOMAIN session.calls, access : Nat]
  /\ at.access \in 1 .. Len(Accesses(Call))
  /\ at.access = 1 => Doing \in Firsts
  /\ awready => Storing
  /\ arready => ~Storing
  /\ ctrl.reset => Doing = "release"
  /\ run_p => Doing = "ran" /\ ~arready
  /\ raw_p => Doing = "sent" /\ ~arready

(* A request is taken before the next one comes.                            *)
Served ==
  /\ Waits => UntilDecision <= Notice
  /\ Waits /\ (run_p \/ raw_p) => state = "STAT"
  /\ ~ (ctrl_pending /\ RawWaits)

(* No byte is moved at CONTROL's address.                                   *)
Aimed == OnTheWay /\ (e_tx \/ e_read) => e_addr /= 3

(* No request is with the chip, and none on its way.                        *)
Quiet ==
  /\ ~run_p /\ ~ctrl_pending /\ ~raw_p
  /\ raw_pending => RawHigh(3)
  /\ OnTheWay => e_tx \/ e_read

RunOnTheWay(v) ==
  /\ ~run_p /\ ~ctrl_pending /\ ~raw_p /\ ~raw_pending
  /\ run = "taken" /\ OnTheWay /\ ~e_tx /\ ~e_read /\ ~e_raw
  /\ e_wdata = v

OwnRun(v) ==
  \/ slot = v /\ (run_p \/ ctrl_pending)
  \/ RunOnTheWay(v)
  \/ Quiet /\ own.by = {v}

Result == IF raw_q.write THEN raw_q.wdata ELSE raw_rdata

RawOnTheWay(q) ==
  /\ ~run_p /\ ~ctrl_pending /\ ~raw_p /\ raw_pending
  /\ e_raw /\ OnTheWay /\ (state = "HIGH" => e_we)
  /\ raw_q = q /\ e_wdata = q.wdata

RawQuiet(q) == Quiet /\ raw_q = q /\ own.by = {Result}

OwnRaw(q) ==
  \/ raw_p /\ raw_req = q
  \/ RawWaits /\ raw_q = q
  \/ RawOnTheWay(q)
  \/ RawQuiet(q)

RawFns == {"sc_raw_read", "sc_raw_write"}

(* The request of a raw access.                                             *)
Asked == Accesses(Call)[2].write.raw

(* A call in the middle of its request, and one that returned with it done. *)
Turn ==
  /\ own \in [taken : BOOLEAN, by : SUBSET Octet]
  /\ Call.fn = "sc_run_slot" /\ at.access = 2 => slot = Call.control
  /\ Call.fn = "sc_run_slot" /\ at.access = 3 =>
       own.taken /\ OwnRun(Call.control) /\ (run_p \/ run /= "none")
  /\ Doing = "raw" => ~raw_busy_any
  /\ Call.fn \in RawFns /\ at.access = 3 => own.taken /\ OwnRaw(Asked)
  /\ Call.fn \in RawFns /\ at.access = 4 => own.taken /\ RawQuiet(Asked)
  /\ JustReturned("sc_run_slot") =>
       Quiet /\ own.taken /\ own.by = {Done.control} /\ run = "read"
  /\ JustReturned("sc_raw_read") => Quiet /\ own.taken /\ own.by = {answer}
  /\ JustReturned("sc_raw_write") => Quiet /\ own.taken /\ own.by = {Done.value}

-----------------------------------------------------------------------------
(* The calls. *)

LEMMA LeastIn ==
  ASSUME NEW S, S \subseteq Nat, S /= {}
  PROVE  Min(S) \in S
<1> DEFINE R == OpToRel(<, Nat)
<1>1. IsWellFoundedOn(R, Nat)
  BY NatLessThanWellFounded
<1>2. \A a, b \in Nat : <<a, b>> \in R <=> a < b
  BY DEF OpToRel
<1> HIDE DEF R
<1>3. PICK x \in S : \A y \in S : ~ (<<y, x>> \in R)
  BY <1>1, WFMin
<1>4. \A y \in S : x <= y
  <2> TAKE y \in S
  <2>1. x \in Nat /\ y \in Nat
    OBVIOUS
  <2>2. ~ (y < x)
    BY <1>2, <1>3, <2>1
  <2> QED BY <2>1, <2>2
<1> QED BY <1>4 DEF Min

(* What follows what among the accesses of a call: a request's poll its     *)
(* request, the release of a reset the reset, and nothing else.             *)
Pairs(a, b) ==
  /\ a = "run" <=> b = "ran"
  /\ a = "raw" <=> b = "sent"
  /\ a = "hold" <=> b = "release"
  /\ b = "run" => a = "slot"
  /\ b = "raw" => a = "ask"

Opens == {"run", "raw", "hold"}

Ordered(acc) ==
  /\ \E S : acc \in Seq(S)
  /\ acc /= <<>> => Kind(acc[1]) \in Firsts /\ Kind(acc[Len(acc)]) \notin Opens
  /\ \A k \in 1 .. Len(acc) - 1 : Pairs(Kind(acc[k]), Kind(acc[k + 1]))

LEMMA KindOfSlot == ASSUME NEW v PROVE Kind(Store(Slot(v))) = "slot"
BY DEF Kind, Store, Slot

LEMMA KindOfRun == Kind(Store(Run)) = "run"
BY DEF Kind, Store, Run, Cmd

LEMMA KindOfCommand ==
  ASSUME NEW w \in {RxClear, Flush, CommitClear} PROVE Kind(Store(w)) = "other"
<1>1. Kind(Store(RxClear)) = "other"
  BY DEF Kind, Store, RxClear, Cmd
<1>2. Kind(Store(Flush)) = "other"
  BY DEF Kind, Store, Flush, Cmd
<1>3. Kind(Store(CommitClear)) = "other"
  BY DEF Kind, Store, CommitClear, Cmd
<1> QED BY <1>1, <1>2, <1>3

LEMMA KindOfRaw == ASSUME NEW a, NEW b, NEW c, NEW p PROVE Kind(Store(Raw(a, b, c, p))) = "raw"
BY DEF Kind, Store, Raw

LEMMA KindOfCtrl ==
  ASSUME NEW b
  PROVE  Kind(Store(Ctrl(TRUE, b))) = "hold" /\ Kind(Store(Ctrl(FALSE, b))) = "release"
BY DEF Kind, Store, Ctrl

LEMMA KindOfByte == ASSUME NEW b PROVE Kind(Store(TxData(b))) = "other"
BY DEF Kind, Store, TxData

LEMMA KindOfPoll ==
  ASSUME NEW reg, NEW n
  PROVE  /\ Kind(Poll(reg, "RUN not busy", n)) = "ran"
         /\ Kind(Poll(reg, "raw not busy", n)) = "ask"
         /\ Kind(Poll(reg, "raw done", n)) = "sent"
BY DEF Kind, Poll

LEMMA KindOfOther ==
  ASSUME NEW reg, NEW n,
         NEW u, u \notin {"RUN not busy", "raw not busy", "raw done"}
  PROVE  Kind(Poll(reg, u, n)) = "other"
BY DEF Kind, Poll

LEMMA KindOfRead == Kind(Take) = "other" /\ Kind(Runs) = "other" /\ \A w : Kind(Answer(w)) = "other"
BY DEF Kind, Take, Runs, Answer

LEMMA OrderedSingle ==
  ASSUME NEW a, Kind(a) \in Firsts, Kind(a) \notin Opens
  PROVE  Ordered(<<a>>)
<1>1. <<a>> \in Seq({a}) /\ Len(<<a>>) = 1 /\ <<a>>[1] = a
  OBVIOUS
<1> DEFINE s == <<a>>
<1>2. s \in Seq({a}) /\ Len(s) = 1 /\ s[1] = a
  BY <1>1
<1> HIDE DEF s
<1>3. Ordered(s)
  BY <1>2 DEF Ordered
<1> QED BY <1>3 DEF s

LEMMA OrderedEmpty == Ordered(<<>>)
<1>1. <<>> \in Seq({}) /\ Len(<<>>) = 0
  OBVIOUS
<1> QED BY <1>1 DEF Ordered

LEMMA OrderedPair ==
  ASSUME NEW a, NEW b, Kind(a) \in Firsts, Kind(b) \notin Opens, Pairs(Kind(a), Kind(b))
  PROVE  Ordered(<<a, b>>)
<1> DEFINE s == <<a, b>>
<1>1. s \in Seq({a, b}) /\ Len(s) = 2 /\ s[1] = a /\ s[2] = b
  OBVIOUS
<1> HIDE DEF s
<1>2. \A k \in 1 .. Len(s) - 1 : k = 1 /\ k + 1 = 2
  BY <1>1
<1>3. Ordered(s)
  BY <1>1, <1>2 DEF Ordered
<1> QED BY <1>3 DEF s

LEMMA OrderedTriple ==
  ASSUME NEW a, NEW b, NEW c, Kind(a) \in Firsts, Kind(c) \notin Opens,
         Pairs(Kind(a), Kind(b)), Pairs(Kind(b), Kind(c))
  PROVE  Ordered(<<a, b, c>>)
<1> DEFINE s == <<a, b, c>>
<1>1. s \in Seq({a, b, c}) /\ Len(s) = 3 /\ s[1] = a /\ s[2] = b /\ s[3] = c
  OBVIOUS
<1> HIDE DEF s
<1>2. \A k \in 1 .. Len(s) - 1 : (k = 1 /\ k + 1 = 2) \/ (k = 2 /\ k + 1 = 3)
  BY <1>1
<1>3. Ordered(s)
  BY <1>1, <1>2 DEF Ordered
<1> QED BY <1>3 DEF s

(* A call that does one thing after another. *)
LEMMA OrderedBehind ==
  ASSUME NEW p, NEW q, Ordered(p), Ordered(q)
  PROVE  Ordered(p \o q)
<1>1. PICK P, Q : p \in Seq(P) /\ q \in Seq(Q)
  BY DEF Ordered
<1> DEFINE S == P \cup Q
           r == p \o q
           m == Len(p)
           n == Len(q)
<1>2. p \in Seq(S) /\ q \in Seq(S) /\ m \in Nat /\ n \in Nat
  BY <1>1
<1>3. /\ r \in Seq(S) /\ Len(r) = m + n
      /\ \A k \in 1 .. m + n : r[k] = IF k <= m THEN p[k] ELSE q[k - m]
  BY <1>2, ConcatProperties
<1>4. CASE q = <<>>
  <2>1. r = p
    BY <1>2, <1>4
  <2> QED BY <2>1
<1>5. CASE p = <<>>
  <2>1. r = q
    BY <1>2, <1>5
  <2> QED BY <2>1
<1>6. CASE p /= <<>> /\ q /= <<>>
  <2>1. m >= 1 /\ n >= 1
    BY <1>2, <1>6, EmptySeq
  <2>2. /\ Kind(p[1]) \in Firsts /\ Kind(p[m]) \notin Opens
        /\ Kind(q[1]) \in Firsts /\ Kind(q[n]) \notin Opens
    BY <1>6 DEF Ordered
  <2>3. \A k \in 1 .. m - 1 : Pairs(Kind(p[k]), Kind(p[k + 1]))
    BY DEF Ordered
  <2>4. \A k \in 1 .. n - 1 : Pairs(Kind(q[k]), Kind(q[k + 1]))
    BY DEF Ordered
  <2> HIDE DEF r, m, n, S
  <2>5. r[1] = p[1] /\ r[Len(r)] = q[n]
    <3>1. 1 \in 1 .. m + n /\ m + n \in 1 .. m + n /\ ~ (m + n <= m) /\ (m + n) - m = n
      BY <1>2, <2>1
    <3> QED BY <1>3, <2>1, <3>1
  <2>6. ASSUME NEW k \in 1 .. Len(r) - 1
        PROVE  Pairs(Kind(r[k]), Kind(r[k + 1]))
    <3>1. k \in 1 .. m + n /\ k + 1 \in 1 .. m + n
      BY <1>2, <1>3, <2>6
    <3>2. CASE k < m
      <4>1. k <= m /\ k + 1 <= m /\ k \in 1 .. m - 1
        BY <1>2, <3>1, <3>2
      <4>2. r[k] = p[k] /\ r[k + 1] = p[k + 1]
        BY <1>3, <3>1, <4>1
      <4> QED BY <2>3, <4>1, <4>2
    <3>3. CASE k = m
      <4>1. k <= m /\ ~ (k + 1 <= m) /\ (k + 1) - m = 1
        BY <1>2, <3>3
      <4>2. r[k] = p[m] /\ r[k + 1] = q[1]
        BY <1>3, <3>1, <3>3, <4>1
      <4> QED BY <2>2, <4>2 DEF Pairs, Firsts, Opens
    <3>4. CASE k > m
      <4>1. /\ ~ (k <= m) /\ ~ (k + 1 <= m) /\ (k + 1) - m = (k - m) + 1
            /\ k - m \in 1 .. n - 1
        BY <1>2, <1>3, <2>6, <3>1, <3>4
      <4>2. r[k] = q[k - m] /\ r[k + 1] = q[(k - m) + 1]
        BY <1>3, <3>1, <4>1
      <4> QED BY <2>4, <4>1, <4>2
    <3> QED BY <1>2, <3>1, <3>2, <3>3, <3>4
  <2> QED BY <1>3, <2>2, <2>5, <2>6 DEF Ordered, r
<1> QED BY <1>4, <1>5, <1>6

LEMMA OrderedOthers ==
  ASSUME NEW S, NEW s \in Seq(S), \A k \in 1 .. Len(s) : Kind(s[k]) = "other"
  PROVE  Ordered(s)
<1>1. Len(s) \in Nat /\ (s /= <<>> => 1 \in 1 .. Len(s) /\ Len(s) \in 1 .. Len(s))
  BY EmptySeq
<1>2. \A k \in 1 .. Len(s) - 1 : k \in 1 .. Len(s) /\ k + 1 \in 1 .. Len(s)
  BY <1>1
<1> QED BY <1>1, <1>2 DEF Ordered, Pairs, Firsts, Opens

LEMMA OrderedRun == ASSUME NEW v PROVE Ordered(sc_run_slot(v))
<1> DEFINE a == Store(Slot(v))
           b == Store(Run)
           c == Poll("STATUS", "RUN not busy", 0)
<1>1. Kind(a) = "slot" /\ Kind(b) = "run" /\ Kind(c) = "ran"
  BY KindOfSlot, KindOfRun, KindOfPoll
<1>2. sc_run_slot(v) = <<a, b, c>>
  BY DEF sc_run_slot
<1> HIDE DEF a, b, c
<1>3. Kind(a) \in Firsts /\ Kind(c) \notin Opens /\ Pairs(Kind(a), Kind(b)) /\ Pairs(Kind(b), Kind(c))
  BY <1>1 DEF Pairs, Firsts, Opens
<1> QED BY <1>2, <1>3, OrderedTriple

LEMMA OrderedRaw == ASSUME NEW q, NEW w, Kind(Store(q)) = "raw" PROVE Ordered(raw_access(q, w))
<1> DEFINE a == Poll("STATUS", "raw not busy", 0)
           c == Poll("RAW", "raw done", 0)
<1>1. Kind(a) = "ask" /\ Kind(c) = "sent" /\ Kind(Answer(w)) = "other"
  BY KindOfPoll, KindOfRead
<1>2. /\ raw_access(q, w) \in Seq({a, Store(q), c, Answer(w)}) /\ Len(raw_access(q, w)) = 4
      /\ raw_access(q, w)[1] = a /\ raw_access(q, w)[2] = Store(q)
      /\ raw_access(q, w)[3] = c /\ raw_access(q, w)[4] = Answer(w)
  BY DEF raw_access
<1> DEFINE s == raw_access(q, w)
<1>3. s \in Seq({a, Store(q), c, Answer(w)}) /\ Len(s) = 4
  BY <1>2
<1>4. Kind(s[1]) = "ask" /\ Kind(s[2]) = "raw" /\ Kind(s[3]) = "sent" /\ Kind(s[4]) = "other"
  BY <1>1, <1>2
<1> HIDE DEF s, a, c
<1>5. \A k \in 1 .. Len(s) - 1 : (k = 1 /\ k + 1 = 2) \/ (k = 2 /\ k + 1 = 3) \/ (k = 3 /\ k + 1 = 4)
  BY <1>3
<1>6. Ordered(s)
  BY <1>3, <1>4, <1>5 DEF Ordered, Pairs, Firsts, Opens
<1> QED BY <1>6 DEF s

LEMMA OrderedTx == ASSUME NEW bytes \in Seq(Octet) PROVE Ordered(sc_tx(bytes))
<1> DEFINE a == Poll("STATUS", "TX not full", 0)
           b(k) == Store(TxData(bytes[k \div 2]))
           n == 2 * Len(bytes)
           s == sc_tx(bytes)
<1>1. n \in Nat
  OBVIOUS
<1>2. s = [k \in 1 .. n |-> IF k % 2 = 1 THEN a ELSE b(k)]
  BY DEF sc_tx
<1>3. Kind(a) = "other" /\ \A k : Kind(b(k)) = "other"
  BY KindOfOther, KindOfByte
<1> DEFINE S == {a} \cup {b(k) : k \in 1 .. n}
<1> HIDE DEF a, b, n, s
<1>4. \A k \in 1 .. n : s[k] \in {a, b(k)} /\ s[k] \in S
  BY <1>2
<1> HIDE DEF S
<1>5. s \in [1 .. n -> S]
  BY <1>2, <1>4
<1>6. s \in Seq(S) /\ Len(s) = n
  BY <1>1, <1>5
<1>7. \A k \in 1 .. Len(s) : Kind(s[k]) = "other"
  BY <1>3, <1>4, <1>6
<1>8. Ordered(s)
  BY <1>6, <1>7, OrderedOthers
<1> QED BY <1>8 DEF s

LEMMA OrderedCalls ==
  ASSUME NEW call, Callable(call)
  PROVE  Ordered(Accesses(call)) /\ Accesses(call) /= <<>>
<1> DEFINE acc == Accesses(call)
<1>1. CASE call.fn = "sc_reset"
  <2>1. acc = <<Store(Ctrl(TRUE, call.rx_en)), Store(Ctrl(FALSE, call.rx_en))>>
    BY <1>1 DEF Accesses, sc_reset
  <2> DEFINE a == Store(Ctrl(TRUE, call.rx_en))
             b == Store(Ctrl(FALSE, call.rx_en))
  <2>2. Kind(a) = "hold" /\ Kind(b) = "release"
    BY KindOfCtrl
  <2>3. acc = <<a, b>> /\ <<a, b>> /= <<>>
    BY <2>1
  <2> HIDE DEF a, b, acc
  <2>4. Kind(a) \in Firsts /\ Kind(b) \notin Opens /\ Pairs(Kind(a), Kind(b))
    BY <2>2 DEF Pairs, Firsts, Opens
  <2>5. Ordered(acc) /\ acc /= <<>>
    BY <2>3, <2>4, OrderedPair
  <2> QED BY <2>5 DEF acc
<1>2. CASE call.fn = "command"
  <2>1. acc = <<Store(call.command)>> /\ call.command \in {RxClear, Flush, CommitClear}
    BY <1>2 DEF Accesses, Callable
  <2> QED BY <2>1, OrderedSingle, KindOfCommand DEF Firsts, Opens
<1>3. CASE call.fn = "sc_run_slot"
  <2>1. acc = sc_run_slot(call.control)
    BY <1>3 DEF Accesses
  <2>2. sc_run_slot(call.control) /= <<>>
    BY DEF sc_run_slot
  <2> QED BY <2>1, <2>2, OrderedRun
<1>4. CASE call.fn \in {"sc_wait_halted", "still_runs", "wait_room"}
  <2> DEFINE p == Poll("CORE_STATUS", "halted", 0)
             q == Poll("CORE_STATUS", "TX FIFO not full", 0)
  <2>1. acc \in {<<p>>, <<Runs>>, <<q>>}
    BY <1>4 DEF Accesses
  <2>2. Kind(p) = "other" /\ Kind(Runs) = "other" /\ Kind(q) = "other"
    BY KindOfOther, KindOfRead
  <2> HIDE DEF p, q, acc
  <2>3. \A a : Kind(a) = "other" => Ordered(<<a>>) /\ <<a>> /= <<>>
    BY OrderedSingle DEF Firsts, Opens
  <2>4. Ordered(acc) /\ acc /= <<>>
    BY <2>1, <2>2, <2>3
  <2> QED BY <2>4 DEF acc
<1>5. CASE call.fn \in RawFns
  <2>1. \E q, w : acc = raw_access(q, w) /\ Kind(Store(q)) = "raw"
    <3>1. CASE call.fn = "sc_raw_read"
      <4>1. acc = raw_access(Raw(FALSE, call.addr, 0, FALSE), 0 .. 255)
        BY <3>1 DEF Accesses, sc_raw_read
      <4> QED BY <4>1, KindOfRaw
    <3>2. CASE call.fn = "sc_raw_write"
      <4>1. acc = raw_access(Raw(TRUE, call.addr, call.value, FALSE), 0 .. 255)
        BY <3>2 DEF Accesses, sc_raw_write
      <4> QED BY <4>1, KindOfRaw
    <3> QED BY <1>5, <3>1, <3>2 DEF RawFns
  <2>2. \A q, w : raw_access(q, w) /= <<>>
    BY DEF raw_access
  <2> QED BY <2>1, <2>2, OrderedRaw
<1>6. CASE call.fn = "sc_rx"
  <2>1. acc = [i \in 1 .. call.max |-> Take] /\ call.max \in Nat \ {0}
    BY <1>6 DEF Accesses, Callable
  <2> HIDE DEF acc
  <2>2. acc \in Seq({Take}) /\ Len(acc) = call.max /\ \A k \in 1 .. call.max : acc[k] = Take
    BY <2>1
  <2>3. Ordered(acc)
    BY <2>2, OrderedOthers, KindOfRead
  <2>4. acc /= <<>>
    BY <2>1, <2>2
  <2> QED BY <2>3, <2>4 DEF acc
<1>7. CASE call.fn = "sc_wait_prefill"
  <2> DEFINE p == Poll("TX_COMMITTED", "at least", IF call.n < Prefill THEN call.n ELSE Prefill)
             r == Poll("CORE_STATUS", "TX FIFO full", 0)
             q == IF call.n >= Prefill THEN <<r>> ELSE <<>>
  <2>1. acc = <<p>> \o q
    BY <1>7 DEF Accesses, sc_wait_prefill
  <2>2. Kind(p) = "other" /\ Kind(r) = "other"
    BY KindOfOther
  <2> HIDE DEF p, r, acc
  <2>3. Ordered(<<p>>) /\ Ordered(q) /\ q \in {<<r>>, <<>>}
    BY <2>2, OrderedSingle, OrderedEmpty DEF Firsts, Opens
  <2> HIDE DEF q
  <2>4. Ordered(acc)
    BY <2>1, <2>3, OrderedBehind
  <2>5. acc /= <<>>
    <3>1. <<p>> \o <<r>> /= <<>> /\ <<p>> \o <<>> /= <<>>
      OBVIOUS
    <3> QED BY <2>1, <2>3, <3>1
  <2> QED BY <2>4, <2>5 DEF acc
<1>8. CASE call.fn = "sc_tx"
  <2>1. acc = sc_tx(call.bytes) /\ call.bytes \in Seq(Octet) /\ call.bytes /= <<>>
    BY <1>8 DEF Accesses, Callable, Octet
  <2>2. 1 \in DOMAIN acc
    <3>1. Len(call.bytes) \in Nat /\ Len(call.bytes) /= 0
      BY <2>1, EmptySeq
    <3>2. 1 \in 1 .. 2 * Len(call.bytes)
      BY <3>1
    <3> QED BY <2>1, <3>2 DEF sc_tx
  <2> HIDE DEF acc
  <2> QED BY <2>1, <2>2, OrderedTx DEF acc
<1>9. CASE call.fn = "sc_load_ram"
  <2> DEFINE n == Len(call.bytes)
             b == <<Poll("STATUS", "idle", 0)>>
             c == sc_raw_read(H!CONTROL, FALSE, {LOAD_RAM})
             d == <<Store(CommitClear)>>
             e == sc_tx(call.bytes)
             f == <<Poll("TX_COMMITTED", "exactly", n), Poll("STATUS", "idle", 0)>>
  <2>1. acc = sc_run_slot(LOAD_RAM) \o b \o c \o d \o e \o f
    BY <1>9 DEF Accesses, sc_load_ram
  <2>2. Ordered(sc_run_slot(LOAD_RAM)) /\ sc_run_slot(LOAD_RAM) /= <<>>
    BY OrderedRun DEF sc_run_slot
  <2>3. Ordered(b)
    <3> DEFINE g == Poll("STATUS", "idle", 0)
    <3>1. Kind(g) = "other"
      BY KindOfOther
    <3> HIDE DEF g
    <3>2. Ordered(<<g>>)
      BY <3>1, OrderedSingle DEF Firsts, Opens
    <3> QED BY <3>2 DEF g
  <2>4. Ordered(c)
    BY OrderedRaw, KindOfRaw DEF sc_raw_read
  <2>5. Ordered(d)
    BY OrderedSingle, KindOfCommand DEF Firsts, Opens
  <2>6. Ordered(e)
    BY <1>9, OrderedTx DEF Callable, Octet
  <2>7. Ordered(f)
    <3> DEFINE g == Poll("TX_COMMITTED", "exactly", n)
               h == Poll("STATUS", "idle", 0)
    <3>1. Kind(g) = "other" /\ Kind(h) = "other"
      BY KindOfOther
    <3> HIDE DEF g, h
    <3>2. Ordered(<<g, h>>)
      BY <3>1, OrderedPair DEF Firsts, Opens, Pairs
    <3> QED BY <3>2 DEF g, h
  <2> HIDE DEF b, c, d, e, f, acc
  <2>8. Ordered(acc)
    BY <2>1, <2>2, <2>3, <2>4, <2>5, <2>6, <2>7, OrderedBehind
  <2>9. acc /= <<>>
    <3>1. \A s, t : Ordered(s) /\ Ordered(t) /\ s /= <<>> => s \o t /= <<>>
      <4> TAKE s, t
      <4> HAVE Ordered(s) /\ Ordered(t) /\ s /= <<>>
      <4>1. PICK S, T : s \in Seq(S) /\ t \in Seq(T)
        BY DEF Ordered
      <4>2. s \in Seq(S \cup T) /\ t \in Seq(S \cup T)
        BY <4>1
      <4> QED BY <4>2
    <3> QED BY <2>1, <2>2, <2>3, <2>4, <2>5, <2>6, <2>7, <3>1, OrderedBehind
  <2> QED BY <2>8, <2>9 DEF acc
<1> QED BY <1>1, <1>2, <1>3, <1>4, <1>5, <1>6, <1>7, <1>8, <1>9 DEF Callable, RawFns

-----------------------------------------------------------------------------
(* The ARM on a clock. *)

LEMMA ACall ==
  ASSUME session \in Sessions, NEW c \in DOMAIN session.calls
  PROVE  /\ Callable(session.calls[c])
         /\ Ordered(Accesses(session.calls[c])) /\ Accesses(session.calls[c]) /= <<>>
         /\ \A k \in 1 .. Len(Accesses(session.calls[c])) :
              InTraffic(Accesses(session.calls[c])[k], session)
<1> DEFINE call == session.calls[c]
<1>1. Callable(call) /\ \A k \in DOMAIN Accesses(call) : InTraffic(Accesses(call)[k], session)
  BY CallsAssumption
<1> HIDE DEF call
<1>2. Ordered(Accesses(call)) /\ Accesses(call) /= <<>>
  BY <1>1, OrderedCalls
<1>3. DOMAIN Accesses(call) = 1 .. Len(Accesses(call))
  BY <1>2 DEF Ordered
<1> QED BY <1>1, <1>2, <1>3 DEF call

LEMMA Wires ==
  ASSUME Placed, NEW bus \in DriverBus
  PROVE  /\ bus.aresetn = TRUE /\ bus.bready = TRUE /\ bus.rready = TRUE
         /\ bus.valid \in BOOLEAN /\ bus.arvalid \in BOOLEAN
         /\ bus.valid => Storing
         /\ bus.arvalid => ~Storing
         /\ wr(bus) <=> awready
         /\ rd(bus) <=> arready
         /\ awready /\ arready => FALSE
         /\ bus.write = IF awready THEN Access.write ELSE None
         /\ bus.read = IF arready THEN Access.reg ELSE "none"
BY DEF DriverBus, Placed, Storing, wr, rd

LEMMA Channels ==
  ASSUME Placed, NEW bus \in DriverBus, WriteSide(bus), ReadSide(bus)
  PROVE  /\ bvalid' <=> awready
         /\ rvalid' <=> arready
         /\ awready' => ~Transfers /\ ~bvalid /\ Storing
         /\ arready' => ~Transfers /\ ~rvalid /\ ~Storing
<1>1. /\ bus.aresetn = TRUE /\ bus.bready = TRUE /\ bus.rready = TRUE
      /\ bus.valid => Storing
      /\ bus.arvalid => ~Storing
      /\ wr(bus) <=> awready
      /\ rd(bus) <=> arready
      /\ wr(bus) \in BOOLEAN /\ rd(bus) \in BOOLEAN
  BY Wires DEF wr, rd
<1>2. /\ awready => Storing
      /\ arready => ~Storing
  BY DEF Placed
<1>3. /\ awready' <=> wr_accept(bus)
      /\ bvalid' <=> wr(bus) \/ (bvalid /\ ~bus.bready)
      /\ arready' <=> rd_accept(bus)
      /\ rvalid' <=> rd(bus) \/ (rvalid /\ ~bus.rready)
  BY <1>1 DEF WriteSide, ReadSide
<1> QED BY <1>1, <1>2, <1>3 DEF wr_accept, rd_accept, Transfers

(* It waits, goes on in the call, or returns and begins the next.           *)
Waiting ==
  UNCHANGED <<at, ok, returned, answer>> /\ ~awready /\ (arready => Access.kind = "poll")

(* What it found at a register it read, to go on.                           *)
Finds ==
  /\ Transfers
  /\ Access.kind = "poll" => Met(Access)
  /\ answer' = IF Access.kind = "answer" THEN raw_rdata ELSE answer

GoingOn ==
  /\ Finds
  /\ at.access < Len(Accesses(Call))
  /\ at' = [call |-> at.call, access |-> at.access + 1]
  /\ UNCHANGED returned

Returning ==
  /\ Transfers
  /\ at' \in [call : DOMAIN session.calls, access : {1}]
  /\ returned'.call = at.call
  /\ Storing => at.access = Len(Accesses(Call))
  /\ returned'.result = "ok" =>
       Finds /\ (at.access = Len(Accesses(Call)) \/ Access.kind = "take")

LEMMA FollowsIn ==
  ASSUME session \in Sessions, NEW c, NEW well
  PROVE  Follows(c, well) \in DOMAIN session.calls
<1> DEFINE later == {d \in DOMAIN session.calls : d > c /\ (well \/ ~session.calls[d].if_ok)}
<1>1. DOMAIN session.calls \subseteq Nat /\ 1 \in DOMAIN session.calls
  BY CallsAssumption
<1>2. later \subseteq DOMAIN session.calls
  OBVIOUS
<1>3. Follows(c, well) = IF later = {} THEN 1 ELSE Min(later)
  BY DEF Follows
<1> HIDE DEF later
<1> QED BY <1>1, <1>2, <1>3, LeastIn

LEMMA ReturnsIs ==
  ASSUME session \in Sessions, NEW result, Returns(result)
  PROVE  /\ at' \in [call : DOMAIN session.calls, access : {1}]
         /\ returned'.call = at.call /\ returned'.result = result
BY FollowsIn DEF Returns

LEMMA GoesIs ==
  ASSUME session \in Sessions, Placed, Goes
  PROVE  \/ /\ at.access < Len(Accesses(Call))
            /\ at' = [call |-> at.call, access |-> at.access + 1]
            /\ UNCHANGED returned
         \/ /\ at.access = Len(Accesses(Call))
            /\ at' \in [call : DOMAIN session.calls, access : {1}]
            /\ returned'.call = at.call
<1>1. at \in [call : DOMAIN session.calls, access : Nat] /\ at.access \in 1 .. Len(Accesses(Call))
  BY DEF Placed
<1>2. CASE at.access = Len(Accesses(Call))
  BY <1>2, ReturnsIs DEF Goes
<1>3. CASE at.access /= Len(Accesses(Call))
  <2>1. at' = [at EXCEPT !.access = at.access + 1] /\ UNCHANGED returned
    BY <1>3 DEF Goes
  <2>2. at' = [call |-> at.call, access |-> at.access + 1]
    BY <1>1, <2>1
  <2>3. at.access < Len(Accesses(Call))
    BY <1>1, <1>3
  <2> QED BY <2>1, <2>2, <2>3
<1> QED BY <1>2, <1>3

LEMMA ArmMoves ==
  ASSUME session \in Sessions, Placed, NEW bus \in DriverBus, Drives(bus)
  PROVE  Waiting \/ GoingOn \/ Returning
<1>1. /\ wr(bus) <=> awready
      /\ rd(bus) <=> arready
      /\ awready => Storing
      /\ arready => ~Storing
  BY Wires DEF Placed
<1>2. CASE ~Transfers
  BY <1>1, <1>2 DEF Drives, Transfers, Waiting
<1>3. ASSUME Transfers, Goes, Finds
      PROVE  GoingOn \/ Returning
  BY <1>3, GoesIs DEF GoingOn, Returning
<1>4. ASSUME Transfers, NEW result, Returns(result), ~Storing, result /= "ok"
      PROVE  Returning
  BY <1>4, ReturnsIs DEF Returning
<1>5. CASE Transfers
  <2>1. CASE Access.kind = "store" /\ Goes /\ UNCHANGED answer
    BY <1>3, <1>5, <2>1 DEF Finds
  <2>2. CASE Access.kind = "poll" /\ Met(Access) /\ Goes /\ UNCHANGED answer
    BY <1>3, <1>5, <2>2 DEF Finds
  <2>3. CASE Access.kind = "poll" /\ UNCHANGED <<at, ok, returned, answer>>
    BY <1>1, <2>3 DEF Waiting, Storing
  <2>4. CASE Access.kind = "poll" /\ Returns("timeout")
    BY <1>4, <1>5, <2>4 DEF Storing
  <2>5. CASE Access.kind = "take" /\ Returns("ok") /\ UNCHANGED answer
    BY <1>5, <2>5, ReturnsIs DEF Returning, Finds, Storing
  <2>6. CASE Access.kind = "take" /\ Goes /\ UNCHANGED answer
    BY <1>3, <1>5, <2>6 DEF Finds
  <2>7. CASE Access.kind = "runs" /\ Returns("bad state")
    BY <1>4, <1>5, <2>7 DEF Storing
  <2>8. CASE Access.kind = "runs" /\ Goes /\ UNCHANGED answer
    BY <1>3, <1>5, <2>8 DEF Finds
  <2>9. CASE Access.kind = "answer" /\ answer' = raw_rdata /\ Goes
    BY <1>3, <1>5, <2>9 DEF Finds
  <2>10. CASE Access.kind = "answer" /\ Returns("bad state")
    BY <1>4, <1>5, <2>10 DEF Storing
  <2> QED BY <1>1, <1>5, <2>1, <2>2, <2>3, <2>4, <2>5, <2>6, <2>7, <2>8, <2>9, <2>10
          DEF Drives, Transfers
<1> QED BY <1>2, <1>5

LEMMA Places ==
  ASSUME session \in Sessions, Placed, session' = session
  PROVE  /\ Waiting => Call' = Call /\ Access' = Access
         /\ GoingOn => Call' = Call /\ Access' = Accesses(Call)[at.access + 1]
         /\ Returning => Call' = session.calls[at'.call] /\ Access' = Accesses(session.calls[at'.call])[1]
<1>1. ASSUME Waiting
      PROVE  Call' = Call /\ Access' = Access
  BY <1>1 DEF Waiting, Call, Access
<1>2. ASSUME GoingOn
      PROVE  Call' = Call /\ Access' = Accesses(Call)[at.access + 1]
  <2>1. at'.call = at.call /\ at'.access = at.access + 1
    BY <1>2 DEF GoingOn
  <2>2. Call' = Call
    BY <2>1 DEF Call
  <2> QED BY <2>1, <2>2 DEF Access
<1>3. ASSUME Returning
      PROVE  Call' = session.calls[at'.call] /\ Access' = Accesses(session.calls[at'.call])[1]
  <2>1. at'.access = 1
    BY <1>3 DEF Returning
  <2> QED BY <2>1 DEF Call, Access
<1> QED BY <1>1, <1>2, <1>3

LEMMA KindsAre ==
  ASSUME NEW a
  PROVE  /\ Kind(a) \in {"slot", "run", "ran", "ask", "raw", "sent", "hold", "release", "other"}
         /\ Kind(a) \in {"slot", "run", "raw", "hold", "release"} => a.kind = "store"
         /\ Kind(a) \in {"ran", "ask", "sent"} => a.kind = "poll"
BY DEF Kind

LEMMA KindIs ==
  /\ Doing \in {"slot", "run", "ran", "ask", "raw", "sent", "hold", "release", "other"}
  /\ Doing \in {"slot", "run", "raw", "hold", "release"} => Storing
  /\ Doing \in {"ran", "ask", "sent"} => Access.kind = "poll" /\ ~Storing
BY KindsAre DEF Doing, Storing

LEMMA DoingMoves ==
  ASSUME session \in Sessions, Placed, session' = session
  PROVE  /\ Waiting => Doing' = Doing
         /\ GoingOn => Pairs(Doing, Doing') /\ at'.access \in 1 .. Len(Accesses(Call'))
         /\ Returning => /\ Doing \notin Opens /\ Doing' \in Firsts
                         /\ at'.access \in 1 .. Len(Accesses(Call'))
<1>1. at.call \in DOMAIN session.calls /\ at.access \in 1 .. Len(Accesses(Call))
  BY DEF Placed
<1>2. Ordered(Accesses(Call)) /\ Accesses(Call) /= <<>>
  BY <1>1, ACall DEF Call
<1>3. Len(Accesses(Call)) \in Nat
  BY <1>2 DEF Ordered
<1>4. ASSUME Waiting
      PROVE  Doing' = Doing
  BY <1>4, Places DEF Doing
<1>5. ASSUME GoingOn
      PROVE  Pairs(Doing, Doing') /\ at'.access \in 1 .. Len(Accesses(Call'))
  <2>1. at.access < Len(Accesses(Call)) /\ at'.access = at.access + 1
    BY <1>5 DEF GoingOn
  <2>2. Call' = Call /\ Access' = Accesses(Call)[at.access + 1]
    BY <1>5, Places
  <2>3. at.access \in 1 .. Len(Accesses(Call)) - 1 /\ at.access + 1 \in 1 .. Len(Accesses(Call))
    BY <1>1, <1>3, <2>1
  <2>4. Pairs(Kind(Accesses(Call)[at.access]), Kind(Accesses(Call)[at.access + 1]))
    BY <1>2, <2>3 DEF Ordered
  <2> QED BY <2>1, <2>2, <2>3, <2>4 DEF Doing, Access
<1>6. ASSUME Returning
      PROVE  /\ Doing \notin Opens /\ Doing' \in Firsts
             /\ at'.access \in 1 .. Len(Accesses(Call'))
  <2>1. at'.call \in DOMAIN session.calls /\ at'.access = 1
    BY <1>6 DEF Returning
  <2>2. /\ Call' = session.calls[at'.call]
        /\ Access' = Accesses(session.calls[at'.call])[1]
    BY <1>6, Places
  <2>3. Ordered(Accesses(Call')) /\ Accesses(Call') /= <<>>
    BY <2>1, <2>2, ACall
  <2>4. Kind(Accesses(Call')[1]) \in Firsts /\ 1 \in 1 .. Len(Accesses(Call'))
    BY <2>3, EmptySeq DEF Ordered
  <2>5. Doing' \in Firsts
    BY <2>2, <2>4 DEF Doing
  <2>6. CASE Storing
    <3>1. at.access = Len(Accesses(Call))
      BY <1>6, <2>6 DEF Returning
    <3> QED BY <1>2, <2>1, <2>4, <2>5, <3>1 DEF Ordered, Doing, Access
  <2>7. CASE ~Storing
    BY <2>1, <2>4, <2>5, <2>7, KindIs DEF Opens
  <2> QED BY <2>6, <2>7
<1> QED BY <1>4, <1>5, <1>6

LEMMA OnBus ==
  ASSUME session \in Sessions, Placed, NEW bus \in DriverBus
  PROVE  bus \in Bus
<1>1. /\ at.call \in DOMAIN session.calls /\ at.access \in 1 .. Len(Accesses(Call))
      /\ awready => Storing
      /\ arready => ~Storing
  BY DEF Placed
<1>2. IF Storing THEN Access.write \in session.writes ELSE Access.reg \in session.reads
  BY <1>1, ACall DEF InTraffic, Access, Call, Storing
<1>3. TRUE \in Ready /\ TRUE \in session.aresetn /\ session.quiet = {}
  BY CallsAssumption
<1>4. \A w : MayWrite(w)
  BY <1>3 DEF MayWrite
<1>5. awready => Access.write \in {w \in session.writes : MayWrite(w)}
  BY <1>1, <1>2, <1>4
<1>6. bus \in [aresetn : {TRUE},
               valid   : IF ~Storing THEN {FALSE} ELSE IF awready THEN {TRUE} ELSE BOOLEAN,
               write   : {IF awready THEN Access.write ELSE None},
               bready  : {TRUE},
               arvalid : IF Storing THEN {FALSE} ELSE IF arready THEN {TRUE} ELSE BOOLEAN,
               read    : {IF arready THEN Access.reg ELSE "none"},
               rready  : {TRUE}]
  BY DEF DriverBus, Storing
<1>7. /\ bus.aresetn \in session.aresetn
      /\ bus.valid \in IF awready THEN {TRUE} ELSE BOOLEAN
      /\ bus.write \in IF awready THEN {w \in session.writes : MayWrite(w)} ELSE {None}
      /\ bus.bready \in IF bvalid THEN Ready ELSE {TRUE}
      /\ bus.arvalid \in IF arready THEN {TRUE} ELSE IF session.reads = {} THEN {FALSE} ELSE BOOLEAN
      /\ bus.read \in IF arready THEN session.reads ELSE {"none"}
      /\ bus.rready \in IF rvalid THEN Ready ELSE {TRUE}
  BY <1>1, <1>2, <1>3, <1>5, <1>6
<1> QED BY <1>6, <1>7 DEF Bus

LEMMA Pulses ==
  ASSUME Types, Placed, NEW bus \in DriverBus, WriteSide(bus)
  PROVE  /\ run_p' <=> awready /\ Doing = "run"
         /\ raw_p' <=> awready /\ Doing = "raw" /\ ~raw_busy_any
         /\ slot' = IF awready /\ Doing = "slot" THEN Access.write.slot ELSE slot
         /\ raw_req' = IF awready /\ Doing = "raw" /\ ~raw_busy_any
                         THEN Access.write.raw ELSE raw_req
         /\ ctrl'.reset <=> \/ awready /\ Doing = "hold"
                            \/ ~ (awready /\ Doing = "release") /\ ctrl.reset
<1>1. /\ bus.aresetn = TRUE
      /\ wr(bus) <=> awready
      /\ awready => bus.write = Access.write
  BY Wires
<1>2. awready => Access.kind = "store"
  BY DEF Placed, Storing
<1> DEFINE w == Access.write
<1>3. awready => /\ Doing = "slot" <=> w.reg = "SLOT"
                 /\ Doing = "raw" <=> w.reg = "RAW"
                 /\ Doing = "run" <=> w.reg = "COMMAND" /\ w.run
                 /\ Doing = "hold" <=> w.reg = "CTRL" /\ w.ctrl.reset
                 /\ Doing = "release" <=> w.reg = "CTRL" /\ ~w.ctrl.reset
  <2> DEFINE a == Access
  <2>1. a.kind = "store" =>
                 /\ Kind(a) = "slot" <=> a.write.reg = "SLOT"
                 /\ Kind(a) = "raw" <=> a.write.reg = "RAW"
                 /\ Kind(a) = "run" <=> a.write.reg = "COMMAND" /\ a.write.run
                 /\ Kind(a) = "hold" <=> a.write.reg = "CTRL" /\ a.write.ctrl.reset
                 /\ Kind(a) = "release" <=> a.write.reg = "CTRL" /\ ~a.write.ctrl.reset
    <3> HIDE DEF a
    <3> QED BY DEF Kind
  <2> QED BY <1>2, <2>1 DEF Doing
<1> HIDE DEF w
<1>4. \A reg : writes(bus, reg) <=> awready /\ w.reg = reg
  BY <1>1 DEF writes, w
<1>5. /\ ctrl' = IF writes(bus, "CTRL") THEN bus.write.ctrl ELSE ctrl
      /\ slot' = IF writes(bus, "SLOT") THEN bus.write.slot ELSE slot
      /\ run_p' <=> writes(bus, "COMMAND") /\ bus.write.run
      /\ raw_p' <=> writes(bus, "RAW") /\ ~raw_busy_any
      /\ raw_req' = IF writes(bus, "RAW") /\ ~raw_busy_any THEN bus.write.raw ELSE raw_req
  BY <1>1 DEF WriteSide
<1>6. awready => bus.write = w
  BY <1>1 DEF w
<1>7. run_p' <=> awready /\ Doing = "run"
  BY <1>3, <1>4, <1>5, <1>6
<1>8. raw_p' <=> awready /\ Doing = "raw" /\ ~raw_busy_any
  BY <1>3, <1>4, <1>5
<1>9. slot' = IF awready /\ Doing = "slot" THEN w.slot ELSE slot
  BY <1>3, <1>4, <1>5, <1>6
<1>10. raw_req' = IF awready /\ Doing = "raw" /\ ~raw_busy_any THEN w.raw ELSE raw_req
  BY <1>3, <1>4, <1>5, <1>6
<1>11. ctrl' = IF awready /\ w.reg = "CTRL" THEN w.ctrl ELSE ctrl
  BY <1>4, <1>5, <1>6
<1>12. ctrl'.reset <=> \/ awready /\ Doing = "hold"
                       \/ ~ (awready /\ Doing = "release") /\ ctrl.reset
  BY <1>3, <1>11
<1> QED BY <1>7, <1>8, <1>9, <1>10, <1>12 DEF w

LEMMA PlacedStep ==
  ASSUME Types, Placed, NEW bus \in DriverBus, Clock(bus), Drives(bus)
  PROVE  Placed'
<1>1. session \in Sessions /\ session' = session /\ WriteSide(bus) /\ ReadSide(bus)
  BY DEF Types, PeripheralTypes, Clock, AxiClock
<1>2. Waiting \/ GoingOn \/ Returning
  BY <1>1, ArmMoves
<1>3. /\ Waiting => Doing' = Doing
      /\ GoingOn => Pairs(Doing, Doing') /\ at'.access \in 1 .. Len(Accesses(Call'))
      /\ Returning => /\ Doing \notin Opens /\ Doing' \in Firsts
                      /\ at'.access \in 1 .. Len(Accesses(Call'))
  BY <1>1, DoingMoves
<1>4. /\ awready' => ~Transfers /\ ~bvalid /\ Storing
      /\ arready' => ~Transfers /\ ~rvalid /\ ~Storing
  BY <1>1, Channels
<1>5. /\ run_p' <=> awready /\ Doing = "run"
      /\ raw_p' <=> awready /\ Doing = "raw" /\ ~raw_busy_any
      /\ ctrl'.reset <=> \/ awready /\ Doing = "hold"
                         \/ ~ (awready /\ Doing = "release") /\ ctrl.reset
  BY <1>1, Pulses
<1>6. /\ at \in [call : DOMAIN session.calls, access : Nat]
      /\ at.access \in 1 .. Len(Accesses(Call))
      /\ at.access = 1 => Doing \in Firsts
      /\ awready => Storing
      /\ arready => ~Storing
      /\ ctrl.reset => Doing = "release"
  BY DEF Placed
<1>7. /\ GoingOn \/ Returning => Transfers
      /\ Waiting => ~awready
  BY DEF GoingOn, Returning, Finds, Waiting
<1>8. Waiting => /\ at' = at /\ Call' = Call /\ (Storing' <=> Storing)
  BY <1>1, Places DEF Waiting, Storing
<1>9. at' \in [call : DOMAIN session'.calls, access : Nat]
  BY <1>1, <1>2, <1>6, <1>8 DEF GoingOn, Returning
<1>10. at'.access \in 1 .. Len(Accesses(Call'))
  BY <1>2, <1>3, <1>6, <1>8
<1>11. at'.access = 1 => Doing' \in Firsts
  <2>1. GoingOn => at'.access /= 1
    BY <1>6 DEF GoingOn
  <2> QED BY <1>2, <1>3, <1>6, <1>8, <2>1
<1>12. (awready' => Storing') /\ (arready' => ~Storing')
  BY <1>2, <1>4, <1>7, <1>8
<1>13. Doing = "release" => Storing
  BY KindIs
<1>14. ctrl'.reset => Doing' = "release"
  BY <1>2, <1>3, <1>5, <1>6, <1>7, <1>13 DEF Pairs, Opens, Transfers
<1>15. run_p' => Doing' = "ran" /\ ~arready'
  BY <1>2, <1>3, <1>4, <1>5, <1>7 DEF Pairs, Opens, Transfers
<1>16. raw_p' => Doing' = "sent" /\ ~arready'
  BY <1>2, <1>3, <1>4, <1>5, <1>7 DEF Pairs, Opens, Transfers
<1> QED BY <1>9, <1>10, <1>11, <1>12, <1>14, <1>15, <1>16 DEF Placed

LEMMA NoticeStep ==
  ASSUME Types, Placed, NEW bus \in DriverBus, Clock(bus), Drives(bus)
  PROVE  /\ Notice \in 1 .. 7 /\ Notice' \in 1 .. 7 /\ Notice' >= Notice - 1
         /\ run_p' \/ raw_p' => Notice = 1
         /\ run_p \/ raw_p => Notice = 7
<1>1. session \in Sessions /\ session' = session /\ WriteSide(bus) /\ ReadSide(bus)
  BY DEF Types, PeripheralTypes, Clock, AxiClock
<1>2. Waiting \/ GoingOn \/ Returning
  BY <1>1, ArmMoves
<1>3. /\ Waiting => Doing' = Doing
      /\ GoingOn => Pairs(Doing, Doing')
      /\ Returning => Doing \notin Opens /\ Doing' \in Firsts
  BY <1>1, DoingMoves
<1>4. /\ bvalid' <=> awready
      /\ rvalid' <=> arready
      /\ awready' => ~Transfers /\ ~bvalid /\ Storing
      /\ arready' => ~Transfers /\ ~rvalid /\ ~Storing
  BY <1>1, Channels
<1>5. /\ run_p' <=> awready /\ Doing = "run"
      /\ raw_p' <=> awready /\ Doing = "raw" /\ ~raw_busy_any
  BY <1>1, Pulses
<1>6. /\ awready => Storing
      /\ arready => ~Storing
      /\ run_p => Doing = "ran" /\ ~arready
      /\ raw_p => Doing = "sent" /\ ~arready
  BY DEF Placed
<1>7. /\ GoingOn \/ Returning => Transfers
      /\ Waiting => ~awready
  BY DEF GoingOn, Returning, Finds, Waiting
<1>8. /\ Doing \in {"slot", "run", "ran", "ask", "raw", "sent", "hold", "release", "other"}
      /\ Doing \in {"slot", "run", "raw", "hold", "release"} => Storing
      /\ Doing \in {"ran", "ask", "sent"} => ~Storing
  BY KindIs
<1>9. Doing' \in {"slot", "run", "ran", "ask", "raw", "sent", "hold", "release", "other"}
  BY KindsAre DEF Doing
<1>10. /\ Doing = "run" => Notice = IF awready THEN 1 ELSE IF bvalid THEN 3 ELSE 2
       /\ Doing = "raw" => Notice = IF awready THEN 1 ELSE 2
       /\ Doing = "slot" => Notice = IF awready THEN 4 ELSE 5
       /\ Doing = "ask" => Notice = IF arready THEN 3 ELSE IF rvalid THEN 5 ELSE 4
       /\ Doing \in {"ran", "sent"} => Notice = IF arready THEN 6 ELSE 7
       /\ Doing \in {"hold", "release", "other"} => Notice = 5
  BY DEF Notice
<1>11. /\ Doing' = "run" => Notice' = IF awready' THEN 1 ELSE IF bvalid' THEN 3 ELSE 2
       /\ Doing' = "raw" => Notice' = IF awready' THEN 1 ELSE 2
       /\ Doing' = "slot" => Notice' = IF awready' THEN 4 ELSE 5
       /\ Doing' = "ask" => Notice' = IF arready' THEN 3 ELSE IF rvalid' THEN 5 ELSE 4
       /\ Doing' \in {"ran", "sent"} => Notice' = IF arready' THEN 6 ELSE 7
       /\ Doing' \in {"hold", "release", "other"} => Notice' = 5
  BY DEF Notice
<1>12. Notice \in 1 .. 7 /\ Notice' \in 1 .. 7
  BY <1>8, <1>9, <1>10, <1>11
<1>13. (run_p' \/ raw_p' => Notice = 1) /\ (run_p \/ raw_p => Notice = 7)
  BY <1>5, <1>6, <1>10
<1>14. ASSUME Waiting PROVE Notice' >= Notice - 1
  <2>1. Doing' = Doing /\ ~awready /\ ~bvalid'
    BY <1>3, <1>4, <1>7, <1>14
  <2>2. CASE Doing = "run"
    BY <1>4, <1>10, <1>11, <2>1, <2>2
  <2>3. CASE Doing \in {"raw", "slot"}
    BY <1>10, <1>11, <2>1, <2>3
  <2>4. CASE Doing = "ask"
    BY <1>4, <1>10, <1>11, <2>1, <2>4 DEF Transfers
  <2>5. CASE Doing \in {"ran", "sent"}
    BY <1>4, <1>10, <1>11, <2>1, <2>5 DEF Transfers
  <2>6. CASE Doing \in {"hold", "release", "other"}
    BY <1>10, <1>11, <2>1, <2>6
  <2> QED BY <1>8, <2>2, <2>3, <2>4, <2>5, <2>6
<1>15. Transfers => ~awready' /\ ~arready'
  BY <1>4
<1>16. ASSUME GoingOn PROVE Notice' >= Notice - 1
  <2>1. /\ Pairs(Doing, Doing') /\ Transfers /\ ~awready' /\ ~arready'
    BY <1>3, <1>7, <1>15, <1>16
  <2>2. CASE Doing' = "run"
    <3>1. Doing = "slot" /\ awready /\ bvalid'
      BY <1>4, <1>6, <1>8, <2>1, <2>2 DEF Pairs, Transfers
    <3> QED BY <1>10, <1>11, <2>1, <2>2, <3>1
  <2>3. CASE Doing' = "raw"
    <3>1. Doing = "ask" /\ arready
      BY <1>6, <1>8, <2>1, <2>3 DEF Pairs, Transfers
    <3> QED BY <1>10, <1>11, <2>1, <2>3, <3>1
  <2>4. CASE Doing' = "ask"
    <3>1. Doing \in {"ran", "sent"} => arready
      BY <1>6, <1>8, <2>1 DEF Transfers
    <3>2. Notice' >= 4 /\ (arready => Notice' = 5)
      BY <1>4, <1>11, <2>1, <2>4
    <3>3. Notice <= 5 \/ (Notice = 6 /\ arready)
      BY <1>8, <1>10, <3>1
    <3> QED BY <1>12, <3>2, <3>3
  <2>5. CASE Doing' \in {"slot", "ran", "sent", "hold", "release", "other"}
    <3>1. Notice' >= 5
      BY <1>11, <2>1, <2>5
    <3>2. Doing \in {"ran", "sent"} => arready
      BY <1>6, <1>8, <2>1 DEF Transfers
    <3>3. Notice <= 6
      BY <1>8, <1>10, <3>2
    <3> QED BY <1>12, <3>1, <3>3
  <2> QED BY <1>9, <2>2, <2>3, <2>4, <2>5
<1>17. ASSUME Returning PROVE Notice' >= Notice - 1
  <2>1. /\ Doing \notin {"run", "raw", "hold"} /\ Doing' \in {"slot", "ask", "hold", "other"}
        /\ Transfers /\ ~awready' /\ ~arready'
    BY <1>3, <1>7, <1>15, <1>17 DEF Firsts, Opens
  <2>2. Doing \in {"ran", "sent"} => arready
    BY <1>6, <1>8, <2>1 DEF Transfers
  <2>3. Notice <= 5 \/ (Notice = 6 /\ arready)
    BY <1>8, <1>10, <2>2
  <2>4. Notice' >= 4 /\ (arready => Notice' = 5)
    BY <1>4, <1>11, <2>1
  <2> QED BY <1>12, <2>3, <2>4
<1> QED BY <1>2, <1>12, <1>13, <1>14, <1>16, <1>17

-----------------------------------------------------------------------------
(* The engine is free before the next request. *)

LEMMA DecisionStep ==
  ASSUME Types, NEW in, EngineClock(in)
  PROVE  /\ UntilDecision \in 0 .. 6 /\ UntilDecision' \in 0 .. 6
         /\ UntilDecision <= 1 => state \in {"LOW0", "STAT"}
         /\ in.reset => UntilDecision' = 1
         /\ ~in.reset /\ state /= "STAT" => UntilDecision' <= UntilDecision - 1
         /\ ~in.reset /\ state = "LOW0" => state' = "STAT"
<1>1. /\ state \in {"LOW0", "STAT", "SETUP", "HIGH"}
      /\ count \in 0 .. 4 /\ (state = "HIGH" => count <= 3)
  BY DEF Types, EngineTypes
<1>2. /\ state = "STAT" => UntilDecision = 0
      /\ state = "LOW0" => UntilDecision = 1
      /\ state = "HIGH" => UntilDecision = 5 - count
      /\ state = "SETUP" => UntilDecision = 6
  BY DEF UntilDecision
<1>3. /\ state' = "STAT" => UntilDecision' = 0
      /\ state' = "LOW0" => UntilDecision' = 1
      /\ state' = "HIGH" => UntilDecision' = 5 - count'
      /\ state' = "SETUP" => UntilDecision' = 6
  BY DEF UntilDecision
<1>4. \/ in.reset /\ state' = "LOW0"
      \/ ~in.reset /\ state = "LOW0" /\ state' = "STAT"
      \/ ~in.reset /\ state = "STAT" /\ state' \in {"STAT", "SETUP"}
      \/ ~in.reset /\ state = "SETUP" /\ state' = "LOW0"
      \/ ~in.reset /\ state = "SETUP" /\ state' = "HIGH" /\ count' = 0
      \/ ~in.reset /\ state = "HIGH" /\ state' = "HIGH" /\ count \in 0 .. 2 /\ count' = count + 1
      \/ ~in.reset /\ state = "HIGH" /\ count = 3 /\ state' = "LOW0"
  BY Moves
<1> QED BY <1>1, <1>2, <1>3, <1>4

(* What becomes of a request that waits, and of one that is new.            *)
LEMMA RequestsMove ==
  ASSUME Types, NEW in, EngineClock(in), in.raw_go = raw_p, in.ctrl_go = run_p, RawPhases
  PROVE  /\ ctrl_pending' => ~take_ctrl(in) /\ (ctrl_pending \/ run_p)
         /\ RawWaits' /\ ~raw_p => RawWaits /\ ~in.reset /\ ~take_raw(in)
<1>1. Requests(in)
  BY DEF EngineClock
<1>2. ctrl_pending' => ~take_ctrl(in) /\ (ctrl_pending \/ run_p)
  BY <1>1 DEF Requests
<1>3. ASSUME RawWaits', ~raw_p
      PROVE  RawWaits /\ ~in.reset /\ ~take_raw(in)
  <2>1. raw_pending /\ ~raw_ends(in) /\ ~Taken'
    BY <1>1, <1>3 DEF Requests, raw_accepted, RawWaits
  <2>2. ~in.reset
    BY <2>1 DEF raw_ends
  <2>3. ~Taken
    <3>1. CASE Taken /\ state = "SETUP"
      <4>1. Setup(in)
        BY <2>2, <3>1 DEF EngineClock, Hold, Low0, Stat, deciding, High
      <4>2. raw_q.write \/ raw_q.pop
        BY <2>1, <2>2, <3>1 DEF raw_ends, Taken
      <4>3. state' = "HIGH" /\ e_raw' = e_raw
        BY <4>1, <4>2 DEF Setup
      <4> QED BY <2>1, <3>1, <4>3 DEF Taken
    <3>2. CASE Taken /\ state = "HIGH"
      <4>1. High(in)
        BY <2>2, <3>2 DEF EngineClock, Hold, Low0, Stat, deciding, Setup
      <4>2. ~high_done
        BY <2>1, <2>2, <3>2 DEF raw_ends, last_high, Taken
      <4>3. state' = "HIGH" /\ e_raw' = e_raw
        BY <3>2, <4>1, <4>2 DEF High
      <4> QED BY <2>1, <3>2, <4>3 DEF Taken
    <3> QED BY <3>1, <3>2 DEF Taken
  <2>4. ~take_raw(in)
    <3>1. ASSUME take_raw(in) PROVE FALSE
      <4>1. Stat(in)
        BY <2>2, <3>1 DEF EngineClock, Hold, Low0, Setup, High, take_raw, deciding
      <4>2. state' = "SETUP" /\ e_raw'
        BY <3>1, <4>1 DEF Stat
      <4> QED BY <2>1, <4>2 DEF Taken
    <3> QED BY <3>1
  <2> QED BY <2>1, <2>2, <2>3, <2>4 DEF RawWaits
<1> QED BY <1>2, <1>3

LEMMA ServedStep ==
  ASSUME Bounds, RawPhases, Placed, Served, NEW bus \in DriverBus, Clock(bus), Drives(bus)
  PROVE  Served'
<1> DEFINE in == In(bus, host_rdata)
<1>1. Types /\ session \in Sessions /\ bus \in Bus
  BY OnBus DEF Bounds, Types, PeripheralTypes
<1>2. /\ EngineClock(in) /\ in.reset = core_reset(bus)
      /\ in.raw_go = raw_p /\ in.ctrl_go = run_p
  BY <1>1, PortTypes DEF Clock, AxiClock
<1>3. /\ in.reset => Doing = "release"
      /\ run_p => Doing = "ran"
      /\ raw_p => Doing = "sent"
  BY <1>2, Wires DEF core_reset, Placed
<1> HIDE DEF in
<1>4. /\ UntilDecision \in 0 .. 6 /\ UntilDecision' \in 0 .. 6
      /\ UntilDecision <= 1 => state \in {"LOW0", "STAT"}
      /\ in.reset => UntilDecision' = 1
      /\ ~in.reset /\ state /= "STAT" => UntilDecision' <= UntilDecision - 1
      /\ ~in.reset /\ state = "LOW0" => state' = "STAT"
  BY <1>1, <1>2, DecisionStep
<1>5. /\ ctrl_pending' => ~take_ctrl(in) /\ (ctrl_pending \/ run_p)
      /\ RawWaits' /\ ~raw_p => RawWaits /\ ~in.reset /\ ~take_raw(in)
  BY <1>1, <1>2, RequestsMove
<1>6. /\ Notice \in 1 .. 7 /\ Notice' \in 1 .. 7 /\ Notice' >= Notice - 1
      /\ run_p' \/ raw_p' => Notice = 1
      /\ run_p \/ raw_p => Notice = 7
  BY <1>1, NoticeStep
<1>7. /\ Waits => UntilDecision <= Notice
      /\ Waits /\ (run_p \/ raw_p) => state = "STAT"
      /\ ~ (ctrl_pending /\ RawWaits)
  BY DEF Served
<1>8. /\ take_ctrl(in) <=> ~in.reset /\ state = "STAT" /\ ctrl_pending
      /\ take_raw(in) <=> ~in.reset /\ state = "STAT" /\ ~ctrl_pending /\ raw_pending
      /\ RawWaits => raw_pending
  BY DEF take_ctrl, take_raw, deciding, RawWaits
(* Nothing new: what waits still has waited, and not at a decision.         *)
<1>9. Waits' /\ ~run_p /\ ~raw_p => Waits /\ (in.reset \/ state /= "STAT")
  BY <1>5, <1>7, <1>8 DEF Waits
<1>10. Waits' => UntilDecision' <= Notice'
  <2>1. CASE run_p \/ raw_p
    BY <1>4, <1>6, <2>1
  <2>2. CASE ~run_p /\ ~raw_p /\ in.reset
    BY <1>4, <1>6, <2>2
  <2>3. CASE ~run_p /\ ~raw_p /\ ~in.reset
    BY <1>4, <1>6, <1>7, <1>9, <2>3
  <2> QED BY <2>1, <2>2, <2>3
<1>11. ASSUME Waits', run_p' \/ raw_p'
       PROVE  state' = "STAT"
  <2>1. Notice = 1
    BY <1>6, <1>11
  <2>2. ~run_p /\ ~raw_p /\ Doing /= "release"
    <3>1. ~run_p /\ ~raw_p
      BY <1>6, <2>1
    <3>2. Doing = "release" => Notice = 5
      BY DEF Notice
    <3> QED BY <2>1, <3>1, <3>2
  <2>3. ~in.reset /\ Waits /\ state /= "STAT"
    BY <1>3, <1>9, <1>11, <2>2
  <2>4. state = "LOW0"
    BY <1>4, <1>7, <2>1, <2>3
  <2> QED BY <1>4, <2>3, <2>4
<1>12. ~ (ctrl_pending' /\ RawWaits')
  <2>1. ASSUME ctrl_pending', RawWaits' PROVE FALSE
    <3>1. CASE run_p
      <4>1. ~raw_p
        BY <1>3, <3>1
      <4>2. RawWaits /\ ~in.reset /\ ~take_raw(in)
        BY <1>5, <2>1, <4>1
      <4>3. state = "STAT" /\ ~ctrl_pending
        BY <1>7, <3>1, <4>2 DEF Waits
      <4> QED BY <1>8, <4>2, <4>3
    <3>2. CASE raw_p
      <4>1. ~run_p /\ ~in.reset
        BY <1>3, <3>2
      <4>2. ctrl_pending /\ ~take_ctrl(in)
        BY <1>5, <2>1, <4>1
      <4>3. state = "STAT"
        BY <1>7, <3>2, <4>2 DEF Waits
      <4> QED BY <1>8, <4>1, <4>2, <4>3
    <3>3. CASE ~run_p /\ ~raw_p
      BY <1>5, <1>7, <2>1, <3>3
    <3> QED BY <3>1, <3>2, <3>3
  <2> QED BY <2>1
<1> QED BY <1>10, <1>11, <1>12 DEF Served

-----------------------------------------------------------------------------
(* A request with the chip. *)

LEMMA AimedStep ==
  ASSUME Types, NEW in, EngineClock(in), Aimed
  PROVE  Aimed'
<1>1. CASE Hold(in)
  <2>1. state' = "LOW0"
    BY <1>1 DEF Hold
  <2> QED BY <2>1 DEF Aimed, OnTheWay
<1>2. CASE Low0(in)
  <2>1. state' = "STAT"
    BY <1>2 DEF Low0
  <2> QED BY <2>1 DEF Aimed, OnTheWay
<1>3. CASE Stat(in)
  <2>1. /\ e_tx' <=> take_tx(in)
        /\ e_read' <=> take_rx(in)
    BY <1>3 DEF Stat
  <2>2. /\ take_tx(in) => ~take_ctrl(in) /\ ~take_raw(in)
        /\ take_rx(in) => ~take_ctrl(in) /\ ~take_raw(in) /\ ~take_tx(in)
    BY DEF take_ctrl, take_raw, take_tx, take_rx
  <2>3. take_tx(in) => e_addr' = 0
    BY <1>3, <2>2 DEF Stat
  <2>4. take_rx(in) => e_addr' = 1
    BY <1>3, <2>2 DEF Stat
  <2>5. e_tx' \/ e_read' => e_addr' \in {0, 1}
    BY <2>1, <2>3, <2>4
  <2>6. \A a \in {0, 1} : a /= 3
    OBVIOUS
  <2> QED BY <2>5, <2>6 DEF Aimed
<1>4. CASE Setup(in)
  <2>1. state = "SETUP" /\ UNCHANGED <<e_addr, e_tx, e_read>>
    BY <1>4 DEF Setup
  <2> QED BY <2>1 DEF Aimed, OnTheWay
<1>5. CASE High(in)
  <2>1. state = "HIGH" /\ UNCHANGED <<e_addr, e_tx, e_read>>
    BY <1>5 DEF High
  <2>2. OnTheWay' => OnTheWay
    <3>1. count \in 0 .. 3 /\ (state' = "HIGH" => count' = count + 1) /\ state' /= "SETUP"
      BY <1>5, <2>1 DEF High, high_done, Types, EngineTypes
    <3> QED BY <2>1, <3>1 DEF OnTheWay
  <2> QED BY <2>1, <2>2 DEF Aimed
<1> QED BY <1>1, <1>2, <1>3, <1>4, <1>5 DEF EngineClock

LEMMA ActedIs ==
  ASSUME Types, Synchronized, NEW in, in.rdata \in Octet
  PROVE  /\ Acted(in) \in SUBSET Octet
         /\ e_raw /\ ~in.reset /\ state = "SETUP" /\ ~raw_q.write => Acted(in) = {in.rdata}
         /\ /\ state = "HIGH" /\ count = 2 /\ e_we
            /\ e_raw \/ e_addr = 3
            => Acted(in) = {e_wdata}
         /\ Acted(in) /= {} => \/ e_raw /\ ~in.reset /\ state = "SETUP" /\ ~raw_q.write
                               \/ state = "HIGH" /\ count = 2 /\ (e_raw \/ e_addr = 3)
<1> DEFINE plain == e_raw /\ ~in.reset /\ state = "SETUP" /\ ~raw_q.write
           acts == (H!we_rise /\ e_raw) \/ H!control_write
<1>1. acts <=> state = "HIGH" /\ count = 2 /\ e_we /\ (e_raw \/ e_addr = 3)
  BY Acts DEF H!control_write, H!CONTROL
<1>2. plain => ~acts
  BY <1>1
<1>3. Acted(in) = CASE plain -> {in.rdata} [] acts -> {e_wdata} [] OTHER -> {}
  BY DEF Acted
<1>4. e_wdata \in Octet
  BY DEF Types, EngineTypes
<1> HIDE DEF acts
<1>5. plain => Acted(in) = {in.rdata}
  BY <1>2, <1>3
<1>6. acts => Acted(in) = {e_wdata}
  BY <1>2, <1>3
<1>7. ~plain /\ ~acts => Acted(in) = {}
  BY <1>3
<1>8. Acted(in) \in SUBSET Octet
  BY <1>4, <1>5, <1>6, <1>7
<1> QED BY <1>1, <1>5, <1>6, <1>7, <1>8

(* What a clock does to the history of the call's own request.              *)
LEMMA OwnIs ==
  ASSUME Placed, NEW bus \in DriverBus, NEW in, Owns(bus, in)
  PROVE  /\ awready /\ Doing = "raw" => own' = [taken |-> ~raw_busy_any, by |-> {}]
         /\ awready /\ Doing = "run" => own' = [taken |-> TRUE, by |-> {}]
         /\ ~ (awready /\ Doing \in {"raw", "run"}) =>
              own' = IF own.taken /\ Acted(in) /= {} THEN [own EXCEPT !.by = Acted(in)] ELSE own
<1>1. /\ wr(bus) <=> awready
      /\ awready => bus.write = Access.write
  BY Wires
<1>2. awready => Access.kind = "store"
  BY DEF Placed, Storing
<1>3. awready => /\ Doing = "raw" <=> Access.write.reg = "RAW"
                 /\ Doing = "run" <=> Access.write.reg = "COMMAND" /\ Access.write.run
  <2> DEFINE a == Access
  <2>1. a.kind = "store" =>
                 /\ Kind(a) = "raw" <=> a.write.reg = "RAW"
                 /\ Kind(a) = "run" <=> a.write.reg = "COMMAND" /\ a.write.run
    <3> HIDE DEF a
    <3> QED BY DEF Kind
  <2> QED BY <1>2, <2>1 DEF Doing
<1>4. /\ writes(bus, "RAW") <=> awready /\ Doing = "raw"
      /\ writes(bus, "COMMAND") /\ bus.write.run <=> awready /\ Doing = "run"
  BY <1>1, <1>3 DEF writes
<1>5. own' = IF writes(bus, "RAW") THEN [taken |-> ~raw_busy_any, by |-> {}]
             ELSE IF writes(bus, "COMMAND") /\ bus.write.run THEN [taken |-> TRUE, by |-> {}]
             ELSE IF own.taken /\ Acted(in) /= {} THEN [own EXCEPT !.by = Acted(in)]
             ELSE own
  BY DEF Owns
<1> QED BY <1>4, <1>5

(* What every step of a request rests on.                                   *)
Sound == Bounds /\ RunPhases /\ RawPhases /\ Placed /\ Served /\ Aimed

LEMMA StepFacts ==
  ASSUME Sound, NEW bus \in DriverBus, DriverClock(bus)
  PROVE  LET in == In(bus, host_rdata)
         IN  /\ Types /\ Synchronized /\ session \in Sessions /\ bus \in Bus /\ session' = session
             /\ EngineClock(in) /\ WriteSide(bus) /\ Drives(bus) /\ Owns(bus, in)
             /\ Waiting \/ GoingOn \/ Returning
             /\ in.rdata \in Octet /\ in.ctrl_value = slot /\ in.raw = raw_req
             /\ in.raw_go = raw_p /\ in.ctrl_go = run_p
             /\ in.reset <=> ctrl.reset
             /\ in.reset => Doing = "release"
             /\ in.reset = core_reset(bus)
<1>1. Types /\ Synchronized /\ session \in Sessions /\ Placed
  BY DEF Sound, Bounds, Types, PeripheralTypes
<1>2. bus \in Bus
  BY <1>1, OnBus
<1>3. session' = session /\ WriteSide(bus) /\ Drives(bus)
      /\ Owns(bus, In(bus, host_rdata)) /\ EngineClock(In(bus, host_rdata))
  BY DEF DriverClock, Clock, AxiClock
<1>4. Waiting \/ GoingOn \/ Returning
  BY <1>1, <1>3, ArmMoves
<1>5. LET in == In(bus, host_rdata)
      IN  /\ in.rdata \in Octet /\ in.ctrl_value = slot /\ in.raw = raw_req
          /\ in.raw_go = raw_p /\ in.ctrl_go = run_p
          /\ in.reset = core_reset(bus)
  BY <1>1, <1>2, PortTypes
<1>6. core_reset(bus) <=> ctrl.reset
  BY <1>1, Wires DEF core_reset
<1>7. ctrl.reset => Doing = "release"
  BY <1>1 DEF Placed
<1> QED BY <1>1, <1>2, <1>3, <1>4, <1>5, <1>6, <1>7

LEMMA QuietStep ==
  ASSUME Sound, NEW bus \in DriverBus, DriverClock(bus), Quiet,
         ~ (awready /\ Doing \in {"raw", "run"})
  PROVE  /\ Quiet' /\ own' = own /\ UNCHANGED <<raw_q, raw_rdata>>
         /\ run = "read" /\ ~ctrl.reset => run' = "read"
<1> DEFINE in == In(bus, host_rdata)
<1>1. /\ Types /\ Synchronized /\ EngineClock(in) /\ WriteSide(bus) /\ Owns(bus, in)
      /\ in.rdata \in Octet /\ in.raw_go = raw_p /\ in.ctrl_go = run_p
      /\ in.reset <=> ctrl.reset
      /\ Placed /\ RawPhases /\ Aimed
      /\ in.reset = core_reset(bus)
  BY StepFacts DEF Sound
<1>2. run' = IF core_reset(bus) THEN "none"
             ELSE IF take_ctrl(in) THEN "taken"
             ELSE IF run_p THEN "asked"
             ELSE IF run = "taken" /\ H!control_write THEN "acted"
             ELSE IF run = "acted" /\ deciding(in) THEN "read"
             ELSE run
  BY DEF DriverClock, Clock, RunHistory
<1> HIDE DEF in
<1>3. /\ ~run_p /\ ~ctrl_pending /\ ~raw_p
      /\ raw_pending => state = "HIGH" /\ count = 3 /\ e_raw
      /\ OnTheWay => (e_tx \/ e_read) /\ ~e_raw /\ e_addr /= 3
  BY <1>1 DEF Quiet, RawHigh, Aimed, Types, Phases
<1>4. ~take_ctrl(in) /\ ~take_raw(in)
  BY <1>3 DEF take_ctrl, take_raw, deciding
<1>5. ~run_p' /\ ~raw_p'
  BY <1>1, Pulses
<1>6. ~ctrl_pending'
  BY <1>1, <1>3, RequestsMove
<1>7. ~raw_pending' /\ raw_q' = raw_q
  <2>1. /\ raw_pending' => ~raw_ends(in) /\ raw_pending
        /\ raw_q' = raw_q
    BY <1>1, <1>3 DEF EngineClock, Requests, raw_accepted
  <2>2. raw_pending => raw_ends(in)
    BY <1>3 DEF raw_ends, last_high, high_done
  <2> QED BY <2>1, <2>2
<1>8. (OnTheWay' => e_tx' \/ e_read') /\ raw_rdata' = raw_rdata
  <2>1. CASE Hold(in)
    BY <2>1 DEF Hold, OnTheWay
  <2>2. CASE Low0(in)
    BY <2>2 DEF Low0, OnTheWay
  <2>3. CASE Stat(in)
    <3>1. /\ e_tx' <=> take_tx(in)
          /\ e_read' <=> take_rx(in)
          /\ state' = IF take_tx(in) \/ take_rx(in) THEN "SETUP" ELSE "STAT"
          /\ raw_rdata' = raw_rdata
      BY <1>4, <2>3 DEF Stat
    <3> QED BY <3>1 DEF OnTheWay
  <2>4. CASE Setup(in)
    <3>1. OnTheWay
      BY <2>4 DEF Setup, OnTheWay
    <3> QED BY <1>3, <2>4, <3>1 DEF Setup
  <2>5. CASE High(in)
    <3>1. state = "HIGH" /\ UNCHANGED <<e_tx, e_read, raw_rdata>>
      BY <2>5 DEF High
    <3>2. OnTheWay' => OnTheWay
      <4>1. count \in 0 .. 3 /\ (state' = "HIGH" => count' = count + 1) /\ state' /= "SETUP"
        BY <1>1, <2>5, <3>1 DEF High, high_done, Types, EngineTypes
      <4> QED BY <3>1, <4>1 DEF OnTheWay
    <3> QED BY <1>3, <3>1, <3>2
  <2> QED BY <1>1, <2>1, <2>2, <2>3, <2>4, <2>5 DEF EngineClock
<1>9. Acted(in) = {}
  <2>1. Acted(in) /= {} => OnTheWay /\ (e_raw \/ e_addr = 3)
    BY <1>1, ActedIs DEF OnTheWay
  <2> QED BY <1>3, <2>1
<1>10. own' = own
  BY <1>1, <1>9, OwnIs
<1>11. run = "read" /\ ~ctrl.reset => run' = "read"
  BY <1>1, <1>2, <1>3, <1>4
<1> QED BY <1>5, <1>6, <1>7, <1>8, <1>10, <1>11 DEF Quiet

(* RUN: asked and waiting with its slot, then on the bus, then acted on.    *)
LEMMA OwnRunStep ==
  ASSUME Sound, NEW bus \in DriverBus, DriverClock(bus), Doing = "ran",
         own \in [taken : BOOLEAN, by : SUBSET Octet], own.taken,
         NEW v, OwnRun(v), run_p \/ run /= "none"
  PROVE  own'.taken /\ OwnRun(v)' /\ (run_p' \/ run' /= "none")
<1> DEFINE in == In(bus, host_rdata)
<1>1. /\ Types /\ Synchronized /\ EngineClock(in) /\ WriteSide(bus) /\ Owns(bus, in)
      /\ in.rdata \in Octet /\ in.raw_go = raw_p /\ in.ctrl_go = run_p /\ in.ctrl_value = slot
      /\ in.reset <=> ctrl.reset
      /\ in.reset => Doing = "release"
      /\ Placed /\ RawPhases /\ RunPhases /\ Served
      /\ in.reset = core_reset(bus)
  BY StepFacts DEF Sound
<1>2. ~awready /\ ~in.reset /\ ~raw_p /\ ~ctrl.reset
  BY <1>1, KindIs DEF Placed
<1>3. ~run_p' /\ ~raw_p' /\ slot' = slot
  BY <1>1, <1>2, Pulses
<1>4. run' = IF take_ctrl(in) THEN "taken"
             ELSE IF run_p THEN "asked"
             ELSE IF run = "taken" /\ H!control_write THEN "acted"
             ELSE IF run = "acted" /\ deciding(in) THEN "read"
             ELSE run
  BY <1>1, <1>2 DEF DriverClock, Clock, RunHistory
<1>5. own' = IF own.taken /\ Acted(in) /= {} THEN [own EXCEPT !.by = Acted(in)] ELSE own
  BY <1>1, <1>2, OwnIs
<1> HIDE DEF in
<1>6. own'.taken
  BY <1>5
<1>7. run' /= "none"
  BY <1>4
<1>8. OwnRun(v)'
  <2>1. CASE Quiet /\ own.by = {v}
    <3>1. Quiet' /\ own' = own
      BY <1>2, <2>1, QuietStep
    <3> QED BY <2>1, <3>1 DEF OwnRun
  <2>2. CASE slot = v /\ (run_p \/ ctrl_pending) /\ ~take_ctrl(in)
    <3>1. ctrl_pending' <=> ~take_ctrl(in) /\ (ctrl_pending \/ (run_p /\ ~ctrl_go_d))
      BY <1>1 DEF EngineClock, Requests
    <3>2. run_p => ~ctrl_go_d
      BY <1>1 DEF RunPhases
    <3> QED BY <1>3, <2>2, <3>1, <3>2 DEF OwnRun
  <2>3. CASE slot = v /\ take_ctrl(in)
    <3>1. state = "STAT" /\ ctrl_pending
      BY <2>3 DEF take_ctrl, deciding
    <3>2. ~raw_pending
      BY <1>1, <3>1 DEF Served, RawWaits, Taken
    <3>3. Stat(in)
      BY <1>1, <1>2, <3>1 DEF EngineClock, Hold, Low0, Setup, High
    <3>4. ~take_raw(in) /\ ~take_tx(in) /\ ~take_rx(in)
      BY <3>1 DEF take_raw, take_tx, take_rx
    <3>5. state' = "SETUP" /\ e_wdata' = v /\ ~e_raw' /\ ~e_tx' /\ ~e_read'
      BY <1>1, <2>3, <3>3, <3>4 DEF Stat
    <3>6. ~ctrl_pending' /\ ~raw_pending'
      BY <1>1, <1>2, <2>3, <3>2 DEF EngineClock, Requests, raw_accepted
    <3>7. run' = "taken"
      BY <1>4, <2>3
    <3> QED BY <1>3, <3>5, <3>6, <3>7 DEF OwnRun, RunOnTheWay, OnTheWay
  <2>4. CASE RunOnTheWay(v)
    <3>1. /\ ~run_p /\ ~ctrl_pending /\ ~raw_p /\ ~raw_pending
          /\ run = "taken" /\ OnTheWay /\ ~e_tx /\ ~e_read /\ ~e_raw
          /\ e_wdata = v
      BY <2>4 DEF RunOnTheWay
    <3>2. /\ e_addr = 3
          /\ state = "SETUP" \/ (state = "HIGH" /\ count \in 0 .. 2 /\ e_we)
      BY <1>1, <3>1 DEF RunPhases
    <3>3. ~ctrl_pending' /\ ~raw_pending' /\ ~take_ctrl(in)
      BY <1>1, <3>1 DEF EngineClock, Requests, raw_accepted, take_ctrl
    <3>4. CASE state = "SETUP"
      <4>1. Setup(in)
        BY <1>1, <1>2, <3>4 DEF EngineClock, Hold, Low0, Stat, deciding, High
      <4>2. /\ state' = "HIGH" /\ count' = 0
            /\ UNCHANGED <<e_tx, e_read, e_raw, e_wdata>>
        BY <3>1, <4>1 DEF Setup
      <4>3. run' = "taken"
        <5>1. ~H!control_write
          BY <1>1, <3>4, Acts DEF H!control_write
        <5> QED BY <1>4, <3>1, <3>3, <5>1
      <4>4. OnTheWay'
        BY <4>2 DEF OnTheWay
      <4> QED BY <1>3, <3>1, <3>3, <4>2, <4>3, <4>4 DEF OwnRun, RunOnTheWay
    <3>5. CASE state = "HIGH" /\ count \in 0 .. 1
      <4>1. High(in)
        BY <1>1, <1>2, <3>5 DEF EngineClock, Hold, Low0, Stat, deciding, Setup
      <4>2. count' = count + 1 /\ count /= 3
        BY <3>5, <4>1 DEF High
      <4>3. state' = "HIGH" /\ UNCHANGED <<e_tx, e_read, e_raw, e_wdata>>
        BY <3>5, <4>1, <4>2 DEF High, high_done
      <4>4. run' = "taken"
        <5>1. ~H!control_write
          BY <1>1, <3>5, Acts DEF H!control_write
        <5> QED BY <1>4, <3>1, <3>3, <5>1
      <4>5. OnTheWay'
        BY <3>5, <4>2, <4>3 DEF OnTheWay
      <4> QED BY <1>3, <3>1, <3>3, <4>3, <4>4, <4>5 DEF OwnRun, RunOnTheWay
    <3>6. CASE state = "HIGH" /\ count = 2 /\ e_we
      <4>1. High(in)
        BY <1>1, <1>2, <3>6 DEF EngineClock, Hold, Low0, Stat, deciding, Setup
      <4>2. count' = 3 /\ state' = "HIGH"
        BY <3>6, <4>1 DEF High, high_done
      <4>3. Acted(in) = {v}
        BY <1>1, <3>1, <3>2, <3>6, ActedIs
      <4>4. own'.by = {v}
        <5>1. {v} /= {}
          OBVIOUS
        <5> QED BY <1>5, <4>3, <5>1
      <4>5. ~OnTheWay'
        BY <4>2 DEF OnTheWay
      <4> QED BY <1>3, <3>3, <4>4, <4>5 DEF OwnRun, Quiet
    <3> QED BY <3>2, <3>4, <3>5, <3>6
  <2> QED BY <2>1, <2>2, <2>3, <2>4 DEF OwnRun, take_ctrl
<1> QED BY <1>6, <1>7, <1>8

(* RAW: asked, waiting, on the bus, and then done with its result.          *)
LEMMA OwnRawStep ==
  ASSUME Sound, NEW bus \in DriverBus, DriverClock(bus), Doing = "sent",
         own \in [taken : BOOLEAN, by : SUBSET Octet], own.taken,
         NEW q, ~q.pop, OwnRaw(q)
  PROVE  own'.taken /\ OwnRaw(q)'
<1> DEFINE in == In(bus, host_rdata)
<1>1. /\ Types /\ Synchronized /\ EngineClock(in) /\ WriteSide(bus) /\ Owns(bus, in)
      /\ in.rdata \in Octet /\ in.raw_go = raw_p /\ in.ctrl_go = run_p /\ in.raw = raw_req
      /\ in.reset <=> ctrl.reset
      /\ in.reset => Doing = "release"
      /\ Placed /\ RawPhases /\ Served
  BY StepFacts DEF Sound
<1>2. ~awready /\ ~in.reset /\ ~run_p /\ ~ctrl.reset
  BY <1>1, KindIs DEF Placed
<1>3. ~run_p' /\ ~raw_p'
  BY <1>1, <1>2, Pulses
<1>4. own' = IF own.taken /\ Acted(in) /= {} THEN [own EXCEPT !.by = Acted(in)] ELSE own
  BY <1>1, <1>2, OwnIs
<1> HIDE DEF in
<1>5. own'.taken
  BY <1>4
<1>6. raw_q \in RawRequest
  BY <1>1 DEF Types, EngineTypes
<1>7. OwnRaw(q)'
  <2>1. CASE RawQuiet(q)
    <3>1. Quiet' /\ own' = own /\ UNCHANGED <<raw_q, raw_rdata>>
      BY <1>2, <2>1, QuietStep DEF RawQuiet
    <3> QED BY <2>1, <3>1 DEF OwnRaw, RawQuiet, Result
  <2>2. CASE raw_p /\ raw_req = q
    <3>1. ~raw_pending /\ ~raw_go_d /\ ~Taken
      BY <1>1, <2>2 DEF RawPhases, Taken
    <3>2. ~raw_ends(in)
      BY <1>2, <3>1 DEF raw_ends, last_high, Taken
    <3>3. raw_pending' /\ raw_q' = q
      BY <1>1, <2>2, <3>1, <3>2 DEF EngineClock, Requests, raw_accepted
    <3>4. ~Taken'
      <4>1. CASE Low0(in)
        BY <4>1 DEF Low0, Taken
      <4>2. CASE Stat(in)
        <5>1. ~take_raw(in)
          BY <3>1 DEF take_raw
        <5> QED BY <4>2, <5>1 DEF Stat, Taken
      <4>3. CASE Setup(in)
        BY <3>1, <4>3 DEF Setup, Taken
      <4>4. CASE High(in)
        BY <3>1, <4>4 DEF High, Taken
      <4> QED BY <1>1, <1>2, <4>1, <4>2, <4>3, <4>4 DEF EngineClock, Hold
    <3> QED BY <3>3, <3>4 DEF OwnRaw, RawWaits
  <2>3. CASE RawWaits /\ raw_q = q
    <3>1. raw_pending /\ ~Taken /\ ~ctrl_pending /\ ~raw_p
      BY <1>1, <2>3 DEF RawWaits, Served, RawPhases
    <3>2. ~raw_ends(in)
      BY <1>2, <3>1 DEF raw_ends, last_high, Taken
    <3>3. raw_pending' /\ raw_q' = q /\ ~ctrl_pending'
      BY <1>1, <1>2, <2>3, <3>1, <3>2 DEF EngineClock, Requests, raw_accepted
    <3>4. CASE state = "STAT"
      <4>1. Stat(in)
        BY <1>1, <1>2, <3>4 DEF EngineClock, Hold, Low0, Setup, High
      <4>2. take_raw(in) /\ ~take_ctrl(in) /\ ~take_tx(in) /\ ~take_rx(in)
        BY <1>2, <3>1, <3>4 DEF take_raw, take_ctrl, take_tx, take_rx, deciding
      <4>3. e_wdata' = raw_q.wdata
        BY <4>1, <4>2 DEF Stat
      <4>4. state' = "SETUP" /\ e_raw'
        BY <4>1, <4>2 DEF Stat
      <4> QED BY <1>3, <2>3, <3>3, <4>3, <4>4 DEF OwnRaw, RawOnTheWay, OnTheWay
    <3>5. CASE state /= "STAT"
      <4>1. ~Taken'
        <5>1. CASE Low0(in)
          BY <5>1 DEF Low0, Taken
        <5>2. CASE Setup(in)
          BY <3>1, <5>2 DEF Setup, Taken
        <5>3. CASE High(in)
          BY <3>1, <5>3 DEF High, Taken
        <5> QED BY <1>1, <1>2, <3>5, <5>1, <5>2, <5>3 DEF EngineClock, Hold, Stat, deciding
      <4> QED BY <3>3, <4>1 DEF OwnRaw, RawWaits
    <3> QED BY <3>4, <3>5
  <2>4. CASE RawOnTheWay(q)
    <3>1. /\ ~run_p /\ ~ctrl_pending /\ ~raw_p /\ raw_pending
          /\ e_raw /\ OnTheWay /\ (state = "HIGH" => e_we)
          /\ raw_q = q /\ e_wdata = q.wdata
      BY <2>4 DEF RawOnTheWay
    <3>2. raw_q' = q /\ ~ctrl_pending' /\ ~take_raw(in) /\ ~take_ctrl(in)
      BY <1>1, <3>1 DEF EngineClock, Requests, raw_accepted, take_raw, take_ctrl, deciding, OnTheWay
    <3>3. q.write \in BOOLEAN /\ q.wdata \in Octet
      BY <1>6, <3>1 DEF RawRequest
    <3>4. CASE state = "SETUP" /\ ~q.write
      <4>1. Setup(in)
        BY <1>1, <1>2, <3>4 DEF EngineClock, Hold, Low0, Stat, deciding, High
      <4>2. state' = "LOW0" /\ raw_rdata' = in.rdata
        BY <3>1, <3>4, <4>1 DEF Setup
      <4>3. raw_ends(in)
        BY <1>2, <3>1, <3>4 DEF raw_ends
      <4>4. ~raw_pending'
        BY <1>1, <4>3 DEF EngineClock, Requests
      <4>5. Acted(in) = {in.rdata}
        BY <1>1, <1>2, <3>1, <3>4, ActedIs
      <4>6. own'.by = {in.rdata}
        <5>1. {in.rdata} /= {}
          OBVIOUS
        <5> QED BY <1>4, <4>5, <5>1
      <4>7. Result' = in.rdata
        BY <3>2, <3>4, <4>2 DEF Result
      <4>8. ~OnTheWay'
        BY <4>2 DEF OnTheWay
      <4> QED BY <1>3, <3>2, <4>4, <4>6, <4>7, <4>8 DEF OwnRaw, RawQuiet, Quiet
    <3>5. CASE state = "SETUP" /\ q.write
      <4>1. Setup(in)
        BY <1>1, <1>2, <3>5 DEF EngineClock, Hold, Low0, Stat, deciding, High
      <4>2. ~e_read
        BY <1>1, <3>1 DEF Types, Phases
      <4>3. /\ state' = "HIGH" /\ count' = 0 /\ e_we'
            /\ UNCHANGED <<e_raw, e_wdata>>
        BY <3>1, <3>5, <4>1, <4>2 DEF Setup
      <4>4. raw_pending'
        <5>1. ~raw_ends(in)
          BY <1>2, <3>1, <3>5 DEF raw_ends, last_high
        <5> QED BY <1>1, <3>1, <5>1 DEF EngineClock, Requests
      <4>5. OnTheWay'
        BY <4>3 DEF OnTheWay
      <4> QED BY <1>3, <3>1, <3>2, <4>3, <4>4, <4>5 DEF OwnRaw, RawOnTheWay
    <3>6. CASE state = "HIGH" /\ count \in 0 .. 1
      <4>1. High(in)
        BY <1>1, <1>2, <3>6 DEF EngineClock, Hold, Low0, Stat, deciding, Setup
      <4>2. count' = count + 1 /\ count /= 3
        BY <3>6, <4>1 DEF High
      <4>3. state' = "HIGH" /\ UNCHANGED <<e_raw, e_wdata, e_we>>
        BY <3>6, <4>1, <4>2 DEF High, high_done
      <4>4. raw_pending'
        <5>1. ~raw_ends(in)
          BY <1>2, <3>6, <4>2 DEF raw_ends, last_high, high_done
        <5> QED BY <1>1, <3>1, <5>1 DEF EngineClock, Requests
      <4>5. OnTheWay'
        BY <3>6, <4>2, <4>3 DEF OnTheWay
      <4> QED BY <1>3, <3>1, <3>2, <3>6, <4>3, <4>4, <4>5 DEF OwnRaw, RawOnTheWay
    <3>7. CASE state = "HIGH" /\ count = 2
      <4>1. High(in)
        BY <1>1, <1>2, <3>7 DEF EngineClock, Hold, Low0, Stat, deciding, Setup
      <4>2. count' = 3 /\ state' = "HIGH" /\ e_raw' = e_raw
        BY <3>7, <4>1 DEF High, high_done
      <4>3. Acted(in) = {e_wdata}
        BY <1>1, <3>1, <3>7, ActedIs
      <4>4. own'.by = {q.wdata}
        <5>1. {e_wdata} /= {}
          OBVIOUS
        <5> QED BY <1>4, <3>1, <4>3, <5>1
      <4>5. q.write
        BY <1>1, <3>1, <3>7 DEF RawPhases
      <4>6. Result' = q.wdata
        BY <3>2, <4>5 DEF Result
      <4>7. ~OnTheWay' /\ RawHigh(3)'
        BY <3>1, <4>2 DEF OnTheWay, RawHigh
      <4> QED BY <1>3, <3>2, <4>4, <4>6, <4>7 DEF OwnRaw, RawQuiet, Quiet
    <3>8. state = "SETUP" \/ (state = "HIGH" /\ count \in 0 .. 2)
      BY <1>1, <3>1 DEF OnTheWay, Types, EngineTypes
    <3>9. state = "HIGH" => count \in 0 .. 1 \/ count = 2
      BY <3>8
    <3> QED BY <3>3, <3>4, <3>5, <3>6, <3>7, <3>8, <3>9
  <2> QED BY <2>1, <2>2, <2>3, <2>4 DEF OwnRaw
<1> QED BY <1>5, <1>7

-----------------------------------------------------------------------------
(* The calls with a request of their own. *)

LEMMA RunCall ==
  ASSUME NEW call, call.fn = "sc_run_slot"
  PROVE  /\ Len(Accesses(call)) = 3
         /\ Accesses(call)[1] = Store(Slot(call.control)) /\ Kind(Accesses(call)[1]) = "slot"
         /\ Accesses(call)[2] = Store(Run) /\ Kind(Accesses(call)[2]) = "run"
         /\ Accesses(call)[3] = Poll("STATUS", "RUN not busy", 0) /\ Kind(Accesses(call)[3]) = "ran"
<1> DEFINE a == Store(Slot(call.control))
           b == Store(Run)
           c == Poll("STATUS", "RUN not busy", 0)
<1>1. Accesses(call) = <<a, b, c>>
  BY DEF Accesses, sc_run_slot
<1>2. Kind(a) = "slot" /\ Kind(b) = "run" /\ Kind(c) = "ran"
  BY KindOfSlot, KindOfRun, KindOfPoll
<1> HIDE DEF a, b, c
<1>3. /\ Len(Accesses(call)) = 3
      /\ Accesses(call)[1] = a /\ Accesses(call)[2] = b /\ Accesses(call)[3] = c
  BY <1>1
<1> QED BY <1>2, <1>3 DEF a, b, c

LEMMA RawCall ==
  ASSUME NEW call, call.fn \in RawFns
  PROVE  \E q : /\ Len(Accesses(call)) = 4
                /\ Accesses(call)[1] = Poll("STATUS", "raw not busy", 0)
                /\ Accesses(call)[2] = Store(q) /\ q.reg = "RAW" /\ Kind(Store(q)) = "raw"
                /\ Accesses(call)[3] = Poll("RAW", "raw done", 0)
                /\ Accesses(call)[4] = Answer(0 .. 255)
                /\ ~q.raw.pop
                /\ q.raw.write <=> call.fn = "sc_raw_write"
                /\ call.fn = "sc_raw_write" => q.raw.wdata = call.value
<1> DEFINE q == IF call.fn = "sc_raw_write" THEN Raw(TRUE, call.addr, call.value, FALSE)
                                            ELSE Raw(FALSE, call.addr, 0, FALSE)
<1>1. Accesses(call) = raw_access(q, 0 .. 255)
  <2>1. CASE call.fn = "sc_raw_write"
    BY <2>1 DEF Accesses, sc_raw_write
  <2>2. CASE call.fn = "sc_raw_read"
    BY <2>2 DEF Accesses, sc_raw_read
  <2> QED BY <2>1, <2>2 DEF RawFns
<1>2. Kind(Store(q)) = "raw"
  BY KindOfRaw
<1>3. /\ q.reg = "RAW" /\ ~q.raw.pop
      /\ q.raw.write <=> call.fn = "sc_raw_write"
      /\ call.fn = "sc_raw_write" => q.raw.wdata = call.value
  BY DEF Raw
<1> HIDE DEF q
<1>4. /\ Len(raw_access(q, 0 .. 255)) = 4
      /\ raw_access(q, 0 .. 255)[1] = Poll("STATUS", "raw not busy", 0)
      /\ raw_access(q, 0 .. 255)[2] = Store(q)
      /\ raw_access(q, 0 .. 255)[3] = Poll("RAW", "raw done", 0)
      /\ raw_access(q, 0 .. 255)[4] = Answer(0 .. 255)
  BY DEF raw_access
<1>5. /\ Len(Accesses(call)) = 4
      /\ Accesses(call)[1] = Poll("STATUS", "raw not busy", 0)
      /\ Accesses(call)[2] = Store(q)
      /\ Accesses(call)[3] = Poll("RAW", "raw done", 0)
      /\ Accesses(call)[4] = Answer(0 .. 255)
  BY <1>1, <1>4
<1> WITNESS q
<1> QED BY <1>2, <1>3, <1>5

LEMMA InRun ==
  ASSUME Placed, Call.fn = "sc_run_slot"
  PROVE  /\ Len(Accesses(Call)) = 3 /\ at.access \in {1, 2, 3} /\ Access.kind /= "take"
         /\ at.access = 1 => Doing = "slot" /\ Access.write.slot = Call.control
         /\ at.access = 2 => Doing = "run"
         /\ at.access = 3 => Doing = "ran" /\ (Met(Access) => ~run_busy)
<1>1. PICK call : call = Call
  OBVIOUS
<1>2. /\ Len(Accesses(call)) = 3
      /\ Accesses(call)[1] = Store(Slot(call.control)) /\ Kind(Accesses(call)[1]) = "slot"
      /\ Accesses(call)[2] = Store(Run) /\ Kind(Accesses(call)[2]) = "run"
      /\ Accesses(call)[3] = Poll("STATUS", "RUN not busy", 0) /\ Kind(Accesses(call)[3]) = "ran"
  BY <1>1, RunCall
<1>3. at.access \in 1 .. Len(Accesses(Call))
  BY DEF Placed
<1>4. at.access \in {1, 2, 3}
  <2>1. at.access \in 1 .. 3
    BY <1>1, <1>2, <1>3
  <2> QED BY <2>1
<1>5. Access = Accesses(call)[at.access]
  BY <1>1 DEF Access
<1>6. /\ Store(Slot(call.control)).kind = "store" /\ Store(Run).kind = "store"
      /\ Poll("STATUS", "RUN not busy", 0).kind = "poll"
      /\ Poll("STATUS", "RUN not busy", 0).until = "RUN not busy"
      /\ Store(Slot(call.control)).write.slot = call.control
  BY DEF Store, Poll, Slot
<1>7. Access.kind /= "take"
  BY <1>2, <1>4, <1>5, <1>6
<1>8. at.access = 1 => Doing = "slot" /\ Access.write.slot = Call.control
  BY <1>1, <1>2, <1>5, <1>6 DEF Doing
<1>9. at.access = 2 => Doing = "run"
  BY <1>2, <1>5 DEF Doing
<1>10. at.access = 3 => Doing = "ran" /\ Access.until = "RUN not busy"
  BY <1>2, <1>5, <1>6 DEF Doing
<1>11. Access.until = "RUN not busy" => (Met(Access) => ~run_busy)
  BY DEF Met
<1> QED BY <1>1, <1>2, <1>4, <1>7, <1>8, <1>9, <1>10, <1>11

LEMMA InRaw ==
  ASSUME Placed, Call.fn \in RawFns
  PROVE  /\ Len(Accesses(Call)) = 4 /\ at.access \in {1, 2, 3, 4} /\ Access.kind /= "take"
         /\ at.access = 2 => Doing = "raw" /\ Access.write.raw = Asked
         /\ at.access = 3 => Doing = "sent" /\ Access.kind = "poll" /\ (Met(Access) => raw_done_q)
         /\ at.access = 4 => Access.kind = "answer"
         /\ ~Asked.pop
         /\ Call.fn = "sc_raw_read" => ~Asked.write
         /\ Call.fn = "sc_raw_write" => Asked.write /\ Asked.wdata = Call.value
<1>1. PICK call : call = Call
  OBVIOUS
<1>2. PICK q : /\ Len(Accesses(call)) = 4
               /\ Accesses(call)[1] = Poll("STATUS", "raw not busy", 0)
               /\ Accesses(call)[2] = Store(q) /\ q.reg = "RAW" /\ Kind(Store(q)) = "raw"
               /\ Accesses(call)[3] = Poll("RAW", "raw done", 0)
               /\ Accesses(call)[4] = Answer(0 .. 255)
               /\ ~q.raw.pop
               /\ q.raw.write <=> call.fn = "sc_raw_write"
               /\ call.fn = "sc_raw_write" => q.raw.wdata = call.value
  BY <1>1, RawCall
<1>3. at.access \in 1 .. Len(Accesses(Call))
  BY DEF Placed
<1>4. at.access \in {1, 2, 3, 4}
  <2>1. at.access \in 1 .. 4
    BY <1>1, <1>2, <1>3
  <2> QED BY <2>1
<1>5. Access = Accesses(call)[at.access]
  BY <1>1 DEF Access
<1>6. /\ Poll("STATUS", "raw not busy", 0).kind = "poll" /\ Poll("RAW", "raw done", 0).kind = "poll"
      /\ Store(q).kind = "store" /\ Store(q).write = q /\ Answer(0 .. 255).kind = "answer"
      /\ Poll("RAW", "raw done", 0).until = "raw done"
      /\ Kind(Poll("RAW", "raw done", 0)) = "sent"
  BY KindOfPoll DEF Store, Poll, Answer
<1>7. Access.kind /= "take"
  <2>1. at.access = 1 => Access = Poll("STATUS", "raw not busy", 0)
    BY <1>2, <1>5
  <2>2. at.access = 2 => Access = Store(q)
    BY <1>2, <1>5
  <2>3. at.access = 3 => Access = Poll("RAW", "raw done", 0)
    BY <1>2, <1>5
  <2>4. at.access = 4 => Access = Answer(0 .. 255)
    BY <1>2, <1>5
  <2>5. Access.kind \in {"poll", "store", "answer"}
    BY <1>4, <1>6, <2>1, <2>2, <2>3, <2>4
  <2> QED BY <2>5
<1>8. Asked = q.raw
  BY <1>1, <1>2, <1>6 DEF Asked
<1>9. at.access = 2 => Doing = "raw" /\ Access.write.raw = Asked
  BY <1>2, <1>5, <1>6, <1>8 DEF Doing
<1>10. at.access = 3 => Doing = "sent" /\ Access.kind = "poll" /\ Access.until = "raw done"
  BY <1>2, <1>5, <1>6 DEF Doing
<1>11. Access.until = "raw done" => (Met(Access) => raw_done_q)
  BY DEF Met
<1>12. at.access = 4 => Access.kind = "answer"
  BY <1>2, <1>5, <1>6
<1>13. /\ Call.fn = "sc_raw_read" => ~Asked.write
       /\ Call.fn = "sc_raw_write" => Asked.write /\ Asked.wdata = Call.value
  BY <1>1, <1>2, <1>8
<1> QED BY <1>1, <1>2, <1>4, <1>7, <1>8, <1>9, <1>10, <1>11, <1>12, <1>13

LEMMA TurnStep ==
  ASSUME Sound, Turn, NEW bus \in DriverBus, DriverClock(bus)
  PROVE  Turn'
<1> DEFINE in == In(bus, host_rdata)
<1>1. /\ Types /\ Synchronized /\ session \in Sessions /\ session' = session
      /\ EngineClock(in) /\ WriteSide(bus) /\ Owns(bus, in)
      /\ Waiting \/ GoingOn \/ Returning
      /\ in.rdata \in Octet /\ in.raw_go = raw_p
      /\ in.reset <=> ctrl.reset
      /\ in.reset => Doing = "release"
      /\ Placed /\ RawPhases /\ RunPhases
  BY StepFacts DEF Sound
<1>2. /\ awready /\ Doing = "raw" => own' = [taken |-> ~raw_busy_any, by |-> {}]
      /\ awready /\ Doing = "run" => own' = [taken |-> TRUE, by |-> {}]
      /\ ~ (awready /\ Doing \in {"raw", "run"}) =>
           own' = IF own.taken /\ Acted(in) /= {} THEN [own EXCEPT !.by = Acted(in)] ELSE own
  BY <1>1, OwnIs
<1>3. /\ run_p' <=> awready /\ Doing = "run"
      /\ raw_p' <=> awready /\ Doing = "raw" /\ ~raw_busy_any
      /\ slot' = IF awready /\ Doing = "slot" THEN Access.write.slot ELSE slot
      /\ raw_req' = IF awready /\ Doing = "raw" /\ ~raw_busy_any
                      THEN Access.write.raw ELSE raw_req
  BY <1>1, Pulses
<1>4. /\ Waiting => Call' = Call /\ Access' = Access /\ Doing' = Doing
      /\ GoingOn => Call' = Call /\ Pairs(Doing, Doing')
      /\ Returning => Doing' \in Firsts
  BY <1>1, Places, DoingMoves
<1>5. /\ Doing \in {"slot", "run", "raw", "hold", "release"} => Storing
      /\ Doing \in {"ran", "ask", "sent"} => Access.kind = "poll" /\ ~Storing
      /\ awready => Storing
      /\ arready => ~Storing
  BY <1>1, KindIs DEF Placed
<1>6. at \in [call : DOMAIN session.calls, access : Nat]
  BY <1>1 DEF Placed
<1>7. /\ Waiting => UNCHANGED <<at, returned, answer>> /\ ~awready
      /\ GoingOn => Transfers /\ at'.access = at.access + 1 /\ at'.call = at.call
      /\ GoingOn => (Access.kind = "poll" => Met(Access))
      /\ Returning => Transfers /\ at'.access = 1 /\ returned'.call = at.call
      /\ Returning /\ returned'.result = "ok" => Finds
      /\ Returning /\ returned'.result = "ok" =>
           at.access = Len(Accesses(Call)) \/ Access.kind = "take"
  BY DEF Waiting, GoingOn, Returning, Finds
<1>8. /\ GoingOn => at'.access \in Nat /\ at'.access /= 1
      /\ GoingOn /\ at'.access = 2 => at.access = 1
      /\ GoingOn /\ at'.access = 3 => at.access = 2
      /\ GoingOn /\ at'.access = 4 => at.access = 3
  <2>1. at.access \in Nat /\ at.access >= 1
    BY <1>1, <1>6 DEF Placed
  <2> QED BY <1>7, <2>1
<1>9. own \in [taken : BOOLEAN, by : SUBSET Octet]
  BY DEF Turn
<1> HIDE DEF in
<1>10. own' \in [taken : BOOLEAN, by : SUBSET Octet]
  <2>1. Acted(in) \in SUBSET Octet
    BY <1>1, ActedIs
  <2>2. CASE awready /\ Doing = "raw"
    <3>1. own' = [taken |-> ~raw_busy_any, by |-> {}]
      BY <1>2, <2>2
    <3>2. (~raw_busy_any) \in BOOLEAN /\ {} \in SUBSET Octet
      OBVIOUS
    <3> QED BY <3>1, <3>2
  <2>3. CASE awready /\ Doing = "run"
    <3>1. own' = [taken |-> TRUE, by |-> {}]
      BY <1>2, <2>3
    <3> QED BY <3>1
  <2>4. CASE ~ (awready /\ Doing \in {"raw", "run"})
    <3>1. own' = IF own.taken /\ Acted(in) /= {} THEN [own EXCEPT !.by = Acted(in)] ELSE own
      BY <1>2, <2>4
    <3> QED BY <1>9, <2>1, <3>1
  <2> QED BY <2>2, <2>3, <2>4
<1>11. Call'.fn = "sc_run_slot" /\ at'.access = 2 => slot' = Call'.control
  <2>1. ASSUME Call'.fn = "sc_run_slot", at'.access = 2, Waiting PROVE slot' = Call'.control
    BY <1>3, <1>4, <1>7, <2>1 DEF Turn
  <2>2. ASSUME Call'.fn = "sc_run_slot", at'.access = 2, GoingOn PROVE slot' = Call'.control
    <3>1. Doing = "slot" /\ Access.write.slot = Call.control /\ Call' = Call
      BY <1>1, <1>4, <1>8, <2>2, InRun
    <3>2. awready
      BY <1>5, <1>7, <2>2, <3>1 DEF Transfers
    <3> QED BY <1>3, <3>1, <3>2
  <2> QED BY <1>1, <1>7, <2>1, <2>2
<1>12. Call'.fn = "sc_run_slot" /\ at'.access = 3 =>
         own'.taken /\ OwnRun(Call.control)' /\ (run_p' \/ run' /= "none")
  <2>1. ASSUME Call'.fn = "sc_run_slot", at'.access = 3, Waiting
        PROVE  own'.taken /\ OwnRun(Call.control)' /\ (run_p' \/ run' /= "none")
    <3>1. PICK v : v = Call.control
      OBVIOUS
    <3>2. Call' = Call /\ at.access = 3
      BY <1>4, <1>7, <2>1
    <3>3. own.taken /\ OwnRun(v) /\ (run_p \/ run /= "none") /\ Doing = "ran"
      BY <1>1, <2>1, <3>1, <3>2, InRun DEF Turn
    <3>4. own'.taken /\ OwnRun(v)' /\ (run_p' \/ run' /= "none")
      BY <1>9, <3>3, OwnRunStep
    <3>5. Call'.control = v
      BY <3>1, <3>2
    <3> QED BY <3>4, <3>5 DEF OwnRun, RunOnTheWay
  <2>2. ASSUME Call'.fn = "sc_run_slot", at'.access = 3, GoingOn
        PROVE  own'.taken /\ OwnRun(Call.control)' /\ (run_p' \/ run' /= "none")
    <3>1. Doing = "run" /\ Call' = Call /\ slot = Call.control
      BY <1>1, <1>4, <1>8, <2>2, InRun DEF Turn
    <3>2. awready
      BY <1>5, <1>7, <2>2, <3>1 DEF Transfers
    <3> QED BY <1>2, <1>3, <3>1, <3>2 DEF OwnRun
  <2> QED BY <1>1, <1>7, <2>1, <2>2
<1>13. Doing' = "raw" => ~raw_busy_any'
  <2>1. ~raw_p /\ ~raw_pending => ~raw_pending'
    BY <1>1 DEF EngineClock, Requests, raw_accepted
  <2>2. ASSUME Waiting, Doing' = "raw" PROVE ~raw_busy_any'
    BY <1>3, <1>4, <1>7, <2>1, <2>2 DEF Turn, raw_busy_any
  <2>3. ASSUME GoingOn, Doing' = "raw" PROVE ~raw_busy_any'
    <3>1. Doing = "ask" /\ Met(Access)
      BY <1>4, <1>5, <1>7, <2>3 DEF Pairs
    <3>2. Access.until = "raw not busy"
      <4> DEFINE a == Access
      <4>1. Kind(a) = "ask" => a.until = "raw not busy"
        <5> HIDE DEF a
        <5> QED BY DEF Kind
      <4> QED BY <3>1, <4>1 DEF Doing
    <3>3. ~raw_busy_any
      BY <3>1, <3>2 DEF Met
    <3> QED BY <1>3, <2>1, <3>1, <3>3 DEF raw_busy_any
  <2> QED BY <1>1, <1>4, <2>2, <2>3 DEF Firsts
<1>14. Call'.fn \in RawFns /\ at'.access = 3 => own'.taken /\ OwnRaw(Asked)'
  <2>1. ASSUME Call'.fn \in RawFns, at'.access = 3, Waiting
        PROVE  own'.taken /\ OwnRaw(Asked)'
    <3>1. PICK q : q = Asked
      OBVIOUS
    <3>2. Call' = Call /\ at.access = 3 /\ Asked' = Asked
      BY <1>4, <1>7, <2>1 DEF Asked
    <3>3. own.taken /\ OwnRaw(q) /\ Doing = "sent" /\ ~q.pop
      BY <1>1, <2>1, <3>1, <3>2, InRaw DEF Turn
    <3>4. own'.taken /\ OwnRaw(q)'
      BY <1>9, <3>3, OwnRawStep
    <3>5. Asked' = q
      BY <3>1, <3>2
    <3> QED BY <3>4, <3>5 DEF OwnRaw, RawOnTheWay, RawQuiet
  <2>2. ASSUME Call'.fn \in RawFns, at'.access = 3, GoingOn
        PROVE  own'.taken /\ OwnRaw(Asked)'
    <3>1. Doing = "raw" /\ Access.write.raw = Asked /\ Call' = Call
      BY <1>1, <1>4, <1>8, <2>2, InRaw
    <3>2. awready /\ ~raw_busy_any
      BY <1>5, <1>7, <2>2, <3>1 DEF Transfers, Turn
    <3>3. raw_p' /\ raw_req' = Asked /\ own'.taken
      <4>1. own' = [taken |-> ~raw_busy_any, by |-> {}]
        BY <1>2, <3>1, <3>2
      <4>2. own'.taken = ~raw_busy_any
        BY <4>1
      <4>3. raw_p' /\ raw_req' = Asked
        BY <1>3, <3>1, <3>2
      <4> QED BY <3>2, <4>2, <4>3
    <3>4. Asked' = Asked
      BY <3>1 DEF Asked
    <3> QED BY <3>3, <3>4 DEF OwnRaw
  <2> QED BY <1>1, <1>7, <2>1, <2>2
<1>15. Call'.fn \in RawFns /\ at'.access = 4 => own'.taken /\ RawQuiet(Asked)'
  <2>1. ASSUME Call'.fn \in RawFns, at'.access = 4, Waiting \/ GoingOn
        PROVE  own'.taken /\ RawQuiet(Asked)'
    <3>1. Call' = Call /\ Asked' = Asked
      BY <1>4, <2>1 DEF Asked
    <3>2. own.taken /\ RawQuiet(Asked) /\ ~awready
      <4>1. CASE Waiting
        BY <1>7, <2>1, <3>1, <4>1 DEF Turn
      <4>2. CASE GoingOn
        <5>1. at.access = 3 /\ Doing = "sent" /\ Met(Access) /\ raw_done_q
          BY <1>1, <1>7, <1>8, <2>1, <3>1, <4>2, InRaw
        <5>2. ~raw_p /\ ~raw_pending
          BY <1>1, <5>1 DEF RawPhases
        <5>3. own.taken /\ OwnRaw(Asked)
          BY <2>1, <3>1, <5>1 DEF Turn
        <5>4. RawQuiet(Asked)
          BY <5>2, <5>3 DEF OwnRaw, RawWaits, RawOnTheWay
        <5> QED BY <1>5, <5>1, <5>3, <5>4
      <4> QED BY <2>1, <4>1, <4>2
    <3>3. Quiet' /\ own' = own /\ UNCHANGED <<raw_q, raw_rdata>>
      BY <3>2, QuietStep DEF RawQuiet
    <3> QED BY <3>1, <3>2, <3>3 DEF RawQuiet, Result
  <2> QED BY <1>1, <1>7, <2>1
(* A call that has returned: nothing of the next one's disturbs it.         *)
<1>16. ASSUME Waiting, at'.access = 1
       PROVE  /\ ~ (awready /\ Doing \in {"raw", "run"}) /\ ~ctrl.reset
              /\ at.access = 1 /\ returned' = returned /\ answer' = answer
  <2>1. at.access = 1 /\ Doing \in Firsts
    BY <1>1, <1>7, <1>16 DEF Placed
  <2> QED BY <1>1, <1>7, <1>16, <2>1 DEF Firsts
<1>17. JustReturned("sc_run_slot")' =>
         Quiet' /\ own'.taken /\ own'.by = {Done'.control} /\ run' = "read"
  <2>1. ASSUME JustReturned("sc_run_slot")', Waiting
        PROVE  Quiet' /\ own'.taken /\ own'.by = {Done'.control} /\ run' = "read"
    <3>1. /\ ~ (awready /\ Doing \in {"raw", "run"}) /\ ~ctrl.reset
          /\ at.access = 1 /\ returned' = returned
      BY <1>16, <2>1 DEF JustReturned
    <3>2. JustReturned("sc_run_slot") /\ Done' = Done
      BY <1>1, <2>1, <3>1 DEF JustReturned, Done
    <3>3. Quiet /\ own.taken /\ own.by = {Done.control} /\ run = "read"
      BY <3>2 DEF Turn
    <3>4. Quiet' /\ own' = own /\ run' = "read"
      BY <3>1, <3>3, QuietStep
    <3> QED BY <3>2, <3>3, <3>4
  <2>2. ASSUME JustReturned("sc_run_slot")', Returning
        PROVE  Quiet' /\ own'.taken /\ own'.by = {Done'.control} /\ run' = "read"
    <3>1. Done' = Call /\ Call.fn = "sc_run_slot" /\ returned'.result = "ok"
      BY <1>1, <1>7, <2>2 DEF JustReturned, Done, Call
    <3>2. at.access = 3 /\ Doing = "ran" /\ (Met(Access) => ~run_busy)
      BY <1>1, <1>7, <2>2, <3>1, InRun
    <3>3. ~run_busy /\ ~awready /\ ~ctrl.reset
      BY <1>1, <1>5, <1>7, <2>2, <3>1, <3>2 DEF Finds
    <3>4. own.taken /\ OwnRun(Call.control) /\ (run_p \/ run /= "none")
      BY <3>1, <3>2 DEF Turn
    <3>5. ~run_p /\ ~ctrl_pending /\ ~ctrl_flight
      BY <3>3 DEF run_busy, ctrl_busy
    <3>6. run = "read"
      BY <1>1, <3>4, <3>5 DEF RunPhases
    <3>7. Quiet /\ own.by = {Call.control}
      BY <3>4, <3>5, <3>6 DEF OwnRun, RunOnTheWay
    <3>8. Quiet' /\ own' = own /\ run' = "read"
      BY <3>3, <3>6, <3>7, QuietStep
    <3> QED BY <3>1, <3>4, <3>7, <3>8
  <2> QED BY <1>1, <1>8, <2>1, <2>2 DEF JustReturned
<1>18. ASSUME NEW fn \in RawFns, JustReturned(fn)'
       PROVE  /\ Quiet' /\ own'.taken
              /\ fn = "sc_raw_read" => own'.by = {answer'}
              /\ fn = "sc_raw_write" => own'.by = {Done'.value}
  <2>1. CASE Waiting
    <3>1. /\ ~ (awready /\ Doing \in {"raw", "run"})
          /\ at.access = 1 /\ returned' = returned /\ answer' = answer
      BY <1>16, <1>18, <2>1 DEF JustReturned
    <3>2. JustReturned(fn) /\ Done' = Done
      BY <1>1, <1>18, <3>1 DEF JustReturned, Done
    <3>3. /\ Quiet /\ own.taken
          /\ fn = "sc_raw_read" => own.by = {answer}
          /\ fn = "sc_raw_write" => own.by = {Done.value}
      BY <1>18, <3>2 DEF Turn, RawFns
    <3>4. Quiet' /\ own' = own
      BY <3>1, <3>3, QuietStep
    <3> QED BY <3>1, <3>2, <3>3, <3>4
  <2>2. CASE Returning
    <3>1. Done' = Call /\ Call.fn = fn /\ returned'.result = "ok"
      BY <1>1, <1>7, <1>18, <2>2 DEF JustReturned, Done, Call
    <3>2. /\ at.access = 4 /\ Access.kind = "answer"
          /\ Call.fn = "sc_raw_read" => ~Asked.write
          /\ Call.fn = "sc_raw_write" => Asked.write /\ Asked.wdata = Call.value
      BY <1>1, <1>7, <1>18, <2>2, <3>1, InRaw
    <3>3. answer' = raw_rdata /\ ~awready
      BY <1>5, <1>7, <2>2, <3>1, <3>2 DEF Finds, Storing
    <3>4. own.taken /\ Quiet /\ raw_q = Asked /\ own.by = {Result}
      BY <1>18, <3>1, <3>2 DEF Turn, RawQuiet
    <3>5. Quiet' /\ own' = own
      BY <3>3, <3>4, QuietStep
    <3> QED BY <3>1, <3>2, <3>3, <3>4, <3>5 DEF Result
  <2> QED BY <1>1, <1>8, <1>18, <2>1, <2>2 DEF JustReturned
<1> QED BY <1>10, <1>11, <1>12, <1>13, <1>14, <1>15, <1>17, <1>18 DEF Turn, RawFns

LEMMA InitTurn == DriverInit /\ session \in Sessions => Placed /\ Served /\ Aimed /\ Turn
<1> SUFFICES ASSUME DriverInit, session \in Sessions PROVE Placed /\ Served /\ Aimed /\ Turn
  OBVIOUS
<1>1. /\ state = "LOW0" /\ ~e_tx /\ ~e_read /\ ~ctrl_pending /\ ~raw_pending /\ ~run_p /\ ~raw_p
      /\ ~awready /\ ~arready /\ ~ctrl.reset
      /\ at = [call |-> 1, access |-> 1] /\ returned = [call |-> 0, result |-> "none"]
      /\ own = [taken |-> FALSE, by |-> {}]
  BY DEF DriverInit, Init, EngineInit, AxiInit
<1>2. 1 \in DOMAIN session.calls
  BY CallsAssumption
<1>3. Ordered(Accesses(Call)) /\ Accesses(Call) /= <<>>
  BY <1>1, <1>2, ACall DEF Call
<1>4. Kind(Accesses(Call)[1]) \in Firsts /\ 1 \in 1 .. Len(Accesses(Call))
  BY <1>3, EmptySeq DEF Ordered
<1>5. Doing \in Firsts
  BY <1>1, <1>4 DEF Doing, Access
<1>6. Placed
  BY <1>1, <1>2, <1>4, <1>5 DEF Placed
<1>7. Served /\ Aimed
  BY <1>1 DEF Served, Waits, RawWaits, Aimed, OnTheWay
<1>8. Turn
  BY <1>1, <1>5 DEF Turn, Firsts, JustReturned
<1> QED BY <1>6, <1>7, <1>8

Answering == Sound /\ Turn

LEMMA InitAnswering == DriverInit => Answering
<1>1. Init => Bounds /\ RunPhases /\ RawPhases
  BY InitBounds DEF Init, EngineInit, AxiInit, RunPhases, RawPhases
<1> QED BY <1>1, InitTurn DEF DriverInit, Answering, Sound, Bounds, Types, PeripheralTypes

LEMMA AnsweringStep ==
  ASSUME Answering, [DriverNext]_<<vars, driverVars>>
  PROVE  Answering'
<1>1. ASSUME NEW bus \in DriverBus, DriverClock(bus)
      PROVE  Answering'
  <2>1. /\ Sound /\ Turn /\ Types /\ bus \in Bus /\ Clock(bus) /\ Drives(bus)
        /\ EngineClock(In(bus, host_rdata))
    BY <1>1, StepFacts DEF Answering, DriverClock
  <2>2. Bounds' /\ RunPhases' /\ RawPhases'
    BY <2>1, BoundsStep, RunPhasesStep, RawPhasesStep DEF Sound, Next
  <2>3. Placed'
    BY <2>1, PlacedStep DEF Sound
  <2>4. Served'
    BY <2>1, ServedStep DEF Sound
  <2>5. Aimed'
    BY <2>1, AimedStep DEF Sound
  <2>6. Turn'
    BY <1>1, <2>1, TurnStep
  <2> QED BY <2>2, <2>3, <2>4, <2>5, <2>6 DEF Answering, Sound
<1>2. ASSUME UNCHANGED <<vars, driverVars>>
      PROVE  Answering'
  <2>1. /\ UNCHANGED vars /\ UNCHANGED <<at, ok, returned, answer, own>>
    BY <1>2 DEF driverVars
  <2>2. /\ UNCHANGED <<state, count, e_we, e_addr, e_wdata, e_read, e_tx, e_raw, raw_rdata>>
        /\ UNCHANGED <<ctrl_go_d, raw_go_d, ctrl_pending, raw_pending, raw_q, raw_done>>
        /\ UNCHANGED <<awready, bvalid, arready, rvalid, ctrl, slot, run_p, raw_p>>
        /\ UNCHANGED <<ctrl_flight, raw_req, raw_done_q, session, run, raw>>
    BY <2>1 DEF vars, engineVars, busVars, requestVars, axiVars
  <2>3. Bounds'
    BY <2>1, BoundsStep DEF Answering, Sound
  <2>4. RunPhases' /\ RawPhases'
    BY <2>2 DEF Answering, Sound, RunPhases, RawPhases, RawHigh, Made
  <2>5. Call' = Call /\ Access' = Access /\ Doing' = Doing /\ Asked' = Asked /\ Done' = Done
    BY <2>1, <2>2 DEF Call, Access, Doing, Asked, Done
  <2>6. Placed'
    BY <2>1, <2>2, <2>5 DEF Answering, Sound, Placed, Storing
  <2>7. Served' /\ Aimed'
    BY <2>2, <2>5 DEF Answering, Sound, Served, Waits, RawWaits, Taken, UntilDecision, Notice,
                      Aimed, OnTheWay
  <2>8. Quiet' = Quiet /\ Result' = Result
    BY <2>2 DEF Quiet, RawHigh, OnTheWay, Result
  <2>9. Turn'
    BY <2>1, <2>2, <2>5, <2>8
       DEF Answering, Turn, OwnRun, RunOnTheWay, OwnRaw, RawWaits, Taken, RawOnTheWay, RawQuiet,
           OnTheWay, raw_busy_any, JustReturned
  <2> QED BY <2>3, <2>4, <2>6, <2>7, <2>9 DEF Answering, Sound
<1> QED BY <1>1, <1>2 DEF DriverNext

(* The ARM's code is one of the masters AxiChip allows for: what the driver *)
(* and the chip do together, the chip does for some traffic of the session. *)
THEOREM DriversTraffic == DriverSpec => Init /\ [][Next]_vars
<1>1. DriverInit => Init
  BY DEF DriverInit
<1>2. ASSUME Answering, [DriverNext]_<<vars, driverVars>>
      PROVE  [Next]_vars
  <2>1. ASSUME NEW bus \in DriverBus, DriverClock(bus)
        PROVE  Next
    BY <1>2, <2>1, StepFacts DEF Answering, DriverClock, Next
  <2>2. CASE UNCHANGED <<vars, driverVars>>
    BY <2>2
  <2> QED BY <1>2, <2>1, <2>2 DEF DriverNext
<1> QED BY <1>1, <1>2, InitAnswering, AnsweringStep, PTL DEF DriverSpec

(* Any caller of the driver, with timeouts or with patience: a raw access   *)
(* that returns SC_OK has the answer of its own request, whatever came late *)
(* before it, and sc_run_slot has written its own slot, with CORE_STATUS    *)
(* read after that.                                                         *)
THEOREM EachCallItsOwn == DriverSpec => []AnswersItsOwn
<1>1. Answering => AnswersItsOwn
  <2> SUFFICES ASSUME Answering PROVE AnswersItsOwn
    OBVIOUS
  <2>1. /\ own \in [taken : BOOLEAN, by : SUBSET Octet]
        /\ JustReturned("sc_run_slot") => own.taken /\ own.by = {Done.control} /\ run = "read"
        /\ JustReturned("sc_raw_read") => own.taken /\ own.by = {answer}
        /\ JustReturned("sc_raw_write") => own.taken /\ own.by = {Done.value}
    BY DEF Answering, Turn
  <2>2. \A b : own.taken /\ own.by = b => own = [taken |-> TRUE, by |-> b]
    BY <2>1
  <2> QED BY <2>1, <2>2 DEF AnswersItsOwn
<1> QED BY <1>1, InitAnswering, AnsweringStep, PTL DEF DriverSpec

=============================================================================
