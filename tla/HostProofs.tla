----------------------------- MODULE HostProofs -----------------------------
(***************************************************************************)
(* Theorems about the register block, for every RAM size, every byte the    *)
(* host may write and every pace at which it moves its strobes.             *)
(***************************************************************************)
EXTENDS HostSpec, HostLemmas

(* The strobe that owes its transaction is the one whose synchronizer has   *)
(* not seen it all the way through.                                         *)
Owed ==
  /\ owed \in BOOLEAN
  /\ owed <=> (we /\ ~High(we_sync)) \/ (re /\ ~High(re_sync))

Inv == HostTypeOK /\ Strobes /\ Loader /\ Owed

-----------------------------------------------------------------------------
(* Every register of the block keeps its width, and the RAM's addresses and *)
(* words theirs.                                                            *)
THEOREM TypeCorrect == Spec => []HostTypeOK
<1>1. HostTypeOK /\ [Next]_vars => HostTypeOK'
  <2>1. ASSUME HostTypeOK, UNCHANGED vars PROVE HostTypeOK'
    BY <2>1 DEF vars, hostVars, pinVars, regVars, HostTypeOK
  <2> QED BY <2>1, TypesStep DEF Next, Clock, Reset
<1>2. Init => HostTypeOK
  BY InitTypes DEF Init
<1> QED BY <1>1, <1>2, PTL DEF Spec

-----------------------------------------------------------------------------
LEMMA OwedStep ==
  ASSUME HostTypeOK, Strobes, Owed, Clock \/ Reset
  PROVE  Owed'
<1>1. CASE Clock
  <2>1. /\ we_sync' = Synced(we_sync, we) /\ re_sync' = Synced(re_sync, re) /\ PinsMove
        /\ owed' = (strobe' /= "none" /\ (strobe = "none" \/ (owed /\ ~we_rise /\ ~re_rise)))
    BY <1>1 DEF Clock, HostClock
  <2>2. we \in BOOLEAN /\ re \in BOOLEAN /\ we_sync \in SyncState /\ re_sync \in SyncState
    BY DEF we, re, HostTypeOK
  <2>3. /\ High(we_sync)' <=> we /\ we_sync[0] /\ we_sync[1]
        /\ High(re_sync)' <=> re /\ re_sync[0] /\ re_sync[1]
    BY <2>1, <2>2, SyncedType DEF High
  <2>4. CASE strobe = "none"
    BY <2>1, <2>3, <2>4, PinTypes DEF Owed, we, re, HostTypeOK
  <2>5. CASE strobe /= "none" /\ strobe' = strobe
    <3>1. (we' <=> we) /\ (re' <=> re) /\ ~ (we /\ re) /\ (we \/ re)
      BY <2>5 DEF we, re, HostTypeOK
    <3>2. owed' <=> owed /\ ~we_rise /\ ~re_rise
      BY <2>1, <2>5
    <3>3. edges = 0 => edges /= 2
      OBVIOUS
    <3>4. edges = 1 => edges /= 2
      OBVIOUS
    <3>5. we => (we_sync[0] /\ we_sync[1] <=> High(we_sync) \/ we_rise)
      BY <3>3, <3>4, Rises, Zenon DEF Strobes, Seen, High, Rising
    <3>6. re => (re_sync[0] /\ re_sync[1] <=> High(re_sync) \/ re_rise)
      BY <3>3, <3>4, Rises, Zenon DEF Strobes, Seen, High, Rising
    <3>7. (we_rise => we) /\ (re_rise => re)
      BY Rises
    <3>8. owed' \in BOOLEAN
      BY <2>1
    <3> QED BY <2>3, <3>1, <3>2, <3>5, <3>6, <3>7, <3>8, Zenon DEF Owed
  <2>6. CASE strobe' = "none"
    BY <2>1, <2>6 DEF Owed, we, re
  <2> QED BY <2>1, <2>4, <2>5, <2>6, PinCases
<1>2. CASE Reset
  <2>1. High(we_sync)' /\ High(re_sync)' /\ owed' = FALSE
    BY <1>2 DEF Reset, HostReset, High
  <2> QED BY <2>1 DEF Owed
<1> QED BY <1>1, <1>2

-----------------------------------------------------------------------------
(* The promise to the host. *)

Mode == IF load_mode THEN "load" ELSE IF ram_select THEN "ram" ELSE "rom"

LEMMA InvInit == Init => Inv
<1> SUFFICES ASSUME Init PROVE Owed
  BY InitTypes, InitStrobes, InitLoader DEF Inv, Init
<1>1. strobe = "none" /\ owed = FALSE
  BY DEF Init, HostInit
<1> QED BY <1>1 DEF Owed, we, re

LEMMA InvStep == Inv /\ [Next]_vars => Inv'
<1> SUFFICES ASSUME Inv, [Next]_vars PROVE Inv'
  OBVIOUS
<1>1. CASE Clock \/ Reset
  BY <1>1, TypesStep, StrobesStep, LoaderStep, OwedStep DEF Inv, Clock, Reset
<1>2. CASE UNCHANGED vars
  BY <1>2 DEF vars, hostVars, pinVars, regVars, Inv, HostTypeOK, Strobes, Seen, High, Rising, Loader, Owed, we, re
<1> QED BY <1>1, <1>2 DEF Next

(* A clock that sees no rise asks for nothing, and the host lets go of no   *)
(* strobe that is owed its transaction.                                     *)
LEMMA ClockHolds ==
  ASSUME Inv, Clock, ~we_rise, ~re_rise
  PROVE  Registers!Hold
<1>1. /\ ~control_write /\ ~byte_taken /\ ~tx_push /\ ~rx_pop /\ ~restart /\ ~prog_we
  BY DEF control_write, byte_taken, tx_push, rx_pop, restart, prog_we, prog_byte
<1>2. /\ UNCHANGED <<sel, load_mode, ram_select, prog_words, prog_low, byte_phase, mem>>
      /\ event' = [push |-> tx_push, pop |-> rx_pop, restart |-> restart]
      /\ owed' = (strobe' /= "none" /\ (strobe = "none" \/ owed))
      /\ PinsMove
  BY <1>1 DEF Clock, HostClock, RamEdge
<1>3. UNCHANGED <<Mode, sel, LoadedBytes>>
  BY <1>2, NothingMoves DEF Mode
<1>4. event' = [push |-> FALSE, pop |-> FALSE, restart |-> FALSE]
  BY <1>1, <1>2 DEF tx_push, rx_pop, restart
<1>5. \/ UNCHANGED <<strobe, addr, wdata, owed>>
      \/ strobe = "none" /\ strobe' \in {"we", "re"} /\ owed' = TRUE
      \/ ~owed /\ strobe' = "none" /\ UNCHANGED <<addr, wdata, owed>>
  <2>1. HostTypeOK /\ Strobes /\ owed \in BOOLEAN /\ (owed => strobe /= "none")
    BY DEF Inv, Owed, we, re
  <2>2. CASE strobe = "none" /\ UNCHANGED <<strobe, addr, wdata>>
    BY <1>2, <2>1, <2>2
  <2>3. CASE strobe = "none" /\ strobe' \in {"we", "re"}
    BY <1>2, <2>3
  <2>4. CASE strobe /= "none" /\ UNCHANGED <<strobe, addr, wdata>>
    BY <1>2, <2>1, <2>4
  <2>5. CASE /\ strobe /= "none" /\ strobe' = "none" /\ edges + 1 >= MinHigh
             /\ UNCHANGED <<addr, wdata>>
    <3>1. edges /= 0 /\ edges /= 1
      BY <2>5, StrobeAssumption
    <3>2. edges = 2 => (we => High(we_sync)) /\ (re => High(re_sync))
      BY <2>1, Rises
    <3>3. (we => High(we_sync) \/ Rising(we_sync)) /\ (re => High(re_sync) \/ Rising(re_sync))
      BY <2>1, Zenon DEF Strobes, Seen
    <3>4. ~owed
      BY <3>1, <3>2, <3>3, Zenon DEF Inv, Owed, Rising
    <3> QED BY <1>2, <2>1, <2>5, <3>4
  <2> QED BY <1>2, <2>1, <2>2, <2>3, <2>4, <2>5, PinCases
<1> QED BY <1>3, <1>4, <1>5 DEF Registers!Hold, Registers!Quiet, Registers!Asks, Mode

(* The pins on a clock that has the transaction: still, or the strobe falls. *)
LEMMA RisePins ==
  ASSUME Inv, Clock, we_rise \/ re_rise
  PROVE  /\ owed /\ owed' = FALSE
         /\ strobe' \in {strobe, "none"}
         /\ UNCHANGED <<addr, wdata>>
         /\ we_rise <=> strobe = "we"
         /\ re_rise <=> strobe = "re"
<1>1. HostTypeOK /\ Strobes /\ PinsMove
  BY DEF Inv, Clock
<1>2. owed /\ edges = 2 /\ (we \/ re)
  BY <1>1, Rises DEF Inv, Owed
<1>3. strobe /= "none"
  BY <1>2 DEF we, re
<1>4. owed' = FALSE
  BY <1>3 DEF Clock
<1>5. strobe' \in {strobe, "none"} /\ UNCHANGED <<addr, wdata>>
  BY <1>1, <1>3, PinCases
<1>6. (we_rise <=> strobe = "we") /\ (re_rise <=> strobe = "re")
  <2>1. (we_rise => we) /\ (re_rise => re) /\ ~ (we /\ re)
    BY <1>1, Rises DEF we, re
  <2> QED BY <1>2, <2>1 DEF we, re
<1> QED BY <1>2, <1>4, <1>5, <1>6

LEMMA ControlStep ==
  ASSUME Inv, Clock, control_write
  PROVE  Registers!Control
<1>1. /\ HostTypeOK /\ wdata \in Octet /\ prog_low \in Octet /\ prog_words \in 0 .. RamWords
      /\ mem \in [0 .. RamWords - 1 -> RamWord] /\ we_rise /\ addr = 3 /\ strobe = "we"
  BY RisePins DEF Inv, HostTypeOK, Octet, control_write, CONTROL
<1>2. /\ ~prog_byte /\ ~byte_taken /\ ~tx_push /\ ~rx_pop /\ ~prog_we
  BY <1>1 DEF byte_taken, tx_push, rx_pop, prog_we, prog_byte, TX_DATA, RX_DATA
<1>3. Command /\ mem' = mem /\ event' = [push |-> tx_push, pop |-> rx_pop, restart |-> restart]
  BY <1>2 DEF Clock, HostClock, RamEdge
<1>4. (rom_cmd <=> wdata \in 0 .. 15) /\ (wdata \in 0 .. 15 => wdata % 16 = wdata)
  BY <1>1 DEF rom_cmd, Octet
<1>5. /\ rom_cmd => ~run_ram_cmd /\ ~load_cmd
      /\ run_ram_cmd => ~load_cmd
      /\ run_ram_cmd <=> wdata = 16
      /\ load_cmd <=> wdata = 32
  BY <1>4 DEF run_ram_cmd, load_cmd
<1>6. event' = [push |-> FALSE, pop |-> FALSE, restart |-> wdata \in 0 .. 15 \cup {16, 32}]
  <2>1. restart = (wdata \in 0 .. 15 \cup {16, 32})
    BY <1>4, <1>5 DEF restart
  <2>2. tx_push = FALSE /\ rx_pop = FALSE
    BY <1>2 DEF tx_push, rx_pop
  <2> QED BY <1>3, <2>1, <2>2
<1>12. event' = Registers!Asks(FALSE, FALSE, wdata \in 0 .. 15 \cup {16, 32})
  BY <1>6, Zenon DEF Registers!Asks
<1>13. SUFFICES /\ Mode' = CASE wdata \in 0 .. 15 -> "rom"
                             [] wdata = 16 -> "ram"
                             [] wdata = 32 -> "load"
                             [] OTHER -> Mode
                /\ sel' = IF wdata \in 0 .. 15 THEN wdata ELSE sel
                /\ LoadedBytes' = IF wdata = 32 THEN <<>>
                                  ELSE IF wdata \in 0 .. 15 \cup {16}
                                    THEN SubSeq(LoadedBytes, 1, 2 * (Len(LoadedBytes) \div 2))
                                    ELSE LoadedBytes
  BY <1>12, Zenon DEF Registers!Control, Mode
<1>7. /\ sel' = IF rom_cmd THEN wdata % 16 ELSE sel
      /\ ram_select' = (~rom_cmd /\ (run_ram_cmd \/ load_cmd \/ ram_select))
      /\ load_mode' = (load_cmd \/ (load_mode /\ ~rom_cmd /\ ~run_ram_cmd))
      /\ byte_phase' = (byte_phase /\ ~rom_cmd /\ ~run_ram_cmd /\ ~load_cmd)
      /\ prog_words' = IF load_cmd THEN 0 ELSE prog_words
      /\ prog_low' = IF load_cmd THEN 0 ELSE prog_low
  BY <1>3 DEF Command
<1>8. CASE rom_cmd
  <2>1. Mode' = "rom" /\ sel' = wdata
    BY <1>4, <1>5, <1>7, <1>8 DEF Mode
  <2>2. LoadedBytes' = SubSeq(LoadedBytes, 1, 2 * (Len(LoadedBytes) \div 2))
    BY <1>1, <1>3, <1>5, <1>7, <1>8, CommandTrims
  <2> QED BY <1>4, <1>5, <1>8, <2>1, <2>2
<1>9. CASE run_ram_cmd
  <2>1. Mode' = "ram" /\ sel' = sel
    BY <1>4, <1>5, <1>7, <1>9 DEF Mode
  <2>2. LoadedBytes' = SubSeq(LoadedBytes, 1, 2 * (Len(LoadedBytes) \div 2))
    BY <1>1, <1>3, <1>5, <1>7, <1>9, CommandTrims
  <2> QED BY <1>4, <1>5, <1>9, <2>1, <2>2
<1>10. CASE load_cmd
  <2>1. Mode' = "load" /\ sel' = sel
    BY <1>4, <1>5, <1>7, <1>10 DEF Mode
  <2>2. LoadedBytes' = <<>>
    BY <1>5, <1>7, <1>10, LoadedIs, NothingLoaded
  <2> QED BY <1>4, <1>5, <1>10, <2>1, <2>2
<1>11. CASE ~rom_cmd /\ ~run_ram_cmd /\ ~load_cmd
  <2>1. UNCHANGED <<sel, ram_select, load_mode, byte_phase, prog_words, prog_low>>
    BY <1>1, <1>7, <1>11 DEF HostTypeOK
  <2>2. UNCHANGED <<Mode, sel, LoadedBytes>>
    BY <1>3, <2>1, NothingMoves DEF Mode
  <2> QED BY <1>4, <1>5, <1>11, <2>2
<1> QED BY <1>8, <1>9, <1>10, <1>11

LEMMA DataStep ==
  ASSUME Inv, Clock, we_rise, addr = 0
  PROVE  Registers!Data
<1>1. /\ HostTypeOK /\ wdata \in Octet /\ prog_low \in Octet /\ prog_words \in 0 .. RamWords
      /\ mem \in [0 .. RamWords - 1 -> RamWord] /\ RamWords \in 1 .. 256
      /\ Loader /\ strobe = "we"
  BY RisePins, RamAssumption DEF Inv, HostTypeOK, Octet
<1>2. ~re_rise /\ ~control_write /\ ~rx_pop /\ ~restart
  BY <1>1, RisePins DEF control_write, rx_pop, restart, CONTROL
<1>3. event' = [push |-> Mode /= "load", pop |-> FALSE, restart |-> FALSE]
  <2>1. tx_push = (Mode /= "load")
    BY <1>1 DEF tx_push, Mode, TX_DATA
  <2>2. rx_pop = FALSE /\ restart = FALSE
    BY <1>2 DEF rx_pop, restart
  <2> QED BY <2>1, <2>2 DEF Clock
<1>4. Len(LoadedBytes) < 2 * RamWords <=> prog_words < RamWords
  BY <1>1, Room
<1>7. event' = Registers!Asks(Mode /= "load", FALSE, FALSE)
  BY <1>3, Zenon DEF Registers!Asks
<1>8. SUFFICES /\ LoadedBytes' = IF Mode = "load" /\ Len(LoadedBytes) < 2 * RamWords
                                   THEN Append(LoadedBytes, wdata) ELSE LoadedBytes
               /\ UNCHANGED <<Mode, sel>>
  BY <1>7, Zenon DEF Registers!Data, Mode
<1>5. CASE byte_taken
  <2>1. load_mode /\ prog_words < RamWords
    BY <1>5 DEF byte_taken, prog_byte
  <2>2. ProgramByte /\ RamEdge
    BY <1>2, <1>5 DEF Clock, HostClock
  <2>3. LoadedBytes' = Append(LoadedBytes, wdata)
    BY <1>1, <1>5, <2>2, ByteIsAppended
  <2>4. UNCHANGED <<Mode, sel>>
    BY <2>2 DEF ProgramByte, Mode
  <2>5. Mode = "load"
    BY <2>1 DEF Mode
  <2> QED BY <1>4, <2>1, <2>3, <2>4, <2>5
<1>6. CASE ~byte_taken
  <2>1. /\ UNCHANGED <<sel, load_mode, ram_select, prog_words, prog_low, byte_phase, mem>>
    BY <1>2, <1>6 DEF Clock, HostClock, RamEdge, prog_we, byte_taken
  <2>2. UNCHANGED <<Mode, sel, LoadedBytes>>
    BY <2>1, NothingMoves DEF Mode
  <2>3. ~ (load_mode /\ prog_words < RamWords)
    BY <1>6 DEF byte_taken, prog_byte, TX_DATA
  <2>4. Mode = "load" => load_mode
    BY DEF Mode
  <2> QED BY <1>4, <2>2, <2>3, <2>4
<1> QED BY <1>5, <1>6

LEMMA OtherStep ==
  ASSUME Inv, Clock, we_rise \/ re_rise, strobe = "re" \/ addr \notin {0, 3}
  PROVE  /\ event' = [push |-> FALSE, pop |-> strobe = "re" /\ addr = 1, restart |-> FALSE]
         /\ UNCHANGED <<Mode, sel, LoadedBytes>>
<1>1. (we_rise <=> strobe = "we") /\ (re_rise <=> strobe = "re")
  BY RisePins
<1>2. ~control_write /\ ~byte_taken /\ ~tx_push /\ ~restart /\ ~prog_we
  BY <1>1 DEF control_write, byte_taken, tx_push, restart, prog_we, prog_byte, TX_DATA, CONTROL
<1>3. UNCHANGED <<sel, load_mode, ram_select, prog_words, prog_low, byte_phase, mem>>
  BY <1>2 DEF Clock, HostClock, RamEdge
<1>4. UNCHANGED <<Mode, sel, LoadedBytes>>
  BY <1>3, NothingMoves DEF Mode
<1>5. rx_pop = (strobe = "re" /\ addr = 1)
  BY <1>1 DEF rx_pop, RX_DATA
<1>6. tx_push = FALSE /\ restart = FALSE
  BY <1>2 DEF tx_push, restart
<1> QED BY <1>4, <1>5, <1>6 DEF Clock

LEMMA ClockTransacts ==
  ASSUME Inv, Clock, we_rise \/ re_rise
  PROVE  Registers!Transact
<1>1. /\ owed /\ owed' = FALSE
      /\ strobe' \in {strobe, "none"}
      /\ UNCHANGED <<addr, wdata>>
      /\ we_rise <=> strobe = "we"
      /\ re_rise <=> strobe = "re"
  BY RisePins
<1>2. CASE strobe = "we" /\ addr = 3
  BY <1>1, <1>2, ControlStep DEF control_write, CONTROL, Registers!Transact
<1>3. CASE strobe = "we" /\ addr = 0
  BY <1>1, <1>3, DataStep DEF Registers!Transact
<1>4. CASE strobe = "re" \/ addr \notin {0, 3}
  <2>1. /\ event' = [push |-> FALSE, pop |-> strobe = "re" /\ addr = 1, restart |-> FALSE]
        /\ UNCHANGED <<Mode, sel, LoadedBytes>>
    BY <1>4, OtherStep
  <2>2. event' = Registers!Asks(FALSE, strobe = "re" /\ addr = 1, FALSE)
    BY <2>1, Zenon DEF Registers!Asks
  <2> QED BY <1>1, <1>4, <2>1, <2>2, Zenon DEF Registers!Transact, Mode
<1> QED BY <1>1, <1>2, <1>3, <1>4

LEMMA ResetStep ==
  ASSUME Inv, Reset
  PROVE  Registers!Reset
<1>1. LoadedBytes' = <<>>
  BY LoadedIs, NothingLoaded DEF Reset, HostReset
<1>2. Mode' = "rom" /\ sel' = 0
  BY DEF Reset, HostReset, Mode
<1>3. strobe' \in {strobe, "none"} /\ UNCHANGED <<addr, wdata>>
  BY DEF Reset, PinsAtReset, PinsHold, PinsFall
<1> QED BY <1>1, <1>2, <1>3 DEF Reset, Quiet, Registers!Reset, Registers!Quiet, Registers!Asks, Mode

(* Every strobe that obeys the timing rules is exactly one transaction,     *)
(* made while it is up, with the pins the host holds; and the RAM has the   *)
(* bytes it was sent since the load command, in order, up to its size.      *)
THEOREM EachStrobeOnce == Spec => ImplementsRegisters
<1>1. Init => Registers!Init
  <2> SUFFICES ASSUME Init PROVE Registers!Init
    OBVIOUS
  <2>1. LoadedBytes = <<>>
    BY LoadedIs, NothingLoaded DEF Init, HostInit
  <2> QED BY <2>1 DEF Init, HostInit, Quiet, Registers!Init, Registers!Quiet, Registers!Asks
<1>2. Inv /\ [Next]_vars => [Registers!Next]_(Registers!vars)
  <2> SUFFICES ASSUME Inv, [Next]_vars PROVE [Registers!Next]_(Registers!vars)
    OBVIOUS
  <2>1. CASE Clock
    BY <2>1, ClockHolds, ClockTransacts DEF Registers!Next
  <2>2. CASE Reset
    BY <2>2, ResetStep DEF Registers!Next
  <2>3. CASE UNCHANGED vars
    <3>1. UNCHANGED <<Mode, LoadedBytes, sel, strobe, addr, wdata, owed, event>>
      BY <2>3, NothingMoves DEF vars, hostVars, pinVars, regVars, Mode
    <3> QED BY <3>1 DEF Registers!vars, Mode
  <2> QED BY <2>1, <2>2, <2>3 DEF Next
<1> QED BY <1>1, <1>2, InvInit, InvStep, PTL DEF Spec, ImplementsRegisters, Registers!Spec

=============================================================================
