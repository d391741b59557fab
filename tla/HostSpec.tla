------------------------------ MODULE HostSpec ------------------------------
(***************************************************************************)
(* The register block on its own, against what the host is promised         *)
(* (HostRegisters): every strobe is exactly one transaction, with the pins  *)
(* the host held, and the RAM holds what was sent.                          *)
(***************************************************************************)
EXTENDS Host

VARIABLES
  owed,     \* history: the strobe that is up has not had its transaction
  event     \* history: what the last clock asked of the FIFOs and the core

vars == <<hostVars, owed, event>>

Quiet == [push |-> FALSE, pop |-> FALSE, restart |-> FALSE]

Init == HostInit /\ owed = FALSE /\ event = Quiet

Clock ==
  /\ HostClock
  /\ PinsMove
  /\ event' = [push |-> tx_push, pop |-> rx_pop, restart |-> restart]
  /\ owed' = (strobe' /= "none" /\ (strobe = "none" \/ (owed /\ ~we_rise /\ ~re_rise)))

(* A reset drops the transaction of a strobe it finds up. *)
Reset ==
  /\ HostReset
  /\ PinsAtReset
  /\ event' = Quiet
  /\ owed' = FALSE

Next == Clock \/ Reset

Spec == Init /\ [][Next]_vars

Registers == INSTANCE HostRegisters
               WITH Slots <- 0 .. 15,
                    mode  <- IF load_mode THEN "load" ELSE IF ram_select THEN "ram" ELSE "rom",
                    slot  <- sel,
                    bytes <- LoadedBytes

(* A strobe that obeys the timing rules makes exactly one transaction, while *)
(* it is still up, at whatever clock it rises and however long it is held;   *)
(* one held through a reset makes none.  And what the RAM holds is what was  *)
(* sent since the load command, low byte first, up to its size and no more.  *)
ImplementsRegisters == Registers!Spec

-----------------------------------------------------------------------------
(* What the run sends: commands of each kind and a byte that is none;       *)
(* program bytes of which a word's halves can be told apart.  Its RAM has   *)
(* two words, so that a load overruns it.                                   *)
MCHostBytes == [a \in 0 .. 3 |-> CASE a = CONTROL -> {1, 16, 32, 64}
                                   [] a = TX_DATA -> {1, 32}
                                   [] OTHER -> {32}]

=============================================================================
