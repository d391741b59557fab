--------------------------- MODULE HostRegisters ---------------------------
(***************************************************************************)
(* What the host of a SmallCore is promised, register by register: a rise   *)
(* of a strobe is one transaction, made with the address and data the host  *)
(* holds on the pins, before the strobe may fall.  Nothing here says how    *)
(* many clocks a transaction takes or how a strobe is recognised.           *)
(***************************************************************************)
EXTENDS Integers, Sequences

CONSTANTS
  Slots,        \* the ROM's program slots
  RamWords      \* words of instruction RAM

VARIABLES
  strobe,       \* the strobe the host holds up: "none", "we" or "re"
  addr, wdata,  \* the pins that go with it
  owed,         \* the strobe up has not had its transaction
  mode,         \* what feeds the core: "rom", "ram", or nothing while "load"
  slot,         \* the ROM slot selected last
  bytes,        \* program bytes the RAM took since the last load command
  event         \* what the last clock asked of the FIFOs and the core

vars == <<strobe, addr, wdata, owed, mode, slot, bytes, event>>

Asks(push, pop, restart) == [push |-> push, pop |-> pop, restart |-> restart]

Quiet == Asks(FALSE, FALSE, FALSE)

Init ==
  /\ strobe = "none" /\ owed = FALSE
  /\ mode = "rom" /\ slot = 0 /\ bytes = <<>>
  /\ event = Quiet

(* Between transactions the host may raise a strobe, and may let go of one  *)
(* that has had its transaction.                                            *)
Hold ==
  /\ UNCHANGED <<mode, slot, bytes>>
  /\ event' = Quiet
  /\ \/ UNCHANGED <<strobe, addr, wdata, owed>>
     \/ strobe = "none" /\ strobe' \in {"we", "re"} /\ owed' = TRUE
     \/ ~owed /\ strobe' = "none" /\ UNCHANGED <<addr, wdata, owed>>

(* CONTROL: a slot number selects and restarts, 0x10 runs the RAM, 0x20     *)
(* begins a load; anything else is no command.                              *)
Control ==
  /\ event' = Asks(FALSE, FALSE, wdata \in Slots \cup {16, 32})
  /\ mode' = CASE wdata \in Slots -> "rom"
               [] wdata = 16 -> "ram"
               [] wdata = 32 -> "load"
               [] OTHER -> mode
  /\ slot' = IF wdata \in Slots THEN wdata ELSE slot
  /\ bytes' = IF wdata = 32 THEN <<>>
              ELSE IF wdata \in Slots \cup {16}
                THEN SubSeq(bytes, 1, 2 * (Len(bytes) \div 2)) ELSE bytes

(* TX_DATA: a program byte while loading, a byte to the core otherwise.     *)
Data ==
  /\ event' = Asks(mode /= "load", FALSE, FALSE)
  /\ bytes' = IF mode = "load" /\ Len(bytes) < 2 * RamWords
                THEN Append(bytes, wdata) ELSE bytes
  /\ UNCHANGED <<mode, slot>>

Transact ==
  /\ owed /\ owed' = FALSE
  /\ \/ strobe = "we" /\ addr = 3 /\ Control
     \/ strobe = "we" /\ addr = 0 /\ Data
     \/ /\ strobe = "re" \/ addr \notin {0, 3}
        /\ event' = Asks(FALSE, strobe = "re" /\ addr = 1, FALSE)
        /\ UNCHANGED <<mode, slot, bytes>>
  /\ strobe' \in {strobe, "none"}
  /\ UNCHANGED <<addr, wdata>>

(* A reset also drops the transaction of a strobe it finds up.              *)
Reset ==
  /\ mode' = "rom" /\ slot' = 0 /\ bytes' = <<>>
  /\ event' = Quiet
  /\ owed' = FALSE
  /\ strobe' \in {strobe, "none"}
  /\ UNCHANGED <<addr, wdata>>

Next == Hold \/ Transact \/ Reset

Spec == Init /\ [][Next]_vars

=============================================================================
