-------------------------------- MODULE Host --------------------------------
(***************************************************************************)
(* rtl/host.v, the register block, with rtl/ram.v behind its loader and the *)
(* host's pins in front of it.  A step is a clock edge, which samples the   *)
(* pins as they are, followed by whatever the host does with its pins       *)
(* before the next one, under the timing rules of host.v's header.          *)
(***************************************************************************)
EXTENDS Integers, Sequences

CONSTANTS
  RamWords,     \* words of the RAM, 256 in host.v and ram.v
  HostBytes,    \* what the host may write to each register
  MinHigh,      \* clocks a strobe is held up, 4
  MinLow,       \* clocks it is down between strobes and after a reset, 3
  Junk          \* what an unwritten word of the RAM reads as

ASSUME RamAssumption == RamWords \in 1 .. 256

ASSUME HostBytesAssumption == HostBytes \in [0 .. 3 -> SUBSET (0 .. 255)]

(* A strobe has its transaction on the third clock that sees it up.         *)
ASSUME StrobeAssumption == MinHigh \in Nat /\ MinHigh >= 3 /\ MinLow \in Nat \ {0}

RamWord == {n \in Nat : n < 256 * 256}

ASSUME JunkAssumption == Junk \in RamWord

TX_DATA == 0
RX_DATA == 1
STATUS  == 2
CONTROL == 3

VARIABLES
  strobe, addr, wdata,      \* the host's pins; strobe is "none", "we" or "re"
  edges,                    \* clocks that saw the strobe as it is, up to a bound
  we_sync, re_sync,
  sel, load_mode, ram_select, prog_addr, prog_words, prog_low, byte_phase,
  mem

pinVars == <<strobe, addr, wdata, edges>>

regVars == <<we_sync, re_sync, sel, load_mode, ram_select, prog_addr,
             prog_words, prog_low, byte_phase>>

hostVars == <<pinVars, regVars, mem>>

SyncState == [0 .. 2 -> BOOLEAN]

HostTypeOK ==
  /\ strobe \in {"none", "we", "re"}
  /\ addr \in 0 .. 3 /\ wdata \in 0 .. 255
  /\ edges \in Nat
  /\ we_sync \in SyncState /\ re_sync \in SyncState
  /\ sel \in 0 .. 15
  /\ load_mode \in BOOLEAN /\ ram_select \in BOOLEAN
  /\ prog_addr \in 0 .. RamWords - 1
  /\ prog_words \in 0 .. RamWords
  /\ prog_low \in 0 .. 255
  /\ byte_phase \in BOOLEAN
  /\ mem \in [0 .. RamWords - 1 -> RamWord]

-----------------------------------------------------------------------------
(* The wires.  A rise is the synchronized strobe against the clock before;  *)
(* everything else is decoded from the pins as they are on that clock.      *)

we == strobe = "we"

re == strobe = "re"

we_rise == we_sync[1] /\ ~we_sync[2]

re_rise == re_sync[1] /\ ~re_sync[2]

rom_cmd == wdata \div 16 = 0

run_ram_cmd == wdata = 16

load_cmd == wdata = 32

control_write == we_rise /\ addr = CONTROL

prog_byte == we_rise /\ addr = TX_DATA /\ load_mode

tx_push == we_rise /\ addr = TX_DATA /\ ~load_mode

rx_pop == re_rise /\ addr = RX_DATA

restart == control_write /\ (rom_cmd \/ run_ram_cmd \/ load_cmd)

prog_wdata == wdata * 256 + prog_low

prog_we == prog_byte /\ byte_phase /\ prog_words < RamWords

(* A loader that goes on counting once the RAM is full. *)
byte_taken_any == prog_byte

byte_taken == prog_byte /\ prog_words < RamWords

-----------------------------------------------------------------------------
HostInit ==
  /\ strobe = "none" /\ addr = TX_DATA /\ wdata = 0 /\ edges = 0
  /\ we_sync = [k \in 0 .. 2 |-> TRUE]
  /\ re_sync = [k \in 0 .. 2 |-> TRUE]
  /\ sel = 0
  /\ load_mode = FALSE /\ ram_select = FALSE
  /\ prog_addr = 0 /\ prog_words = 0 /\ prog_low = 0
  /\ byte_phase = FALSE
  /\ mem = [a \in 0 .. RamWords - 1 |-> Junk]

(* The RAM has no reset: a write enable that is up on a reset edge writes.  *)
RamEdge ==
  mem' = IF prog_we THEN [mem EXCEPT ![prog_addr] = prog_wdata] ELSE mem

Synced(s, pin) ==
  [k \in 0 .. 2 |-> IF k = 0 THEN pin ELSE s[k - 1]]

(* A command that leaves half a word behind for the next load or run.       *)
CommandKeepsPhase ==
  /\ sel' = IF rom_cmd THEN wdata % 16 ELSE sel
  /\ ram_select' = (~rom_cmd /\ (run_ram_cmd \/ load_cmd \/ ram_select))
  /\ load_mode' = (load_cmd \/ (load_mode /\ ~rom_cmd /\ ~run_ram_cmd))
  /\ prog_addr' = IF load_cmd THEN 0 ELSE prog_addr
  /\ prog_words' = IF load_cmd THEN 0 ELSE prog_words
  /\ UNCHANGED <<prog_low, byte_phase>>

Command ==
  /\ sel' = IF rom_cmd THEN wdata % 16 ELSE sel
  /\ ram_select' = (~rom_cmd /\ (run_ram_cmd \/ load_cmd \/ ram_select))
  /\ load_mode' = (load_cmd \/ (load_mode /\ ~rom_cmd /\ ~run_ram_cmd))
  /\ byte_phase' = (byte_phase /\ ~rom_cmd /\ ~run_ram_cmd /\ ~load_cmd)
  /\ prog_addr' = IF load_cmd THEN 0 ELSE prog_addr
  /\ prog_words' = IF load_cmd THEN 0 ELSE prog_words
  /\ prog_low' = IF load_cmd THEN 0 ELSE prog_low

ProgramByte ==
  /\ prog_low' = IF byte_phase THEN prog_low ELSE wdata
  /\ byte_phase' = ~byte_phase
  /\ prog_words' = IF byte_phase THEN prog_words + 1 ELSE prog_words
  /\ prog_addr' = IF byte_phase THEN (prog_addr + 1) % RamWords ELSE prog_addr
  /\ UNCHANGED <<sel, load_mode, ram_select>>

HostClock ==
  /\ we_sync' = Synced(we_sync, we)
  /\ re_sync' = Synced(re_sync, re)
  /\ \/ control_write /\ Command
     \/ byte_taken /\ ProgramByte
     \/ /\ ~control_write /\ ~byte_taken
        /\ UNCHANGED <<sel, load_mode, ram_select, prog_addr, prog_words, prog_low, byte_phase>>
  /\ RamEdge

HostReset ==
  /\ we_sync' = [k \in 0 .. 2 |-> TRUE]
  /\ re_sync' = [k \in 0 .. 2 |-> TRUE]
  /\ sel' = 0
  /\ load_mode' = FALSE /\ ram_select' = FALSE
  /\ prog_addr' = 0 /\ prog_words' = 0 /\ prog_low' = 0
  /\ byte_phase' = FALSE
  /\ RamEdge

(* The program bytes in the RAM, the one that waits for its other half too. *)
LoadedBytes ==
  [i \in 1 .. 2 * prog_words + (IF byte_phase THEN 1 ELSE 0) |->
     IF i > 2 * prog_words THEN prog_low
     ELSE IF i % 2 = 1 THEN mem[(i - 1) \div 2] % 256
                       ELSE mem[(i - 1) \div 2] \div 256]

-----------------------------------------------------------------------------
(* The host between two clocks.  A strobe has been as it is for long enough *)
(* when the edges that saw it so, this one included, reach the minimum;     *)
(* edges counts no further than it must for that.                           *)

Minimum == IF strobe = "none" THEN MinLow ELSE MinHigh

LongEnough == edges + 1 >= Minimum

Counted == IF LongEnough THEN edges ELSE edges + 1

PinsHold == UNCHANGED <<strobe, addr, wdata>>

PinsRise ==
  /\ strobe = "none" /\ LongEnough
  /\ strobe' \in {"we", "re"}
  /\ addr' \in TX_DATA .. CONTROL
  /\ IF strobe' = "re" THEN UNCHANGED wdata ELSE wdata' \in HostBytes[addr']
  /\ edges' = 0

PinsFall ==
  /\ strobe /= "none" /\ LongEnough
  /\ strobe' = "none"
  /\ UNCHANGED <<addr, wdata>>
  /\ edges' = 0

PinsMove == (PinsHold /\ edges' = Counted) \/ PinsRise \/ PinsFall

(* After a reset the host keeps a strobe that is down down for MinLow; one  *)
(* it held through the reset it may let go of whenever its time is up.      *)
PinsAtReset ==
  \/ PinsHold /\ edges' = IF strobe = "none" THEN 0 ELSE Counted
  \/ PinsFall
=============================================================================
