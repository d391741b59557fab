----------------------------- MODULE HostLemmas -----------------------------
(***************************************************************************)
(* What the register block keeps true on every clock, whatever the host and *)
(* the core do: the widths of its registers, how far a strobe has come      *)
(* through its synchronizer, and where the loader stands; and what a clock  *)
(* makes of the program bytes in the RAM.                                   *)
(***************************************************************************)
EXTENDS Host, SequenceTheorems, TLAPS

Octet == 0 .. 255

High(s) == s[0] /\ s[1] /\ s[2]

(* A strobe that is up is on its way in, in step with the clocks that saw   *)
(* it, or has been seen throughout; one that is down leaves the first       *)
(* stages first.                                                            *)
Rising(s) ==
  \/ edges = 0 /\ ~s[0] /\ (s[1] => s[2])
  \/ edges = 1 /\ s[0] /\ ~s[1]
  \/ edges = 2 /\ s[0] /\ s[1] /\ ~s[2]

Seen(s, pin) ==
  /\ ~pin => (s[0] => s[1]) /\ (s[1] => s[2])
  /\ pin => High(s) \/ Rising(s)

Strobes == Seen(we_sync, we) /\ Seen(re_sync, re)

(* The loader's address follows its count, and half a word waits only while *)
(* there is room for the other half.                                        *)
Loader ==
  /\ prog_addr = IF prog_words = RamWords THEN 0 ELSE prog_words
  /\ byte_phase => prog_words < RamWords

-----------------------------------------------------------------------------
(* The types. *)

LEMMA SyncedType ==
  ASSUME NEW s \in SyncState, NEW pin \in BOOLEAN
  PROVE  /\ Synced(s, pin) \in SyncState
         /\ Synced(s, pin)[0] <=> pin
         /\ Synced(s, pin)[1] <=> s[0]
         /\ Synced(s, pin)[2] <=> s[1]
BY DEF Synced, SyncState

LEMMA HighType == [k \in 0 .. 2 |-> TRUE] \in SyncState
BY DEF SyncState

LEMMA WordOfBytes ==
  ASSUME NEW b \in 0 .. 255, NEW l \in 0 .. 255
  PROVE  b * 256 + l \in RamWord
BY DEF RamWord

LEMMA RamType ==
  ASSUME HostTypeOK, RamEdge
  PROVE  mem' \in [0 .. RamWords - 1 -> RamWord]
<1>1. wdata \in 0 .. 255 /\ prog_low \in 0 .. 255 /\ mem \in [0 .. RamWords - 1 -> RamWord]
  BY DEF HostTypeOK
<1>2. prog_wdata \in RamWord
  BY <1>1, WordOfBytes DEF prog_wdata
<1> QED BY <1>1, <1>2 DEF RamEdge

LEMMA PinTypes ==
  ASSUME HostTypeOK, PinsMove \/ PinsAtReset
  PROVE  strobe' \in {"none", "we", "re"} /\ addr' \in 0 .. 3 /\ wdata' \in 0 .. 255 /\ edges' \in Nat
<1>1. Counted \in Nat
  BY StrobeAssumption DEF HostTypeOK, Counted
<1>2. CASE PinsHold /\ edges' \in {0, Counted}
  BY <1>1, <1>2 DEF PinsHold, HostTypeOK
<1>3. CASE PinsRise
  <2>1. addr' \in 0 .. 3 /\ edges' = 0 /\ strobe' \in {"we", "re"}
    BY <1>3 DEF PinsRise, TX_DATA, CONTROL
  <2>2. HostBytes[addr'] \subseteq 0 .. 255
    BY <2>1, HostBytesAssumption
  <2>3. wdata' = wdata \/ wdata' \in HostBytes[addr']
    BY <1>3 DEF PinsRise
  <2> QED BY <2>1, <2>2, <2>3 DEF HostTypeOK
<1>4. CASE PinsFall
  BY <1>4 DEF PinsFall, HostTypeOK
<1> QED BY <1>2, <1>3, <1>4 DEF PinsMove, PinsAtReset

LEMMA RegisterTypes ==
  ASSUME HostTypeOK, HostClock \/ HostReset
  PROVE  /\ mem' \in [0 .. RamWords - 1 -> RamWord]
         /\ we_sync' \in SyncState /\ re_sync' \in SyncState
         /\ sel' \in 0 .. 15 /\ load_mode' \in BOOLEAN /\ ram_select' \in BOOLEAN
         /\ prog_addr' \in 0 .. RamWords - 1 /\ prog_words' \in 0 .. RamWords
         /\ prog_low' \in 0 .. 255 /\ byte_phase' \in BOOLEAN
<1>1. mem' \in [0 .. RamWords - 1 -> RamWord]
  BY RamType DEF HostClock, HostReset
<1>2. we_sync' \in SyncState /\ re_sync' \in SyncState
  <2>1. we \in BOOLEAN /\ re \in BOOLEAN
    BY DEF we, re
  <2>2. we_sync \in SyncState /\ re_sync \in SyncState
    BY DEF HostTypeOK
  <2>3. CASE HostClock
    BY <2>1, <2>2, <2>3, SyncedType DEF HostClock
  <2>4. CASE HostReset
    BY <2>4, HighType DEF HostReset
  <2> QED BY <2>3, <2>4
<1>3. /\ sel' \in 0 .. 15 /\ load_mode' \in BOOLEAN /\ ram_select' \in BOOLEAN
      /\ prog_addr' \in 0 .. RamWords - 1 /\ prog_words' \in 0 .. RamWords
      /\ prog_low' \in 0 .. 255 /\ byte_phase' \in BOOLEAN
  <2>1. /\ sel \in 0 .. 15 /\ load_mode \in BOOLEAN /\ ram_select \in BOOLEAN
        /\ prog_addr \in 0 .. RamWords - 1 /\ prog_words \in 0 .. RamWords
        /\ prog_low \in 0 .. 255 /\ byte_phase \in BOOLEAN /\ wdata \in 0 .. 255
        /\ RamWords \in 1 .. 256
    BY RamAssumption DEF HostTypeOK
  <2>2. CASE HostReset
    <3>1. 0 \in 0 .. 15 /\ 0 \in 0 .. RamWords - 1 /\ 0 \in 0 .. RamWords /\ 0 \in 0 .. 255
      BY <2>1
    <3> QED BY <2>2, <3>1 DEF HostReset
  <2>3. CASE Command
    <3>1. wdata % 16 \in 0 .. 15
      BY <2>1
    <3>2. sel' \in 0 .. 15 /\ prog_addr' \in 0 .. RamWords - 1 /\ prog_words' \in 0 .. RamWords
          /\ prog_low' \in 0 .. 255
      BY <2>1, <2>3, <3>1 DEF Command
    <3>3. load_mode' \in BOOLEAN /\ ram_select' \in BOOLEAN /\ byte_phase' \in BOOLEAN
      BY <2>3 DEF Command
    <3> QED BY <3>2, <3>3
  <2>4. CASE byte_taken /\ ProgramByte
    <3>1. prog_words < RamWords
      BY <2>4 DEF byte_taken
    <3>2. (prog_addr + 1) % RamWords \in 0 .. RamWords - 1
      BY <2>1
    <3>3. prog_addr' \in 0 .. RamWords - 1 /\ prog_words' \in 0 .. RamWords
          /\ prog_low' \in 0 .. 255 /\ UNCHANGED <<sel, load_mode, ram_select>>
      BY <2>1, <2>4, <3>1, <3>2 DEF ProgramByte
    <3>4. byte_phase' \in BOOLEAN
      BY <2>4 DEF ProgramByte
    <3> QED BY <2>1, <3>3, <3>4
  <2>5. CASE UNCHANGED <<sel, load_mode, ram_select, prog_addr, prog_words, prog_low, byte_phase>>
    BY <2>1, <2>5
  <2> QED BY <2>2, <2>3, <2>4, <2>5 DEF HostClock
<1> QED BY <1>1, <1>2, <1>3

LEMMA TypesStep ==
  ASSUME HostTypeOK, (HostClock /\ PinsMove) \/ (HostReset /\ PinsAtReset)
  PROVE  HostTypeOK'
BY PinTypes, RegisterTypes DEF HostTypeOK

LEMMA InitTypes == HostInit => HostTypeOK
<1>1. 0 \in 0 .. RamWords - 1 /\ 0 \in 0 .. RamWords
  BY RamAssumption
<1> SUFFICES ASSUME HostInit PROVE HostTypeOK
  OBVIOUS
<1>2. /\ strobe = "none" /\ addr = 0 /\ wdata = 0 /\ edges = 0
      /\ sel = 0 /\ prog_addr = 0 /\ prog_words = 0 /\ prog_low = 0
      /\ load_mode = FALSE /\ ram_select = FALSE /\ byte_phase = FALSE
      /\ we_sync \in SyncState /\ re_sync \in SyncState
  BY HighType DEF HostInit, TX_DATA
<1>3. mem \in [0 .. RamWords - 1 -> RamWord]
  BY JunkAssumption DEF HostInit
<1>4. load_mode \in BOOLEAN /\ ram_select \in BOOLEAN /\ byte_phase \in BOOLEAN
  BY <1>2
<1>5. /\ strobe \in {"none", "we", "re"} /\ addr \in 0 .. 3 /\ wdata \in 0 .. 255 /\ edges \in Nat
      /\ sel \in 0 .. 15 /\ prog_low \in 0 .. 255
      /\ prog_addr \in 0 .. RamWords - 1 /\ prog_words \in 0 .. RamWords
  BY <1>1, <1>2
<1> QED BY <1>2, <1>3, <1>4, <1>5 DEF HostTypeOK

-----------------------------------------------------------------------------
(* The strobes. *)

(* The pins on a clock: down and still or rising, up and still or, once it  *)
(* has been up for long enough, falling.                                    *)
LEMMA PinCases ==
  ASSUME HostTypeOK, PinsMove
  PROVE  \/ strobe = "none" /\ UNCHANGED <<strobe, addr, wdata>>
         \/ strobe = "none" /\ strobe' \in {"we", "re"} /\ edges' = 0
         \/ /\ strobe /= "none" /\ UNCHANGED <<strobe, addr, wdata>>
            /\ edges' = IF edges + 1 >= MinHigh THEN edges ELSE edges + 1
         \/ /\ strobe /= "none" /\ strobe' = "none" /\ edges + 1 >= MinHigh
            /\ UNCHANGED <<addr, wdata>>
<1>1. strobe /= "none" => Minimum = MinHigh
  BY DEF Minimum
<1> QED BY <1>1 DEF PinsMove, PinsHold, PinsRise, PinsFall, Counted, LongEnough

(* Only a strobe that is up has a rise, on the third clock that sees it.    *)
LEMMA Rises ==
  ASSUME HostTypeOK, Strobes
  PROVE  /\ we_rise <=> we /\ edges = 2 /\ ~High(we_sync)
         /\ re_rise <=> re /\ edges = 2 /\ ~High(re_sync)
<1>1. ~ (edges = 2 /\ edges = 1) /\ ~ (edges = 2 /\ edges = 0)
  OBVIOUS
<1> QED BY <1>1, Zenon DEF Strobes, Seen, High, Rising, we_rise, re_rise

(* A synchronizer over a clock, pin being what it samples.                  *)
LEMMA SeenStep ==
  ASSUME HostTypeOK, PinsMove, NEW s \in SyncState, NEW pin \in BOOLEAN,
         NEW pinNext \in BOOLEAN, Seen(s, pin),
         pin => strobe /= "none",
         strobe /= "none" /\ strobe' = strobe => (pinNext <=> pin),
         pinNext => strobe' /= "none"
  PROVE  LET t == Synced(s, pin)
         IN  /\ ~pinNext => (t[0] => t[1]) /\ (t[1] => t[2])
             /\ pinNext => \/ High(t)
                           \/ edges' = 0 /\ ~t[0] /\ (t[1] => t[2])
                           \/ edges' = 1 /\ t[0] /\ ~t[1]
                           \/ edges' = 2 /\ t[0] /\ t[1] /\ ~t[2]
<1> DEFINE t == Synced(s, pin)
<1> SUFFICES /\ ~pinNext => (t[0] => t[1]) /\ (t[1] => t[2])
             /\ pinNext => \/ High(t)
                           \/ edges' = 0 /\ ~t[0] /\ (t[1] => t[2])
                           \/ edges' = 1 /\ t[0] /\ ~t[1]
                           \/ edges' = 2 /\ t[0] /\ t[1] /\ ~t[2]
  OBVIOUS
<1>1. (t[0] <=> pin) /\ (t[1] <=> s[0]) /\ (t[2] <=> s[1])
  BY SyncedType
<1> HIDE DEF t
<1>2. CASE strobe = "none" /\ strobe' = "none"
  BY <1>1, <1>2, Zenon DEF Seen
<1>3. CASE strobe = "none" /\ strobe' /= "none"
  <2>1. edges' = 0
    BY <1>3, PinCases
  <2>2. ~t[0] /\ (t[1] => t[2])
    BY <1>1, <1>3, Zenon DEF Seen
  <2> QED BY <2>1, <2>2
<1>4. CASE strobe /= "none" /\ strobe' = strobe
  <2>1. edges' = IF edges + 1 >= MinHigh THEN edges ELSE edges + 1
    BY <1>4, PinCases
  <2>2. CASE ~pin
    BY <1>1, <1>4, <2>2, Zenon DEF Seen
  <2>3. CASE pin /\ High(s)
    BY <1>1, <1>4, <2>3, Zenon DEF High
  <2>4. CASE pin /\ edges = 0 /\ ~s[0]
    <3>1. edges' = 1
      BY <2>1, <2>4, StrobeAssumption
    <3> QED BY <1>1, <1>4, <2>4, <3>1, Zenon
  <2>5. CASE pin /\ edges = 1 /\ s[0] /\ ~s[1]
    <3>1. edges' = 2
      BY <2>1, <2>5, StrobeAssumption
    <3> QED BY <1>1, <1>4, <2>5, <3>1, Zenon
  <2>6. CASE pin /\ s[0] /\ s[1]
    BY <1>1, <1>4, <2>6, Zenon DEF High
  <2> QED BY <2>2, <2>3, <2>4, <2>5, <2>6, Zenon DEF Seen, Rising
<1>5. CASE strobe /= "none" /\ strobe' = "none"
  <2>1. edges + 1 >= MinHigh
    BY <1>5, PinCases
  <2>2. edges /= 0 /\ edges /= 1
    BY <2>1, StrobeAssumption
  <2>3. pin => s[0] /\ s[1]
    BY <2>2, Zenon DEF Seen, High, Rising
  <2> QED BY <1>1, <1>5, <2>3, Zenon DEF Seen
<1>6. strobe = "none" \/ strobe' = strobe \/ strobe' = "none"
  BY PinCases
<1> QED BY <1>2, <1>3, <1>4, <1>5, <1>6, Zenon

LEMMA StrobesStep ==
  ASSUME HostTypeOK, Strobes, (HostClock /\ PinsMove) \/ HostReset
  PROVE  Strobes'
<1>1. CASE HostClock /\ PinsMove
  <2>1. we_sync' = Synced(we_sync, we) /\ re_sync' = Synced(re_sync, re)
    BY <1>1 DEF HostClock
  <2>2. /\ we \in BOOLEAN /\ re \in BOOLEAN /\ we' \in BOOLEAN /\ re' \in BOOLEAN
        /\ we => strobe /= "none"
        /\ re => strobe /= "none"
        /\ we' => strobe' /= "none"
        /\ re' => strobe' /= "none"
        /\ strobe' = strobe => (we' <=> we) /\ (re' <=> re)
    BY DEF we, re
  <2>3. we_sync \in SyncState /\ re_sync \in SyncState /\ Seen(we_sync, we) /\ Seen(re_sync, re)
    BY DEF HostTypeOK, Strobes
  <2>4. Seen(we_sync, we)'
    BY <1>1, <2>1, <2>2, <2>3, SeenStep DEF Seen, Rising
  <2>5. Seen(re_sync, re)'
    BY <1>1, <2>1, <2>2, <2>3, SeenStep DEF Seen, Rising
  <2> QED BY <2>4, <2>5 DEF Strobes
<1>2. CASE HostReset
  <2>1. High(we_sync)' /\ High(re_sync)'
    BY <1>2 DEF HostReset, High
  <2> QED BY <2>1, Zenon DEF Strobes, Seen, High
<1> QED BY <1>1, <1>2

LEMMA InitStrobes == HostInit => Strobes /\ High(we_sync) /\ High(re_sync)
<1> SUFFICES ASSUME HostInit PROVE Strobes /\ High(we_sync) /\ High(re_sync)
  OBVIOUS
<1>1. High(we_sync) /\ High(re_sync)
  BY DEF HostInit, High
<1>2. Strobes
  BY <1>1, Zenon DEF Strobes, Seen, High
<1> QED BY <1>1, <1>2

-----------------------------------------------------------------------------
LEMMA LoaderStep ==
  ASSUME HostTypeOK, Loader, HostClock \/ HostReset
  PROVE  Loader'
<1>1. /\ RamWords \in 1 .. 256 /\ prog_addr \in 0 .. RamWords - 1 /\ prog_words \in 0 .. RamWords
      /\ prog_addr = IF prog_words = RamWords THEN 0 ELSE prog_words
      /\ byte_phase => prog_words < RamWords
  BY RamAssumption DEF HostTypeOK, Loader
<1>2. CASE HostReset
  BY <1>1, <1>2 DEF HostReset, Loader
<1>3. CASE Command
  <2>1. \/ prog_addr' = 0 /\ prog_words' = 0
        \/ prog_addr' = prog_addr /\ prog_words' = prog_words
    BY <1>3 DEF Command
  <2>2. byte_phase' => byte_phase /\ prog_words' = prog_words
    BY <1>3 DEF Command
  <2>3. prog_addr' = IF prog_words' = RamWords THEN 0 ELSE prog_words'
    BY <1>1, <2>1
  <2> QED BY <1>1, <2>2, <2>3 DEF Loader
<1>4. CASE byte_taken /\ ProgramByte
  <2>1. prog_words < RamWords
    BY <1>4 DEF byte_taken
  <2>2. CASE byte_phase
    <3>1. prog_words' = prog_words + 1 /\ prog_addr' = (prog_addr + 1) % RamWords /\ ~byte_phase'
      BY <1>4, <2>2 DEF ProgramByte
    <3>2. prog_addr' = IF prog_words' = RamWords THEN 0 ELSE prog_words'
      BY <1>1, <2>1, <3>1
    <3> QED BY <3>1, <3>2 DEF Loader
  <2>3. CASE ~byte_phase
    <3>1. prog_words' = prog_words /\ prog_addr' = prog_addr
      BY <1>4, <2>3 DEF ProgramByte
    <3> QED BY <1>1, <2>1, <3>1 DEF Loader
  <2> QED BY <2>2, <2>3
<1>5. CASE UNCHANGED <<sel, load_mode, ram_select, prog_addr, prog_words, prog_low, byte_phase>>
  BY <1>5 DEF Loader
<1> QED BY <1>2, <1>3, <1>4, <1>5 DEF HostClock

LEMMA InitLoader == HostInit => Loader
BY RamAssumption DEF HostInit, Loader

-----------------------------------------------------------------------------
(* What the RAM holds, as the sequence of the bytes it was sent. *)

(* The i-th byte of a memory, low byte of a word first.                     *)
Half(m, i) == IF i % 2 = 1 THEN m[(i - 1) \div 2] % 256 ELSE m[(i - 1) \div 2] \div 256

(* LoadedBytes of a RAM m with w words, and p bytes, none or l, waiting.    *)
Bytes(m, w, l, p) == [i \in 1 .. 2 * w + p |-> IF i > 2 * w THEN l ELSE Half(m, i)]

LEMMA LoadedIs ==
  /\ LoadedBytes = Bytes(mem, prog_words, prog_low, IF byte_phase THEN 1 ELSE 0)
  /\ LoadedBytes' = Bytes(mem', prog_words', prog_low', IF byte_phase' THEN 1 ELSE 0)
BY DEF LoadedBytes, Bytes, Half

LEMMA BytesOfWord ==
  ASSUME NEW w \in RamWord
  PROVE  w % 256 \in Octet /\ w \div 256 \in Octet
BY DEF RamWord, Octet

LEMMA WordOfItsBytes ==
  ASSUME NEW b \in Octet, NEW l \in Octet
  PROVE  (b * 256 + l) % 256 = l /\ (b * 256 + l) \div 256 = b
BY DEF Octet

LEMMA HalfType ==
  ASSUME NEW m \in [0 .. RamWords - 1 -> RamWord], NEW w \in 0 .. RamWords, NEW i \in 1 .. 2 * w
  PROVE  (i - 1) \div 2 \in 0 .. w - 1 /\ Half(m, i) \in Octet
<1>1. (i - 1) \div 2 \in 0 .. w - 1 /\ RamWords \in 1 .. 256
  BY RamAssumption
<1>2. m[(i - 1) \div 2] \in RamWord
  BY <1>1
<1> QED BY <1>1, <1>2, BytesOfWord DEF Half

LEMMA BytesIsSeq ==
  ASSUME NEW m \in [0 .. RamWords - 1 -> RamWord], NEW w \in 0 .. RamWords,
         NEW l \in Octet, NEW p \in 0 .. 1
  PROVE  /\ 2 * w + p \in Nat
         /\ Bytes(m, w, l, p) \in Seq(Octet)
         /\ Len(Bytes(m, w, l, p)) = 2 * w + p
         /\ \A i \in 1 .. 2 * w + p : i <= 2 * w => Bytes(m, w, l, p)[i] = Half(m, i)
         /\ \A i \in 1 .. 2 * w + p : i > 2 * w => Bytes(m, w, l, p)[i] = l
<1>1. RamWords \in 1 .. 256
  BY RamAssumption
<1>2. 2 * w + p \in Nat
  BY <1>1
<1>3. \A i \in 1 .. 2 * w + p : (IF i > 2 * w THEN l ELSE Half(m, i)) \in Octet
  <2> TAKE i \in 1 .. 2 * w + p
  <2>1. i <= 2 * w => i \in 1 .. 2 * w
    BY <1>1, <1>2
  <2>2. i <= 2 * w \/ i > 2 * w
    BY <1>1, <1>2
  <2> QED BY <1>1, <2>1, <2>2, HalfType
<1>4. Bytes(m, w, l, p) \in [1 .. 2 * w + p -> Octet]
  BY <1>3 DEF Bytes
<1>5. \A i \in 1 .. 2 * w + p : Bytes(m, w, l, p)[i] = IF i > 2 * w THEN l ELSE Half(m, i)
  BY DEF Bytes
<1>6. \A i \in 1 .. 2 * w + p : i <= 2 * w => ~ (i > 2 * w)
  BY <1>1, <1>2
<1>7. Bytes(m, w, l, p) \in Seq(Octet) /\ Len(Bytes(m, w, l, p)) = 2 * w + p
  BY <1>2, <1>4, SeqDef
<1> QED BY <1>2, <1>5, <1>6, <1>7

AreBytes(s, m, w, l, p) ==
  /\ s \in Seq(Octet) /\ Len(s) = 2 * w + p
  /\ \A i \in 1 .. 2 * w + p : i <= 2 * w => s[i] = Half(m, i)
  /\ \A i \in 1 .. 2 * w + p : i > 2 * w => s[i] = l

LEMMA BytesAre ==
  \A m \in [0 .. RamWords - 1 -> RamWord], w \in 0 .. RamWords, l \in Octet, p \in 0 .. 1 :
    AreBytes(Bytes(m, w, l, p), m, w, l, p)
<1> TAKE m \in [0 .. RamWords - 1 -> RamWord], w \in 0 .. RamWords, l \in Octet, p \in 0 .. 1
<1>1. /\ Bytes(m, w, l, p) \in Seq(Octet) /\ Len(Bytes(m, w, l, p)) = 2 * w + p
      /\ \A i \in 1 .. 2 * w + p : i <= 2 * w => Bytes(m, w, l, p)[i] = Half(m, i)
      /\ \A i \in 1 .. 2 * w + p : i > 2 * w => Bytes(m, w, l, p)[i] = l
  BY BytesIsSeq, Zenon
<1> QED BY <1>1, Zenon DEF AreBytes

(* The first byte of a word waits; the second completes it in the RAM.      *)
LEMMA LowByte ==
  ASSUME NEW m \in [0 .. RamWords - 1 -> RamWord], NEW w \in 0 .. RamWords,
         NEW l \in Octet, NEW b \in Octet
  PROVE  Bytes(m, w, b, 1) = Append(Bytes(m, w, l, 0), b)
<1> DEFINE s == Bytes(m, w, l, 0)
           t == Bytes(m, w, b, 1)
<1>1. RamWords \in 1 .. 256
  BY RamAssumption
<1>2. 2 * w + 0 = 2 * w
  BY <1>1
<1>3. /\ s \in Seq(Octet) /\ Len(s) = 2 * w /\ (\A i \in 1 .. 2 * w : i <= 2 * w => s[i] = Half(m, i))
      /\ t \in Seq(Octet) /\ Len(t) = 2 * w + 1
      /\ (\A i \in 1 .. 2 * w + 1 : i <= 2 * w => t[i] = Half(m, i))
      /\ (\A i \in 1 .. 2 * w + 1 : i > 2 * w => t[i] = b)
  BY <1>2, BytesIsSeq
<1> HIDE DEF s, t
<1>4. /\ Append(s, b) \in Seq(Octet) /\ Len(Append(s, b)) = 2 * w + 1
      /\ \A i \in 1 .. 2 * w : Append(s, b)[i] = s[i]
      /\ Append(s, b)[2 * w + 1] = b
  BY <1>3, AppendProperties
<1>5. \A i \in 1 .. 2 * w + 1 : t[i] = Append(s, b)[i]
  <2> TAKE i \in 1 .. 2 * w + 1
  <2>1. CASE i = 2 * w + 1
    BY <1>1, <1>3, <1>4, <2>1
  <2>2. CASE i \in 1 .. 2 * w
    BY <1>1, <1>3, <1>4, <2>2
  <2> QED BY <1>1, <2>1, <2>2
<1>6. t = Append(s, b)
  BY <1>3, <1>4, <1>5, SeqEqual
<1> QED BY <1>6 DEF s, t

(* A memory n that is m but for a word. *)
Stores(n, m, w, word) ==
  n[w] = word /\ \A k \in 0 .. RamWords - 1 : k /= w => n[k] = m[k]

LEMMA HighByte ==
  ASSUME NEW m \in [0 .. RamWords - 1 -> RamWord], NEW w \in 0 .. RamWords - 1,
         NEW l \in Octet, NEW b \in Octet,
         NEW n \in [0 .. RamWords - 1 -> RamWord], Stores(n, m, w, b * 256 + l)
  PROVE  Bytes(n, w + 1, l, 0) = Append(Bytes(m, w, l, 1), b)
<1> DEFINE s == Bytes(m, w, l, 1)
           v == w + 1
           t == Bytes(n, v, l, 0)
<1>1. /\ RamWords \in 1 .. 256 /\ w \in 0 .. RamWords
      /\ v \in 0 .. RamWords /\ 2 * v + 0 = 2 * w + 2
  BY RamAssumption
<1>2. 0 \in 0 .. 1 /\ 1 \in 0 .. 1
  OBVIOUS
<1>3. AreBytes(s, m, w, l, 1) /\ AreBytes(t, n, v, l, 0)
  BY <1>1, <1>2, BytesAre, Zenon
<1> HIDE DEF s, t, v
<1>5. /\ s \in Seq(Octet) /\ Len(s) = 2 * w + 1
      /\ (\A i \in 1 .. 2 * w + 1 : i <= 2 * w => s[i] = Half(m, i))
      /\ (\A i \in 1 .. 2 * w + 1 : i > 2 * w => s[i] = l)
  BY <1>3, Zenon DEF AreBytes
<1>6. /\ t \in Seq(Octet) /\ Len(t) = 2 * v + 0
      /\ \A i \in 1 .. 2 * v + 0 : i <= 2 * v => t[i] = Half(n, i)
  BY <1>3, Zenon DEF AreBytes
<1>7. \A i \in 1 .. 2 * w + 2 : i \in 1 .. 2 * v + 0 /\ i <= 2 * v
  BY <1>1
<1>8. /\ Append(s, b) \in Seq(Octet) /\ Len(Append(s, b)) = 2 * w + 2
      /\ \A i \in 1 .. 2 * w + 1 : Append(s, b)[i] = s[i]
      /\ Append(s, b)[2 * w + 2] = b
  <2>1. Len(s) + 1 = 2 * w + 2
    BY <1>1, <1>5
  <2> QED BY <1>5, <2>1, AppendProperties
<1>9. n[w] % 256 = l /\ n[w] \div 256 = b
  BY WordOfItsBytes DEF Stores
<1>10. \A i \in 1 .. 2 * w + 2 : t[i] = Append(s, b)[i]
  <2> TAKE i \in 1 .. 2 * w + 2
  <2>1. t[i] = Half(n, i)
    BY <1>6, <1>7, Zenon
  <2>2. CASE i = 2 * w + 2
    <3>1. (i - 1) \div 2 = w /\ i % 2 = 0
      BY <1>1, <2>2
    <3> QED BY <1>8, <1>9, <2>1, <2>2, <3>1 DEF Half
  <2>3. CASE i = 2 * w + 1
    <3>1. (i - 1) \div 2 = w /\ i % 2 = 1
      BY <1>1, <2>3
    <3>2. s[i] = l /\ Append(s, b)[i] = s[i]
      BY <1>1, <1>5, <1>8, <2>3
    <3> QED BY <1>9, <2>1, <3>1, <3>2 DEF Half
  <2>4. CASE i \in 1 .. 2 * w
    <3>1. (i - 1) \div 2 \in 0 .. RamWords - 1 /\ (i - 1) \div 2 /= w
      BY <1>1, <2>4
    <3>2. n[(i - 1) \div 2] = m[(i - 1) \div 2]
      BY <3>1 DEF Stores
    <3>3. s[i] = Half(m, i) /\ Append(s, b)[i] = s[i]
      BY <1>1, <1>5, <1>8, <2>4
    <3> QED BY <2>1, <3>2, <3>3 DEF Half
  <2>5. i = 2 * w + 2 \/ i = 2 * w + 1 \/ i \in 1 .. 2 * w
    BY <1>1
  <2> QED BY <2>2, <2>3, <2>4, <2>5, Zenon
<1>11. t = Append(s, b)
  BY <1>1, <1>6, <1>8, <1>10, SeqEqual
<1> QED BY <1>11 DEF s, t, v

(* A program byte that the RAM takes comes after those it has.              *)
LEMMA ByteIsAppended ==
  ASSUME HostTypeOK, Loader, byte_taken, ProgramByte, RamEdge
  PROVE  LoadedBytes' = Append(LoadedBytes, wdata)
<1>1. /\ prog_words \in 0 .. RamWords - 1 /\ prog_words \in 0 .. RamWords /\ prog_addr = prog_words
      /\ wdata \in Octet /\ prog_low \in Octet /\ mem \in [0 .. RamWords - 1 -> RamWord]
  BY RamAssumption DEF HostTypeOK, Loader, byte_taken, Octet
<1>2. CASE ~byte_phase
  <2>1. prog_words' = prog_words /\ prog_low' = wdata
    BY <1>2 DEF ProgramByte
  <2>2. mem' = mem
    BY <1>2 DEF RamEdge, prog_we
  <2>3. /\ LoadedBytes = Bytes(mem, prog_words, prog_low, 0)
        /\ LoadedBytes' = Bytes(mem', prog_words', prog_low', 1)
    BY <1>2, LoadedIs DEF ProgramByte
  <2> QED BY <1>1, <2>1, <2>2, <2>3, LowByte
<1>3. CASE byte_phase
  <2>1. prog_words' = prog_words + 1 /\ prog_low' = prog_low
    BY <1>3 DEF ProgramByte
  <2>2. mem' = [mem EXCEPT ![prog_words] = wdata * 256 + prog_low]
    <3>1. prog_we
      BY <1>3 DEF prog_we, byte_taken
    <3> QED BY <1>1, <3>1 DEF RamEdge, prog_wdata
  <2>3. /\ LoadedBytes = Bytes(mem, prog_words, prog_low, 1)
        /\ LoadedBytes' = Bytes(mem', prog_words', prog_low', 0)
    BY <1>3, LoadedIs DEF ProgramByte
  <2>4. mem' \in [0 .. RamWords - 1 -> RamWord]
    BY RamType
  <2>5. Stores(mem', mem, prog_words, wdata * 256 + prog_low)
    BY <1>1, <2>2 DEF Stores
  <2>6. Bytes(mem', prog_words + 1, prog_low, 0) = Append(Bytes(mem, prog_words, prog_low, 1), wdata)
    BY <1>1, <2>4, <2>5, HighByte
  <2> QED BY <2>1, <2>3, <2>6
<1> QED BY <1>2, <1>3

(* A command leaves whole words, or none.                                   *)
LEMMA WholeWords ==
  ASSUME NEW m \in [0 .. RamWords - 1 -> RamWord], NEW w \in 0 .. RamWords,
         NEW l \in Octet, NEW k \in Octet, NEW p \in 0 .. 1
  PROVE  LET s == Bytes(m, w, l, p)
         IN  Bytes(m, w, k, 0) = SubSeq(s, 1, 2 * (Len(s) \div 2))
<1> DEFINE s == Bytes(m, w, l, p)
           t == Bytes(m, w, k, 0)
<1>1. RamWords \in 1 .. 256
  BY RamAssumption
<1>2. 2 * w + 0 = 2 * w /\ 2 * w + p \in 2 * w .. 2 * w + 1
  BY <1>1
<1>3. s \in Seq(Octet) /\ Len(s) \in 2 * w .. 2 * w + 1 /\ \A i \in 1 .. 2 * w : s[i] = Half(m, i)
  <2>1. s \in Seq(Octet) /\ Len(s) = 2 * w + p
        /\ \A i \in 1 .. 2 * w + p : i <= 2 * w => s[i] = Half(m, i)
    BY BytesIsSeq
  <2>2. \A i \in 1 .. 2 * w : i \in 1 .. 2 * w + p /\ i <= 2 * w
    BY <1>1, <1>2
  <2> QED BY <1>2, <2>1, <2>2
<1>4. t \in Seq(Octet) /\ Len(t) = 2 * w /\ \A i \in 1 .. 2 * w : t[i] = Half(m, i)
  <2>1. t \in Seq(Octet) /\ Len(t) = 2 * w /\ \A i \in 1 .. 2 * w : i <= 2 * w => t[i] = Half(m, i)
    BY <1>2, BytesIsSeq
  <2>2. \A i \in 1 .. 2 * w : i <= 2 * w
    BY <1>1
  <2> QED BY <2>1, <2>2
<1> HIDE DEF s, t
<1>5. 2 * (Len(s) \div 2) = 2 * w
  BY <1>1, <1>3
<1>6. /\ SubSeq(s, 1, 2 * w) \in Seq(Octet)
      /\ Len(SubSeq(s, 1, 2 * w)) = 2 * w
      /\ \A i \in 1 .. 2 * w : SubSeq(s, 1, 2 * w)[i] = s[i]
  <2>1. 2 * w \in Int /\ 1 \in Int /\ \A i \in 1 .. 2 * w : s[i] \in Octet
    BY <1>1, <1>3
  <2>2. /\ SubSeq(s, 1, 2 * w) \in Seq(Octet)
        /\ Len(SubSeq(s, 1, 2 * w)) = IF 1 <= 2 * w THEN 2 * w - 1 + 1 ELSE 0
        /\ \A i \in 1 .. 2 * w - 1 + 1 : SubSeq(s, 1, 2 * w)[i] = s[1 + i - 1]
    BY <2>1, SubSeqProperties
  <2>3. \A i \in 1 .. 2 * w : i \in 1 .. 2 * w - 1 + 1 /\ 1 + i - 1 = i
    BY <1>1
  <2> QED BY <1>1, <2>2, <2>3
<1>7. t = SubSeq(s, 1, 2 * w)
  BY <1>3, <1>4, <1>6, SeqEqual
<1> QED BY <1>5, <1>7 DEF s, t

LEMMA NoneWaits ==
  ASSUME NEW m, NEW w \in 0 .. RamWords, NEW l, NEW k
  PROVE  Bytes(m, w, l, 0) = Bytes(m, w, k, 0)
<1>1. RamWords \in 1 .. 256
  BY RamAssumption
<1>2. \A i \in 1 .. 2 * w + 0 : ~ (i > 2 * w)
  BY <1>1
<1> QED BY <1>2 DEF Bytes

LEMMA NothingLoaded == ASSUME NEW m, NEW l PROVE Bytes(m, 0, l, 0) = <<>>
BY DEF Bytes

LEMMA ResetUnloads == HostReset => LoadedBytes' = <<>>
<1>1. HostReset => prog_words' = 0 /\ (IF byte_phase' THEN 1 ELSE 0) = 0
  BY DEF HostReset
<1> QED BY <1>1, LoadedIs, NothingLoaded

(* What the loader does not touch, the RAM holds.                            *)
LEMMA NothingMoves ==
  ASSUME UNCHANGED <<mem, prog_words, prog_low, byte_phase>>
  PROVE  LoadedBytes' = LoadedBytes
BY LoadedIs

LEMMA CommandTrims ==
  ASSUME HostTypeOK, mem' = mem, prog_words' = prog_words, ~byte_phase'
  PROVE  LoadedBytes' = SubSeq(LoadedBytes, 1, 2 * (Len(LoadedBytes) \div 2))
<1>1. /\ mem \in [0 .. RamWords - 1 -> RamWord] /\ prog_words \in 0 .. RamWords
      /\ prog_low \in Octet
  BY DEF HostTypeOK, Octet
<1> DEFINE p == IF byte_phase THEN 1 ELSE 0
<1>2. p \in 0 .. 1
  OBVIOUS
<1>3. LoadedBytes = Bytes(mem, prog_words, prog_low, p)
  BY LoadedIs
<1>4. LoadedBytes' = Bytes(mem, prog_words, prog_low', 0)
  BY LoadedIs
<1> HIDE DEF p
<1>5. Bytes(mem, prog_words, prog_low, 0) = Bytes(mem, prog_words, prog_low', 0)
  BY <1>1, NoneWaits
<1> QED BY <1>1, <1>2, <1>3, <1>4, <1>5, WholeWords

LEMMA Room ==
  ASSUME HostTypeOK, Loader
  PROVE  Len(LoadedBytes) < 2 * RamWords <=> prog_words < RamWords
<1>1. /\ mem \in [0 .. RamWords - 1 -> RamWord] /\ prog_words \in 0 .. RamWords
      /\ prog_low \in Octet /\ RamWords \in 1 .. 256 /\ (byte_phase => prog_words < RamWords)
  BY RamAssumption DEF Loader, HostTypeOK, Octet
<1>2. CASE byte_phase
  <2>1. Len(LoadedBytes) = 2 * prog_words + 1
    BY <1>1, <1>2, LoadedIs, BytesIsSeq
  <2> QED BY <1>1, <1>2, <2>1
<1>3. CASE ~byte_phase
  <2>1. Len(LoadedBytes) = 2 * prog_words + 0
    BY <1>1, <1>3, LoadedIs, BytesIsSeq
  <2> QED BY <1>1, <2>1
<1> QED BY <1>2, <1>3

(* What a clock does to the program and to the load mode.                   *)
LEMMA ProgramStep ==
  ASSUME HostTypeOK, Loader, HostClock
  PROVE  /\ LoadedBytes \in Seq(Octet)
         /\ byte_taken <=> prog_byte /\ Len(LoadedBytes) < 2 * RamWords
         /\ byte_taken => LoadedBytes' = Append(LoadedBytes, wdata) /\ load_mode' = load_mode
         /\ ~control_write /\ ~byte_taken => UNCHANGED <<LoadedBytes, load_mode>>
         /\ control_write =>
              /\ load_mode' \in BOOLEAN
              /\ LoadedBytes' \in {LoadedBytes, <<>>,
                                   SubSeq(LoadedBytes, 1, 2 * (Len(LoadedBytes) \div 2))}
              /\ ~restart => UNCHANGED <<LoadedBytes, load_mode>>
<1>1. /\ mem \in [0 .. RamWords - 1 -> RamWord] /\ prog_words \in 0 .. RamWords
      /\ prog_low \in Octet /\ load_mode \in BOOLEAN /\ byte_phase \in BOOLEAN
  BY DEF HostTypeOK, Octet
<1>2. LoadedBytes \in Seq(Octet)
  <2>1. (IF byte_phase THEN 1 ELSE 0) \in 0 .. 1
    OBVIOUS
  <2> QED BY <1>1, <2>1, LoadedIs, BytesIsSeq
<1>3. byte_taken <=> prog_byte /\ Len(LoadedBytes) < 2 * RamWords
  BY Room DEF byte_taken
<1>4. control_write => ~byte_taken /\ ~prog_we
  BY DEF control_write, byte_taken, prog_we, prog_byte, CONTROL, TX_DATA
<1>5. byte_taken => LoadedBytes' = Append(LoadedBytes, wdata) /\ load_mode' = load_mode
  <2>1. byte_taken => ProgramByte /\ RamEdge
    BY <1>4 DEF HostClock
  <2> QED BY <2>1, ByteIsAppended DEF ProgramByte
<1>6. ~control_write /\ ~byte_taken => UNCHANGED <<LoadedBytes, load_mode>>
  <2>1. ~control_write /\ ~byte_taken =>
          UNCHANGED <<load_mode, prog_words, prog_low, byte_phase, mem>>
    BY DEF HostClock, RamEdge, prog_we, byte_taken
  <2> QED BY <2>1, NothingMoves
<1>7. ASSUME control_write
      PROVE  /\ load_mode' \in BOOLEAN
             /\ LoadedBytes' \in {LoadedBytes, <<>>,
                                  SubSeq(LoadedBytes, 1, 2 * (Len(LoadedBytes) \div 2))}
             /\ ~restart => UNCHANGED <<LoadedBytes, load_mode>>
  <2>1. Command /\ mem' = mem
    BY <1>4, <1>7 DEF HostClock, RamEdge
  <2>2. /\ load_mode' = (load_cmd \/ (load_mode /\ ~rom_cmd /\ ~run_ram_cmd))
        /\ byte_phase' = (byte_phase /\ ~rom_cmd /\ ~run_ram_cmd /\ ~load_cmd)
        /\ prog_words' = IF load_cmd THEN 0 ELSE prog_words
        /\ prog_low' = IF load_cmd THEN 0 ELSE prog_low
    BY <2>1 DEF Command
  <2>3. CASE load_cmd
    <3>1. LoadedBytes' = <<>>
      BY <2>2, <2>3, LoadedIs, NothingLoaded
    <3>2. load_mode' \in BOOLEAN /\ restart
      BY <1>7, <2>2, <2>3 DEF restart
    <3> QED BY <3>1, <3>2
  <2>4. CASE ~load_cmd /\ (rom_cmd \/ run_ram_cmd)
    <3>1. LoadedBytes' = SubSeq(LoadedBytes, 1, 2 * (Len(LoadedBytes) \div 2))
      BY <2>1, <2>2, <2>4, CommandTrims
    <3>2. load_mode' \in BOOLEAN /\ restart
      BY <1>7, <2>2, <2>4 DEF restart
    <3> QED BY <3>1, <3>2
  <2>5. CASE ~load_cmd /\ ~rom_cmd /\ ~run_ram_cmd
    <3>1. UNCHANGED <<load_mode, prog_words, prog_low, byte_phase, mem>>
      BY <1>1, <2>1, <2>2, <2>5
    <3> QED BY <1>1, <3>1, NothingMoves
  <2> QED BY <2>3, <2>4, <2>5
<1> QED BY <1>2, <1>3, <1>5, <1>6, <1>7

=============================================================================
