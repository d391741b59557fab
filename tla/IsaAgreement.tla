---------------------------- MODULE IsaAgreement ----------------------------
(***************************************************************************)
(* The two readings of an instruction word side by side: the table's, which *)
(* model/cpu.py decodes by, and the wires of rtl/core.v.  The one variable  *)
(* is a word; every word is an initial state and nothing happens to it.     *)
(***************************************************************************)
EXTENDS Isa, Assembler

CONSTANT Delays      \* the values of bits 12:8 to enumerate

ASSUME DelaysAssumption == Delays \subseteq 0 .. 31

VARIABLE word

Rtl == INSTANCE CoreDecode

Init == word \in {o * 8192 + d * 256 + b : o \in 0 .. 7, d \in Delays, b \in 0 .. 255}

Next == UNCHANGED word

Spec == Init /\ [][Next]_word

(* The mnemonic whose behaviour the core's wires select for a word. *)
RtlMnemonic ==
  CASE Rtl!is_jmp(word)      -> "JMP"
    [] Rtl!is_repeat(word)   -> "REPEAT"
    [] Rtl!is_config(word)   -> "CONFIG"
    [] Rtl!is_wait(word)     -> "WAIT"
    [] Rtl!is_skip(word)     -> "SKIP"
    [] Rtl!is_shift(word)    -> IF Rtl!shift_select(word) THEN "SHIFT_IN" ELSE "SHIFT_OUT"
    [] Rtl!is_fifo(word)     -> IF Rtl!fifo_select(word) THEN "PUSH" ELSE "PULL"
    [] Rtl!is_run(word)      -> IF Rtl!run_sense(word) THEN "SKIP_NORUN" ELSE "SKIP_RUN"
    [] Rtl!is_acc_in(word)   -> "ACC_IN"
    [] Rtl!is_acc_crc(word)  -> "ACC_CRC"
    [] Rtl!is_acc_out(word)  -> "ACC_OUT"
    [] Rtl!is_acc_push(word) -> "ACC_PUSH"
    [] Rtl!is_acc_load(word) -> "ACC_LOAD"
    [] Rtl!is_nop_set(word) /\ Rtl!side(word) -> "SET"
    [] OTHER                 -> "NOP"

(* The operands the core takes for that mnemonic, in the table's order. *)
RtlArgs ==
  CASE RtlMnemonic \in {"JMP", "REPEAT"} -> <<Rtl!operand(word)>>
    [] RtlMnemonic = "CONFIG"   -> <<Rtl!config_field(word), Rtl!config_value(word)>>
    [] RtlMnemonic = "WAIT"     -> <<Rtl!input_pin(word), Rtl!level(word)>>
    [] RtlMnemonic \in SkipOps  -> <<Rtl!skip_bit(word), Rtl!level(word)>>
    [] RtlMnemonic = "SHIFT_IN" -> <<Rtl!input_pin(word)>>
    [] RtlMnemonic = "SET"      -> <<Rtl!side_pin(word), Rtl!side_val(word)>>
    [] RtlMnemonic \in {"ACC_IN", "ACC_CRC", "ACC_OUT"} -> <<Rtl!acc_pin(word)>>
    [] OTHER -> <<>>

(* The pin the core writes beside the mnemonic's own work. *)
RtlSide ==
  IF Rtl!side(word) /\ RtlMnemonic \notin {"SET", "JMP", "REPEAT"}
    THEN <<Rtl!side_pin(word), Rtl!side_val(word)>> ELSE NoSide

-----------------------------------------------------------------------------
(* No two rows of the table claim the same word, so decode's first match is *)
(* the only one: load_isa compares select values and never notices two      *)
(* selects of different widths that overlap.                                *)
OneMnemonicPerWord == Cardinality(Claims(word)) <= 1

(* Every word the assembler can produce means to the core what it means to *)
(* the golden model: same mnemonic, same operands, same side effect.        *)
RtlReadsWhatDecodeReads ==
  Decodable(word) =>
    /\ RtlMnemonic = Decode(word).op
    /\ RtlArgs = Decode(word).args
    /\ RtlSide = Decode(word).side
    /\ Rtl!delay(word) = Decode(word).delay

(* encode is decode's inverse: nothing decode drops was in the word. *)
EncodeInvertsDecode == Decodable(word) => Encode(Decode(word)) = word

-----------------------------------------------------------------------------
(* The word in every candidate's ISA, beside the ISA of its round: what it  *)
(* meant before, and how a listing shows it.                                *)

(* The ISA a round started from, by its mnemonics. *)
Before(ops) == INSTANCE IsaCodec WITH Table <- Started(ops), First <- {}

(* A candidate's words are words the ISA rejected: every word that had a    *)
(* meaning keeps it, whatever is decoded first and whichever selects were   *)
(* made wider to make room.                                                 *)
NoWordChanges ==
  \A ops \in {RoundOps(c) : c \in Candidate} :
    Before(ops)!Decodable(word) =>
      \A c \in {c \in Candidate : RoundOps(c) = ops} :
        Decodes(c, word) /\ Codec(c)!Decode(word) = Before(ops)!Decode(word)

(* The address a listed word stands at, past any branch or REPEAT back. *)
HERE == 300

Reassembled(c, line) == Assembled(c, line, HERE, <<>>)

(* What a listing shows can be assembled again: n written for n - 1, a far  *)
(* SKIP's index, an address for a distance.  It is the word it was, but for *)
(* the level of BRANCH_SAME, which the test ignores and no listing shows.   *)
(* The ISA's run tests are left out where a candidate does not count them   *)
(* as its own: their listing shows n - 1.                                   *)
ListingsAssemble ==
  \A c \in Candidate \ (RepeatRound \cup {"core"}) :
    Decodes(c, word) =>
      LET line == listing(c, HERE, word) IN
      line.op \notin RUN_TESTS \ RUNS(c) =>
      /\ Accepted(c, line, HERE, <<>>)
      /\ listing(c, HERE, Reassembled(c, line)) = line
      /\ line.op /= "BRANCH_SAME" => Reassembled(c, line) = word

=============================================================================
