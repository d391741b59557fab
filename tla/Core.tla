-------------------------------- MODULE Core --------------------------------
(***************************************************************************)
(* rtl/core.v, one clock edge at a time.  The registers are variables; the *)
(* wires are operators of the record `in` of what the core's input ports   *)
(* carry on that clock:                                                    *)
(*                                                                         *)
(*   word, words        imem_word at imem_addr, and program_words          *)
(*   gpio_in            the four input pins                                *)
(*   tx_empty, tx_data  the TX FIFO's flag and head                        *)
(*   rx_full            the RX FIFO's flag                                 *)
(***************************************************************************)
EXTENDS Integers, CoreDecode

VARIABLES pc, delay_counter, rc, gpio_out, shift_dir, open_drain,
          shift_reg, in_shift_reg, acc, poly

coreVars == <<pc, delay_counter, rc, gpio_out, shift_dir, open_drain,
              shift_reg, in_shift_reg, acc, poly>>

Pin == 0 .. 3

PcSize == 512         \* the pc is nine bits

AddressSize == 256    \* imem_addr is its low eight

CoreTypeOK ==
  /\ pc \in 0 .. PcSize - 1
  /\ delay_counter \in 0 .. 31
  /\ rc \in 0 .. 31
  /\ gpio_out \in [Pin -> BIT]
  /\ shift_dir \in BIT
  /\ open_drain \in [Pin -> BIT]
  /\ shift_reg \in Vec(8)
  /\ in_shift_reg \in Vec(8)
  /\ acc \in Vec(16)
  /\ poly \in Vec(16)

-----------------------------------------------------------------------------
(* Issue, stall and the end of an instruction. *)

imem_addr == pc % AddressSize

core_halted(in) == pc >= in.words

issue(in) == ~core_halted(in) /\ delay_counter = 0

stall(in) ==
  /\ issue(in)
  /\ \/ is_fifo(in.word) /\ IF fifo_select(in.word) THEN in.rx_full ELSE in.tx_empty
     \/ is_acc_push(in.word) /\ in.rx_full
     \/ is_wait(in.word) /\ in.gpio_in[input_pin(in.word)] /= level(in.word)

(* A delay that lets the pc go a clock before it is over as well. *)
last_early(in) ==
  IF issue(in) THEN delay(in.word) = 0 \/ is_repeat(in.word)
               ELSE delay_counter \in {1, 2}

last(in) ==
  IF issue(in) THEN delay(in.word) = 0 \/ is_repeat(in.word)
               ELSE delay_counter = 1

pc_en(in) == last(in) /\ ~stall(in)

acc_en(in) == issue(in) /\ ~stall(in)

pull_en(in) ==
  issue(in) /\ is_fifo(in.word) /\ ~fifo_select(in.word) /\ ~in.tx_empty

push_en(in) ==
  /\ issue(in)
  /\ (is_fifo(in.word) /\ fifo_select(in.word)) \/ is_acc_push(in.word)
  /\ ~in.rx_full

rx_data(in) ==
  IF is_acc_push(in.word) THEN [k \in 0 .. 7 |-> acc[k]] ELSE in_shift_reg

gpio_oe == [p \in Pin |-> 1 - open_drain[p] * gpio_out[p]]

-----------------------------------------------------------------------------
(* The program counter. *)

skip_taken(w) == is_skip(w) /\ in_shift_reg[skip_bit(w)] = level(w)

(* in_shift_reg with the newest sample at bit 0 whichever end is the wire. *)
newest == IF shift_dir = 1 THEN in_shift_reg
                           ELSE [k \in 0 .. 7 |-> in_shift_reg[7 - k]]

run_all(w) == \A k \in 0 .. skip_bit(w) : newest[k] = level(w)

run_taken(w) == is_run(w) /\ (run_sense(w) /= run_all(w))

rc_next(w) == IF rc = 0 THEN delay(w) ELSE rc - 1

(* A pc that does not wrap below word 0. *)
pc_next_unwrapped(w) ==
  CASE is_jmp(w) -> operand(w)
    [] is_repeat(w) /\ rc_next(w) /= 0 -> pc - operand(w)
    [] OTHER -> (pc + (IF skip_taken(w) \/ run_taken(w) THEN 2 ELSE 1)) % PcSize

pc_next(w) ==
  CASE is_jmp(w) -> operand(w)
    [] is_skip(w) \/ is_run(w) ->
         (pc + (IF skip_taken(w) \/ run_taken(w) THEN 2 ELSE 1)) % PcSize
    [] is_repeat(w) ->
         IF rc_next(w) /= 0 THEN (pc - operand(w)) % PcSize ELSE (pc + 1) % PcSize
    [] OTHER -> (pc + 1) % PcSize

-----------------------------------------------------------------------------
(* The pins: a side effect, SHIFT_OUT's bit on pin 0 and ACC_OUT's bit all  *)
(* write gpio_out on the issuing edge; the later assignment wins.           *)

(* A shift on every clock of a SHIFT_OUT, its delay included. *)
shift_en_held(in) == ~core_halted(in) /\ is_shift(in.word) /\ ~shift_select(in.word)

shift_en(in) == issue(in) /\ is_shift(in.word) /\ ~shift_select(in.word)

shift_in_en(in) == issue(in) /\ is_shift(in.word) /\ shift_select(in.word)

(* The side effect lands while the word still waits. *)
gpio_en_early(in) ==
  issue(in) /\ side(in.word) /\ ~is_jmp(in.word) /\ ~is_repeat(in.word)

gpio_en(in) ==
  /\ issue(in)
  /\ ~stall(in)
  /\ side(in.word)
  /\ ~is_jmp(in.word)
  /\ ~is_repeat(in.word)

shift_bit == shift_reg[IF shift_dir = 0 THEN 0 ELSE 7]

gpio_next(in) ==
  [p \in Pin |->
     CASE acc_en(in) /\ is_acc_out(in.word) /\ p = acc_pin(in.word) -> acc[15]
       [] shift_en(in) /\ p = 0 -> shift_bit
       [] gpio_en(in) /\ p = side_pin(in.word) -> side_val(in.word)
       [] OTHER -> gpio_out[p]]

(* An 8-bit register shifted away from its wire end, b entering. *)
Shifted(r, b) ==
  IF shift_dir = 0 THEN [k \in 0 .. 7 |-> IF k = 7 THEN b ELSE r[k + 1]]
                   ELSE [k \in 0 .. 7 |-> IF k = 0 THEN b ELSE r[k - 1]]

(* The accumulator shifted towards bit 15, b entering at bit 0. *)
AccShifted(b) == [k \in 0 .. 15 |-> IF k = 0 THEN b ELSE acc[k - 1]]

acc_bit(in) == in.gpio_in[acc_pin(in.word)]

acc_feedback(in) == (acc[15] + acc_bit(in)) % 2

acc_next(in) ==
  LET w == in.word IN
  CASE is_acc_in(w)   -> AccShifted(acc_bit(in))
    [] is_acc_crc(w)  -> [k \in 0 .. 15 |->
                            (AccShifted(0)[k] + acc_feedback(in) * poly[k]) % 2]
    [] is_acc_out(w)  -> AccShifted(0)
    [] is_acc_push(w) -> [k \in 0 .. 15 |-> IF k < 8 THEN acc[k + 8] ELSE 0]
    [] OTHER          -> acc

-----------------------------------------------------------------------------
CoreInit ==
  /\ pc = 0
  /\ delay_counter = 0
  /\ rc = 0
  /\ gpio_out = [p \in Pin |-> 1]
  /\ shift_dir = 0
  /\ open_drain = [p \in Pin |-> 0]
  /\ shift_reg = Zero(8)
  /\ in_shift_reg = Zero(8)
  /\ acc = Zero(16)
  /\ poly = Zero(16)

(* A clock with reset up: the host's reset or restart. *)
CoreReset ==
  /\ pc' = 0
  /\ delay_counter' = 0
  /\ rc' = 0
  /\ gpio_out' = [p \in Pin |-> 1]
  /\ shift_dir' = 0
  /\ open_drain' = [p \in Pin |-> 0]
  /\ shift_reg' = Zero(8)
  /\ in_shift_reg' = Zero(8)
  /\ acc' = Zero(16)
  /\ poly' = Zero(16)

CoreClock(in) ==
  LET w == in.word IN
  /\ delay_counter' =
       IF issue(in) /\ ~stall(in)
         THEN IF is_repeat(w) THEN 0 ELSE delay(w)
         ELSE IF delay_counter > 0 THEN delay_counter - 1 ELSE 0
  /\ pc' = IF pc_en(in) THEN pc_next(w) ELSE pc
  /\ rc' = IF pc_en(in) /\ is_repeat(w) THEN rc_next(w) ELSE rc
  /\ gpio_out' = gpio_next(in)
  /\ shift_dir' =
       IF issue(in) /\ is_config(w) /\ config_field(w) = 0
         THEN config_value(w) % 2 ELSE shift_dir
  /\ open_drain' =
       IF issue(in) /\ is_config(w)
         THEN [p \in Pin |-> IF config_field(w) = 1 + (p \div 2)
                               THEN IF p % 2 = 0 THEN config_value(w) % 2
                                                 ELSE config_value(w) \div 2
                               ELSE open_drain[p]]
         ELSE open_drain
  /\ shift_reg' =
       CASE shift_en(in) -> Shifted(shift_reg, 0)
         [] pull_en(in)  -> in.tx_data
         [] OTHER        -> shift_reg
  /\ in_shift_reg' =
       IF shift_in_en(in)
         THEN Shifted(in_shift_reg, in.gpio_in[input_pin(w)]) ELSE in_shift_reg
  /\ acc' = IF acc_en(in) THEN acc_next(in) ELSE acc
  /\ poly' =
       IF acc_en(in) /\ is_acc_load(w)
         THEN [k \in 0 .. 15 |-> IF k < 8 THEN poly[k + 8] ELSE shift_reg[k - 8]]
         ELSE poly

=============================================================================
