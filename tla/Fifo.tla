-------------------------------- MODULE Fifo --------------------------------
(***************************************************************************)
(* rtl/fifo.v: DEPTH bytes in a memory read at rd_ptr and written at       *)
(* wr_ptr, with a count of the bytes held.  The two pointers wrap at       *)
(* DEPTH - 1, so DEPTH need not be a power of two.  One clock edge is one  *)
(* step; push, pop and push_data are whatever the two sides drive on it.   *)
(*                                                                         *)
(* rd_ptr, wr_ptr and count are not reduced to their bit widths: TypeOK    *)
(* says they never leave 0..DEPTH-1 and 0..DEPTH, which PTR_W and CNT_W    *)
(* bits hold.  The memory is not reset, so it starts with any bytes.       *)
(***************************************************************************)
EXTENDS Naturals, Sequences

CONSTANTS
  Byte,
  DEPTH,
  NoByte

ASSUME DepthAssumption == DEPTH \in Nat \ {0}

ASSUME NoByteAssumption == NoByte \notin Byte

VARIABLES mem, rd_ptr, wr_ptr, count,
          offered,  \* history: the byte pushed, accepted or not, on the last clock
          taken     \* history: the byte read by the pop of the last clock

vars == <<mem, rd_ptr, wr_ptr, count, offered, taken>>

Address == 0 .. DEPTH - 1

(* The output wires. *)
empty == count = 0

full == count = DEPTH

head_data == mem[rd_ptr]

-----------------------------------------------------------------------------
(* A plausible slip in the push condition: ignoring the pop of the same     *)
(* clock, or accepting a byte into a full FIFO.                             *)
do_push_any(push, pop) == push

do_push_room(push, pop) == push /\ ~full

do_push(push, pop) == push /\ (~full \/ pop)

do_pop(pop) == pop /\ ~empty

(* A pointer that wraps one address late, or as a power of two would. *)
ptr_next_late(ptr) == IF ptr = DEPTH THEN 0 ELSE ptr + 1

ptr_next(ptr) == IF ptr = DEPTH - 1 THEN 0 ELSE ptr + 1

Init ==
  /\ mem \in [Address -> Byte]
  /\ rd_ptr = 0
  /\ wr_ptr = 0
  /\ count = 0
  /\ offered = NoByte
  /\ taken = NoByte

Reset ==
  /\ rd_ptr' = 0
  /\ wr_ptr' = 0
  /\ count' = 0
  /\ offered' = NoByte
  /\ taken' = NoByte
  /\ UNCHANGED mem

Clock(push, pop, push_data) ==
  /\ mem' = IF do_push(push, pop)
              THEN [mem EXCEPT ![wr_ptr] = push_data] ELSE mem
  /\ wr_ptr' = IF do_push(push, pop) THEN ptr_next(wr_ptr) ELSE wr_ptr
  /\ rd_ptr' = IF do_pop(pop) THEN ptr_next(rd_ptr) ELSE rd_ptr
  /\ count' = CASE do_push(push, pop) /\ ~do_pop(pop) -> count + 1
                [] ~do_push(push, pop) /\ do_pop(pop) -> count - 1
                [] OTHER -> count
  /\ offered' = IF push THEN push_data ELSE NoByte
  /\ taken' = IF do_pop(pop) THEN head_data ELSE NoByte

Next ==
  \/ Reset
  \/ \E push, pop \in BOOLEAN, push_data \in Byte : Clock(push, pop, push_data)

Spec == Init /\ [][Next]_vars

-----------------------------------------------------------------------------
(* The registers keep to the widths the module gives them. *)
TypeOK ==
  /\ mem \in [Address -> Byte]
  /\ rd_ptr \in Address
  /\ wr_ptr \in Address
  /\ count \in 0 .. DEPTH
  /\ offered \in Byte \cup {NoByte}
  /\ taken \in Byte \cup {NoByte}

(* The address n places after rd_ptr, n at most DEPTH. *)
Wrap(n) == IF n >= DEPTH THEN n - DEPTH ELSE n

(* Three registers hold two facts: wr_ptr is always count places after      *)
(* rd_ptr.  Equal pointers mean empty or full, and only count tells which,  *)
(* so a slip in any one of the three updates breaks this a few clocks later. *)
PointersAgree == wr_ptr = Wrap(rd_ptr + count)

(* n bytes of a ring memory m from address r on, and the bytes held now,   *)
(* oldest first.                                                           *)
Ring(m, r, n) == [i \in 1 .. n |-> m[Wrap(r + (i - 1))]]

Contents == Ring(mem, rd_ptr, count)

Queue == INSTANCE ByteQueue
           WITH Capacity <- DEPTH, queue <- Contents

(* fifo.v is a bounded queue: a byte pushed is refused only when the FIFO   *)
(* is full and not popped on that clock, and every byte accepted comes out  *)
(* once, in order, unchanged, whatever the two sides drive on each clock.   *)
ImplementsQueue == Queue!Spec

=============================================================================
