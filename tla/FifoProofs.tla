----------------------------- MODULE FifoProofs -----------------------------
(***************************************************************************)
(* Fifo is a bounded queue for every DEPTH and every set of bytes: the type *)
(* invariant, the agreement of the two pointers with the count, and the     *)
(* step simulation that makes Contents the queue of ByteQueue.              *)
(***************************************************************************)
EXTENDS Fifo, SequenceTheorems, TLAPS

(* The pointers and the count stay within the widths fifo.v gives them     *)
(* (PTR_W, CNT_W), so no increment of fifo.v ever overflows its register.  *)
THEOREM TypeCorrect == Spec => []TypeOK
<1>1. Init => TypeOK
  BY DepthAssumption DEF Init, TypeOK, Address
<1>2. TypeOK /\ [Next]_vars => TypeOK'
  <2> SUFFICES ASSUME TypeOK, [Next]_vars PROVE TypeOK'
    OBVIOUS
  <2> USE DepthAssumption DEF TypeOK, Address
  <2>1. CASE Reset
    BY <2>1 DEF Reset
  <2>2. ASSUME NEW push \in BOOLEAN, NEW pop \in BOOLEAN, NEW push_data \in Byte,
               Clock(push, pop, push_data)
        PROVE TypeOK'
    <3>1. mem' \in [Address -> Byte]
      BY <2>2 DEF Clock
    <3>2. rd_ptr' \in Address /\ wr_ptr' \in Address
      BY <2>2 DEF Clock, ptr_next
    <3>3. count' \in 0 .. DEPTH
      BY <2>2 DEF Clock, do_push, do_pop, full, empty
    <3>4. offered' \in Byte \cup {NoByte} /\ taken' \in Byte \cup {NoByte}
      BY <2>2 DEF Clock, head_data
    <3> QED BY <3>1, <3>2, <3>3, <3>4
  <2>3. CASE UNCHANGED vars
    BY <2>3 DEF vars
  <2> QED BY <2>1, <2>2, <2>3 DEF Next
<1> QED BY <1>1, <1>2, PTL DEF Spec

(* The write pointer is count places after the read pointer in every       *)
(* reachable state.  Inductive with TypeOK: one accepted push moves wr_ptr *)
(* and count together, one pop moves rd_ptr against count.                 *)
THEOREM PointersAlwaysAgree == Spec => []PointersAgree
<1>1. Init => PointersAgree
  BY DepthAssumption DEF Init, PointersAgree, Wrap
<1>2. TypeOK /\ PointersAgree /\ [Next]_vars => PointersAgree'
  <2> SUFFICES ASSUME TypeOK, PointersAgree, [Next]_vars PROVE PointersAgree'
    OBVIOUS
  <2> USE DepthAssumption DEF PointersAgree, Wrap
  <2>1. CASE Reset
    BY <2>1 DEF Reset
  <2>2. ASSUME NEW push \in BOOLEAN, NEW pop \in BOOLEAN, NEW push_data \in Byte,
               Clock(push, pop, push_data)
        PROVE PointersAgree'
    <3>1. rd_ptr \in 0 .. DEPTH - 1 /\ wr_ptr \in 0 .. DEPTH - 1 /\ count \in 0 .. DEPTH
      BY DEF TypeOK, Address
    <3>2. CASE do_push(push, pop) /\ do_pop(pop)
      <4>1. /\ wr_ptr' = ptr_next(wr_ptr)
            /\ rd_ptr' = ptr_next(rd_ptr)
            /\ count' = count
        BY <2>2, <3>2 DEF Clock
      <4> QED BY <3>1, <4>1 DEF ptr_next
    <3>3. CASE do_push(push, pop) /\ ~do_pop(pop)
      <4>1. /\ wr_ptr' = ptr_next(wr_ptr)
            /\ rd_ptr' = rd_ptr
            /\ count' = count + 1
            /\ count < DEPTH
        BY <2>2, <3>1, <3>3 DEF Clock, do_push, do_pop, full, empty
      <4> QED BY <3>1, <4>1 DEF ptr_next
    <3>4. CASE ~do_push(push, pop) /\ do_pop(pop)
      <4>1. /\ wr_ptr' = wr_ptr
            /\ rd_ptr' = ptr_next(rd_ptr)
            /\ count' = count - 1
            /\ count > 0
        BY <2>2, <3>1, <3>4 DEF Clock, do_pop, empty
      <4> QED BY <3>1, <4>1 DEF ptr_next
    <3>5. CASE ~do_push(push, pop) /\ ~do_pop(pop)
      BY <2>2, <3>5 DEF Clock
    <3> QED BY <3>2, <3>3, <3>4, <3>5
  <2>3. CASE UNCHANGED vars
    BY <2>3 DEF vars
  <2> QED BY <2>1, <2>2, <2>3 DEF Next
<1> QED BY <1>1, <1>2, TypeCorrect, PTL DEF Spec

-----------------------------------------------------------------------------
(* Ring is a sequence of bytes, with the elements its definition shows. *)
LEMMA RingProperties ==
  ASSUME NEW m \in [Address -> Byte], NEW r \in Address, NEW n \in 0 .. DEPTH
  PROVE  /\ Ring(m, r, n) \in Seq(Byte)
         /\ Len(Ring(m, r, n)) = n
         /\ \A i \in 1 .. n : Ring(m, r, n)[i] = m[Wrap(r + (i - 1))]
<1> USE DepthAssumption
<1>1. n \in Nat /\ DEPTH \in Nat /\ DEPTH > 0
  OBVIOUS
<1>2. \A i \in 1 .. n : Wrap(r + (i - 1)) \in Address
  BY <1>1 DEF Wrap, Address
<1>3. \A i \in 1 .. n : m[Wrap(r + (i - 1))] \in Byte
  BY <1>2
<1>4. Ring(m, r, n) \in [1 .. n -> Byte]
  BY <1>3 DEF Ring
<1>5. Ring(m, r, n) \in Seq(Byte)
  BY <1>1, <1>4, SeqDef
<1>6. Len(Ring(m, r, n)) = n
  BY <1>1, <1>4
<1>7. \A i \in 1 .. n : Ring(m, r, n)[i] = m[Wrap(r + (i - 1))]
  BY DEF Ring
<1> QED BY <1>5, <1>6, <1>7

(* The oldest byte is at the read address; without it, the ring starts one *)
(* address on.                                                             *)
LEMMA RingTail ==
  ASSUME NEW m \in [Address -> Byte], NEW r \in Address, NEW n \in 1 .. DEPTH
  PROVE  /\ Ring(m, r, n) /= <<>>
         /\ Head(Ring(m, r, n)) = m[r]
         /\ Tail(Ring(m, r, n)) = Ring(m, ptr_next(r), n - 1)
<1> DEFINE q == Ring(m, r, n)
           t == Ring(m, ptr_next(r), n - 1)
<1>1. n \in 0 .. DEPTH /\ n - 1 \in 0 .. DEPTH /\ DEPTH \in Nat /\ DEPTH > 0 /\ ptr_next(r) \in Address
  BY DepthAssumption DEF ptr_next, Address
<1>2. /\ q \in Seq(Byte) /\ Len(q) = n
      /\ \A i \in 1 .. n : q[i] = m[Wrap(r + (i - 1))]
  BY <1>1, RingProperties
<1>3. /\ t \in Seq(Byte) /\ Len(t) = n - 1
      /\ \A i \in 1 .. n - 1 : t[i] = m[Wrap(ptr_next(r) + (i - 1))]
  BY <1>1, RingProperties
<1> HIDE DEF q, t
<1>4. q /= <<>>
  BY <1>1, <1>2
<1>5. Head(q) = m[r]
  <2>1. q[1] = m[Wrap(r + (1 - 1))] /\ Wrap(r + (1 - 1)) = r
    BY <1>1, <1>2 DEF Wrap, Address
  <2> QED BY <2>1, <1>2, <1>4
<1>6. /\ Tail(q) \in Seq(Byte) /\ Len(Tail(q)) = n - 1
      /\ \A i \in 1 .. n - 1 : Tail(q)[i] = q[i + 1]
  BY <1>1, <1>2, <1>4, HeadTailProperties
<1>7. \A i \in 1 .. n - 1 : Tail(q)[i] = t[i]
  <2> SUFFICES ASSUME NEW i \in 1 .. n - 1 PROVE Tail(q)[i] = t[i]
    OBVIOUS
  <2>1. Tail(q)[i] = m[Wrap(r + i)]
    <3>1. i + 1 \in 1 .. n /\ (i + 1) - 1 = i
      BY <1>1
    <3> QED BY <3>1, <1>2, <1>6
  <2>2. Wrap(r + i) = Wrap(ptr_next(r) + (i - 1))
    BY <1>1 DEF Wrap, ptr_next, Address
  <2> QED BY <2>1, <2>2, <1>3
<1>8. Tail(q) = t
  BY <1>3, <1>6, <1>7, SeqEqual
<1> QED BY <1>4, <1>5, <1>8 DEF q, t

(* A byte written n places after the read address lands behind the n bytes *)
(* already there and disturbs none of them.                                *)
LEMMA RingAppend ==
  ASSUME NEW m \in [Address -> Byte], NEW r \in Address, NEW n \in 0 .. DEPTH - 1,
         NEW byte \in Byte
  PROVE  Ring([m EXCEPT ![Wrap(r + n)] = byte], r, n + 1) = Append(Ring(m, r, n), byte)
<1> DEFINE q == Ring(m, r, n)
           a == Append(q, byte)
           m2 == [m EXCEPT ![Wrap(r + n)] = byte]
           q2 == Ring(m2, r, n + 1)
<1>1. n \in Nat /\ n \in 0 .. DEPTH /\ n + 1 \in 0 .. DEPTH /\ DEPTH \in Nat
  BY DepthAssumption
<1>2. Wrap(r + n) \in Address
  BY <1>1 DEF Wrap, Address
<1>3. m2 \in [Address -> Byte]
  BY <1>2
<1>4. /\ q \in Seq(Byte) /\ Len(q) = n
      /\ \A i \in 1 .. n : q[i] = m[Wrap(r + (i - 1))]
  BY <1>1, RingProperties
<1>5. /\ q2 \in Seq(Byte) /\ Len(q2) = n + 1
      /\ \A i \in 1 .. n + 1 : q2[i] = m2[Wrap(r + (i - 1))]
  BY <1>1, <1>3, RingProperties
<1> HIDE DEF q, q2
<1>6. /\ a \in Seq(Byte) /\ Len(a) = n + 1
      /\ \A i \in 1 .. n : a[i] = q[i]
      /\ a[n + 1] = byte
  BY <1>4, AppendProperties
<1>7. \A i \in 1 .. n + 1 : q2[i] = a[i]
  <2> SUFFICES ASSUME NEW i \in 1 .. n + 1 PROVE q2[i] = a[i]
    OBVIOUS
  <2>1. CASE i = n + 1
    <3>1. Wrap(r + (i - 1)) = Wrap(r + n)
      BY <1>1, <2>1
    <3> QED BY <3>1, <2>1, <1>2, <1>5, <1>6
  <2>2. CASE i /= n + 1
    <3>1. i \in 1 .. n
      BY <1>1, <2>2
    <3>2. Wrap(r + (i - 1)) \in Address /\ Wrap(r + (i - 1)) /= Wrap(r + n)
      BY <1>1, <3>1 DEF Wrap, Address
    <3> QED BY <3>1, <3>2, <1>2, <1>4, <1>5, <1>6
  <2> QED BY <2>1, <2>2
<1> HIDE DEF a, m2
<1>8. q2 = a
  BY <1>5, <1>6, <1>7, SeqEqual
<1> QED BY <1>8 DEF q, q2, a, m2

-----------------------------------------------------------------------------
(* One clock of fifo.v is one clock of the queue, in each of the four cases *)
(* of do_push and do_pop; the byte a pop reads at head_data is the oldest.  *)
LEMMA ClockIsQueueClock ==
  ASSUME TypeOK, PointersAgree,
         NEW push \in BOOLEAN, NEW pop \in BOOLEAN, NEW push_data \in Byte,
         Clock(push, pop, push_data)
  PROVE  Queue!Clock(push, pop, push_data)
<1>1. /\ mem \in [Address -> Byte]
      /\ rd_ptr \in Address
      /\ count \in 0 .. DEPTH
      /\ DEPTH \in Nat /\ DEPTH > 0
      /\ wr_ptr = Wrap(rd_ptr + count)
  BY DepthAssumption DEF TypeOK, PointersAgree
<1>2. Contents \in Seq(Byte) /\ Len(Contents) = count
  BY <1>1, RingProperties DEF Contents
<1>3. do_pop(pop) <=> pop /\ Contents /= <<>>
  <2>1. count = 0 <=> Contents = <<>>
    BY <1>1, <1>2, EmptySeq
  <2> QED BY <2>1 DEF do_pop, empty
<1>4. do_push(push, pop) <=> push /\ Queue!Accepts(Contents, pop)
  BY <1>1, <1>2 DEF do_push, full, Queue!Accepts
<1>5. ASSUME do_pop(pop)
      PROVE  /\ count \in 1 .. DEPTH
             /\ Head(Contents) = head_data
             /\ Tail(Contents) = Ring(mem, ptr_next(rd_ptr), count - 1)
             /\ ptr_next(rd_ptr) \in Address
             /\ wr_ptr = Wrap(ptr_next(rd_ptr) + (count - 1))
  <2>1. count \in 1 .. DEPTH
    BY <1>1, <1>5 DEF do_pop, empty
  <2>2. ptr_next(rd_ptr) \in Address
    BY <1>1 DEF ptr_next, Address
  <2>3. wr_ptr = Wrap(ptr_next(rd_ptr) + (count - 1))
    BY <1>1, <2>1 DEF ptr_next, Wrap, Address
  <2> QED BY <1>1, <2>1, <2>2, <2>3, RingTail DEF Contents, head_data
<1>6. taken' = IF pop /\ Contents /= <<>> THEN Head(Contents) ELSE NoByte
  BY <1>3, <1>5 DEF Clock
<1>7. Contents' = Queue!Advance(Contents, push, pop, push_data)
  <2>1. Contents' = Ring(mem', rd_ptr', count')
    BY DEF Contents
  <2>2. Queue!Remaining(Contents, pop)
          = IF do_pop(pop) THEN Tail(Contents) ELSE Contents
    BY <1>3 DEF Queue!Remaining
  <2>3. CASE do_push(push, pop) /\ do_pop(pop)
    <3>1. /\ mem' = [mem EXCEPT ![wr_ptr] = push_data]
          /\ rd_ptr' = ptr_next(rd_ptr)
          /\ count' = (count - 1) + 1
      BY <1>1, <2>3 DEF Clock
    <3>2. Ring([mem EXCEPT ![wr_ptr] = push_data], ptr_next(rd_ptr), (count - 1) + 1)
            = Append(Tail(Contents), push_data)
      <4>1. count - 1 \in 0 .. DEPTH - 1
        BY <1>1, <1>5, <2>3
      <4> QED BY <4>1, <1>1, <1>5, <2>3, RingAppend
    <3> QED BY <2>1, <2>2, <2>3, <3>1, <3>2, <1>4 DEF Queue!Advance
  <2>4. CASE do_push(push, pop) /\ ~do_pop(pop)
    <3>1. /\ mem' = [mem EXCEPT ![wr_ptr] = push_data]
          /\ rd_ptr' = rd_ptr
          /\ count' = count + 1
          /\ count \in 0 .. DEPTH - 1
      BY <1>1, <2>4 DEF Clock, do_push, do_pop, full, empty
    <3>2. Ring([mem EXCEPT ![wr_ptr] = push_data], rd_ptr, count + 1)
            = Append(Contents, push_data)
      BY <1>1, <3>1, RingAppend DEF Contents
    <3> QED BY <2>1, <2>2, <2>4, <3>1, <3>2, <1>4 DEF Queue!Advance
  <2>5. CASE ~do_push(push, pop) /\ do_pop(pop)
    <3>1. mem' = mem /\ rd_ptr' = ptr_next(rd_ptr) /\ count' = count - 1
      BY <2>5 DEF Clock
    <3> QED BY <1>5, <2>1, <2>2, <2>5, <3>1, <1>4 DEF Queue!Advance
  <2>6. CASE ~do_push(push, pop) /\ ~do_pop(pop)
    <3>1. mem' = mem /\ rd_ptr' = rd_ptr /\ count' = count
      BY <2>6 DEF Clock
    <3> QED BY <2>1, <2>2, <2>6, <3>1, <1>4 DEF Queue!Advance, Contents
  <2> QED BY <2>3, <2>4, <2>5, <2>6
<1>8. offered' = IF push THEN push_data ELSE NoByte
  BY DEF Clock
<1> QED BY <1>6, <1>7, <1>8 DEF Queue!Clock

(* fifo.v implements the bounded queue: what was accepted comes out once,  *)
(* in order and unchanged, for every DEPTH, under any traffic.             *)
THEOREM FifoIsAQueue == Spec => ImplementsQueue
<1>1. Init => Queue!Init
  <2> SUFFICES ASSUME Init PROVE Queue!Init
    OBVIOUS
  <2>1. Contents \in Seq(Byte) /\ Len(Contents) = 0
    BY DepthAssumption, RingProperties DEF Init, Contents, Address
  <2>2. Contents = <<>>
    BY <2>1, EmptySeq
  <2> QED BY <2>2 DEF Init, Queue!Init
<1>2. TypeOK /\ TypeOK' /\ PointersAgree /\ [Next]_vars
        => [Queue!Next]_<<Contents, offered, taken>>
  <2> SUFFICES ASSUME TypeOK, TypeOK', PointersAgree, [Next]_vars
               PROVE  [Queue!Next]_<<Contents, offered, taken>>
    OBVIOUS
  <2>1. CASE Reset
    <3>1. Contents' = Ring(mem', rd_ptr', 0)
      BY <2>1 DEF Reset, Contents
    <3>2. Ring(mem', rd_ptr', 0) \in Seq(Byte) /\ Len(Ring(mem', rd_ptr', 0)) = 0
      BY DepthAssumption, RingProperties DEF TypeOK
    <3>3. Contents' = <<>>
      BY <3>1, <3>2, EmptySeq
    <3> QED BY <2>1, <3>3 DEF Reset, Queue!Next, Queue!Reset
  <2>2. ASSUME NEW push \in BOOLEAN, NEW pop \in BOOLEAN, NEW push_data \in Byte,
               Clock(push, pop, push_data)
        PROVE  Queue!Next
    BY <2>2, ClockIsQueueClock DEF Queue!Next
  <2>3. CASE UNCHANGED vars
    BY <2>3 DEF vars, Contents
  <2> QED BY <2>1, <2>2, <2>3 DEF Next
<1> QED
  BY <1>1, <1>2, TypeCorrect, PointersAlwaysAgree, PTL
     DEF Spec, ImplementsQueue, Queue!Spec

=============================================================================
