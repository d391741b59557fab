-------------------------------- MODULE Bits --------------------------------
(* Bit fields of natural numbers, and registers as vectors of bits: bit k   *)
(* of a register is the vector's value at k, 0 the least significant.       *)
EXTENDS Naturals

BIT == {0, 1}

(* The field of x that is `bits` wide from bit lsb up: x[lsb+bits-1:lsb]. *)
Field(x, lsb, bits) == (x \div 2^lsb) % 2^bits

Bit(x, k) == Field(x, k, 1)

Vec(n) == [0 .. n - 1 -> BIT]

Zero(n) == [k \in 0 .. n - 1 |-> 0]

VecOf(x, n) == [k \in 0 .. n - 1 |-> Bit(x, k)]

(* The number an n-bit vector stands for. *)
NatOf(v, n) ==
  LET low[k \in 0 .. n] == IF k = 0 THEN 0 ELSE low[k - 1] + v[k - 1] * 2^(k - 1)
  IN  low[n]

(* a ^ b, bit by bit, as the number it is. *)
Xor(a, b, n) == NatOf([k \in 0 .. n - 1 |-> (Bit(a, k) + Bit(b, k)) % 2], n)

=============================================================================
