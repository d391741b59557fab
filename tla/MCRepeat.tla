------------------------------ MODULE MCRepeat ------------------------------
(* Every program of four words over a small alphabet that passes the check: *)
(* a word, a delayed word, a WAIT, a skip that is taken and one that is     *)
(* not, jumps to each of the four words, and REPEATs of one to three runs   *)
(* reaching one to three words back.                                        *)
EXTENDS RepeatBodies

Isa == INSTANCE Isa

W(op, args, d) == Isa!Encode([op |-> op, args |-> args, delay |-> d, side |-> <<>>])

Alphabet ==
  {W("NOP", <<>>, 1), W("WAIT", <<0, 1>>, 0), W("SKIP", <<0, 0>>, 0), W("SKIP_RUN", <<0, 1>>, 0)}
    \cup {W("JMP", <<t>>, 0) : t \in 0 .. 3}
    \cup {W("REPEAT", <<back>>, count - 1) : back, count \in 1 .. 3}

MCPrograms == {p \in [1 .. 4 -> Alphabet] : CheckBodies(p)}

MCLevels == {[p \in Pin |-> 0], [p \in Pin |-> 1]}

=============================================================================
