----------------------------- MODULE CanPrograms -----------------------------
(***************************************************************************)
(* experiments/can/gen.py: the CAN transmitter's identifier, arbitrated or  *)
(* stuffed, in each candidate's words.  A cell is one bit; its words' holds *)
(* are what puts every path through it on the next bit's edge.              *)
(***************************************************************************)
EXTENDS Assembler

Sample == Word("SHIFT_IN", <<0>>)

Sampled(n) == Held("SHIFT_IN", <<0>>, n)

Set(v, n) == Held("SET", <<0, v>>, n)

Nop(n) == Held("NOP", <<>>, n)

Jmp(label) == To("JMP", <<>>, label)

JmpHeld(label, n) == HeldTo("JMP", <<>>, label, n)

(* The bit driven; ID[4]'s PULL takes the last clock of the hold. *)
Out(label, n, pull) ==
  IF pull THEN <<At(label, Held("SHIFT_OUT", <<>>, n - 1)), Word("PULL", <<>>)>>
          ELSE <<At(label, Held("SHIFT_OUT", <<>>, n))>>

Id(n) == <<"id", n>>

-----------------------------------------------------------------------------
(* Arbitration: the bit sent, the bit seen, and lost if they are 1 and 0.   *)

(* A loss on ID[5] taken for one after ID[4]'s PULL. *)
exit_of_late(n) == IF n > 5 THEN <<"lost1", 0>> ELSE <<"lost", 0>>

(* A loss on ID[4] taken for one before its PULL. *)
exit_of_early(n) == IF n >= 4 THEN <<"lost1", 0>> ELSE <<"lost", 0>>

(* A loss before ID[4]'s PULL leaves the second byte queued. *)
exit_of(n) == IF n > 4 THEN <<"lost1", 0>> ELSE <<"lost", 0>>

Pad(n) == <<"p", n>>

(* The sample of the bit as sent: TXD's readback, or the register. *)
SentHeld(op, n, pull) ==
  IF pull THEN <<Held(op, <<0>>, n - 1), Word("PULL", <<>>)>> ELSE <<Held(op, <<0>>, n)>>

Branches(n, nxt, sent) ==
  <<sent, To("BRANCH", <<0, 1>>, nxt), Jmp(exit_of(n))>>
    \o <<At(Pad(n), IF nxt = <<"lost", 0>> THEN Jmp(nxt) ELSE Word("NOP", <<>>))>>

SkipsBoth(n, nxt, sent) ==
  <<sent, JmpHeld(nxt, 1), Word("SKIP", <<0, 0>>), Jmp(nxt), Jmp(exit_of(n))>>

Driven(n) == At(Id(n), Word("SHIFT_OUT", <<>>))

ArbCell(c, n, nxt, pull) ==
  CASE c = "can_A" ->
         <<Driven(n)>> \o SentHeld("SHIFT_IN", 3, pull) \o <<Word("SHIFT_IN", <<1>>)>>
           \o Branches(n, nxt, To("BRANCH", <<1, 0>>, Pad(n)))
    [] c = "can_B" ->
         <<Driven(n)>> \o SentHeld("SHIFT_SENT", 2, pull) \o <<Sample>>
           \o SkipsBoth(n, nxt, Word("SKIP", <<1, 1>>))
    [] c = "can_Bc" ->
         Out(Id(n), 3, pull) \o <<Sample>> \o SkipsBoth(n, nxt, Word("SKIP_SENT", <<0, 1>>))
    [] c = "can_AB" ->
         <<Driven(n)>> \o SentHeld("SHIFT_SENT", 3, pull) \o <<Sample>>
           \o Branches(n, nxt, To("BRANCH", <<1, 0>>, Pad(n)))
    [] c = "can_ABc" ->
         Out(Id(n), 4, pull) \o <<Sample>> \o Branches(n, nxt, To("BRANCH_SENT", <<0, 0>>, Pad(n)))

(* ID[10] down to ID[n]: a cell for each, then what follows. *)
Cells(Cell(_, _, _), n, end, tail) ==
  LET from[m \in 0 .. n + 1] ==
        IF m = 0 THEN tail
        ELSE Cell(m - 1, IF m = 1 THEN end ELSE Id(m - 2), m - 1 = 4) \o from[m - 1]
  IN  from[n + 1]

arbitration(c) ==
  LET Cell(n, nxt, pull) == ArbCell(c, n, nxt, pull)
  IN  <<Word("CONFIG", <<1, IF c = "can_A" THEN 2 ELSE 1>>), Word("CONFIG", <<0, 1>>),
        Word("PULL", <<>>), Held("SHIFT_OUT", <<>>, 7)>>
        \o Cells(Cell, 10, <<"lost", 0>>,
             <<At(<<"lost1", 0>>, Word("PULL", <<>>)), At(<<"lost", 0>>, Word("PUSH", <<0, 1>>))>>)

-----------------------------------------------------------------------------
(* Stuffing: after five equal samples, a bit of the other level.            *)

(* A stuff bit: driven, held, sampled like any bit. *)
Stuff(label, v, held, sampled) == <<At(label, Set(v, held)), Sampled(sampled)>>

(* The tree of today's SKIPs over the four bits before the newest; the exits *)
(* wait out what the longest path takes.                                     *)
SkipTree(first, v, nxt, n) ==
  <<first, JmpHeld(nxt, n), Word("SKIP", <<2, v>>), JmpHeld(nxt, n - 1), Word("SKIP", <<3, v>>),
    JmpHeld(nxt, n - 2), Word("SKIP", <<4, v>>), JmpHeld(nxt, n - 3)>>

BothTrees(n, nxt) ==
  <<Sample, Word("SKIP", <<0, 1>>), Jmp(<<"z", n>>)>> \o SkipTree(Word("SKIP", <<1, 1>>), 1, nxt, 4)

DominantTree(n, nxt) == SkipTree(At(<<"z", n>>, Word("SKIP", <<1, 0>>)), 0, nxt, 3)

base_loop_cell(n, end, pull) ==
  Out(Id(n), 6, FALSE) \o BothTrees(n, end)
    \o <<Nop(2)>> \o Stuff(NoLabel, 0, 7, 5) \o <<Jmp(end)>> \o DominantTree(n, end)
    \o <<Nop(1)>> \o Stuff(NoLabel, 1, 7, 6)

base_cell(n, nxt, pull) ==
  Out(Id(n), 7, pull) \o BothTrees(n, nxt)
    \o <<Nop(1)>> \o Stuff(NoLabel, 0, 7, 6) \o <<Jmp(nxt)>> \o DominantTree(n, nxt)
    \o <<Nop(0)>> \o Stuff(NoLabel, 1, 7, 7)

(* BRANCH out at the first bit that differs, to a ladder of NOPs. *)
BranchTree(n, first, v, nxt) ==
  <<first, To("BRANCH", <<2, v>>, <<"l3", n>>), To("BRANCH", <<3, v>>, <<"l4", n>>),
    To("BRANCH", <<4, v>>, nxt)>>

Ladder(n) == <<At(<<"l2", n>>, Nop(0)), At(<<"l3", n>>, Nop(0)), At(<<"l4", n>>, Nop(0))>>

BranchCell(n, nxt, drive, wait, sampled) ==
  drive \o <<Sample, To("BRANCH", <<0, 1>>, <<"z", n>>)>>
    \o BranchTree(n, To("BRANCH", <<1, 1>>, <<"l2", n>>), 1, nxt)
    \o wait \o Stuff(NoLabel, 1, 5, sampled) \o <<Jmp(nxt)>>
    \o BranchTree(n, At(<<"z", n>>, To("BRANCH", <<1, 0>>, <<"l2", n>>)), 0, nxt)
    \o wait \o Stuff(NoLabel, 0, 5, sampled) \o <<Jmp(nxt)>> \o Ladder(n)

(* A stuff bit held for one clock more. *)
a_cell_long(n, nxt, pull) == BranchCell(n, nxt, Out(Id(n), 5, pull), <<>>, 5)

a_cell(n, nxt, pull) == BranchCell(n, nxt, Out(Id(n), 5, pull), <<>>, 4)

a_loop_cell(n, end, pull) == BranchCell(n, end, Out(Id(n), 4, FALSE), <<Nop(0)>>, 3)

(* Two run tests, each over the JMP to its stuff bit. *)
RunTests(n, nxt, hold) ==
  <<Sample, Word("SKIP_NORUN", <<5, 1>>), JmpHeld(<<"d", n>>, hold),
    Word("SKIP_NORUN", <<5, 0>>), JmpHeld(<<"r", n>>, hold - 1), Jmp(nxt)>>

c_cell(n, nxt, pull) ==
  Out(Id(n), 3, pull) \o RunTests(n, nxt, 1)
    \o Stuff(<<"d", n>>, 0, 3, 2) \o <<Jmp(nxt)>> \o Stuff(<<"r", n>>, 1, 3, 3)

c_loop_cell(n, end, pull) ==
  Out(Id(n), 2, FALSE) \o RunTests(n, end, 2)
    \o Stuff(<<"d", n>>, 0, 3, 1) \o <<Jmp(end)>> \o Stuff(<<"r", n>>, 1, 3, 2)

RunBranches(n) ==
  <<Sample, To("BRANCH_RUN", <<5, 1>>, <<"p", n>>), To("BRANCH_RUN", <<5, 0>>, <<"r", n>>)>>

ac_cell(n, nxt, pull) == Out(Id(n), 4, pull) \o RunBranches(n)

ac_blocks(n, nxt) ==
  <<At(<<"p", n>>, Nop(0))>> \o Stuff(<<"d", n>>, 0, 4, 1) \o <<Jmp(nxt)>>
    \o Stuff(<<"r", n>>, 1, 4, 1) \o <<Jmp(nxt)>>

ac_loop_cell(n, end, pull) ==
  Out(Id(n), 2, FALSE) \o RunBranches(n) \o <<Jmp(end)>>
    \o <<At(<<"p", n>>, Nop(2))>> \o Stuff(NoLabel, 0, 4, 0) \o <<Jmp(end)>>
    \o <<At(<<"r", n>>, Nop(1))>> \o Stuff(NoLabel, 1, 4, 1)

(* The run counter's test, then the level. *)
SameTest(n, nxt, hold, jump) ==
  <<Sample, Word("SKIP_SAME", <<5>>), JmpHeld(nxt, 2), Word("SKIP", <<0, 0>>),
    JmpHeld(<<"d", n>>, jump), Nop(jump)>>

d_cell(n, nxt, pull) ==
  Out(Id(n), 4, pull) \o SameTest(n, nxt, 2, 1)
    \o Stuff(<<"r", n>>, 1, 4, 3) \o <<Jmp(nxt)>> \o Stuff(<<"d", n>>, 0, 4, 4)

d_loop_cell(n, end, pull) ==
  Out(Id(n), 3, FALSE) \o SameTest(n, end, 2, 2)
    \o Stuff(<<"r", n>>, 1, 4, 2) \o <<Jmp(end)>> \o Stuff(<<"d", n>>, 0, 4, 3)

SameBranch(n) == <<Sample, To("BRANCH_SAME", <<5>>, <<"s", n>>)>>

LevelBranch(n) == <<At(<<"s", n>>, To("BRANCH", <<0, 0>>, <<"r", n>>))>>

ad_cell(n, nxt, pull) == Out(Id(n), 4, pull) \o SameBranch(n) \o <<Nop(0)>>

ad_blocks(n, nxt) ==
  LevelBranch(n) \o Stuff(NoLabel, 0, 4, 1) \o <<Jmp(nxt)>>
    \o Stuff(<<"r", n>>, 1, 4, 1) \o <<Jmp(nxt)>>

ad_loop_cell(n, end, pull) ==
  Out(Id(n), 2, FALSE) \o SameBranch(n) \o <<JmpHeld(end, 1)>> \o LevelBranch(n)
    \o <<Nop(1)>> \o Stuff(NoLabel, 0, 4, 0) \o <<Jmp(end)>>
    \o <<At(<<"r", n>>, Nop(1))>> \o Stuff(NoLabel, 1, 4, 1)

-----------------------------------------------------------------------------
Cell(c, n, nxt, pull) ==
  CASE c = "can" -> base_cell(n, nxt, pull) [] c = "can_A" -> a_cell(n, nxt, pull)
    [] c = "can_C" -> c_cell(n, nxt, pull)  [] c = "can_AC" -> ac_cell(n, nxt, pull)
    [] c = "can_D" -> d_cell(n, nxt, pull)  [] c = "can_AD" -> ad_cell(n, nxt, pull)

LoopCell(c, n, end) ==
  CASE c = "can" -> base_loop_cell(n, end, FALSE) [] c = "can_A" -> a_loop_cell(n, end, FALSE)
    [] c = "can_C" -> c_loop_cell(n, end, FALSE)  [] c = "can_AC" -> ac_loop_cell(n, end, FALSE)
    [] c = "can_D" -> d_loop_cell(n, end, FALSE)  [] c = "can_AD" -> ad_loop_cell(n, end, FALSE)

Blocks(c, n, nxt) ==
  CASE c = "can_AC" -> ac_blocks(n, nxt) [] c = "can_AD" -> ad_blocks(n, nxt) [] OTHER -> <<>>

(* The cycles of a bit, and the hold before the sample, straight and looped. *)
UNROLLED ==
  [can |-> <<16, 7>>, can_A |-> <<12, 5>>, can_C |-> <<8, 3>>, can_AC |-> <<8, 4>>,
   can_D |-> <<10, 4>>, can_AD |-> <<8, 4>>]

LOOPED == [can |-> 6, can_A |-> 4, can_C |-> 2, can_AC |-> 2, can_D |-> 3, can_AD |-> 2]

(* The SOF and ID[10:8], which no run of five can end on, then the checked  *)
(* bits one by one, or ID[7:5] and ID[3:0] as REPEAT bodies.                *)
stuff_program(c, loop) ==
  LET L == UNROLLED[c][1]
      k == IF loop THEN LOOPED[c] ELSE UNROLLED[c][2]
      done == <<"done", 0>>
      halt == <<"halt", 0>>
      Straight(n, nxt, pull) == Cell(c, n, nxt, pull)
      Block(n, nxt, pull) == Blocks(c, n, nxt)
      tail == IF loop THEN Blocks(c, 4, Id(3)) ELSE Cells(Block, 7, done, <<>>)
      Looped(n, count, end) ==
        LoopCell(c, n, end) \o <<At(end, To("REPEAT", <<count>>, Id(n)))>>
  IN  <<Word("CONFIG", <<1, 1>>), Word("CONFIG", <<0, 1>>), Word("PULL", <<>>),
        At(<<"first", 0>>, Held("SHIFT_OUT", <<>>, k)), Sampled(L - k - 3),
        To("REPEAT", <<4>>, <<"first", 0>>)>>
        \o (IF loop
              THEN Looped(7, 3, <<"end", 1>>) \o Cell(c, 4, Id(3), TRUE) \o Looped(3, 4, <<"end", 2>>)
              ELSE Cells(Straight, 7, done, <<>>))
        \o <<At(done, Word("PUSH", <<0, 1>>))>>
        \o (IF tail = <<>> THEN <<>> ELSE <<Jmp(halt)>> \o tail \o <<Alone(halt)>>)

=============================================================================
