---------------------------- MODULE RepeatBodies ----------------------------
(***************************************************************************)
(* What model/cpu.py's check_bodies buys.  The hardware keeps one REPEAT    *)
(* counter, rc, and no record of which loop it belongs to; the assembler    *)
(* refuses the programs for which that would not do.  Here the core of Top  *)
(* runs programs that pass the check, and the properties say what a         *)
(* programmer of REPEAT relies on.                                          *)
(***************************************************************************)
EXTENDS Top

At(p, a) == p[a + 1]

Addresses(p) == 0 .. Len(p) - 1

Ends(p) == {a \in Addresses(p) : is_repeat(At(p, a))}

(* The label of the REPEAT at e: the first word of its body. *)
Label(p, e) == e - operand(At(p, e))

Skips(w) == is_skip(w) \/ is_run(w)

(* No REPEAT inside a body: no nesting and no overlap. *)
NoInnerRepeat(p, e) == \A o \in Ends(p) : ~ (Label(p, e) <= o /\ o < e)

JumpsStay(p, e) ==
  \A a \in Addresses(p) :
    is_jmp(At(p, a)) =>
      IF Label(p, e) <= a /\ a < e
        THEN Label(p, e) <= operand(At(p, a)) /\ operand(At(p, a)) <= e
        ELSE ~ (Label(p, e) < operand(At(p, a)) /\ operand(At(p, a)) <= e)

(* A SKIP just before the REPEAT would step over it; one outside must not   *)
(* step into the body past its label.                                       *)
SkipsStay(p, e) ==
  /\ ~Skips(At(p, e - 1))
  /\ \A a \in Addresses(p) :
       Skips(At(p, a)) /\ ~ (Label(p, e) <= a /\ a < e) =>
         ~ (Label(p, e) < a + 2 /\ a + 2 <= e)

(* The check with one of its rules forgotten. *)
CheckNestingOnly(p) ==
  \A e \in Ends(p) : operand(At(p, e)) >= 1 /\ Label(p, e) >= 0 /\ NoInnerRepeat(p, e)

CheckWithoutJumps(p) ==
  \A e \in Ends(p) :
    operand(At(p, e)) >= 1 /\ Label(p, e) >= 0 /\ NoInnerRepeat(p, e) /\ SkipsStay(p, e)

(* check_bodies; the decode it begins with refuses a back of 0. *)
CheckBodies(p) ==
  \A e \in Ends(p) :
    /\ operand(At(p, e)) >= 1
    /\ NoInnerRepeat(p, e)
    /\ Label(p, e) >= 0
    /\ SkipsStay(p, e)
    /\ JumpsStay(p, e)

ASSUME CheckedAssumption == \A p \in Programs : CheckBodies(p)

-----------------------------------------------------------------------------
VARIABLE passes     \* history: REPEATs that sent the pc back since the loop began

rvars == <<vars, passes>>

(* The REPEAT at the pc, if the core is on one, executes on this clock. *)
OnRepeat == pc < Len(program) /\ delay_counter = 0 /\ is_repeat(imem_word)

RInit == Init /\ passes = 0

RClock ==
  /\ \E g \in Levels : Clock(g)
  /\ passes' = CASE ~OnRepeat -> passes
                 [] OnRepeat /\ rc_next(imem_word) = 0 -> 0
                 [] OTHER -> passes + 1

(* A restart ends whatever loop ran; one into another program is like a     *)
(* start.                                                                   *)
RStop ==
  /\ UNCHANGED program
  /\ Restart \/ Reset
  /\ passes' = 0

RNext == RClock \/ RStop

RSpec == RInit /\ [][RNext]_rvars

Body(e) == Label(program, e) .. e

-----------------------------------------------------------------------------
(* While rc counts, the pc is inside the one body rc belongs to, and rc     *)
(* with the passes made adds up to that loop's count: no jump, skip, stall  *)
(* or delay lets the counter of one loop leak into another.                 *)
CounterBelongsToItsLoop ==
  IF rc = 0
    THEN passes = 0
    ELSE \E e \in Ends(program) :
           pc \in Body(e) /\ rc + passes = delay(At(program, e)) + 1

(* A loop is left with its body run exactly `count` times: bits 12:8 hold   *)
(* count - 1, and on the REPEAT that goes on the passes before it and this  *)
(* one make count.                                                          *)
RunsExactlyCount ==
  [][RClock /\ OnRepeat /\ rc_next(imem_word) = 0
       => passes + 1 = delay(imem_word) + 1]_rvars

(* A body is entered at its label, whatever jumps or skips about it, and    *)
(* left only by its REPEAT going on (or by the host's reset or restart).    *)
EntersAtLabel ==
  [][\A e \in Ends(program) : pc \notin Body(e) /\ pc' \in Body(e)
       => pc' = Label(program, e)]_rvars

LeavesByItsRepeat ==
  [][\A e \in Ends(program) : RClock /\ pc \in Body(e) /\ pc' \notin Body(e)
       => pc = e /\ pc' = e + 1 /\ rc' = 0]_rvars

=============================================================================
