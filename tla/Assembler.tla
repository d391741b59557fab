------------------------------ MODULE Assembler ------------------------------
(***************************************************************************)
(* model/cpu.py's assemble, with the syntax that the candidates' assemblers *)
(* rewrite before it.  A source line is a record: the label on it, the      *)
(* mnemonic (Nothing for a label alone), its numbers as written, the label  *)
(* or address it ends with, and the number in brackets.  Labels are pairs   *)
(* of a name and a number.                                                  *)
(***************************************************************************)
EXTENDS CandidateIsa, Integers

LOCAL INSTANCE TLC

Nothing == "nothing"

NoLabel == <<Nothing, 0>>

Address(a) == <<"address", a>>

NoDelay == -1

(* The ways to write a line. *)
Word(op, args) == [at |-> NoLabel, op |-> op, args |-> args, to |-> NoLabel, delay |-> NoDelay]

Held(op, args, n) == [Word(op, args) EXCEPT !.delay = n]

To(op, args, label) == [Word(op, args) EXCEPT !.to = label]

HeldTo(op, args, label, n) == [Held(op, args, n) EXCEPT !.to = label]

At(label, line) == [line EXCEPT !.at = label]

Alone(label) == At(label, Word(Nothing, <<>>))

-----------------------------------------------------------------------------
Code(lines) == SelectSeq(lines, LAMBDA line : line.op /= Nothing)

(* A label is the address of the next word. *)
Labels(lines) ==
  LET marked == {k \in DOMAIN lines : lines[k].at /= NoLabel}
  IN  [label \in {lines[k].at : k \in marked} |->
         LET k == CHOOSE k \in marked : lines[k].at = label
         IN  Len(Code(SubSeq(lines, 1, k - 1)))]

LabelledOnce(lines) ==
  \A j, k \in DOMAIN lines : j /= k /\ lines[j].at /= NoLabel => lines[j].at /= lines[k].at

Target(to, labels) == IF to \in DOMAIN labels THEN labels[to] ELSE to[2]

Known(to, labels) == to \in DOMAIN labels \/ to[1] = "address"

(* The candidate's words that step over the next one. *)
SKIPS ==
  [c \in Candidate |->
     (DOMAIN isa[c] \cap {"SKIP_RUN", "SKIP_NORUN"})
       \cup (Added[c] \cap {"SKIP_SENT", "SKIP_SAME", "SKIP_PIN", "SKIP1", "SKIP8", "SKIP16", "SKIP24"})
       \cup {"SKIP"}] @@ <<>>

(* Words written with a run's length n, and holding n - 1: the ISA's, and    *)
(* those a candidate counts as its own.                                     *)
RUN_TESTS == {"SKIP_RUN", "SKIP_NORUN"}

RUNS(c) ==
  (IF "Run" \in CANDIDATES[c] THEN RUN_TESTS \cup {"BRANCH_RUN"} ELSE {})
    \cup (IF "Same" \in CANDIDATES[c] THEN {"SKIP_SAME", "BRANCH_SAME"} ELSE {})

WrittenAsRun(c) == RUN_TESTS \cup RUNS(c)

(* The branch family: its kind and how many numbers come before the label. *)
BRANCHES ==
  [BRANCH |-> [kind |-> 0, numbers |-> 2, test |-> "Branch"],
   BRANCH_SENT |-> [kind |-> 1, numbers |-> 2, test |-> "SentCondition"],
   BRANCH_RUN |-> [kind |-> 1, numbers |-> 2, test |-> "Run"],
   BRANCH_SAME |-> [kind |-> 1, numbers |-> 1, test |-> "Same"]]

WIDTH(c) == IF c = "crc_W32" THEN 32 ELSE IF "Wide" \in CANDIDATES[c] THEN 16 ELSE 8

(* SKIP with an index the register alone does not reach. *)
IsFar(c, line) == c \in CrcRound /\ line.op = "SKIP" /\ line.args /= <<>> /\ line.args[1] >= 8

FarSkip(index) == CASE index \div 8 = 1 -> "SKIP8" [] index \div 8 = 2 -> "SKIP16" [] OTHER -> "SKIP24"

Written(delay) == IF delay = NoDelay THEN 0 ELSE delay

(* The count held as it is written. *)
repeat_written(line, address, labels) ==
  [op |-> "REPEAT", args |-> <<address - Target(line.to, labels)>>,
   delay |-> line.args[1] % 32, side |-> NoSide]

(* REPEAT count, label: the count in bits 12:8, the distance back below. *)
repeat(line, address, labels) ==
  [op |-> "REPEAT", args |-> <<address - Target(line.to, labels)>>,
   delay |-> line.args[1] - 1, side |-> NoSide]

Branched(c, line, address, labels) ==
  LET a == IF line.op \in WrittenAsRun(c) THEN line.args[1] - 1 ELSE line.args[1]
      level == IF BRANCHES[line.op].numbers = 2 THEN line.args[2] ELSE 0
  IN  [op |-> "BRANCH", args |-> <<Target(line.to, labels) - address>>,
       delay |-> BRANCHES[line.op].kind * 16 + a * 2 + level, side |-> NoSide]

(* Numbers after an instruction's own are its side effect. *)
Plain(c, line, labels) ==
  LET op == IF IsFar(c, line) THEN FarSkip(line.args[1]) ELSE line.op
      first == CASE IsFar(c, line) -> line.args[1] % 8
                 [] op \in WrittenAsRun(c) -> line.args[1] - 1
                 [] OTHER          -> line.args[1]
      args == (IF line.args = <<>> THEN <<>> ELSE <<first>> \o Tail(line.args))
                \o (IF line.to = NoLabel THEN <<>> ELSE <<Target(line.to, labels)>>)
      n == Len(isa[c][op].operands)
      sided == Len(args) > n /\ isa[c][op].side
  IN  [op |-> op, args |-> IF sided THEN SubSeq(args, 1, n) ELSE args,
       delay |-> Written(line.delay), side |-> IF sided THEN SubSeq(args, n + 1, Len(args)) ELSE NoSide]

Instruction(c, line, address, labels) ==
  CASE line.op = "REPEAT"         -> repeat(line, address, labels)
    [] line.op \in DOMAIN BRANCHES -> Branched(c, line, address, labels)
    [] OTHER                      -> Plain(c, line, labels)

(* What each of them refuses by itself; check_operands refuses the rest. *)
Writable(c, line, address, labels) ==
  /\ line.to /= NoLabel => Known(line.to, labels)
  /\ line.op \in DOMAIN BRANCHES =>
       /\ BRANCHES[line.op].test \in CANDIDATES[c] /\ "Branch" \in CANDIDATES[c]
       /\ line.delay = NoDelay /\ line.to /= NoLabel
       /\ Len(line.args) = BRANCHES[line.op].numbers
       /\ line.op \in RUNS(c) => line.args[1] \in 1 .. 8
       /\ line.op \notin RUNS(c) => line.args[1] \in 0 .. IF line.op = "BRANCH_SENT" THEN 3 ELSE 7
       /\ BRANCHES[line.op].numbers = 2 => line.args[2] \in 0 .. 1
  /\ line.op \notin DOMAIN BRANCHES => line.op \in DOMAIN isa[c]
  /\ line.op = "REPEAT" =>
       line.delay = NoDelay /\ Len(line.args) = 1 /\ line.to /= NoLabel /\ line.args[1] \in 1 .. 32
  /\ line.op \in WrittenAsRun(c) \ DOMAIN BRANCHES => line.args /= <<>> /\ line.args[1] \in 1 .. 8
  /\ IsFar(c, line) => line.args[1] < WIDTH(c) /\ Len(line.args) = 2

Assembled(c, line, address, labels) ==
  Codec(c)!Encode(Instruction(c, line, address, labels))

Accepted(c, line, address, labels) ==
  /\ Writable(c, line, address, labels)
  /\ LET i == Instruction(c, line, address, labels)
     IN  Codec(c)!CheckOperands(i) /\ (i.side /= NoSide => Len(i.side) = 2)

Words(c, lines) ==
  LET code == Code(lines)
      labels == Labels(lines)
  IN  [k \in DOMAIN code |-> Assembled(c, code[k], k - 1, labels)]

-----------------------------------------------------------------------------
(* Where the word at an address may send the pc, besides the next word. *)
Targets(c, ops, address) ==
  LET i == ops[address + 1]
  IN  CASE i.op = "JMP"       -> {i.args[1]}
        [] i.op = "BRANCH"    -> {address + i.args[1]}
        [] i.op \in SKIPS[c]  -> {address + 2}
        [] OTHER              -> {}

Bodies(ops) ==
  {<<address - ops[address + 1].args[1], address>> :
     address \in {a \in 0 .. Len(ops) - 1 : ops[a + 1].op = "REPEAT"}}

(* Both check_bodies: the rules for REPEAT, JMP and SKIP, and a branch held *)
(* to a JMP's.                                                              *)
check_bodies(c, ops) ==
  \A body \in Bodies(ops) :
    LET start == body[1]
        end == body[2]
        Inside(a) == start <= a /\ a < end
    IN  /\ \A other \in Bodies(ops) : ~Inside(other[2])
        /\ start >= 0
        /\ ops[end].op \notin SKIPS[c]
        /\ \A a \in 0 .. Len(ops) - 1 : \A target \in Targets(c, ops, a) :
             IF Inside(a) THEN start <= target /\ target <= end
                          ELSE ~ (start < target /\ target <= end)

Ops(c, words) == [k \in DOMAIN words |-> Codec(c)!Decode(words[k])]

Assembles(c, lines) ==
  LET code == Code(lines)
      labels == Labels(lines)
  IN  /\ LabelledOnce(lines)
      /\ \A k \in DOMAIN code : Accepted(c, code[k], k - 1, labels)
      /\ check_bodies(c, Ops(c, Words(c, lines)))

-----------------------------------------------------------------------------
(* A word as its listing has it: what was written, with addresses. *)
listing(c, address, word) ==
  LET i == Codec(c)!Decode(word)
      op == CASE i.op = "BRANCH" -> KINDS(c, Kind(i.delay))
              [] i.op \in {"SKIP8", "SKIP16", "SKIP24"} -> "SKIP"
              [] OTHER -> i.op
      a == (i.delay \div 2) % 8
      high == CASE i.op = "SKIP8" -> 8 [] i.op = "SKIP16" -> 16 [] i.op = "SKIP24" -> 24 [] OTHER -> 0
      first == CASE op \in RUNS(c) -> i.args[1] + 1 [] OTHER -> high + i.args[1]
  IN  CASE i.op = "BRANCH" ->
             To(op, <<IF op \in RUNS(c) THEN a + 1 ELSE a>>
                      \o (IF op = "BRANCH_SAME" THEN <<>> ELSE <<i.delay % 2>>),
                Address(address + i.args[1]))
        [] i.op = "REPEAT" -> To(op, <<i.delay + 1>>, Address(address - i.args[1]))
        [] OTHER ->
             Held(op, (IF i.args = <<>> THEN <<>> ELSE <<first>> \o Tail(i.args)) \o i.side, i.delay)

=============================================================================
