# SmallCore in TLA+

SmallCore is a programmable serial engine in Verilog: a one-instruction-at-a-time core with
four pins, two byte FIFOs to a host, a ROM of protocol programs and a RAM the host can load.
A Python model of the same core (`model/cpu.py`) is both assembler and golden reference, and
the repository's benches step the two side by side on chosen programs. Around it are a host
for an FPGA board (an engine in Verilog, an AXI peripheral, a driver in C) and the
experiments: candidate instruction sets, each a variant of the Python model, compared by
programs that Python generators write for them.

This directory does with TLC what those benches do, for *all* interleavings on small
instances, and with TLAPS, where a proof is possible, for every instance.

## 1. The system

| component | source | state | operations |
|---|---|---|---|
| byte FIFO | `rtl/fifo.v` | memory, two pointers, a count | push, pop, both, reset |
| core | `rtl/core.v` | 9-bit pc, delay counter, REPEAT counter `rc`, pins, configuration, two shift registers, accumulator and polynomial | one clock edge: issue, stall or delay; reset |
| core with its FIFOs | `rtl/top.v` | the core and two FIFOs | clock, restart (core only), reset (all) |
| golden model | `model/cpu.py`, `tests/rtl/top_adversarial_tb.py` | the same as integers and lists, and a stored `halted` | `CPU.step`, `CPU.restart`, the lockstep's edge |
| instruction set | `isa/isa.yaml`, `model/cpu.py` | none | `check_operands`, `encode`, `decode`, `check_bodies` |
| assembler | `model/cpu.py`, the candidates' `parse` and `listing` | labels | lines to words, words to lines |
| register block, RAM | `rtl/host.v`, `rtl/ram.v` | two strobe synchronizers, slot, mode, loader address, count, half word; the RAM | transactions by strobe; load, run, select |
| chip | `rtl/smallcore.v` | all of the above | one clock edge |
| FPGA host engine | `fpga/pynq_z2/can_host_engine.v` | a sequencer over the register bus, pending requests, an RX ring | control, raw, TX and RX transactions |
| AXI peripheral | `fpga/pynq_z2/smallcore_axi.v`, `smallcore_pynq_axi.v` | handshakes, registers, a staging FIFO, a committed count | register reads and writes of the ARM |
| ARM driver | `fpga/pynq_z2/arm/smallcore.c`, its callers | timeouts; what it was last told | load, run, send, receive, raw access, by polling |
| candidates | `experiments/{repeat,can,crc}/candidates.py` | `cpu.CPU`'s, and each class's own: a loop stack, a second register stage, a run counter, a lane | `step`, `restart`, `unroll` |
| program generators | `experiments/{can,crc,combined,can_stress}/gen.py` | none | a program for a candidate, an identifier, a DLC, a bit time |
| CAN reference | `fpga/pynq_z2/can_ref.py` | none | `crc15`, `stream`, `stuff`, `frame`, `destuff` |
| programs by hand | `programs/` | none | UART, SPI, I2C, SWD, CAN on the core |

Everything in the chip is on one clock, so concurrency is not threads but **what may fall on
the same edge**: the host pushes while the core pulls, restarts while the core pushes, loads
RAM words while the core reads the same memory, lets go of a strobe while a synchronizer is
still carrying it. Nothing is lost or duplicated on a wire; what can be lost is a byte at a
full FIFO, a transaction at the edge of reset, a count that belongs to another loop. The ARM
meets the chip through the host engine, which makes one transaction at a time out of four
kinds of request; there the question is which request waits for which, and what a call that
gave up on a timeout leaves on the way. A program meets the bus through its own clocks: it
decides bit by bit what to do next, and **every path through a decision has to take the same
time**, whatever it sampled and whenever the host's byte came.

What makes each part correct:

* **FIFO** - a bounded queue, for any depth, also when both sides act on one edge.
* **Core** - clock for clock the golden model; a stalled instruction has done nothing yet, a
  delayed one does nothing more.
* **Decode** - the table and the wires read each word alike; a candidate's words are none that
  had a meaning; a listing assembles to what it lists.
* **REPEAT** - one counter serves all loops: under `check_bodies`' rules it never leaks.
* **Register block** - one strobe, one transaction; the RAM holds what was sent.
* **Chip** - a program never changes under a running core; STATUS can be acted upon.
* **Host engine and AXI peripheral** - `host.v`'s timing rules are kept; each byte passes once and
  in order; what a busy flag, a done flag or a count tells the ARM is true when it reads it;
  every request is served.
* **Driver** - `SC_OK` means the call's own request was done, whatever timed out before it.
* **Candidates** - a loop does what it does written out; a class's registers are what they say of
  the samples.
* **Generated programs** - the bits on the bus are the reference's, each for its own clocks; the
  bytes handed over are the frame's; each program comes to its end.

The hazards list in `PROJECT.json` has each of these at the line where it would go wrong.

## 2. Modules

```
Bits -+- CoreDecode - Core -+- Top -- MCTop                       QueueStep - ByteQueue
      |                     |   |\--- RepeatBodies -- MCRepeat       ^ implemented by
      |                     |   |          '------ RepeatProofs    Fifo -- FifoProofs
      |                     |   '-- TopProofs -----'
      |                     |          '--- (INSTANCE) -------.
      |             Host ---+-- SmallCore -- MCSmallCore      |    (implements Top)
      |               |             '--------------------- SmallCoreProofs
      |               |                  HostLemmas ----------'
      |               +- HostSpec ----------- HostProofs          (implements HostRegisters)
      |               '-------------.
      |   HostEngine -- AxiHost -- AxiChip -- MCAxi                (implements AxiService)
      |                               '---- ArmDriver -- MCDriver
      |                                         '------- AxiProofs
      |
      +- IsaRows -+- IsaCodec ----------.
      |           '- Isa -+- GoldenCpu   '-- (INSTANCE: Isa, CandidateIsa, IsaAgreement)
      |                   '- CandidateIsa -- Assembler -+- IsaAgreement -+- MCCodecs
      |            CanPrograms, CrcPrograms, ----.      |
      |            FramePrograms                 |      |               '- IsaProofs
      |                                          |      '- CandidateCpu
      |                                          |             |
      |                                     CandidateBench ----'
      |                                          '--- CandidateSpec -- MCCandidates
      '- CanReference -- (INSTANCE: MCCodecs)
```

**The chip**

* `QueueStep`, `ByteQueue` (abstract) and `Fifo` - one clock of a queue with at most `Capacity`
  bytes as operators; the queue with what its sides offered and took on the last clock; and `fifo.v` with
  its memory, `rd_ptr`, `wr_ptr` and `count`. Pointers are integers, not bit vectors; `TypeOK`
  says that they never need more than the widths the Verilog gives them.
* `Bits`, `CoreDecode` - bit fields of words; `core.v`'s decode wires as operators of a word.
* `Core` - `core.v`. Each register is a variable, each wire an operator of the record `in` of
  what the input ports carry on that clock. `CoreClock(in)` is the `else` half of the clocked
  block, `CoreReset` its reset half. A register is a vector of bits where the code shifts it
  and a number where the code counts with it.
* `Top` - `top.v` around `Core`, the FIFOs as queues that `QueueStep` advances. `Clock`, `Restart` (the core's
  reset while the FIFOs see only the host) and `Reset`; `FifosMove` chooses the host's push
  and pop of each edge. Instruction memory holds a program that changes only with the core's
  reset; `SmallCore` shows that this is what the chip does.
* `GoldenCpu` - `CPU.step`, split by what the first, the middle and the last cycle of an
  instruction assign, and the lockstep's edge around it (`Host`). It is written from
  `cpu.py`, with integers and `Decode`, and shares nothing with `Core` but the word.
* `MCTop` - beside the instance, the refinement mapping from `Top` to `GoldenCpu`, and
  `ImplementsGolden == Golden!Spec`; it uses recursive functions, which the proofs do not reach.
* `RepeatBodies` - `check_bodies` as a predicate on programs, assumed of all `Programs`, and
  a history counter of the passes of the loop under way.
* `HostRegisters` (abstract), `Host`, `HostSpec` - what the host is promised, and `host.v` with
  its two synchronizers, edge detectors, loader and RAM. A step is a clock edge followed by
  what the host does with its pins before the next one, under the timing rules of `host.v`'s
  header (`MinHigh` clocks up, `MinLow` down, also after reset). `owed` and `event` are history
  variables that the mapping needs.
* `SmallCore` - `smallcore.v`: `Host`, `Core` and two queues on one clock, the instruction memory
  multiplexer, and `rdata`. The host pushes and pops through its strobes only.

**The FPGA host**

* `HostEngine` - `host_engine`: the phases LOW0, STAT, SETUP and HIGH of a transaction, the
  decision of STAT in its order of priority, the pending requests, and the RX ring with the
  order of its assignments (a store wins over a clear). Its input ports are the record `in`.
* `AxiHost` - `smallcore_axi.v`: the two handshakes, the registers with state, the one-clock command
  pulses, TX staging and TX_COMMITTED. What the ARM drives on a clock is the record `bus`.
* `AxiService` (abstract) - what the ARM is promised of its bytes: a queue that it stages, the
  chip's FIFOs or its loader, a ring with a flag for dropped bytes, and no transactions.
* `AxiChip` - `AxiHost` and `host.v` (an INSTANCE of `Host`, its pins the engine's bus) on one clock,
  with two queues and a core that may do whatever a program can: pull, push, wait in a PUSH,
  halt. The core is that much and no more because the engine sees only the FIFOs and `halted`.
* `ArmDriver` - `smallcore.c` on `AxiChip`. A call is the sequence of its register accesses
  (`Accesses`): stores, polls with what they wait for, and the reads whose value is looked at.
  A poll that has not read what it waits for reads again or, in an impatient session, returns
  SC_TIMEOUT; a call that fails ends its caller's round where the caller looks at the result
  (`checked`), and a call after `&&` is made only if all went well (`if_ok`). Between two accesses
  any number of clocks may pass. What a caller may call is
  `Callable`, and `CallsAssumption` says that a session's traffic has every access of its calls.
  `MCDriver` has the rounds of `can_bench.c` (a ROM slot, the RAM, receiving), `diag_tx.c` and
  `test_host.c`, and works out their traffic from the calls.

**Instruction sets and programs**

* `IsaRows`, `IsaCodec`, `Isa` - the form of an instruction table; `check_operands`, `encode` and
  `decode` of `cpu.py` over any table; `isa.yaml`'s table.
* `IsaAgreement` - the mnemonic, operands and side effect that the core's wires select for the
  same word; the word in every candidate beside the ISA of its round, and its listing.
* `CandidateIsa` - the tables of the three comparisons: the ISA as it stood when the round began, and
  the rows each class adds or puts in the place of others; 20 candidates, each a set of classes, and the core itself.
* `Assembler` - `assemble` with what the candidates' assemblers rewrite before it. A line is a
  record of label, mnemonic, numbers as written, target and hold. `Assembles` is what it
  accepts, `Image` what it makes, `listing` the way back.
* `CandidateCpu` - `Candidate.step` with each class's hooks. A word does to the shared registers
  what some word of `GoldenCpu` does (`Base`), then its own business with the class's own
  (`own`): the loop counters, the second stage, the run counter, the lane, the return of a burst.
  What a program of the repeat round means is the program for the plain ISA that `unroll` writes,
  and the position in it, so that `GoldenCpu` is the specification.
* `CanPrograms`, `CrcPrograms`, `FramePrograms` - the generators, as sequences of lines.
* `CanReference` - `can_ref.py`: what a frame is, spelled and read back (`MCCodecs` does the one and
  then the other).
* `CandidateBench` - a program, the host that writes its bytes between clocks, restarts, and what
  the pins are wired to: any levels, another arbitrating node, the pad's own readback a few
  clocks late, a rival's frame, a sender's frames, receivers that acknowledge or not.
* `CandidateSpec` - what the programs and the registers promise on their benches.
* `FifoProofs`, `TopProofs`, `RepeatProofs`, `HostProofs`, `SmallCoreProofs`, `AxiProofs`, `IsaProofs` - the
  theorems; `HostLemmas` - what `HostProofs`, `SmallCoreProofs` and `AxiProofs` all need of `host.v`. `MC*` - the
  instances for TLC; `Fifo` needs none, and `HostSpec` has the bytes its run sends.

The programs the generators of these modules write were compared word for word with the
repository's: `FramePrograms`' 26 with the output of `combined/gen.py` and `can_stress/gen.py`, and
with the `.asm` files kept in the tree.

History variables (`offered`, `taken`, `stalled` in `Top`, `passes`, `owed`, `event`; `run`, `raw` and
`delivered` in `AxiChip`; `returned`, `answer` and `own` in `ArmDriver`; `samples` and `emitted` on the bench)
record what happened; no guard of a model reads one. The bench's `clock`, `turn` and `lost` are the
outside world's own and drive the bus.

## 3. What the runs check

| run | instance | what it shows |
|---|---|---|
| `fifo` | depth 3, three bytes | `TypeOK`, `PointersAgree`, `ImplementsQueue`: `fifo.v` is a queue. Three is the smallest depth at which a power-of-two wrap is wrong; three byte values tell positions apart. |
| `codecs` | every opcode and operand byte with two complementary values of bits 12:8; all 2048 identifiers with two data bytes | `OneMnemonicPerWord` (no two rows claim a word), `RtlReadsWhatDecodeReads`, `EncodeInvertsDecode`, for the core; `NoWordChanges`, `ListingsAssemble`, for the candidates; `StuffedFramesDecode`, for the CAN reference. |
| `top` | six programs with every mnemonic, depth 1, one byte, three pairs of pin levels | `TopTypeOK`, `DelayBelongsToItsWord`, `StallMovesNothing`, `DelayMovesNothing`, `ImplementsGolden`. With one-byte FIFOs each PULL and PUSH meets both its wait and its byte; deeper queues differ only inside `QueueStep`. The byte 0xB3 reads differently in either direction. |
| `repeat` | every program of four words over eleven kinds of word that passes `check_bodies` | `CounterBelongsToItsLoop`, `RunsExactlyCount`, `EntersAtLabel`, `LeavesByItsRepeat`. Four words are enough for two loops and a jump or skip at either side of each; counts go up to 3. No FIFO takes part. |
| `host` | RAM of two words, commands of each kind and one byte that is none | `HostTypeOK`, `ImplementsRegisters`. Two words make a load overrun (the fifth byte), `MinHigh` and `MinLow` are the real 4 and 3, strobes may rise, stay and fall at any clock the rules allow, resets at any clock. |
| `smallcore` | one ROM program, RAM of two words, one-byte FIFOs | `ImplementsTop`: the chip implements `Top` with the program the core sees. `StatusLasts`: what STATUS said remains true until the host acts. The two byte values make every two-word program of the words 0x0101, 0x4001, 0x0140 and 0x4040, which PUSH, PULL, test a run and delay. |
| `axi` | two staged bytes, two in the ring, one-byte chip FIFOs; four sessions of the ARM | `AxiTypeOK`, `TimingRules` (which `Host` assumes), `CommittedAreDelivered`, `StatusDescribesTheRun`, `RawDoneWhenActed`, `ImplementsService`. |
| `driver` | the callers' five rounds, each patient and with timeouts; staging and ring of one byte, chip FIFOs of two | `HeldByTheChip`, `AnswersItsOwn`; liveness: `PushServed`, `CallsReturn`. |
| `candidates` | 31 programs of the rounds on their candidates, 12 whole-frame programs on the core; 249 initial states | `CandidateTypeOK`, `ImplementsUnrolled`, `RegistersAreHistory`, `StuffsTheBus`, `Arbitrates`, `CrcGoesOut`, `DestuffedBytes`; liveness: `Finishes`. |
| `axi_clear`, `axi_raw_pop`, `can_destuff` | the receiving session with clears at any time; raw pops while a program pushes; the frames of `codecs` | violations: see Findings. |

What the deepest of these say, in words:

* `ImplementsService` - between the ARM's writes of TX_DATA and the chip's FIFO, and between the
  chip's FIFO and RX_DATA, each byte passes once, in order, into a queue with room for it, while the
  ARM flushes, clears, asks for RUNs and raw transactions and resets at any clock, and a byte
  the ring had to drop is reported.
* `HeldByTheChip` - when `sc_load_ram` has returned SC_OK the loader holds its words and nothing else;
  when `sc_wait_prefill` has, the TX FIFO holds the frame's first bytes in order, though rounds
  before timed out anywhere and left requests on the way; and a byte written raw after
  CORE_STATUS said there is room has room, if no write before it timed out.
* `AnswersItsOwn` - a raw access never takes for its own the late answer of one that timed out, and when
  `sc_run_slot` returns SC_OK its own slot was written and STATUS read after that.
* `ImplementsUnrolled` - `REPEAT`, `REPEAT_NEXT`, `LOAD`/`DJNZ` and the bursts do, with stalls in the body
  and restarts at any clock, clock for clock what the golden model does with the loop written out.
* `StuffsTheBus`, `Arbitrates`, `CrcGoesOut`, `DestuffedBytes` - on every path through a program each bit is
  on the bus for its own clocks, the node never drives again once it has lost, the CRC that the
  core works out is the reference's, a receiver hands over the frame's bits without the
  stuff bits and answers in its slot and nowhere else, and what a restart, a lost arbitration,
  a missing acknowledgement or an error cut short leaves nothing behind.

Each property has a mutant in `PROJECT.json`: a plausible slip in a modelled definition that
TLC finds by that property in the same instance. All runs check for deadlock.

### Bounds

`RamWords` (256 in the chip) is 1 or 2, `DEPTH` (4) is 1, 2 or 3, `edges` of `Host` counts no further
than the minimum it is compared with, programs of the chip's runs are a few words. The ring
(`RX_SIZE`, 256) and TX staging (`TX_DEPTH`, 1024) hold one or two bytes. The engine's phases and its
HIGH count are the real ones. The pc, the delay and REPEAT counters, registers and synchronizers
keep their real widths.

* TX_COMMITTED wraps at `CountSize` (65536). In `axi` that is 4, more than one staging FIFO of bytes.
  In `driver` it is 6: `can_bench.c` does not clear the count between the two program bytes of
  its RAM load and the three of its frame, so that it goes up to 5 and must not wrap there.
* `Prefill` (4) is `DEPTH` in the chip and 2 in `driver`, as `DEPTH` is: the frame has one byte more than
  the FIFO takes, and a prefill is tried both shorter than the FIFO and longer.
* The stuffing programs send 14 identifiers: a run of five that ends on each bit, of either
  level, runs that a stuff bit begins, and none. The arbitrating ones send 4 against another
  node that drives any level in any bit.
* The whole frames (`WholeFrames` in `MCCandidates`) have DLC 0, 1, 3, 6, 8 and 9, bit times of 8 and 10
  clocks, a bus read back 0, 1 or 2 clocks late, rivals that win on the first bit of the identifier
  and on the last, and one that loses; frames back to back, joined at clock 161, with a stuff
  error early and late and with a form error. Their host may be late with every byte, except where
  a byte that is late would stretch a bit against another node's.
* Two complementary values of the delay field and all values of the rest make every bit of a
  word take both levels beside all of the others' that either decoder looks at together.

### Fairness

The modules of the chip are safety only: every step is a clock, the clock never stops, and
nothing in the chip promises progress on its own (a PULL may wait forever for a host that
never pushes).

* `AxiChip`: `WF_vars(Next)`, the clock. No request is promised to come.
* `ArmDriver`: weak fairness of `GoesOn`, a clock on which the ARM makes the access its code is at. The
  ARM runs one program and is never stopped for good, but any time may pass between two of its
  accesses. `CallsReturn` excepts, in its premise, the polls that wait for the program on the core
  (`sc_wait_halted`, and `diag_tx.c`'s wait for room, which has no limit in the code); `PushServed` has
  as its premise that resets and RUNs end and that the drain is on. An ARM that asks for RUNs
  without end starves raw requests and the drain, by the priority the engine documents.
* `CandidateBench`: weak fairness of `Clock`, of `Push` (the host has a byte and writes it) and of `Begin` (a
  frame to receive begins). `Finishes` excepts behaviours that restart without end.

### What the ARM does in the instances

In all of them the ARM takes every response at once (`Ready`). In `axi`, `quiet` names the commands that
a session gives only with the core halted and its RX FIFO empty, as the test programs do; the
sessions share out the traffic (stage and flush, raw beside writes, raw beside reads,
receive) because each kind meets the engine's order of priority on its own. Ring clears are at
rest in the passing run because of the second finding below. In `driver` nothing is at rest: the
callers' own order is the model's.

## 4. What is proved

| theorem | for every | argument |
|---|---|---|
| `FifoProofs!TypeCorrect`, `PointersAlwaysAgree` | depth, byte set | the two together are inductive: a push or pop moves one pointer and the count by one, modulo the wrap (`Wrap` lemmas) |
| `FifoProofs!FifoIsAQueue` | depth, byte set | refinement: the ring read from `rd_ptr` for `count` places is the queue. A push appends at `Wrap(rd_ptr + count)`, which is `wr_ptr` by `PointersAgree` and inside no other place of the ring (`Wrap` is injective on a window of `DEPTH`); a pop drops the first place |
| `TopProofs!TypeCorrect` | programs of at most 256 words, bytes, levels, depth | one lemma for each register's next value |
| `TopProofs!DelayBelongs` | the same | inductive with `TopTypeOK`: the counter is loaded from the field of a word that is not a REPEAT, and the pc stands still while it is above 1 |
| `TopProofs!StallsMoveNothing`, `DelaysMoveNothing` | the same | action properties, by cases of the enables: each has `issue`, and all but the ones that can stall are false when `stall` is true |
| `RepeatProofs!CounterBelongs` | programs that pass `check_bodies` | inductive with the type invariant and `DelayBelongs`: inside a body a step stays between the label and the REPEAT (`StaysInBody`), outside it enters only at the label with `rc` 0 (`EntersBody`), on the REPEAT `rc` and `passes` move together (`RepeatInBody`) |
| `RepeatProofs!ExactCount`, `EntryAtLabel`, `ExitByRepeat` | the same | action properties from that invariant |
| `HostProofs!TypeCorrect` | RAM size, strobe timing, host | inductive as it stands: the loader's address is taken modulo the RAM's size and a byte is taken only while the count is below it |
| `HostProofs!EachStrobeOnce` | RAM size; strobes up for 3 clocks or more and down for 1 | refinement, from an invariant of three parts: `Strobes` (how far an edge has come through its synchronizer, by the clocks that saw it), `Loader` (the address follows the count; half a word waits only with room for the rest) and `Owed` (a transaction is owed exactly while the synchronizer has not shown it). `Rises` then says that the edge detector fires on the third clock of a strobe, with the pins still the host's, and the RAM is the sequence of bytes sent by lemmas about appending a byte or a half word |
| `SmallCoreProofs!ChipIsTop` | ROM, RAM and FIFO size, host | refinement, from `Inv`: `HostLemmas`' invariants, `Loads` (the words counted as loaded are made of bytes the host sent) and `Runs` (a running delay keeps the core within its program). On a clock without a command the program stays (`ProgramStays`); within it both memories show the core one word (`SameWord`); past it no word matters, because a halted core has no enable up and no delay left (`Halted`) |
| `SmallCoreProofs!CoreWaitsOnChip` | the same | `TopProofs`' theorems of the instance that `ChipIsTop` establishes, whose assumptions are discharged in `TopsConstants` |
| `SmallCoreProofs!StatusHolds` | the same | action property: without the host's push a FIFO with room keeps room, without its pop the front stays, and a halted core's pc moves only with a command |
| `AxiProofs!TypeCorrect` | ring, staging, FIFO and RAM size, sessions | inductive with the ring's pointers a count apart and a transaction's owner fixed by the engine's phase |
| `AxiProofs!CommittedIsExact` | the same | inductive with `edges`, the strobe's synchronizer and the engine's HIGH count in step: `host.v` acts on the third clock of a strobe and the count follows one clock later, whatever resets it |
| `AxiProofs!StatusIsOfTheRun`, `RawDoneIsTrue` | the same | a request is at each clock in exactly one of: the pulse, pending, on the bus, done (`RunPhases`, `RawPhases`) |
| `AxiProofs!EngineKeepsTheTiming` | the same, and rules no stricter than 4 clocks up and 3 down | `Timed` ties `edges` to the engine's phase |
| `AxiProofs!MovesEveryByteOnce` | the same, and an ARM that clears the ring at rest (`QuietClears`) | refinement, from `Moving`: a byte on its way has room in the FIFO it goes to and a drain has its byte (`Flight`: STATUS was read when nothing else could change it for the worse); no drain is under way when a clear arrives (`ClearsAtRest`); the ring is `fifo.v`'s ring at other widths (`FifoProofs`' lemmas, instantiated); the RAM holds what was sent (`HostLemmas`, instantiated). Then each queue of `AxiService` over a clock: staging (`StagingStep`), the chip's FIFOs (`FifosMove`, `UnreadStep`), the ring (`ReceivingStep`), and together `ClockStep` and `ResetStep` |
| `AxiProofs!DriversTraffic` | driver session, in whatever order its caller calls, patient or not | from `Placed`: a transfer on a channel is the one the access under way asked for, so that `DriverBus` lies in `Bus` (`OnBus`) |
| `AxiProofs!EachCallItsOwn` | the same | `AnswersItsOwn`, by the argument below |
| `IsaProofs!NoTwoRowsMatch` | word, with any delay field | each row's select is a fact about one or two quotients of the word (`Opcode0Matches`, `AccMatches`, `PairMatches`, `AloneMatches`). `MatchedIsRead`: a row that matches is the instruction the wires select, by the opcode and, within opcode 000, by the side flag, bits 6:5 and the bits below. Two rows that match are therefore the same one |
| `IsaProofs!WiresReadWhatDecodeReads` | the same | `MatchedIsRead` for the mnemonic, `ArgsRead` for the operands of each row and `SideRead` for the side effect; decode's choice is a row that matches (`DecodeTakesAClaim`) |
| `IsaProofs!EncodeGivesTheWordBack` | the same | `OperandsPacked`: encode's sum of the operands by places. A bit no field of the row reads is 0, or decode had refused the word (`UnusedBits`), so that the fields at their places are the low byte, bit for bit (`Opcode0Low`, `AccLow`, `WholeLow`, `SidedLow`); opcode and delay are the high one (`EncodeAddsLow`) |

`EachCallItsOwn` is the result with the longest argument. `AnswersItsOwn` by itself says only how things
stand when a call has returned; its invariant, `Answering`, has these parts beside the peripheral's own
(`Bounds`, `RunPhases`, `RawPhases`):

* `Placed` - which access of its call the ARM is at, and which channel and pulse may be up for it. That a
  poll for a request comes right after the request, and a raw request right after the poll that no
  other is under way, is a lemma about the calls as sequences (`OrderedCalls`).
* `Served` - a request that the engine has not taken is taken before the next can come. `Notice` counts
  the clocks that the bus and the driver's own order still need before one could, `UntilDecision` those
  until the engine is back in STAT, where it serves a waiting request before anything else; while one
  waits the second is at most the first, also for a request that timed out and whose call is long
  over. This is what makes the two requests' priority harmless: RUN and a raw request never wait
  together, though nothing in the Verilog forbids it.
* `Aimed` - a byte on its way is never at CONTROL's address, so that no byte is taken for a RUN.
* `Turn` - from the call's request on, the request is in the pulse, waiting, on the bus or done with
  the call's own operands (`OwnRun`, `OwnRaw`), and a call returns only with it done and nothing else
  with the chip (`Quiet`).

Assumptions are the named ASSUMEs of the modules: depths and sizes are positive, programs are
sequences of 16-bit words of at most 256, bytes are 8-bit vectors or 0 to 255 and levels vectors of
four bits, the `NoByte` marker is no byte; in `RepeatBodies` that every program passes
`check_bodies`; in `Host` that a strobe is up for three clocks or more (`host.v` says four) and down
for one at least (`host.v` says three), which is what the synchronizer and its edge detector need; in
`AxiChip` that the rules asked of the engine are no stricter than `host.v`'s (`TimingAssumption`) and
that what the ARM writes fits the registers' fields (`SessionsAssumption`); in `AxiHost` that
TX_COMMITTED wraps at more than 1; in `ArmDriver` that a session has a call, that its calls are the
driver's with operands in range, that their accesses are in its traffic, and that the ARM may be
ready and the AXI reset up (`CallsAssumption`). TLC evaluates each on the instances above. The invariants were
checked by TLC on the same instances before they were proved.

`MovesEveryByteOnce` has one hypothesis more, `QuietClears`: who writes COMMAND's ring clear does so with the
core halted and its RX FIFO empty. Without it the property is false, and the second finding below
is why; the sessions of `axi` satisfy it, that of `axi_clear` does not.

What holds of the parts holds of the whole in three ways. `ChipIsTop` is cited for what `TopProofs`
shows of the core. `TimingRules`, proved of the engine, is what `Host` assumes of its pins. And the lemmas
about one clock of `host.v` and of a ring are proved once and instantiated where they are met again.

Only model-checked, and why:

* `NoWordChanges` and `ListingsAssemble`: 21 tables made by merging rows, finite, and enumerated but for
  the delay field, which no candidate's row looks at;
* `StuffedFramesDecode`: the CRC and the stuffing are recursive functions of the frame, and the run enumerates
  every identifier;
* `ImplementsGolden`: the mapping turns vectors into numbers by recursive functions, whose values
  induction over data would have to establish;
* `HeldByTheChip`: it is true of the rounds the repository has and not of every order of calls, so that a
  proof would be about those five, which the run goes through;
* the candidates, whose programs are data that recursive functions compute;
* liveness under fairness, which the prover cannot state a proof of.

## 5. Findings

Three runs find a disagreement of the code with what the repository says of it:

* Run `can_destuff`. `can_ref.py:76` "Decode a bus bit list": `destuff` stops looking for stuff bits with the
  last bit of the CRC. A frame whose CRC ends five equal bits has a stuff bit after it, which
  `destuff` takes for the CRC delimiter. Identifier 9 without data is such a frame. `StuffedFramesDecode` says
  that no other frame of the instance fails.
* Run `axi_clear`. `can_host_engine.v:17` "rx_clear rising empties the ring". When the clear comes on the clock
  of a store (line 222), the store's later assignments win: the read pointer goes back to 0 but
  the write pointer and the count go on from where they were, so the ring holds as many bytes
  as before and one more, and reads them from the wrong place. The ARM's programs clear after a
  reset only, where it cannot happen.
* Run `axi_raw_pop`. `smallcore_axi.v:32` RAW "with a read of RX_DATA, pop it". The read is latched before the
  strobe rises (`can_host_engine.v:210`) and the pop is two clocks after it; a byte that the core
  pushes into the empty FIFO in between is popped unread.

And these were met while modelling; they are remarks, with no run of their own:

* `docs/host-interface.md:20` describes CONTROL as `sel <= host_wdata[3:0]` and a restart. Since the RAM was
  added, `host.v` decodes three commands: a byte below 16 selects and restarts, 0x10 and 0x20
  restart and leave `sel`, any other byte does nothing.
* `smallcore.c:71` `sc_wait_prefill` "Assumes TX_COMMITTED was cleared before the n bytes". `can_bench.c`'s RAM
  path loads a program, which counts its bytes, and waits for the frame's prefill without clearing.
  That is harmless only because a prefill of four or more also waits for the TX FIFO to be
  full; with that wait left out `HeldByTheChip` fails (it is the property's mutant).
* A raw write that timed out may be acted on late, so that the next raw byte finds the FIFO full and
  is dropped although CORE_STATUS said that there is room: the third part of `HeldByTheChip` is
  about patient sessions for that reason.
* `test_can_stress.py:303-304` says of the looping receiver with the idle wait that it "takes the next whole".
  It needs nine clocks after its eleventh recessive sample before it is at its WAIT; a start of
  frame in that time, as when it was switched on in the intermission or joined a frame that was
  acknowledged, is seen late. The test's own bench never acknowledges the frame it joins, and the
  instance does what the test does.
* Candidate D of the can round counts a run up to 7, so its tests for a run of eight never hold;
  the level bit of `BRANCH_SAME` is decoded and not listed; candidate D of the repeat round accepts a
  side effect on pin 0 in `BURST_OUT`, which `check_operands` refuses in `SHIFT_OUT`; a run test that a
  candidate does not count as its own is listed with n - 1. `ListingsAssemble` leaves out the second and
  the last.
* A receiver that answers an error leaves a REPEAT body by a jump, which `check_bodies` refuses and the
  core does, with `rc` as it stood. The generator's `patched` assembles it with the jump elsewhere and
  then changes the word; `written` and `lines` of such a Source are the two.

## 6. Not modelled

* `rom.v` is generated data (the constant `Rom`); `tools/` renders documents and waveforms; the board's
  top levels are wiring, clocking and pads; `asic/` is a copy of `rtl/` with a pin wrapper.
* The programs of `programs/` that are written by hand: the core runs any program, so `top` covers their
  words, but no model has a UART, SPI, I2C or SWD partner. `experiments/ethernet` generates programs of the
  kind modelled for Manchester bits; one frame is some ten thousand clocks of one behaviour, which is
  simulation and not model checking.
* Of the host engine, the takeover of the bus by `manual` and the ring's read window, and the VIO's wrapper
  `can_host_engine` around it: its buttons are pressed by hand, and `smallcore_axi.v` ties `manual` low. Of the
  peripheral, SCRATCH, write strobes, the pad select and the registers that only report.
* Of the driver, `sc_init`, the raw read with a pop (the third finding is about it) and the getters
  whose value is only printed. A `diag_tx.c` round ends before its last poll for the end of the
  program and its `sc_rx`, which the other rounds have.
* Of the assembler, the text: regular expressions, number formats and messages; a line is a record. Of
  `load_isa`, the checks of the YAML file's form.
* Of the generators, `can/gen.py`'s two receivers written by hand, `crc/gen.py`'s four-bit register and
  `can_stress/gen.py`'s `rx_dlc_rtr`, which the assembler refuses for its length; of the benches, changing
  programs between frames, starving a FIFO on purpose and two clocks that drift. Of `can_ref.py`,
  sampling a capture, and remote frames.
* Sub-clock timing (metastability, strobes that rise just after an edge) is below the model's
  step: the timing rules are taken at whole clocks. The value of a RAM word never written is one
  constant, `Junk`.

## 7. Plan

1. Done: the chip and its refinements; the engine, the peripheral and their abstract service; the
   driver with timeouts; the codecs of all instruction sets; the candidates and the generated
   programs; theorems about the FIFO, the core, REPEAT, the register block, the chip, the
   peripheral, the driver's calls and the instruction set.
2. A UART or I2C program on `Top` against a line model.
