------------------------------ MODULE MCDriver ------------------------------
(* The driver's callers, each with timeouts and with patience.              *)
EXTENDS ArmDriver, TLC

Frame == <<1, 2, 1>>

Program == <<3, 4>>

Plain(fn) == [fn |-> fn, if_ok |-> FALSE, checked |-> FALSE]

Checked(fn) == [fn |-> fn, if_ok |-> TRUE, checked |-> TRUE]

RunSlot(control) == Checked("sc_run_slot") @@ [control |-> control]

Reset(rx_en) == Plain("sc_reset") @@ [rx_en |-> rx_en]

RingCleared == Plain("command") @@ [command |-> RxClear]

Staged(n, if_ok) ==
  [Plain("sc_tx") EXCEPT !.if_ok = if_ok] @@ [bytes |-> SubSeq(Frame, 1, n)]

Prefilled(n) == Checked("sc_wait_prefill") @@ [n |-> n, frame |-> Frame]

StillRuns == Checked("still_runs")

Halts == Checked("sc_wait_halted")

Taken(max) == Plain("sc_rx") @@ [max |-> max]

(* can_bench.c, transmit: from a ROM slot, and from RAM.                    *)
TransmitSlot ==
  <<Reset(TRUE), RingCleared, Staged(3, FALSE), Prefilled(3), RunSlot(1), StillRuns,
    Halts, Taken(1)>>

TransmitRam ==
  <<Reset(TRUE), RingCleared, Checked("sc_load_ram") @@ [bytes |-> Program], RunSlot(0),
    Staged(3, TRUE), Prefilled(3), RunSlot(16), StillRuns, Halts, Taken(1)>>

(* can_bench.c, mode 3: a prefill shorter than the FIFO, nothing checked    *)
(* but the RUN; then the received bytes.                                    *)
Receive ==
  <<Reset(TRUE), RingCleared, Staged(1, FALSE),
    [Prefilled(1) EXCEPT !.checked = FALSE], RunSlot(1), Taken(2)>>

(* diag_tx.c, can_tx(1): the frame by raw writes, the rest once the program *)
(* has made room.                                                           *)
RawWrites(a, b) == Plain("sc_raw_write") @@ [addr |-> a, value |-> b]

DiagnoseRaw ==
  <<Reset(TRUE), RingCleared, RawWrites(0, 1), RawWrites(0, 2),
    [RunSlot(1) EXCEPT !.if_ok = FALSE], Plain("wait_room"), RawWrites(0, 1),
    Plain("wait_room"), RawWrites(0, 2)>>

(* test_host.c, its second test: each result is looked at, none is waited   *)
(* for.                                                                     *)
RawReads(a) == Plain("sc_raw_read") @@ [addr |-> a]

TestRaw ==
  <<Reset(FALSE), RawReads(2), RawReads(3), [RunSlot(1) EXCEPT !.if_ok = FALSE], RawReads(3),
    RawWrites(3, 0), RawReads(3)>>

Accessed(calls) ==
  UNION {{Accesses(calls[c])[k] : k \in DOMAIN Accesses(calls[c])} : c \in DOMAIN calls}

Calling(calls, bytes, patient) ==
  [writes |-> {a.write : a \in {b \in Accessed(calls) : b.kind = "store"}},
   reads  |-> {a.reg : a \in {b \in Accessed(calls) : b.kind /= "store"}},
   bytes |-> bytes, quiet |-> {}, aresetn |-> {TRUE}, calls |-> calls, patient |-> patient]

MCDriving ==
  {Calling(calls, {}, p) : calls \in {TransmitRam, TestRaw, DiagnoseRaw}, p \in BOOLEAN}
    \cup {Calling(calls, {1}, p) : calls \in {TransmitSlot, Receive}, p \in BOOLEAN}

=============================================================================
