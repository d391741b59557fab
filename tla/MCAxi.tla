------------------------------- MODULE MCAxi -------------------------------
(* What the ARM writes and reads in each instance: the smallest sets that   *)
(* make every request meet the others.                                      *)
EXTENDS AxiChip

Session(written, bytes, reads, quiet) ==
  [writes |-> written, bytes |-> bytes, reads |-> reads, quiet |-> quiet, aresetn |-> {TRUE}]

(* Receiving: the drain switched on, RUN, ring clears.                      *)
Receiving(quiet) ==
  Session({Ctrl(FALSE, TRUE), Slot(1), Run, RxClear}, {1, 2}, {"RX_DATA"}, quiet)

(* Raw requests among RUNs and resets.                                      *)
Probing(requests) ==
  Session({Ctrl(TRUE, FALSE), Ctrl(FALSE, FALSE), Slot(1), Run} \cup requests, {1}, {},
          {"rx_clear"})

(* RUN, staging, flush, clears and resets; raw pops beside writes and       *)
(* beside reads; and the receiver.                                          *)
MCTraffic ==
  {[Session({Ctrl(TRUE, FALSE), Ctrl(FALSE, FALSE), Slot(1), Run, TxData(1), TxData(2),
             Flush, CommitClear},
            {}, {}, {"rx_clear"}) EXCEPT !.aresetn = BOOLEAN],
   Probing({Raw(TRUE, 0, 1, FALSE), Raw(FALSE, 1, 0, TRUE)}),
   Probing({Raw(FALSE, 2, 0, FALSE), Raw(FALSE, 1, 0, TRUE)}),
   Receiving({"run", "rx_clear"})}

(* The ARM clears the ring while bytes arrive.                              *)
MCClear == {Receiving({"run"})}

(* Raw requests while a program runs.                                       *)
MCRawPop == {Session({Slot(1), Run, Raw(FALSE, 1, 0, TRUE)}, {1}, {}, {"run"})}

=============================================================================
