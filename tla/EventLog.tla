------------------------------ MODULE EventLog ------------------------------
(***************************************************************************)
(* What the event store of package eventsourcing promises to its users: an *)
(* append-only log per stream that grows by one entry at a time, at its    *)
(* end.  EventStore is shown to implement it.                              *)
(***************************************************************************)
EXTENDS Naturals, Sequences

CONSTANT Entry      \* rows of the log

VARIABLE log        \* the stream, in version order

LogInit == log = << >>

\* One more entry, at the end; the entries before it stay.
LogAppend ==
  /\ DOMAIN log' = 1 .. Len(log) + 1
  /\ log'[Len(log) + 1] \in Entry
  /\ \A i \in 1 .. Len(log) : log'[i] = log[i]

LogSpec == LogInit /\ [][LogAppend]_log
=============================================================================
