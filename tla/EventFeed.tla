------------------------------- MODULE EventFeed -------------------------------
(***************************************************************************)
(* What the trace console promises an observer of a live journey, with no  *)
(* polling, no connection and no reconnection: every event that is         *)
(* recorded and that the console presents at all is shown, once, in the    *)
(* order of recording, until the stream is over.  EventStream.tla          *)
(* implements this specification.                                          *)
(***************************************************************************)
EXTENDS Naturals, Sequences

CONSTANT Ids  \* sequence numbers

VARIABLES
  recorded,  \* sequence numbers of the recorded events the console presents
  shown,     \* the events shown so far, in the order they were shown
  over       \* the stream has ended

vars == <<recorded, shown, over>>

Shown == {shown[i] : i \in DOMAIN shown}

Init ==
  /\ recorded = {}
  /\ shown = <<>>
  /\ over \in BOOLEAN

(* An event is recorded under a greater number than any before it. *)
Record(n) ==
  /\ \A r \in recorded : r < n
  /\ recorded' = recorded \union {n}
  /\ UNCHANGED <<shown, over>>

(* The earliest event not shown yet is shown. *)
Present ==
  /\ ~over
  /\ \E n \in recorded \ Shown :
       /\ \A r \in recorded \ Shown : n <= r
       /\ shown' = Append(shown, n)
  /\ UNCHANGED <<recorded, over>>

End ==
  /\ over' = TRUE
  /\ UNCHANGED <<recorded, shown>>

Next == (\E n \in Ids : Record(n)) \/ Present \/ End

Spec == Init /\ [][Next]_vars /\ WF_vars(Present)
=============================================================================
