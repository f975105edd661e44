----------------------------- MODULE DiagQueue -----------------------------
(***************************************************************************)
(* What the diagnostics data store promises its clients: a bounded queue   *)
(* of whole records.  A record is appended or refused, only the oldest     *)
(* records are ever given up, and nothing else changes the queue.          *)
(***************************************************************************)
EXTENDS Naturals, Sequences

CONSTANTS Record, Capacity     \* the records; how many the store holds

VARIABLE queue

Init == queue = <<>>

Put(r) == Len(queue) < Capacity /\ queue' = Append(queue, r)

GiveUpOldest(n) == queue' = SubSeq(queue, n + 1, Len(queue))

Next == (\E r \in Record : Put(r)) \/ (\E n \in 1 .. Len(queue) : GiveUpOldest(n))

Spec == Init /\ [][Next]_queue
=============================================================================
