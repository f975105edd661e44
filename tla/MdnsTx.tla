------------------------------- MODULE MdnsTx -------------------------------
(***************************************************************************)
(* The transmit queue of mdns, the timer that hands due packets to the     *)
(* service task through the bounded action queue, and the task.            *)
(*                                                                         *)
(* The timer callback runs under the service lock, and so do the           *)
(* operations that schedule or clear packets and the execution of an       *)
(* action; posting an action and receiving one need no lock.  A packet is  *)
(* its address (which malloc may give out again once it was freed), its    *)
(* interface and its time; its contents are those of MdnsPcb.              *)
(***************************************************************************)
EXTENDS Integers, Sequences, FiniteSets, SequencesExt, FiniteSetsExt

CONSTANTS Addrs,        \* addresses of packets
          Pcbs,
          Delays,       \* ms after which a packet is scheduled
          Period,       \* clock values: 2^32 ms in the code
          Start,        \* clock value to start at
          QLen,         \* MDNS_ACTION_QUEUE_LEN
          MaxTicks,     \* bound on the time that passes
          MaxOther      \* bound on actions of other kinds

TxAssumption ==
  /\ Period \in Nat /\ Start \in 0..(Period - 1) /\ QLen \in Nat /\ MaxTicks \in Nat
  /\ MaxOther \in Nat /\ Delays \subseteq Nat /\ \A d \in Delays : 2 * (d + MaxTicks) < Period

VARIABLES ticks,        \* time passed; the clock shows Now
          tx,           \* the packets from tx_queue_head on
          acts,         \* action_queue: the address of a packet, or "other"
          taken,        \* the action the task has received and not executed
          scan,         \* the packet the timer callback looks at, 0: not running
          others        \* actions of other kinds so far

vars == <<ticks, tx, acts, taken, scan, others>>

None  == "none"
Other == "other"

Now == (Start + ticks) % Period

Init ==
  /\ ticks = 0 /\ tx = <<>> /\ acts = <<>> /\ taken = None /\ scan = 0 /\ others = 0

Unlocked == scan = 0

\* (int32_t)(p->send_at - now) < 0
Due(p) == (p.at - Now) % Period > Period \div 2

InQueue == {tx[k].addr : k \in DOMAIN tx}

\* Mutant of Insert: always at the head.
InsertFirst(q, p) == <<p>> \o q

\* _mdns_schedule_tx_packet: before the head if that is later, otherwise
\* after the packets behind the head that are not later.
Insert(q, p) ==
  IF q = <<>> \/ q[1].at > p.at THEN <<p>> \o q
  ELSE LET later == {k \in DOMAIN q : k > 1 /\ q[k].at > p.at}
           k     == IF later = {} THEN Len(q) + 1 ELSE Min(later)
       IN InsertAt(q, k, p)

NewPacket(a, i, d) == [addr |-> a, pcb |-> i, at |-> (Now + d) % Period, queued |-> FALSE]

Schedule(a, i, d) ==
  /\ Unlocked /\ a \notin InQueue
  /\ tx' = Insert(tx, NewPacket(a, i, d))
  /\ UNCHANGED <<ticks, acts, taken, scan, others>>

\* _mdns_clear_pcb_tx_queue_head; actions for the packets stay queued.
ClearPcb(i) ==
  /\ Unlocked
  /\ tx' = SelectSeq(tx, LAMBDA p : p.pcb # i)
  /\ UNCHANGED <<ticks, acts, taken, scan, others>>

-----------------------------------------------------------------------------
\* _mdns_scheduler_run: from the first packet that is not queued ...
ScanStart ==
  /\ Unlocked
  /\ \E k \in DOMAIN tx : /\ \A j \in 1..(k - 1) : tx[j].queued
                          /\ ~tx[k].queued
                          /\ scan' = k
  /\ UNCHANGED <<ticks, tx, acts, taken, others>>

\* ... every packet that is due is posted, while the queue takes it ...
ScanPush ==
  /\ scan \in DOMAIN tx /\ Due(tx[scan])
  /\ acts' = IF Len(acts) < QLen THEN Append(acts, tx[scan].addr) ELSE acts
  /\ tx' = [tx EXCEPT ![scan].queued = Len(acts) < QLen]
  /\ scan' = scan + 1
  /\ UNCHANGED <<ticks, taken, others>>

\* ... up to the first that is not.
ScanEnd ==
  /\ scan # 0 /\ (scan \in DOMAIN tx => ~Due(tx[scan]))
  /\ scan' = 0
  /\ UNCHANGED <<ticks, tx, acts, taken, others>>

\* Other actions, posted by other tasks with no wait.
PostOther ==
  /\ others < MaxOther /\ others' = others + 1
  /\ acts' = IF Len(acts) < QLen THEN Append(acts, Other) ELSE acts
  /\ UNCHANGED <<ticks, tx, taken, scan>>

\* _mdns_service_task: receives without the lock ...
Receive ==
  /\ taken = None /\ acts # <<>>
  /\ taken' = Head(acts) /\ acts' = Tail(acts)
  /\ UNCHANGED <<ticks, tx, scan, others>>

\* The packet at tx_queue_head, if there is one.
TxHead == {tx[k] : k \in DOMAIN tx \cap {1}}

\* The packet at the head is the one of the action, and posted.
HeadMatches == \E p \in TxHead : p.addr = taken /\ p.queued

\* A packet that is sent more than once: its flag is cleared first.
SendAgain(p, d) == NewPacket(p.addr, p.pcb, d)

\* ... and executes: ACTION_TX_HANDLE sends the head if it is the packet of
\* the action, which _mdns_tx_handle_packet frees or schedules again.
Execute ==
  /\ taken # None /\ Unlocked
  /\ taken' = None
  /\ \/ HeadMatches /\ tx' = Tail(tx)
     \/ HeadMatches /\ \E d \in Delays : tx' = Insert(Tail(tx), SendAgain(Head(tx), d))
     \/ ~HeadMatches /\ UNCHANGED tx
  /\ UNCHANGED <<ticks, acts, scan, others>>

Tick ==
  /\ ticks < MaxTicks /\ ticks' = ticks + 1
  /\ UNCHANGED <<tx, acts, taken, scan, others>>

Next ==
  \/ \E a \in Addrs, i \in Pcbs, d \in Delays : Schedule(a, i, d)
  \/ \E i \in Pcbs : ClearPcb(i)
  \/ ScanStart \/ ScanPush \/ ScanEnd
  \/ PostOther \/ Receive \/ Execute \/ Tick

\* The timer is periodic, the task runs, and it gets the mutex, which the
\* timer callback releases between two periods.
Spec == Init /\ [][Next]_vars
        /\ WF_vars(ScanStart) /\ WF_vars(ScanPush \/ ScanEnd) /\ WF_vars(Receive) /\ SF_vars(Execute)

-----------------------------------------------------------------------------
Actions(a) == {k \in 1..Len(acts) : acts[k] = a}
Pending    == IF taken = None THEN acts ELSE <<taken>> \o acts

\* A packet leaves the queue through the task only when it is due, also when
\* its address was given out again while an old action for it was pending
\* (_mdns_execute_action compares addresses).
SentWhenDue ==
  [][taken # None /\ taken' = None /\ tx' # tx => Due(Head(tx))]_vars

\* _mdns_execute_action looks at the head only: the posted packets are the
\* first ones, and their actions come in their order.
PostedInOrder ==
  /\ \A j, k \in DOMAIN tx : j < k /\ tx[k].queued => tx[j].queued
  /\ \E f \in [{k \in DOMAIN tx : tx[k].queued} -> DOMAIN Pending] :
       /\ \A k \in DOMAIN f : Pending[f[k]] = tx[k].addr
       /\ \A j, k \in DOMAIN f : j < k => f[j] < f[k]

\* A packet that is due is sent (or cleared): the timer posts it and the task
\* finds it at the head.
DueIsSent == \A a \in Addrs : (\E k \in DOMAIN tx : tx[k].addr = a /\ Due(tx[k]))
                                ~> (\A k \in DOMAIN tx : tx[k].addr = a => ~Due(tx[k]))

-----------------------------------------------------------------------------
\* "periodically checks first unqueued packet": a packet that it passes over as
\* queued is in the action queue.
QueuedIsPosted ==
  \A k \in DOMAIN tx : tx[k].queued => \E j \in DOMAIN Pending : Pending[j] = tx[k].addr

\* "packet to be handled should be at tx head".
HandledIsHead ==
  \A k \in DOMAIN tx : tx[k].queued /\ taken = tx[k].addr /\ Cardinality(Actions(taken)) = 0
                         => k = 1
=============================================================================
