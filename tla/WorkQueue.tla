----------------------------- MODULE WorkQueue ------------------------------
(***************************************************************************)
(* The work queue of rmaker_common (work_queue.c): a task that runs the    *)
(* functions other tasks enqueue, and the tasks that start and stop it.    *)
(* queue_state is shared without a lock, so every read of it and every     *)
(* write is a step of its own.                                             *)
(***************************************************************************)
EXTENDS Integers, Sequences

CONSTANTS
  Controllers,   \* tasks that call init, start, stop and deinit
  QueueSize,     \* ESP_RMAKER_TASK_QUEUE_SIZE
  MaxWork,       \* bound on the functions enqueued
  MaxStarts      \* bound on the tasks created

QueueAssumption == QueueSize \in Nat \ {0} /\ MaxWork \in Nat /\ MaxStarts \in Nat

VARIABLES
  queue_state,   \* "deinit", "init_done", "running", "stop_requested"
  created,       \* work_queue # NULL
  queue,         \* its contents: numbers of functions
  pc,            \* of each controller: "idle", "started", "deinit"
  worker,        \* tasks created so far: "check", "block", "drain", "ended"
  added, done    \* history: functions enqueued, and functions run, in order

vars == <<queue_state, created, queue, pc, worker, added, done>>

Init ==
  /\ queue_state = "deinit" /\ created = FALSE /\ queue = <<>>
  /\ pc = [c \in Controllers |-> "idle"] /\ worker = <<>>
  /\ added = 0 /\ done = <<>>

\* esp_rmaker_work_queue_init
QueueInit(c) ==
  /\ pc[c] = "idle" /\ queue_state = "deinit"
  /\ created' = TRUE /\ queue' = <<>> /\ queue_state' = "init_done"
  /\ UNCHANGED <<pc, worker, added, done>>

\* esp_rmaker_work_queue_start: the check and xTaskCreate ...
StartTask(c) ==
  /\ pc[c] = "idle" /\ queue_state = "init_done" /\ Len(worker) < MaxStarts
  /\ worker' = Append(worker, "check")
  /\ pc' = [pc EXCEPT ![c] = "started"]
  /\ UNCHANGED <<queue_state, created, queue, added, done>>

\* ... then the new state, which the new task may have overtaken.
SetRunning(c) ==
  /\ pc[c] = "started"
  /\ queue_state' = "running" /\ pc' = [pc EXCEPT ![c] = "idle"]
  /\ UNCHANGED <<created, queue, worker, added, done>>

\* esp_rmaker_work_queue_stop
Stop(c) ==
  /\ pc[c] = "idle" /\ queue_state = "running"
  /\ queue_state' = "stop_requested"
  /\ UNCHANGED <<created, queue, pc, worker, added, done>>

\* esp_rmaker_work_queue_deinit calls stop ...
Deinit(c) ==
  /\ pc[c] = "idle" /\ queue_state # "deinit"
  /\ queue_state' = IF queue_state = "running" THEN "stop_requested" ELSE queue_state
  /\ pc' = [pc EXCEPT ![c] = "deinit"]
  /\ UNCHANGED <<created, queue, worker, added, done>>

\* ... waits until the task has stopped, and deletes the queue if it may.
DeinitEnd(c) ==
  /\ pc[c] = "deinit" /\ queue_state # "stop_requested"
  /\ pc' = [pc EXCEPT ![c] = "idle"]
  /\ IF queue_state = "init_done" THEN created' = FALSE /\ queue' = <<>> /\ queue_state' = "deinit"
                                  ELSE UNCHANGED <<created, queue, queue_state>>
  /\ UNCHANGED <<worker, added, done>>

\* esp_rmaker_work_queue_add_task
AddTask ==
  /\ added < MaxWork
  /\ created /\ Len(queue) < QueueSize
  /\ added' = added + 1 /\ queue' = Append(queue, added')
  /\ UNCHANGED <<queue_state, created, pc, worker, done>>

\* The loop of esp_rmaker_work_queue_task
CheckState(w) ==
  /\ worker[w] = "check"
  /\ IF queue_state = "stop_requested"
     THEN queue_state' = "init_done" /\ worker' = [worker EXCEPT ![w] = "ended"]
     ELSE UNCHANGED queue_state /\ worker' = [worker EXCEPT ![w] = "block"]
  /\ UNCHANGED <<created, queue, pc, added, done>>

\* Mutant of Receive: a function is run and left in the queue.
ReceivePeek(w) ==
  /\ worker[w] \in {"block", "drain"} /\ queue # <<>>
  /\ done' = Append(done, Head(queue)) /\ Len(done) < MaxWork
  /\ worker' = [worker EXCEPT ![w] = "drain"]
  /\ UNCHANGED <<queue_state, created, queue, pc, added>>

\* esp_rmaker_handle_work_queue: receive and run
Receive(w) ==
  /\ worker[w] \in {"block", "drain"} /\ queue # <<>>
  /\ done' = Append(done, Head(queue)) /\ queue' = Tail(queue)
  /\ worker' = [worker EXCEPT ![w] = "drain"]
  /\ UNCHANGED <<queue_state, created, pc, added>>

\* nothing within 2 seconds, or nothing left to drain
Empty(w) ==
  /\ worker[w] \in {"block", "drain"} /\ queue = <<>>
  /\ worker' = [worker EXCEPT ![w] = "check"]
  /\ UNCHANGED <<queue_state, created, queue, pc, added, done>>

Work(w) == CheckState(w) \/ Receive(w) \/ Empty(w)

Control(c) == QueueInit(c) \/ StartTask(c) \/ SetRunning(c) \/ Stop(c) \/ Deinit(c) \/ DeinitEnd(c)

Next == (\E c \in Controllers : Control(c)) \/ AddTask \/ \E w \in DOMAIN worker : Work(w)

\* The scheduler runs every task; a call that has begun goes on.
Fairness ==
  /\ \A w \in 1 .. MaxStarts : WF_vars(w \in DOMAIN worker /\ Work(w))
  /\ \A c \in Controllers : WF_vars(SetRunning(c) \/ DeinitEnd(c))

Spec == Init /\ [][Next]_vars /\ Fairness

-----------------------------------------------------------------------------
Live == {w \in DOMAIN worker : worker[w] # "ended"}

\* "Cannot deinitialize Work Queue as the task is still running": the task never
\* works on a queue that was deleted, and there is at most one task.
TaskHasItsQueue ==
  /\ \A v, w \in Live : v = w
  /\ (\E w \in Live : worker[w] # "check") => created

\* What was enqueued is run at most once and in order, however often the task is
\* stopped and started; only deleting the queue drops work.
RunInOrder == \A i, j \in DOMAIN done : i < j => done[i] < done[j]

\* The worker drains the queue without a look at queue_state (work_queue.c:49), so
\* what is said of its progress holds if the tasks that enqueue pause for good.
SupplyEnds == <>[][~AddTask]_vars

\* deinit returns: the task it waits for always sees the request.
DeinitReturns == SupplyEnds => \A c \in Controllers : pc[c] = "deinit" ~> pc[c] = "idle"

\* Enqueued work is run unless the task is asked to stop before.
WorkIsRun == SupplyEnds => ((queue # <<>> /\ queue_state = "running") ~> (queue = <<>> \/ queue_state # "running"))

-----------------------------------------------------------------------------
(* Inductive strengthening of TaskHasItsQueue and RunInOrder, for one      *)
(* controlling task.                                                       *)

WorkType ==
  /\ queue_state \in {"deinit", "init_done", "running", "stop_requested"} /\ created \in BOOLEAN
  /\ pc \in [Controllers -> {"idle", "started", "deinit"}]
  /\ worker \in Seq({"check", "block", "drain", "ended"})
  /\ added \in Nat /\ queue \in Seq(Nat) /\ done \in Seq(Nat)

Starting == \E c \in Controllers : pc[c] = "started"

\* Only the last task created may be alive, and none is where there is no queue
\* or where the queue is stopped; queue_state is behind while one is started.
TaskInv ==
  /\ \A w \in DOMAIN worker : w # Len(worker) => worker[w] = "ended"
  /\ queue_state # "deinit" => created
  /\ Starting => queue_state = "init_done"
  /\ queue_state = "deinit" \/ (queue_state = "init_done" /\ ~Starting) => Live = {}

Increasing(s) == \A i, j \in DOMAIN s : i < j => s[i] < s[j]

\* What was run comes before what waits, and nothing is in the queue twice.
OrderInv ==
  /\ Increasing(done) /\ Increasing(queue)
  /\ \A i \in DOMAIN done : done[i] <= added /\ \A j \in DOMAIN queue : done[i] < queue[j]
  /\ \A j \in DOMAIN queue : queue[j] <= added

WorkInv == WorkType /\ TaskInv /\ OrderInv
=============================================================================
