------------------------------ MODULE MdnsLife ------------------------------
(***************************************************************************)
(* The life of the mdns server: mdns_init with every way it can fail,      *)
(* the service task, its timer and its queue of actions, and mdns_free,    *)
(* which has to end all of it while packets still arrive, and to free      *)
(* whatever is in the queue and in the lists, each once.                   *)
(*                                                                         *)
(* Whatever is allocated for an action or a list is an object with a       *)
(* number.  Of an action its kind and object are kept; what it does to     *)
(* records and interfaces is the matter of the other modules.  Callers are *)
(* done before mdns_free is called.                                        *)
(***************************************************************************)
EXTENDS Integers, Sequences

CONSTANTS
    QueueLen,     \* MDNS_ACTION_QUEUE_LEN
    MaxObjects,   \* bound on the objects that are allocated
    MaxInits,     \* bound on the calls of mdns_init
    InitFaults    \* where mdns_init may fail

LifeAssumption ==
    /\ {QueueLen, MaxObjects, MaxInits} \subseteq Nat \ {0}
    /\ InitFaults \subseteq {"memory", "event", "timer", "timer_start", "task"}

VARIABLES
    server,    \* "none", "up", and inside mdns_free "stopping" and "stopped"
    task,      \* the service task exists
    timers,    \* timers that exist
    callback,  \* the timer's callback has begun
    lock,      \* _mdns_service_semaphore exists
    handlers,  \* event handlers are registered
    pcbs,      \* packets are received
    queue,     \* the queue of actions, [type, obj]
    lists,     \* tx, searches, browses, instance
    heap,      \* [live, next, user, twice]: objects, those the caller owns, and
               \* whether something that did not exist was freed or used
    inits,
    torn,      \* history: mdns_free tore down what was still in use
    unstarted  \* history: timers that were created but could not be started

history == <<torn, unstarted>>
vars == <<server, task, timers, callback, lock, handlers, pcbs, queue, lists, heap, inits, history>>

NoLists == [tx |-> <<>>, searches |-> {}, browses |-> {}, instance |-> 0]
Stop == [type |-> "TASK_STOP", obj |-> 0]

New == heap.next
Allocated == [heap EXCEPT !.live = @ \cup {New}, !.next = @ + 1]
MayAllocate == heap.next <= MaxObjects
Freed(h, S) == [h EXCEPT !.live = @ \ S, !.twice = @ \/ ~(S \subseteq h.live)]
Used(h, S) == [h EXCEPT !.twice = @ \/ ~(S \subseteq h.live)]

(***************************************************************************)
(* mdns_init.                                                              *)
(***************************************************************************)

\* All goes well.  Interfaces that are up have their first probe scheduled.
MdnsInit ==
    \E up \in BOOLEAN :
        /\ server = "none" /\ inits < MaxInits /\ MayAllocate
        /\ server' = "up" /\ handlers' = TRUE /\ pcbs' = up
        /\ lock' = TRUE /\ timers' = timers + 1 /\ task' = TRUE /\ queue' = <<>>
        /\ lists' = [NoLists EXCEPT !.tx = IF up THEN <<[obj |-> New, queued |-> FALSE]>> ELSE <<>>]
        /\ heap' = IF up THEN Allocated ELSE heap
        /\ inits' = inits + 1 /\ UNCHANGED <<callback, history>>

\* No memory for the server, its queue or its semaphore, or no handler.
InitFails ==
    /\ server = "none" /\ inits < MaxInits /\ InitFaults \cap {"memory", "event"} # {}
    /\ inits' = inits + 1
    /\ UNCHANGED <<server, task, timers, callback, lock, handlers, pcbs, queue, lists, heap, history>>

\* _mdns_service_task_start fails: the interfaces are disabled again, with the
\* packets scheduled on them.  The lock is kept unless it was the task.
TaskStartFails(fault) ==
    /\ server = "none" /\ inits < MaxInits /\ fault \in InitFaults
    /\ inits' = inits + 1
    /\ lock' = (fault # "task")
    /\ LET left == IF fault = "timer_start" THEN 1 ELSE 0
       IN timers' = timers + left /\ unstarted' = unstarted + left
    /\ UNCHANGED <<server, task, callback, handlers, pcbs, queue, lists, heap, torn>>

(***************************************************************************)
(* What posts actions.                                                     *)
(***************************************************************************)

HasRoom == Len(queue) < QueueLen

\* A new object goes into the queue, or is freed when there is no room.
PostNew(type) ==
    /\ MayAllocate
    /\ queue' = IF HasRoom THEN Append(queue, [type |-> type, obj |-> New]) ELSE queue
    /\ heap' = IF HasRoom THEN Allocated ELSE Freed(Allocated, {New})

\* mdns_instance_name_set, mdns_query_async_new, mdns_browse_new and _delete,
\* mdns_delegate_hostname_set_address and _remove.
Call(type) ==
    /\ server = "up" /\ PostNew(type)
    /\ UNCHANGED <<server, task, timers, callback, lock, handlers, pcbs, lists, inits, history>>

\* mdns_preset_if_handle_system_event, as long as it is registered.
SystemEvent ==
    /\ handlers /\ HasRoom /\ queue' = Append(queue, [type |-> "SYSTEM_EVENT", obj |-> 0])
    /\ UNCHANGED <<server, task, timers, callback, lock, handlers, pcbs, lists, heap, inits, history>>

\* _udp_recv, until the interfaces are off.
Receive ==
    /\ pcbs /\ PostNew("RX_HANDLE")
    /\ UNCHANGED <<server, task, timers, callback, lock, handlers, pcbs, lists, inits, history>>

\* mdns_query_async_delete, of a search that is over.
QueryDelete(s) ==
    /\ s \in heap.user /\ heap' = Freed([heap EXCEPT !.user = @ \ {s}], {s})
    /\ UNCHANGED <<server, task, timers, callback, lock, handlers, pcbs, queue, lists, inits, history>>

\* _mdns_timer_cb begins, and then needs the lock.
TimerFires ==
    /\ server = "up" /\ ~callback /\ callback' = TRUE
    /\ UNCHANGED <<server, task, timers, lock, handlers, pcbs, queue, lists, heap, inits, history>>

\* _mdns_scheduler_run: the first packet that was not posted yet, if it is due.
SchedulerRun ==
    \E k \in DOMAIN lists.tx :
        /\ ~lists.tx[k].queued /\ \A j \in 1..(k - 1) : lists.tx[j].queued
        /\ HasRoom /\ queue' = Append(queue, [type |-> "TX_HANDLE", obj |-> lists.tx[k].obj])
        /\ lists' = [lists EXCEPT !.tx[k].queued = TRUE]

\* _mdns_search_run: a search is sent, or it has ended.
SearchRun ==
    \E s \in lists.searches, type \in {"SEARCH_SEND", "SEARCH_END"} :
        /\ HasRoom /\ \A k \in DOMAIN queue : queue[k] # [type |-> "SEARCH_END", obj |-> s]
        /\ queue' = Append(queue, [type |-> type, obj |-> s]) /\ UNCHANGED lists

TimerRuns ==
    /\ callback /\ callback' = FALSE
    /\ SchedulerRun \/ SearchRun \/ UNCHANGED <<queue, lists>>
    /\ heap' = IF lock THEN heap ELSE [heap EXCEPT !.twice = TRUE]
    /\ UNCHANGED <<server, task, timers, lock, handlers, pcbs, inits, history>>

(***************************************************************************)
(* _mdns_service_task and _mdns_execute_action.                            *)
(***************************************************************************)

Objects(tx) == {tx[k].obj : k \in DOMAIN tx}

TaskStep(type) ==
    /\ task /\ queue # <<>> /\ Head(queue).type = type
    /\ UNCHANGED <<server, timers, callback, lock, handlers, inits, history>>

Obj == Head(queue).obj

ExecInstanceSet ==
    /\ TaskStep("INSTANCE_SET") /\ queue' = Tail(queue)
    /\ heap' = IF lists.instance = 0 THEN heap ELSE Freed(heap, {lists.instance})
    /\ lists' = [lists EXCEPT !.instance = Obj] /\ UNCHANGED <<task, pcbs>>

ExecSearchAdd ==
    /\ TaskStep("SEARCH_ADD") /\ queue' = Tail(queue) /\ heap' = Used(heap, {Obj})
    /\ lists' = [lists EXCEPT !.searches = @ \cup {Obj}] /\ UNCHANGED <<task, pcbs>>

\* A search that is not in the list is not touched.
ExecSearchSend ==
    /\ TaskStep("SEARCH_SEND") /\ queue' = Tail(queue)
    /\ heap' = IF Obj \in lists.searches THEN Used(heap, {Obj}) ELSE heap
    /\ UNCHANGED <<task, pcbs, lists>>

\* _mdns_search_finish: the caller has it now.
ExecSearchEnd ==
    /\ TaskStep("SEARCH_END") /\ queue' = Tail(queue)
    /\ heap' = [Used(heap, {Obj}) EXCEPT !.user = @ \cup {Obj}]
    /\ lists' = [lists EXCEPT !.searches = @ \ {Obj}] /\ UNCHANGED <<task, pcbs>>

\* _mdns_browse_add: one that is already there is freed.
ExecBrowseAdd ==
    /\ TaskStep("BROWSE_ADD") /\ queue' = Tail(queue)
    /\ IF lists.browses = {}
         THEN lists' = [lists EXCEPT !.browses = {Obj}] /\ heap' = Used(heap, {Obj})
         ELSE UNCHANGED lists /\ heap' = Freed(heap, {Obj})
    /\ UNCHANGED <<task, pcbs>>

\* _mdns_browse_finish: the browse, and the one that names it.
ExecBrowseEnd ==
    /\ TaskStep("BROWSE_END") /\ queue' = Tail(queue)
    /\ heap' = Freed(heap, lists.browses \cup {Obj})
    /\ lists' = [lists EXCEPT !.browses = {}] /\ UNCHANGED <<task, pcbs>>

ExecBrowseSync ==
    /\ TaskStep("BROWSE_SYNC") /\ queue' = Tail(queue) /\ heap' = Freed(heap, {Obj})
    /\ UNCHANGED <<task, pcbs, lists>>

\* The packet has to be the first one; it is sent and freed, or scheduled
\* again for the next probe.
ExecTxHandle ==
    /\ TaskStep("TX_HANDLE") /\ queue' = Tail(queue)
    /\ IF lists.tx # <<>> /\ lists.tx[1].obj = Obj /\ lists.tx[1].queued
         THEN \/ lists' = [lists EXCEPT !.tx = Tail(@)] /\ heap' = Freed(heap, {Obj})
              \/ /\ lists' = [lists EXCEPT !.tx = Append(Tail(@), [obj |-> Obj, queued |-> FALSE])]
                 /\ heap' = Used(heap, {Obj})
         ELSE UNCHANGED <<lists, heap>>
    /\ UNCHANGED <<task, pcbs>>

\* mdns_parse_packet: an answer is scheduled, or a browse has to be told.
ExecRxHandle ==
    LET done == Freed(heap, {Obj})
        more == [done EXCEPT !.live = @ \cup {New}, !.next = @ + 1]
    IN
    /\ TaskStep("RX_HANDLE") /\ UNCHANGED <<task, pcbs>>
    /\ \/ queue' = Tail(queue) /\ heap' = done /\ UNCHANGED lists
       \/ /\ MayAllocate /\ heap' = more /\ queue' = Tail(queue)
          /\ lists' = [lists EXCEPT !.tx = Append(@, [obj |-> New, queued |-> FALSE])]
       \/ /\ MayAllocate /\ lists.browses # {} /\ heap' = more /\ UNCHANGED lists
          /\ queue' = Append(Tail(queue), [type |-> "BROWSE_SYNC", obj |-> New])

\* Interfaces go on, with a probe, or off, with the packets scheduled there.
ExecSystemEvent ==
    /\ TaskStep("SYSTEM_EVENT") /\ queue' = Tail(queue) /\ UNCHANGED task
    /\ \/ /\ ~pcbs /\ pcbs' = TRUE /\ MayAllocate /\ heap' = Allocated
          /\ lists' = [lists EXCEPT !.tx = Append(@, [obj |-> New, queued |-> FALSE])]
       \/ /\ pcbs /\ pcbs' = FALSE /\ heap' = Freed(heap, Objects(lists.tx))
          /\ lists' = [lists EXCEPT !.tx = <<>>]
       \/ UNCHANGED <<pcbs, lists, heap>>

\* ACTION_DELEGATE_HOSTNAME_SET_ADDR and _REMOVE: the name is freed.
ExecDelegate ==
    /\ TaskStep("DELEGATE") /\ queue' = Tail(queue) /\ heap' = Freed(heap, {Obj})
    /\ UNCHANGED <<task, pcbs, lists>>

\* ACTION_TASK_STOP: the task ends, whatever comes behind.
ExecStop ==
    /\ TaskStep("TASK_STOP") /\ queue' = Tail(queue) /\ task' = FALSE
    /\ UNCHANGED <<pcbs, lists, heap>>

(***************************************************************************)
(* mdns_free.                                                              *)
(***************************************************************************)

\* The object of these is, or has been, in a list too.
Naming == {"TX_HANDLE", "SEARCH_SEND", "SEARCH_END"}
Names(q) == \E k \in DOMAIN q : q[k].type \in Naming

\* The handlers go first; the timer is stopped, but its callback is not waited for.
MdnsFree ==
    /\ server = "up" /\ server' = "stopping" /\ handlers' = FALSE /\ timers' = timers - 1
    /\ UNCHANGED <<callback, lock, pcbs, lists, inits, unstarted>>

\* The task is sent its last action,
FreeAsks ==
    /\ MdnsFree /\ HasRoom /\ queue' = Append(queue, Stop)
    /\ torn' = (torn \/ callback) /\ UNCHANGED <<task, heap>>

\* or deleted if that does not fit, between two actions
FreeDeletes ==
    /\ MdnsFree /\ ~HasRoom /\ task' = FALSE
    /\ torn' = (torn \/ callback \/ Names(queue)) /\ UNCHANGED <<queue, heap>>

\* or in the middle of one, which nobody has then.
FreeInterrupts ==
    /\ MdnsFree /\ ~HasRoom /\ task' = FALSE
    /\ MayAllocate /\ heap' = Allocated
    /\ torn' = TRUE /\ UNCHANGED queue

\* Once the task is gone the lock goes, and the interfaces.
TaskStopped ==
    /\ server = "stopping" /\ ~task /\ server' = "stopped"
    /\ lock' = FALSE /\ pcbs' = FALSE
    /\ UNCHANGED <<task, timers, callback, handlers, queue, lists, heap, inits, history>>

\* _mdns_free_action: every action owns its object, except those of system
\* events and of TASK_STOP.
FreeAction(h, a) == IF a.obj = 0 THEN h ELSE Freed(h, {a.obj})
Drained ==
    LET left[n \in 0 .. Len(queue)] ==
            IF n = 0 THEN heap ELSE FreeAction(left[n - 1], queue[n])
    IN left[Len(queue)]

\* The actions that are left, then the lists, then the server.
FreeRest ==
    LET inLists == Objects(lists.tx) \cup lists.searches \cup lists.browses
                     \cup ({lists.instance} \ {0})
    IN /\ server = "stopped" /\ server' = "none"
       /\ heap' = Freed(Drained, inLists)
       /\ queue' = <<>> /\ lists' = NoLists
       /\ UNCHANGED <<task, timers, callback, lock, handlers, pcbs, inits, history>>

Init ==
    /\ server = "none" /\ task = FALSE /\ timers = 0 /\ callback = FALSE /\ lock = FALSE
    /\ handlers = FALSE /\ pcbs = FALSE /\ queue = <<>> /\ lists = NoLists /\ inits = 0
    /\ torn = FALSE /\ unstarted = 0
    /\ heap = [live |-> {}, next |-> 1, user |-> {}, twice |-> FALSE]

Calls == {"INSTANCE_SET", "SEARCH_ADD", "BROWSE_ADD", "BROWSE_END", "DELEGATE"}

Next ==
    \/ MdnsInit
    \/ InitFails
    \/ \E f \in {"timer", "timer_start", "task"} : TaskStartFails(f)
    \/ \E c \in Calls : Call(c)
    \/ SystemEvent
    \/ Receive
    \/ \E s \in heap.user : QueryDelete(s)
    \/ TimerFires
    \/ TimerRuns
    \/ ExecInstanceSet \/ ExecSearchAdd \/ ExecSearchSend \/ ExecSearchEnd
    \/ ExecBrowseAdd \/ ExecBrowseEnd \/ ExecBrowseSync
    \/ ExecTxHandle \/ ExecRxHandle \/ ExecSystemEvent \/ ExecDelegate \/ ExecStop
    \/ FreeAsks \/ FreeDeletes \/ FreeInterrupts
    \/ TaskStopped
    \/ FreeRest

Spec == Init /\ [][Next]_vars

(***************************************************************************)
(* Properties                                                              *)
(***************************************************************************)

\* Nothing is freed twice or used after it was freed, whatever the queue holds
\* when mdns_free is called and whatever arrives behind its last action, unless
\* the timer's callback had begun, or the queue was full and in it an action whose
\* object is in a list too, or the task in the middle of one.
FreedOnce == ~torn => ~heap.twice

\* With the same exceptions nothing is left after mdns_free, and after an mdns_init
\* that failed: no object but what the caller has, no task, handler or interface,
\* and no timer but those that could not be started, which are not deleted.
NothingIsLeft ==
    server = "none" /\ ~torn =>
        /\ heap.live = heap.user
        /\ timers = unstarted /\ ~task /\ ~handlers /\ ~pcbs

(***************************************************************************)
(* Inductive strengthening of both: until mdns_free tears down what is in  *)
(* use every object has one owner, an action, a list or the caller.        *)
(***************************************************************************)

\* Actions that own their object; those of a packet or a search that is in its
\* list name it only.
Owning == Calls \cup {"BROWSE_SYNC", "RX_HANDLE"}
ActionTypes == Owning \cup {"TX_HANDLE", "SEARCH_SEND", "SEARCH_END", "SYSTEM_EVENT", "TASK_STOP"}

Actions == {a \in [type : ActionTypes, obj : Nat] : a.type = "SYSTEM_EVENT" => a.obj = 0}
Packets == [obj : Nat, queued : BOOLEAN]
Lists == [tx : Seq(Packets), searches : SUBSET Nat, browses : SUBSET Nat, instance : Nat]
Heaps == [live : SUBSET Nat, next : Nat \ {0}, user : SUBSET Nat, twice : BOOLEAN]

InQueue(q) == {q[k].obj : k \in {j \in DOMAIN q : q[j].type \in Owning}}

\* Of the sets of objects no two have one in common, and together they are all.
OneOwner(q, t, s, b, i, u, all) ==
    /\ all = q \cup t \cup s \cup b \cup i \cup u
    /\ q \cap (t \cup s \cup b \cup i \cup u) = {}
    /\ t \cap (s \cup b \cup i \cup u) = {}
    /\ s \cap (b \cup i \cup u) = {}
    /\ b \cap (i \cup u) = {}
    /\ i \cap u = {}

\* No object is in a sequence twice.
OnceEach(q, tx) ==
    /\ \A j, k \in DOMAIN q :
         q[j].type \in Owning /\ q[k].type \in Owning /\ q[j].obj = q[k].obj => j = k
    /\ \A j, k \in DOMAIN q : q[j].type = "SEARCH_END" /\ q[k] = q[j] => j = k
    /\ \A j, k \in DOMAIN tx : tx[j].obj = tx[k].obj => j = k

\* A search that is to end is in its list.
Owned(q, tx, s, b, i, h) ==
    /\ q \in Seq(Actions) /\ tx \in Seq(Packets) /\ s \subseteq Nat /\ b \subseteq Nat /\ i \in Nat
    /\ h \in Heaps /\ ~h.twice
    /\ OneOwner(InQueue(q), Objects(tx), s, b, {i} \ {0}, h.user, h.live)
    /\ \A o \in h.live : o # 0 /\ o < h.next
    /\ OnceEach(q, tx)
    /\ \A k \in DOMAIN q : q[k].type = "SEARCH_END" => q[k].obj \in s

\* What is behind the last action was received after it; of what a task leaves no
\* object is in a list.
Late(a) == a.type \in {"RX_HANDLE", "BROWSE_SYNC"}
NoStop(q) == \A k \in DOMAIN q : q[k].type # "TASK_STOP"
StopsAt(q, p) ==
    /\ q[p].type = "TASK_STOP"
    /\ \A k \in DOMAIN q : (k > p => Late(q[k])) /\ (k < p => q[k].type # "TASK_STOP")
Ends(q) == \E p \in DOMAIN q : StopsAt(q, p)
Ended(q) == \A k \in DOMAIN q : q[k].type \in Owning \/ (q[k].type = "SYSTEM_EVENT" /\ q[k].obj = 0)

Phases ==
    /\ server \in {"none", "up", "stopping", "stopped"} /\ unstarted \in Nat
    /\ callback => server = "up"
    /\ server = "none" => queue = <<>> /\ lists = NoLists /\ timers = unstarted /\ ~task /\ ~handlers /\ ~pcbs
    /\ server = "up" => lock /\ task /\ timers = unstarted + 1 /\ NoStop(queue)
    /\ server = "stopping" => ~handlers /\ timers = unstarted /\ (task => Ends(queue)) /\ (~task => Ended(queue))
    /\ server = "stopped" => ~handlers /\ timers = unstarted /\ ~task /\ ~pcbs /\ Ended(queue)

OwnedOnce ==
    /\ lists \in Lists
    /\ Owned(queue, lists.tx, lists.searches, lists.browses, lists.instance, heap)
    /\ Phases

LifeInv == torn \in BOOLEAN /\ (torn \/ OwnedOnce)

=============================================================================
