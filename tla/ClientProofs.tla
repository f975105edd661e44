---------------------------- MODULE ClientProofs ----------------------------
(***************************************************************************)
(* Theorems of three of the clients of the network, for every value of     *)
(* their constants: the order of the work queue, and the lifetime and the  *)
(* limits of an mDNS search, with the lifetime of the mDNS server.  Each   *)
(* rests on the inductive invariant stated in its module.                  *)
(***************************************************************************)
EXTENDS MCClients, TLAPS

\* What MdnsProofs proves of a search and of the server, for those of MCClients.
MP == INSTANCE MdnsProofs WITH
    ticks <- search_ticks, search <- search_search, chain <- search_chain,
    acts <- search_acts, scan <- search_scan, user <- search_user,
    raced <- search_raced, rx <- search_rx, queries <- search_queries,
    QueueLen <- 2, MaxObjects <- 3, MaxInits <- 2,
    InitFaults <- {"memory", "event", "timer", "timer_start", "task"},
    server <- life_server, task <- life_task, timers <- life_timers,
    callback <- life_callback, lock <- life_lock, handlers <- life_handlers,
    pcbs <- life_pcbs, queue <- life_queue, lists <- life_lists,
    heap <- life_heap, inits <- life_inits, torn <- life_torn, unstarted <- life_unstarted

-----------------------------------------------------------------------------
(* A step is a step of one component; the others stand still.              *)

LEMMA StepOfPart ==
  ASSUME [Next]_vars
  PROVE  /\ Search!Next \/ UNCHANGED searchVars
         /\ Life!Next \/ UNCHANGED lifeVars
         /\ Work!Next \/ UNCHANGED workVars
BY DEF Next, vars

-----------------------------------------------------------------------------
(* The work queue.                                                         *)

LEMMA WorkInit ==
  ASSUME Work!Init
  PROVE  Work!WorkInv
<1> USE DEF Work!Init
<1>1. Work!WorkType
  <2>1. work_created \in BOOLEAN
    BY Zenon
  <2> QED BY <2>1 DEF Work!WorkType
<1>2. Work!TaskInv
  BY DEF Work!TaskInv, Work!Live, Work!Starting
<1>3. Work!OrderInv
  BY DEF Work!OrderInv, Work!Increasing
<1> QED BY <1>1, <1>2, <1>3 DEF Work!WorkInv

LEMMA ExceptSeq ==
  ASSUME NEW T, NEW s \in Seq(T), NEW k \in DOMAIN s, NEW e \in T
  PROVE  /\ [s EXCEPT ![k] = e] \in Seq(T) /\ Len([s EXCEPT ![k] = e]) = Len(s)
         /\ DOMAIN [s EXCEPT ![k] = e] = DOMAIN s
OBVIOUS

LEMMA ControlType ==
  ASSUME Work!WorkType, NEW c \in Controllers, Work!Control(c)
  PROVE  Work!WorkType'
<1> USE DEF Work!WorkType
<1>1. CASE Work!QueueInit(c)
  BY <1>1 DEF Work!QueueInit
<1>2. CASE Work!StartTask(c)
  BY <1>2 DEF Work!StartTask
<1>3. CASE Work!SetRunning(c)
  BY <1>3 DEF Work!SetRunning
<1>4. CASE Work!Stop(c)
  BY <1>4 DEF Work!Stop
<1>5. CASE Work!Deinit(c)
  BY <1>5 DEF Work!Deinit
<1>6. CASE Work!DeinitEnd(c)
  <2>1. work_created' \in BOOLEAN
    BY <1>6, Zenon DEF Work!DeinitEnd
  <2>2. work_pc' \in [Controllers -> {"idle", "started", "deinit"}]
    BY <1>6 DEF Work!DeinitEnd
  <2>3. work_queue' \in Seq(Nat) /\ work_added' \in Nat /\ work_done' \in Seq(Nat)
    <3>1. work_queue' = <<>> \/ work_queue' = work_queue
      BY <1>6, Zenon DEF Work!DeinitEnd
    <3>2. work_added' = work_added /\ work_done' = work_done
      BY <1>6 DEF Work!DeinitEnd
    <3>3. <<>> \in Seq(Nat) /\ work_queue \in Seq(Nat)
      OBVIOUS
    <3> QED BY <3>1, <3>2, <3>3, Zenon
  <2>4. /\ work_queue_state' \in {"deinit", "init_done", "running", "stop_requested"}
        /\ work_worker' \in Seq({"check", "block", "drain", "ended"})
    BY <1>6 DEF Work!DeinitEnd
  <2> QED BY <2>1, <2>2, <2>3, <2>4
<1> QED BY <1>1, <1>2, <1>3, <1>4, <1>5, <1>6 DEF Work!Control

\* A controller that is alone finds no other one in the middle of a start.
LEMMA ControlTask ==
  ASSUME Work!WorkType, Work!TaskInv, \A c, d \in Controllers : c = d,
         NEW c \in Controllers, Work!Control(c)
  PROVE  Work!TaskInv'
<1> USE DEF Work!WorkType, Work!TaskInv, Work!Starting, Work!Live
<1>1. CASE Work!QueueInit(c)
  BY <1>1 DEF Work!QueueInit
<1>2. CASE Work!StartTask(c)
  <2>1. \A w \in DOMAIN work_worker : work_worker[w] = "ended"
    BY <1>2 DEF Work!StartTask
  <2>2. /\ DOMAIN work_worker' = 1 .. Len(work_worker) + 1 /\ Len(work_worker') = Len(work_worker) + 1
        /\ \A w \in 1 .. Len(work_worker) : work_worker'[w] = work_worker[w]
    BY <1>2 DEF Work!StartTask
  <2>3. \A w \in DOMAIN work_worker' : w # Len(work_worker') => work_worker'[w] = "ended"
    <3>1. Len(work_worker) \in Nat /\ DOMAIN work_worker = 1 .. Len(work_worker)
      OBVIOUS
    <3> HIDE DEF Work!WorkType, Work!TaskInv, Work!Starting, Work!Live
    <3> QED BY <2>1, <2>2, <3>1
  <2>4. work_pc'[c] = "started" /\ work_queue_state' = "init_done" /\ work_created' = work_created
    BY <1>2 DEF Work!StartTask
  <2>5. Work!Starting'
    BY <2>4, Zenon
  <2>6. work_created'
    BY <1>2, <2>4 DEF Work!StartTask
  <2> QED BY <2>3, <2>4, <2>5, <2>6
<1>3. CASE Work!SetRunning(c)
  BY <1>3 DEF Work!SetRunning
<1>4. CASE Work!Stop(c)
  BY <1>4 DEF Work!Stop
<1>5. CASE Work!Deinit(c)
  BY <1>5 DEF Work!Deinit
<1>6. CASE Work!DeinitEnd(c)
  BY <1>6 DEF Work!DeinitEnd
<1> QED BY <1>1, <1>2, <1>3, <1>4, <1>5, <1>6 DEF Work!Control

LEMMA ControlOrder ==
  ASSUME Work!WorkType, Work!OrderInv, NEW c \in Controllers, Work!Control(c)
  PROVE  Work!OrderInv'
<1>1. work_done' = work_done /\ work_added' = work_added
  BY DEF Work!Control, Work!QueueInit, Work!StartTask, Work!SetRunning, Work!Stop, Work!Deinit,
         Work!DeinitEnd
<1>2. work_queue' = work_queue \/ work_queue' = <<>>
  BY DEF Work!Control, Work!QueueInit, Work!StartTask, Work!SetRunning, Work!Stop, Work!Deinit,
         Work!DeinitEnd
<1> QED BY <1>1, <1>2 DEF Work!OrderInv, Work!Increasing

LEMMA AddTaskStep ==
  ASSUME Work!WorkInv, Work!AddTask
  PROVE  Work!WorkInv'
<1> USE DEF Work!WorkInv, Work!AddTask
<1>1. Work!WorkType'
  BY DEF Work!WorkType
<1>2. Work!TaskInv'
  BY DEF Work!TaskInv, Work!Starting, Work!Live
<1>3. Work!OrderInv'
  <2>1. work_queue \in Seq(Nat) /\ work_done \in Seq(Nat) /\ work_added \in Nat
    BY DEF Work!WorkType
  <2>2. /\ DOMAIN work_queue' = 1 .. Len(work_queue) + 1 /\ DOMAIN work_queue = 1 .. Len(work_queue)
        /\ work_queue'[Len(work_queue) + 1] = work_added + 1
        /\ \A j \in 1 .. Len(work_queue) : work_queue'[j] = work_queue[j]
    BY <2>1
  <2>3. Work!Increasing(work_queue')
    BY <2>1, <2>2 DEF Work!OrderInv, Work!Increasing
  <2> QED BY <2>1, <2>2, <2>3 DEF Work!OrderInv, Work!Increasing
<1> QED BY <1>1, <1>2, <1>3

LEMMA CheckStateStep ==
  ASSUME Work!WorkInv, NEW w \in DOMAIN work_worker, Work!CheckState(w)
  PROVE  Work!WorkInv'
<1> USE DEF Work!WorkInv, Work!CheckState
<1>1. Work!WorkType'
  <2>1. work_worker' \in Seq({"check", "block", "drain", "ended"})
    <3>1. PICK pc \in {"block", "ended"} : work_worker' = [work_worker EXCEPT ![w] = pc]
      BY Zenon
    <3> QED BY <3>1, ExceptSeq DEF Work!WorkType
  <2>2. work_queue_state' \in {"deinit", "init_done", "running", "stop_requested"}
    BY DEF Work!WorkType
  <2> QED BY <2>1, <2>2 DEF Work!WorkType
<1>2. Work!TaskInv'
  BY DEF Work!TaskInv, Work!WorkType, Work!Starting, Work!Live
<1>3. Work!OrderInv'
  BY DEF Work!OrderInv, Work!Increasing
<1> QED BY <1>1, <1>2, <1>3

LEMMA ReceiveStep ==
  ASSUME Work!WorkInv, NEW w \in DOMAIN work_worker, Work!Receive(w)
  PROVE  Work!WorkInv'
<1> USE DEF Work!WorkInv, Work!Receive
<1>1. Work!WorkType'
  BY DEF Work!WorkType
<1>2. Work!TaskInv'
  BY DEF Work!TaskInv, Work!WorkType, Work!Starting, Work!Live
<1>3. Work!OrderInv'
  <2>1. work_queue \in Seq(Nat) /\ work_done \in Seq(Nat) /\ work_added \in Nat /\ work_queue # <<>>
    BY DEF Work!WorkType
  <2>2. /\ DOMAIN work_queue = 1 .. Len(work_queue) /\ DOMAIN work_queue' = 1 .. Len(work_queue) - 1
        /\ \A j \in 1 .. Len(work_queue) - 1 : work_queue'[j] = work_queue[j + 1]
        /\ Len(work_queue) \in Nat /\ Len(work_queue) > 0
    BY <2>1
  <2>3. /\ DOMAIN work_done = 1 .. Len(work_done) /\ DOMAIN work_done' = 1 .. Len(work_done) + 1
        /\ \A i \in 1 .. Len(work_done) : work_done'[i] = work_done[i]
        /\ work_done'[Len(work_done) + 1] = work_queue[1] /\ Len(work_done) \in Nat
    BY <2>1
  <2> DEFINE n == Len(work_done)
  <2>4. \A i \in 1 .. n : work_done[i] < work_queue[1] /\ work_done[i] <= work_added
    BY <2>2, <2>3 DEF Work!OrderInv
  <2>5. \A i, j \in 1 .. n : i < j => work_done[i] < work_done[j]
    BY <2>3 DEF Work!OrderInv, Work!Increasing
  <2>6. \A j \in 1 .. Len(work_queue) : work_queue[j] <= work_added
    BY <2>2 DEF Work!OrderInv
  <2>7. \A j \in 1 .. Len(work_queue) - 1 : work_queue[1] < work_queue[j + 1]
    BY <2>2 DEF Work!OrderInv, Work!Increasing
  <2>8. Work!Increasing(work_done')
    BY <2>3, <2>4, <2>5 DEF Work!Increasing
  <2>9. Work!Increasing(work_queue')
    <3>1. \A i, j \in 1 .. Len(work_queue) : i < j => work_queue[i] < work_queue[j]
      BY <2>2 DEF Work!OrderInv, Work!Increasing
    <3> HIDE DEF Work!WorkInv, Work!Receive
    <3>2. \A i, j \in 1 .. Len(work_queue) - 1 : i < j => work_queue'[i] < work_queue'[j]
      BY <2>2, <3>1
    <3> QED BY <2>2, <3>2 DEF Work!Increasing
  <2>10. \A i \in DOMAIN work_done' : work_done'[i] <= work_added
    BY <2>2, <2>3, <2>4, <2>6
  <2>11. \A j \in DOMAIN work_queue' : work_queue'[j] <= work_added
    BY <2>2, <2>6
  <2>12. \A i \in DOMAIN work_done', j \in DOMAIN work_queue' : work_done'[i] < work_queue'[j]
    <3> SUFFICES ASSUME NEW i \in DOMAIN work_done', NEW j \in DOMAIN work_queue'
                 PROVE  work_done'[i] < work_queue'[j]
      OBVIOUS
    <3>1. CASE i = n + 1
      BY <2>2, <2>3, <2>7, <3>1
    <3>2. CASE i # n + 1
      <4>1. i \in 1 .. n /\ j + 1 \in DOMAIN work_queue
        BY <2>2, <2>3, <3>2
      <4> QED BY <2>2, <2>3, <4>1 DEF Work!OrderInv
    <3> QED BY <3>1, <3>2
  <2>13. work_added' = work_added
    OBVIOUS
  <2> QED BY <2>8, <2>9, <2>10, <2>11, <2>12, <2>13 DEF Work!OrderInv
<1> QED BY <1>1, <1>2, <1>3

LEMMA EmptyStep ==
  ASSUME Work!WorkInv, NEW w \in DOMAIN work_worker, Work!Empty(w)
  PROVE  Work!WorkInv'
<1> USE DEF Work!WorkInv, Work!Empty
<1>1. Work!WorkType'
  BY DEF Work!WorkType
<1>2. Work!TaskInv'
  BY DEF Work!TaskInv, Work!WorkType, Work!Starting, Work!Live
<1>3. Work!OrderInv'
  BY DEF Work!OrderInv, Work!Increasing
<1> QED BY <1>1, <1>2, <1>3

LEMMA WorkSafe ==
  ASSUME Work!WorkInv
  PROVE  RunInOrder
<1> USE DEF Work!WorkInv
<1>1. Work!RunInOrder
  BY DEF Work!RunInOrder, Work!OrderInv, Work!Increasing
<1>2. \A v, w \in Work!Live : v = w
  BY DEF Work!Live, Work!TaskInv, Work!WorkType
<1>3. (\E w \in Work!Live : work_worker[w] # "check") => work_created
  BY DEF Work!Live, Work!TaskInv
<1> QED BY <1>1, <1>2, <1>3 DEF RunInOrder, Work!TaskHasItsQueue

\* esp_rmaker_work_queue: with one task that starts and stops it, what was enqueued
\* is run once and in order whatever the other tasks enqueue, there is never more
\* than one task, and none works on a queue that was deleted.
THEOREM RunTheorem ==
  ASSUME \A c, d \in Controllers : c = d
  PROVE  Spec => []RunInOrder
<1>1. Init => Work!WorkInv
  BY WorkInit DEF Init
<1>2. Work!WorkInv /\ [Next]_vars => Work!WorkInv'
  <2> SUFFICES ASSUME Work!WorkInv, [Next]_vars PROVE Work!WorkInv'
    OBVIOUS
  <2>1. CASE Work!Next
    <3>1. CASE \E c \in Controllers : Work!Control(c)
      <4>1. PICK c \in Controllers : Work!Control(c)
        BY <3>1
      <4>2. Work!WorkType'
        BY <4>1, ControlType DEF Work!WorkInv
      <4>3. Work!TaskInv'
        BY <4>1, ControlTask DEF Work!WorkInv
      <4>4. Work!OrderInv'
        BY <4>1, ControlOrder DEF Work!WorkInv
      <4> QED BY <4>2, <4>3, <4>4 DEF Work!WorkInv
    <3>2. CASE Work!AddTask
      BY <3>2, AddTaskStep
    <3>3. CASE \E w \in DOMAIN work_worker : Work!Work(w)
      BY <3>3, CheckStateStep, ReceiveStep, EmptyStep DEF Work!Work
    <3> QED BY <2>1, <3>1, <3>2, <3>3 DEF Work!Next
  <2>2. CASE UNCHANGED workVars
    BY <2>2 DEF workVars, Work!WorkInv, Work!WorkType, Work!TaskInv, Work!OrderInv, Work!Starting,
                Work!Live, Work!Increasing
  <2> QED BY <2>1, <2>2, StepOfPart
<1>3. Work!WorkInv => RunInOrder
  BY WorkSafe
<1> QED BY <1>1, <1>2, <1>3, PTL DEF Spec

-----------------------------------------------------------------------------
(* The search.  MdnsProofs speaks of the same operators as MCClients.      *)

LEMMA SearchSame ==
  /\ MP!Search!Freed = Search!Freed /\ MP!Search!Room = Search!Room /\ MP!Search!Now = Search!Now
  /\ MP!Search!StoredMax = Search!StoredMax /\ MP!Search!Unlocked = Search!Unlocked
  /\ MP!Search!NoSearch = Search!NoSearch
  /\ \A q : MP!Search!ToSet(q) = Search!ToSet(q)
  /\ \A t, s : MP!Search!Act(t, s) = Search!Act(t, s)
  /\ \A t, s : MP!Search!Posted(t, s) = Search!Posted(t, s)
  /\ \A f, gone : MP!Search!Finish(f, gone) = Search!Finish(f, gone)
  /\ \A gone : MP!Search!Detach(gone) = Search!Detach(gone)
  /\ \A s : MP!Search!Expired(s) = Search!Expired(s)
<1>1. /\ MP!Search!Freed = Search!Freed /\ MP!Search!Room = Search!Room /\ MP!Search!Now = Search!Now
      /\ MP!Search!StoredMax = Search!StoredMax /\ MP!Search!Unlocked = Search!Unlocked
      /\ MP!Search!NoSearch = Search!NoSearch
  BY DEF MP!Search!Freed, Search!Freed, MP!Search!Room, Search!Room, MP!Search!Now, Search!Now,
         MP!Search!StoredMax, Search!StoredMax, MP!Search!Unlocked, Search!Unlocked,
         MP!Search!NoSearch, Search!NoSearch
<1>2. /\ \A q : MP!Search!ToSet(q) = Search!ToSet(q)
      /\ \A t, s : MP!Search!Act(t, s) = Search!Act(t, s)
      /\ \A t, s : MP!Search!Posted(t, s) = Search!Posted(t, s)
  BY DEF MP!Search!ToSet, Search!ToSet, MP!Search!Act, Search!Act, MP!Search!Posted, Search!Posted
<1>3. \A f, gone : MP!Search!Finish(f, gone) = Search!Finish(f, gone)
  BY DEF MP!Search!Finish, Search!Finish
<1>4. \A gone : MP!Search!Detach(gone) = Search!Detach(gone)
  BY DEF MP!Search!Detach, Search!Detach, MP!Search!Without, Search!Without
<1>5. \A s : MP!Search!Expired(s) = Search!Expired(s)
  BY <1>1 DEF MP!Search!Expired, Search!Expired
<1> QED BY <1>1, <1>2, <1>3, <1>4, <1>5

\* Its assumption is one of those of MCClients.
LEMMA SearchConstants == MP!Search!SearchAssumption
BY ClientAssumptions DEF ClientAssumptions, Search!SearchAssumption, MP!Search!SearchAssumption

\* It starts as MdnsSearch does.
LEMMA SearchStarts == Search!Init => MP!Search!Init
BY SearchSame DEF Search!Init, MP!Search!Init

\* Its scan of the chain,
LEMMA ScanIs ==
  ASSUME Search!ScanStep
  PROVE  MP!Search!ScanStep
<1>1. ASSUME NEW s PROVE MP!Search!IsDue(s) = Search!IsDue(s)
  BY SearchSame DEF MP!Search!IsDue, Search!IsDue
<1>2. ASSUME NEW s PROVE Search!ScanSend(s) => MP!Search!ScanSend(s)
  BY SearchSame DEF MP!Search!ScanSend, Search!ScanSend
<1>3. ASSUME NEW s PROVE Search!ScanExpired(s) => MP!Search!ScanExpired(s)
  BY SearchSame DEF MP!Search!ScanExpired, Search!ScanExpired
<1> QED BY <1>1, <1>2, <1>3, SearchSame DEF MP!Search!ScanStep, Search!ScanStep

\* and the task.
LEMMA ExecuteIs ==
  ASSUME Search!Execute
  PROVE  MP!Search!Execute
<1>1. ASSUME Search!Parse PROVE MP!Search!Parse
  <2> DEFINE found(hit) == [s \in Searches |-> IF s \in hit /\ (Search!StoredMax = 0 \/ search_search[s].num < Search!StoredMax)
                                               THEN [search_search[s] EXCEPT !.num = @ + 1] ELSE search_search[s]]
             full(hit, done) == {s \in Search!ToSet(search_chain) :
                                   done /\ Search!StoredMax # 0 /\ found(hit)[s].num >= Search!StoredMax}
  <2>1. PICK hit \in SUBSET {s \in Search!ToSet(search_chain) : search_search[s].state # "off"},
             done \in BOOLEAN :
          /\ search_search' = Search!Finish(found(hit), full(hit, done))
          /\ search_chain' = Search!Detach(full(hit, done))
          /\ search_raced' = (search_raced \/ \E s \in full(hit, done) : Search!Posted("end", s))
    BY <1>1, Zenon DEF Search!Parse
  <2>2. PICK f, gone : f = found(hit) /\ gone = full(hit, done)
    OBVIOUS
  <2>3. MP!Search!ToSet(search_chain) = Search!ToSet(search_chain) /\ MP!Search!StoredMax = Search!StoredMax
    BY SearchSame
  <2>4. f = [s \in Searches |-> IF s \in hit /\ (MP!Search!StoredMax = 0 \/ search_search[s].num < MP!Search!StoredMax)
                                THEN [search_search[s] EXCEPT !.num = @ + 1] ELSE search_search[s]]
    BY <2>2, <2>3
  <2>5. gone = {s \in MP!Search!ToSet(search_chain) :
                  done /\ MP!Search!StoredMax # 0 /\ f[s].num >= MP!Search!StoredMax}
    <3> HIDE DEF found
    <3> QED BY <2>2, <2>3
  <2> HIDE DEF found, full
  <2>6. /\ search_search' = MP!Search!Finish(f, gone) /\ search_chain' = MP!Search!Detach(gone)
        /\ search_raced' = (search_raced \/ \E s \in gone : MP!Search!Posted("end", s))
    BY <2>1, <2>2, SearchSame
  <2>7. hit \in SUBSET {s \in MP!Search!ToSet(search_chain) : search_search[s].state # "off"}
    BY <2>1, <2>3
  <2>8. LET g == [s \in Searches |-> IF s \in hit /\ (MP!Search!StoredMax = 0 \/ search_search[s].num < MP!Search!StoredMax)
                                     THEN [search_search[s] EXCEPT !.num = @ + 1] ELSE search_search[s]]
            h == {s \in MP!Search!ToSet(search_chain) :
                    done /\ MP!Search!StoredMax # 0 /\ g[s].num >= MP!Search!StoredMax}
        IN /\ search_search' = MP!Search!Finish(g, h) /\ search_chain' = MP!Search!Detach(h)
           /\ search_raced' = (search_raced \/ \E s \in h : MP!Search!Posted("end", s))
    BY <2>4, <2>5, <2>6, Zenon
  <2> QED BY <2>1, <2>7, <2>8, Zenon DEF MP!Search!Parse
<1>2. PICK t, s : t = Head(search_acts)[1] /\ s = Head(search_acts)[2]
  OBVIOUS
<1>3. /\ search_acts # <<>> /\ Search!Unlocked /\ search_acts' = Tail(search_acts)
      /\ UNCHANGED <<search_ticks, search_scan, search_user, search_rx, search_queries>>
  BY Zenon DEF Search!Execute
<1>4. MP!Search!Unlocked
  BY <1>3, SearchSame
<1>5. CASE t = "add" \/ t = "send"
  BY <1>2, <1>3, <1>4, <1>5 DEF MP!Search!Execute, Search!Execute
<1>6. CASE t = "end"
  BY <1>2, <1>3, <1>4, <1>6, SearchSame DEF MP!Search!Execute, Search!Execute
<1>7. CASE t \notin {"add", "send", "end"}
  <2>1. Search!Parse
    BY <1>2, <1>7 DEF Search!Execute
  <2> QED BY <1>1, <1>2, <1>3, <1>4, <1>7, <2>1 DEF MP!Search!Execute
<1> QED BY <1>5, <1>6, <1>7

\* A step of MCClients is one of the search, or leaves it alone.
LEMMA SearchStep ==
  ASSUME [Next]_vars
  PROVE  [MP!Search!Next]_(MP!Search!vars)
<1>1. CASE UNCHANGED searchVars
  BY <1>1 DEF searchVars, MP!Search!vars
<1>2. ASSUME NEW s \in Searches, Search!Query(s) PROVE MP!Search!Query(s)
  BY <1>2, SearchSame DEF MP!Search!Query, Search!Query
<1>3. ASSUME NEW s \in Searches, Search!TakeResults(s) PROVE MP!Search!TakeResults(s)
  BY <1>3, SearchSame DEF MP!Search!TakeResults, Search!TakeResults
<1>4. ASSUME NEW s \in Searches, Search!AsyncDelete(s) PROVE MP!Search!AsyncDelete(s)
  BY <1>4, SearchSame DEF MP!Search!AsyncDelete, Search!AsyncDelete
<1>5. Search!ScanStart => MP!Search!ScanStart
  BY SearchSame DEF MP!Search!ScanStart, Search!ScanStart
<1>6. Search!ScanEnd => MP!Search!ScanEnd
  BY DEF MP!Search!ScanEnd, Search!ScanEnd
<1>7. Search!Receive => MP!Search!Receive
  BY SearchSame DEF MP!Search!Receive, Search!Receive
<1>8. Search!Tick => MP!Search!Tick
  BY DEF MP!Search!Tick, Search!Tick
<1>9. CASE Search!Next
  BY <1>2, <1>3, <1>4, <1>5, <1>6, <1>7, <1>8, <1>9, ScanIs, ExecuteIs DEF MP!Search!Next, Search!Next
<1> QED BY <1>1, <1>9, StepOfPart

\* _mdns_search_run, _mdns_search_result_add_*: while the 32-bit clock does not wrap
\* and the uint8_t holds the number of results asked for, the timer ends no search
\* before its time and sends none after it, and no search has more results than it
\* asked for, whatever the packets, the state of the action queue and the order in
\* which the timer, the service task and the users run.
THEOREM LimitsTheorem ==
  ASSUME Start + MaxTicks + Timeout < Period, MaxResults < Width
  PROVE  Spec => []LimitsAreKept
<1>1. Init => MP!Search!SearchInv
  BY SearchConstants, SearchStarts, MP!SearchInitStep DEF Init
<1>2. MP!Search!SearchInv /\ [Next]_vars => MP!Search!SearchInv'
  <2> SUFFICES ASSUME MP!Search!SearchInv, [Next]_vars PROVE MP!Search!SearchInv'
    OBVIOUS
  <2>1. CASE MP!Search!Next
    BY <2>1, SearchConstants, MP!SearchNextStep
  <2>2. CASE UNCHANGED MP!Search!vars
    BY <2>2, MP!SearchStands
  <2> QED BY <2>1, <2>2, SearchStep
<1>3. MP!Search!SearchInv => LimitsAreKept
  <2>1. MP!Search!SearchInv => MP!Search!TimeoutIsKept /\ MP!Search!MaxIsKept
    BY SearchConstants, MP!SearchSafe
  <2> QED BY <2>1 DEF LimitsAreKept, Search!TimeoutIsKept, Search!MaxIsKept,
                      MP!Search!TimeoutIsKept, MP!Search!MaxIsKept
<1> QED BY <1>1, <1>2, <1>3, PTL DEF Spec

-----------------------------------------------------------------------------
(* The server.                                                             *)

LEMMA LifeSame ==
  /\ MP!NoLists = Life!NoLists /\ MP!Stop = Life!Stop /\ MP!New = Life!New
  /\ MP!Allocated = Life!Allocated /\ MP!MayAllocate = Life!MayAllocate /\ MP!HasRoom = Life!HasRoom
  /\ MP!Obj = Life!Obj /\ MP!Calls = Life!Calls /\ MP!Drained = Life!Drained
  /\ \A h, S : MP!Freed(h, S) = Life!Freed(h, S) /\ MP!Used(h, S) = Life!Used(h, S)
  /\ \A tx : MP!Objects(tx) = Life!Objects(tx)
  /\ \A q : MP!Names(q) = Life!Names(q)
<1>1. /\ MP!NoLists = Life!NoLists /\ MP!Stop = Life!Stop /\ MP!New = Life!New
      /\ MP!Allocated = Life!Allocated /\ MP!MayAllocate = Life!MayAllocate /\ MP!HasRoom = Life!HasRoom
      /\ MP!Obj = Life!Obj /\ MP!Calls = Life!Calls
  BY DEF MP!NoLists, Life!NoLists, MP!Stop, Life!Stop, MP!New, Life!New, MP!Allocated, Life!Allocated,
         MP!MayAllocate, Life!MayAllocate, MP!HasRoom, Life!HasRoom, MP!Obj, Life!Obj, MP!Calls, Life!Calls
<1>2. \A h, S : MP!Freed(h, S) = Life!Freed(h, S) /\ MP!Used(h, S) = Life!Used(h, S)
  BY DEF MP!Freed, Life!Freed, MP!Used, Life!Used
<1>3. \A tx : MP!Objects(tx) = Life!Objects(tx)
  BY DEF MP!Objects, Life!Objects
<1>4. MP!Drained = Life!Drained
  BY Zenon DEF MP!Drained, Life!Drained, MP!FreeAction, Life!FreeAction, MP!Freed, Life!Freed
<1>5. \A q : MP!Names(q) = Life!Names(q)
  BY DEF MP!Names, Life!Names, MP!Naming, Life!Naming
<1> QED BY <1>1, <1>2, <1>3, <1>4, <1>5

USE DEF Life!history, MP!history

\* It starts as MdnsLife does.
LEMMA LifeStarts == Life!Init => MP!Init
BY LifeSame DEF Life!Init, MP!Init

\* mdns_init,
LEMMA LifeBegins ==
  /\ Life!MdnsInit => MP!MdnsInit
  /\ Life!InitFails => MP!InitFails
  /\ \A f : Life!TaskStartFails(f) => MP!TaskStartFails(f)
<1>1. Life!MdnsInit => MP!MdnsInit
  BY LifeSame, Zenon DEF Life!MdnsInit, MP!MdnsInit
<1>2. Life!InitFails => MP!InitFails
  BY DEF Life!InitFails, MP!InitFails
<1>3. \A f : Life!TaskStartFails(f) => MP!TaskStartFails(f)
  BY Zenon DEF Life!TaskStartFails, MP!TaskStartFails
<1> QED BY <1>1, <1>2, <1>3

\* what posts actions,
LEMMA LifePosts ==
  /\ \A c : Life!Call(c) => MP!Call(c)
  /\ Life!SystemEvent => MP!SystemEvent
  /\ Life!Receive => MP!Receive
  /\ \A s : Life!QueryDelete(s) => MP!QueryDelete(s)
  /\ Life!TimerFires => MP!TimerFires
  /\ Life!TimerRuns => MP!TimerRuns
<1>1. \A c : Life!PostNew(c) => MP!PostNew(c)
  BY LifeSame DEF Life!PostNew, MP!PostNew
<1>2. \A c : Life!Call(c) => MP!Call(c)
  BY <1>1 DEF Life!Call, MP!Call
<1>3. Life!Receive => MP!Receive
  BY <1>1 DEF Life!Receive, MP!Receive
<1>4. Life!SystemEvent => MP!SystemEvent
  BY LifeSame DEF Life!SystemEvent, MP!SystemEvent
<1>5. \A s : Life!QueryDelete(s) => MP!QueryDelete(s)
  BY LifeSame DEF Life!QueryDelete, MP!QueryDelete
<1>6. Life!TimerFires => MP!TimerFires
  BY DEF Life!TimerFires, MP!TimerFires
<1>7. /\ Life!SchedulerRun => MP!SchedulerRun
      /\ Life!SearchRun => MP!SearchRun
  BY LifeSame DEF Life!SchedulerRun, MP!SchedulerRun, Life!SearchRun, MP!SearchRun
<1>8. Life!TimerRuns => MP!TimerRuns
  BY <1>7 DEF Life!TimerRuns, MP!TimerRuns
<1> QED BY <1>2, <1>3, <1>4, <1>5, <1>6, <1>8

\* the task,
LEMMA LifeExecutes ==
  /\ Life!ExecInstanceSet => MP!ExecInstanceSet
  /\ Life!ExecSearchAdd => MP!ExecSearchAdd
  /\ Life!ExecSearchSend => MP!ExecSearchSend
  /\ Life!ExecSearchEnd => MP!ExecSearchEnd
  /\ Life!ExecBrowseAdd => MP!ExecBrowseAdd
  /\ Life!ExecBrowseEnd => MP!ExecBrowseEnd
  /\ Life!ExecBrowseSync => MP!ExecBrowseSync
  /\ Life!ExecTxHandle => MP!ExecTxHandle
  /\ Life!ExecRxHandle => MP!ExecRxHandle
  /\ Life!ExecSystemEvent => MP!ExecSystemEvent
  /\ Life!ExecDelegate => MP!ExecDelegate
  /\ Life!ExecStop => MP!ExecStop
<1>1. \A type : Life!TaskStep(type) => MP!TaskStep(type)
  BY DEF Life!TaskStep, MP!TaskStep
<1>2. Life!ExecInstanceSet => MP!ExecInstanceSet
  BY <1>1, LifeSame DEF Life!ExecInstanceSet, MP!ExecInstanceSet
<1>3. Life!ExecSearchAdd => MP!ExecSearchAdd
  BY <1>1, LifeSame DEF Life!ExecSearchAdd, MP!ExecSearchAdd
<1>4. Life!ExecSearchSend => MP!ExecSearchSend
  BY <1>1, LifeSame DEF Life!ExecSearchSend, MP!ExecSearchSend
<1>5. Life!ExecSearchEnd => MP!ExecSearchEnd
  BY <1>1, LifeSame DEF Life!ExecSearchEnd, MP!ExecSearchEnd
<1>6. Life!ExecBrowseAdd => MP!ExecBrowseAdd
  BY <1>1, LifeSame DEF Life!ExecBrowseAdd, MP!ExecBrowseAdd
<1>7. Life!ExecBrowseEnd => MP!ExecBrowseEnd
  BY <1>1, LifeSame DEF Life!ExecBrowseEnd, MP!ExecBrowseEnd
<1>8. Life!ExecBrowseSync => MP!ExecBrowseSync
  BY <1>1, LifeSame DEF Life!ExecBrowseSync, MP!ExecBrowseSync
<1>9. Life!ExecTxHandle => MP!ExecTxHandle
  BY <1>1, LifeSame DEF Life!ExecTxHandle, MP!ExecTxHandle
<1>10. Life!ExecRxHandle => MP!ExecRxHandle
  BY <1>1, LifeSame DEF Life!ExecRxHandle, MP!ExecRxHandle
<1>11. Life!ExecSystemEvent => MP!ExecSystemEvent
  BY <1>1, LifeSame DEF Life!ExecSystemEvent, MP!ExecSystemEvent
<1>12. Life!ExecDelegate => MP!ExecDelegate
  BY <1>1, LifeSame DEF Life!ExecDelegate, MP!ExecDelegate
<1>13. Life!ExecStop => MP!ExecStop
  BY <1>1, LifeSame DEF Life!ExecStop, MP!ExecStop
<1> QED BY <1>2, <1>3, <1>4, <1>5, <1>6, <1>7, <1>8, <1>9, <1>10, <1>11, <1>12, <1>13

\* and mdns_free.
LEMMA LifeEnds ==
  /\ Life!FreeAsks => MP!FreeAsks
  /\ Life!FreeDeletes => MP!FreeDeletes
  /\ Life!FreeInterrupts => MP!FreeInterrupts
  /\ Life!TaskStopped => MP!TaskStopped
  /\ Life!FreeRest => MP!FreeRest
<1>1. Life!MdnsFree => MP!MdnsFree
  BY DEF Life!MdnsFree, MP!MdnsFree
<1>2. Life!TaskStopped => MP!TaskStopped
  BY DEF Life!TaskStopped, MP!TaskStopped
<1>3. Life!FreeRest => MP!FreeRest
  BY LifeSame DEF Life!FreeRest, MP!FreeRest
<1>4. Life!FreeAsks => MP!FreeAsks
  BY <1>1, LifeSame DEF Life!FreeAsks, MP!FreeAsks
<1>5. Life!FreeDeletes => MP!FreeDeletes
  BY <1>1, LifeSame DEF Life!FreeDeletes, MP!FreeDeletes
<1>6. Life!FreeInterrupts => MP!FreeInterrupts
  BY <1>1, LifeSame DEF Life!FreeInterrupts, MP!FreeInterrupts
<1> QED BY <1>2, <1>3, <1>4, <1>5, <1>6

\* A step of MCClients is one of the server, or leaves it alone.
LEMMA LifeStep == [Next]_vars => [MP!Next]_(MP!vars)
<1> SUFFICES ASSUME [Next]_vars PROVE [MP!Next]_(MP!vars)
  OBVIOUS
<1>1. CASE UNCHANGED lifeVars
  BY <1>1 DEF lifeVars, MP!vars
<1>2. CASE Life!Next
  <2>1. Life!Calls = MP!Calls
    BY LifeSame
  <2> QED BY <1>2, <2>1, LifeBegins, LifePosts, LifeExecutes, LifeEnds, Zenon DEF Life!Next, MP!Next
<1> QED BY <1>1, <1>2, StepOfPart

\* mdns_query_generic, mdns_free: nobody uses a search that was freed, the end of
\* each comes once, and the server's objects are each freed once and none is left
\* behind, whatever arrives and in whatever order the timer, the service task and
\* the users run, until one of the races that MdnsSearch and MdnsLife record: a
\* search is freed or ended as full while its end is in the queue, or mdns_free
\* finds the timer's callback under way or a queue with no room for its last action.
THEOREM FreedTheorem == Spec => []NobodyUsesFreed
<1>1. Init => MP!Search!UseInv /\ MP!LifeInv
  BY SearchConstants, SearchStarts, LifeStarts, MP!InitUse, MP!InitLife DEF Init
<1>2. MP!Search!UseInv /\ [Next]_vars => MP!Search!UseInv'
  BY SearchConstants, SearchStep, MP!NextUse
<1>3. MP!LifeInv /\ [Next]_vars => MP!LifeInv'
  BY LifeStep, MP!NextLife
<1>4. MP!Search!UseInv => Search!NobodyUsesFreed /\ Search!EndsOnce
  <2>1. MP!Search!UseInv => MP!Search!NobodyUsesFreed /\ MP!Search!EndsOnce
    BY MP!UseSafe
  <2>2. MP!Search!NobodyUsesFreed => Search!NobodyUsesFreed
    BY SearchSame DEF MP!Search!NobodyUsesFreed, Search!NobodyUsesFreed
  <2>3. MP!Search!EndsOnce => Search!EndsOnce
    BY SearchSame DEF MP!Search!EndsOnce, Search!EndsOnce, MP!Search!InChain, Search!InChain
  <2> QED BY <2>1, <2>2, <2>3
<1>5. MP!LifeInv => Life!FreedOnce /\ Life!NothingIsLeft
  BY MP!LifeSafe DEF MP!FreedOnce, MP!NothingIsLeft, Life!FreedOnce, Life!NothingIsLeft
<1> QED BY <1>1, <1>2, <1>3, <1>4, <1>5, PTL DEF Spec, NobodyUsesFreed
=============================================================================
