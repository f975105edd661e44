----------------------------- MODULE MCLiveness -----------------------------
(***************************************************************************)
(* What must eventually happen, each part on its own: an interface comes   *)
(* to rest, a packet that is due is sent, a query returns, enqueued work   *)
(* is run, the triac goes on firing, two devices with the same name get    *)
(* different ones. A behaviour is a behaviour of one of the parts; the     *)
(* others stand still.                                                     *)
(***************************************************************************)
EXTENDS Integers, Sequences

VARIABLES
    part,  \* the component that runs in this behaviour
    pcb_pcb, pcb_services, pcb_hostSet, pcb_announced, pcb_byes, pcb_events,
    tx_ticks, tx_tx, tx_acts, tx_taken, tx_scan, tx_others,
    search_ticks, search_search, search_chain, search_acts, search_scan,
    search_user, search_raced, search_rx, search_queries,
    work_queue_state, work_created, work_queue, work_pc, work_worker,
    work_added, work_done,
    triac_phase, triac_length, triac_running, triac_count, triac_alarm,
    triac_syncPending, triac_alarmPending, triac_firedAt, triac_quiet,
    button_ticks, button_long_press_hold_cnt, button_repeat, button_state,
    button_debounce_cnt, button_button_level, button_calls, button_raw,
    button_stable, button_presses,
    names_host, names_sent, names_wire, names_lost

Pcb == INSTANCE MdnsPcb WITH
    Pcbs <- {1, 2}, Services <- {"a", "b"}, Instanced <- {"a"},
    SameType <- FALSE, ServerInstance <- TRUE, Twins <- {1, 2}, MaxEvents <- 5,
    pcb <- pcb_pcb, services <- pcb_services, hostSet <- pcb_hostSet,
    announced <- pcb_announced, byes <- pcb_byes, events <- pcb_events

Tx == INSTANCE MdnsTx WITH
    Addrs <- {"p", "q"}, Pcbs <- {1, 2}, Delays <- {1}, Period <- 32,
    Start <- 0, QLen <- 8, MaxTicks <- 4, MaxOther <- 1,
    ticks <- tx_ticks, tx <- tx_tx, acts <- tx_acts, taken <- tx_taken,
    scan <- tx_scan, others <- tx_others

Search == INSTANCE MdnsSearch WITH
    Searches <- {"s", "t"}, Async <- {"t"},
    MaxResults <- 1, Width <- 256, Timeout <- 2,
    Resend <- 1, Period <- 64, Start <- 0, QLen <- 2, MaxTicks <- 4,
    MaxRx <- 1, MaxQueries <- 2,
    ticks <- search_ticks, search <- search_search, chain <- search_chain,
    acts <- search_acts, scan <- search_scan, user <- search_user, raced <- search_raced,
    rx <- search_rx, queries <- search_queries

Work == INSTANCE WorkQueue WITH
    Controllers <- {"c"}, QueueSize <- 2, MaxWork <- 3, MaxStarts <- 2,
    queue_state <- work_queue_state, created <- work_created,
    queue <- work_queue, pc <- work_pc, worker <- work_worker,
    added <- work_added, done <- work_done

Triac == INSTANCE TriacTimer WITH
    Delays <- 1..5, HalfPeriods <- {4, 5},
    phase <- triac_phase, length <- triac_length, running <- triac_running,
    count <- triac_count, alarm <- triac_alarm,
    syncPending <- triac_syncPending, alarmPending <- triac_alarmPending,
    firedAt <- triac_firedAt, quiet <- triac_quiet

Button == INSTANCE Button WITH
    DebounceTicks <- 3, ShortTicks <- 3, SerialTicks <- 2,
    long_press_ticks <- 4, short_press_ticks <- 2, TickMod <- 16,
    MaxPresses <- 4,
    ticks <- button_ticks, long_press_hold_cnt <- button_long_press_hold_cnt,
    repeat <- button_repeat, state <- button_state,
    debounce_cnt <- button_debounce_cnt, button_level <- button_button_level,
    calls <- button_calls, raw <- button_raw, stable <- button_stable,
    presses <- button_presses

Names == INSTANCE MdnsCollision WITH
    Devices <- {1, 2}, Base <- [words |-> "esp", suffix |-> -1], Probes <- 2,
    Announces <- 1, MaxLost <- 1, MaxQueue <- 2,
    host <- names_host, sent <- names_sent, wire <- names_wire,
    lost <- names_lost

pcbVars ==
    <<pcb_pcb, pcb_services, pcb_hostSet, pcb_announced, pcb_byes,
      pcb_events>>
txVars ==
    <<tx_ticks, tx_tx, tx_acts, tx_taken, tx_scan, tx_others>>
searchVars ==
    <<search_ticks, search_search, search_chain, search_acts, search_scan,
      search_user, search_raced, search_rx, search_queries>>
workVars ==
    <<work_queue_state, work_created, work_queue, work_pc, work_worker,
      work_added, work_done>>
triacVars ==
    <<triac_phase, triac_length, triac_running, triac_count, triac_alarm,
      triac_syncPending, triac_alarmPending, triac_firedAt, triac_quiet>>
buttonVars ==
    <<button_ticks, button_long_press_hold_cnt, button_repeat, button_state,
      button_debounce_cnt, button_button_level, button_calls, button_raw,
      button_stable, button_presses>>
namesVars ==
    <<names_host, names_sent, names_wire, names_lost>>
vars == <<part, pcbVars, txVars, searchVars, workVars, triacVars, buttonVars, namesVars>>

Init ==
    /\ part \in {"pcb", "tx", "search", "work", "triac", "button", "names"}
    /\ Pcb!Init
    /\ Tx!Init
    /\ Search!Init
    /\ Work!Init
    /\ Triac!Init
    /\ part = "triac" \/ (triac_length = 4 /\ triac_alarm = 1)
    /\ Button!Init
    /\ Names!Init

\* MaxWork bounds the numbers that functions have, not their supply: when all are
\* used up, counting starts anew, with what is in the queue.
Recount ==
    /\ work_added = 3 /\ work_added' = 0 /\ work_done' = <<>>
    /\ UNCHANGED <<work_queue_state, work_created, work_queue, work_pc, work_worker>>

Next ==
    \/ /\ part = "pcb" /\ Pcb!Next
       /\ UNCHANGED <<part, txVars, searchVars, workVars, triacVars,
                       buttonVars, namesVars>>
    \/ /\ part = "tx" /\ Tx!Next
       /\ UNCHANGED <<part, pcbVars, searchVars, workVars, triacVars,
                       buttonVars, namesVars>>
    \/ /\ part = "search" /\ Search!Next
       /\ UNCHANGED <<part, pcbVars, txVars, workVars, triacVars,
                       buttonVars, namesVars>>
    \/ /\ part = "work" /\ (Work!Next \/ Recount)
       /\ UNCHANGED <<part, pcbVars, txVars, searchVars, triacVars,
                       buttonVars, namesVars>>
    \/ /\ part = "triac" /\ Triac!Next
       /\ UNCHANGED <<part, pcbVars, txVars, searchVars, workVars,
                       buttonVars, namesVars>>
    \/ /\ part = "button" /\ Button!Next
       /\ UNCHANGED <<part, pcbVars, txVars, searchVars, workVars,
                       triacVars, namesVars>>
    \/ /\ part = "names" /\ Names!Next
       /\ UNCHANGED <<part, pcbVars, txVars, searchVars, workVars,
                       triacVars, buttonVars>>

\* The mDNS task, its timer and the callers run; a search and a queued packet are
\* not passed over forever when the action queue is full now and then.  The
\* worker task runs, and so does whoever waits for it to stop.  Interrupts are
\* served and time passes.
Fairness ==
    /\ WF_pcbVars(part = "pcb" /\ Pcb!TxStep)
    /\ WF_txVars(part = "tx" /\ Tx!ScanStart) /\ WF_txVars(part = "tx" /\ (Tx!ScanPush \/ Tx!ScanEnd))
    /\ WF_txVars(part = "tx" /\ Tx!Receive) /\ SF_txVars(part = "tx" /\ Tx!Execute)
    /\ WF_searchVars(part = "search" /\ Search!Tick) /\ WF_searchVars(part = "search" /\ Search!ScanStart)
    /\ WF_searchVars(part = "search" /\ (Search!ScanStep \/ Search!ScanEnd))
    /\ SF_searchVars(part = "search" /\ Search!Execute)
    /\ \A s \in {"s", "t"} : WF_searchVars(part = "search" /\ Search!TakeResults(s))
    /\ \A w \in 1..2 : WF_workVars(part = "work" /\ w \in DOMAIN work_worker /\ Work!Work(w))
    /\ WF_workVars(part = "work" /\ (Work!SetRunning("c") \/ Work!DeinitEnd("c")))
    /\ WF_triacVars(part = "triac" /\ Triac!SyncIsr) /\ WF_triacVars(part = "triac" /\ Triac!AlarmIsr)
    /\ WF_triacVars(part = "triac" /\ Triac!Tick)
    /\ WF_buttonVars(part = "button" /\ Button!Next)
    /\ \A d, e \in {1, 2} :
          /\ WF_namesVars(part = "names" /\ (Names!Probe(d) \/ Names!Announce(d)))
          /\ d # e => WF_namesVars(part = "names" /\ Names!Receive(d, e))

Spec == Init /\ [][Next]_vars /\ Fairness

(***************************************************************************)
(* Properties                                                              *)
(***************************************************************************)

ASSUME LivenessAssumptions ==
    /\ Names!MdnsCollisionAssumption /\ Names!TieBreakIsFair /\ Names!TxtIsReadBack

\* _mdns_tx_handle_packet: once nothing happens any more every open PCB comes to
\* the running state, with nothing left to send.
ComesToRest == <>[](\A i \in {1, 2} : pcb_pcb[i].ready => pcb_pcb[i].state = "running" /\ pcb_pcb[i].tx = {})

\* _mdns_scheduler_run: a packet that is due is sent (or cleared): the timer posts
\* it and the task finds it at the head.  mdns_query_generic: a query returns,
\* although the wait on its semaphore has no time limit.
DueIsServed == Tx!DueIsSent /\ Search!QueryReturns

\* esp_rmaker_work_queue_task: enqueued work is run unless the task is asked to
\* stop before, and esp_rmaker_work_queue_deinit, which waits for it, returns; both
\* if the other tasks stop enqueueing at some time, since the worker looks at
\* queue_state only when it has found the queue empty (work_queue.c:49-52).
WorkIsRun == Work!WorkIsRun /\ Work!DeinitReturns

\* Both interrupt handlers: the triac is fired again and again, whatever the tasks
\* program, even a delay longer than the half period, during which a sync finds
\* the timer still running.  button_handler: a button that stays pressed is seen, a
\* long press is reported as held, and a button that is released comes to rest.
KeepsFiring ==
    /\ part = "triac" => []<>(triac_firedAt # {})
    /\ part = "button" => Button!PressIsSeen /\ Button!HoldIsReported /\ Button!ReleaseComesToRest

\* mdns_parse_packet: two devices with the same host name end up with different
\* ones, although the network may lose fewer packets than there are probes; the
\* one with the higher address keeps its name, and the other is renamed once.
NamesSettle ==
    /\ part = "names" => Names!NamesSettle
    /\ [](Names!NamesEndUpDifferent /\ Names!WinnerKeepsName)

=============================================================================
