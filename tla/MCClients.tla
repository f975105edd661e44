----------------------------- MODULE MCClients ------------------------------
(***************************************************************************)
(* What the firmware asks of others on the network, each on its own: the   *)
(* life of an mDNS search, the results it collects, a browse, and what ESP *)
(* Insights collects and reports to the cloud, with the work queue that    *)
(* runs it. A behaviour is a behaviour of one of them; the others stand    *)
(* still.                                                                  *)
(***************************************************************************)
EXTENDS Integers, Sequences

CONSTANTS
    Searches, Async, MaxResults, Width, Timeout,
    Resend, Period, Start, QLen, MaxTicks, MaxRx, MaxQueries,   \* MdnsSearch
    Controllers, QueueSize, MaxWork, MaxStarts                  \* WorkQueue

VARIABLES
    part,  \* the component that runs in this behaviour
    search_ticks, search_search, search_chain, search_acts, search_scan,
    search_user, search_raced, search_rx, search_queries,
    results_results, results_seen, results_records,
    browse_active, browse_results, browse_acts, browse_taken, browse_stuck,
    browse_shown, browse_unsaid, browse_seen, browse_rx, browse_calls,
    insights_critical, insights_written, insights_pc, insights_sent,
    insights_read, insights_job, insights_data_send_inprogress,
    insights_data_msg_id, insights_data_msg_len, insights_data_sent,
    insights_boot_msg_id, insights_meta_msg_pending, insights_meta_msg_id,
    insights_meta_crc, insights_nvs_crc, insights_meta, insights_timer,
    insights_period, insights_active, insights_outbox, insights_events,
    insights_ids, insights_cloud, insights_erased, insights_overtaken,
    life_server, life_task, life_timers, life_callback, life_lock,
    life_handlers, life_pcbs, life_queue, life_lists, life_heap, life_inits,
    life_torn, life_unstarted,
    encode_enabled, encode_critical, encode_noncritical, encode_meta,
    encode_image, encode_booted, encode_cloud, encode_last, encode_due,
    encode_gone,
    diag_wifi, diag_ip, diag_events, diag_table, diag_net, diag_met,
    diag_heap, diag_reported, diag_adding, diag_written, diag_lost,
    diag_changes,
    work_queue_state, work_created, work_queue, work_pc, work_worker,
    work_added, work_done

\* Two networks that differ in everything but the channel.
Networks ==
    {[ssid |-> <<"h">>, bssid |-> 1, channel |-> 1, auth |-> 1],
     [ssid |-> <<"g">>, bssid |-> 2, channel |-> 1, auth |-> 2]}

\* Directives of a format: every conversion with every length modifier, before and
\* after those whose arguments are of different sizes.
Directive(conv, mod, n) == [conv |-> conv, mod |-> mod, n |-> n]
Modified ==
    {Directive(c, m, 7) : c \in {"d", "u"}, m \in {"none", "hh", "h", "l", "ll", "j", "t", "z"}}
      \cup {Directive("f", m, 7) : m \in {"none", "l", "L"}}
      \cup {Directive(c, "none", 5) : c \in {"D", "U", "c", "s", "n"}}
Sizes ==
    {Directive("d", "ll", 7), Directive("c", "none", 5), Directive("s", "none", 3), Directive("n", "none", 0)}
Formats ==
    {<<m, s>> : m \in Modified, s \in Sizes} \cup {<<s, m>> : m \in Modified, s \in Sizes}
      \cup [1..3 -> Sizes]

Search == INSTANCE MdnsSearch WITH
    Searches <- Searches, Async <- Async,
    MaxResults <- MaxResults, Width <- Width,
    Timeout <- Timeout, Resend <- Resend, Period <- Period, Start <- Start,
    QLen <- QLen, MaxTicks <- MaxTicks, MaxRx <- MaxRx,
    MaxQueries <- MaxQueries,
    ticks <- search_ticks, search <- search_search, chain <- search_chain,
    acts <- search_acts, scan <- search_scan, user <- search_user, raced <- search_raced,
    rx <- search_rx, queries <- search_queries

\* Results of a query for the instances of a service,
Ptr == INSTANCE MdnsResults WITH
    Type <- "PTR", HasService <- TRUE, Wanted <- "i", Netifs <- {"e", "w"},
    Instances <- {"i", "j"}, Hosts <- {"g", "h"}, Ips <- {"x", "y"},
    Txts <- {"v"}, Ttls <- {1, 2}, MaxResults <- 2, MaxRecords <- 4,
    results <- results_results, seen <- results_seen,
    records <- results_records

\* for everything there is of an instance,
Any == INSTANCE MdnsResults WITH
    Type <- "ANY", HasService <- TRUE, Wanted <- "i", Netifs <- {"e", "w"},
    Instances <- {"i", "j"}, Hosts <- {"g", "h"}, Ips <- {"x", "y"},
    Txts <- {"v", "u"}, Ttls <- {1, 2}, MaxResults <- 2, MaxRecords <- 4,
    results <- results_results, seen <- results_seen,
    records <- results_records

\* for its host,
Srv == INSTANCE MdnsResults WITH
    Type <- "SRV", HasService <- TRUE, Wanted <- "i", Netifs <- {"e", "w"},
    Instances <- {"i", "j"}, Hosts <- {"g", "h"}, Ips <- {"x", "y"},
    Txts <- {"v"}, Ttls <- {1, 2}, MaxResults <- 2, MaxRecords <- 5,
    results <- results_results, seen <- results_seen,
    records <- results_records

\* and for the addresses of a host.
Host == INSTANCE MdnsResults WITH
    Type <- "A", HasService <- TRUE, Wanted <- "g", Netifs <- {"e", "w"},
    Instances <- {"i", "j"}, Hosts <- {"g", "h"}, Ips <- {"x", "y"},
    Txts <- {"v"}, Ttls <- {1, 2}, MaxResults <- 1, MaxRecords <- 5,
    results <- results_results, seen <- results_seen,
    records <- results_records

Browse == INSTANCE MdnsBrowse WITH
    Instances <- {"i", "j"}, Hosts <- {"g", "h"}, Ips <- {"x"},
    Txts <- {"v"}, Ttls <- {1, 2}, QLen <- 2, MaxRx <- 2,
    MaxCalls <- 2,
    active <- browse_active, results <- browse_results, acts <- browse_acts,
    taken <- browse_taken, stuck <- browse_stuck, shown <- browse_shown,
    unsaid <- browse_unsaid, seen <- browse_seen, rx <- browse_rx,
    calls <- browse_calls

\* Reports to a cloud that answers,
Insights == INSTANCE Insights WITH
    Faults <- {}, BatchSize <- 2, MinPeriod <- 2, MaxPeriod <- 3,
    MaxRecords <- 3, MaxMessages <- 3, MaxMeta <- 1,
    critical <- insights_critical, written <- insights_written,
    pc <- insights_pc, sent <- insights_sent, read <- insights_read,
    job <- insights_job,
    data_send_inprogress <- insights_data_send_inprogress,
    data_msg_id <- insights_data_msg_id,
    data_msg_len <- insights_data_msg_len, data_sent <- insights_data_sent,
    boot_msg_id <- insights_boot_msg_id,
    meta_msg_pending <- insights_meta_msg_pending,
    meta_msg_id <- insights_meta_msg_id, meta_crc <- insights_meta_crc,
    nvs_crc <- insights_nvs_crc, meta <- insights_meta,
    timer <- insights_timer, period <- insights_period,
    active <- insights_active, outbox <- insights_outbox,
    events <- insights_events, ids <- insights_ids, cloud <- insights_cloud,
    erased <- insights_erased, overtaken <- insights_overtaken

\* and to one that may not.
Faulty == INSTANCE Insights WITH
    Faults <- {"late", "deleted", "offline", "meta"}, BatchSize <- 2,
    MinPeriod <- 2, MaxPeriod <- 2, MaxRecords <- 2, MaxMessages <- 2, MaxMeta <- 2,
    critical <- insights_critical, written <- insights_written,
    pc <- insights_pc, sent <- insights_sent, read <- insights_read,
    job <- insights_job,
    data_send_inprogress <- insights_data_send_inprogress,
    data_msg_id <- insights_data_msg_id,
    data_msg_len <- insights_data_msg_len, data_sent <- insights_data_sent,
    boot_msg_id <- insights_boot_msg_id,
    meta_msg_pending <- insights_meta_msg_pending,
    meta_msg_id <- insights_meta_msg_id, meta_crc <- insights_meta_crc,
    nvs_crc <- insights_nvs_crc, meta <- insights_meta,
    timer <- insights_timer, period <- insights_period,
    active <- insights_active, outbox <- insights_outbox,
    events <- insights_events, ids <- insights_ids, cloud <- insights_cloud,
    erased <- insights_erased, overtaken <- insights_overtaken

Life == INSTANCE MdnsLife WITH
    QueueLen <- 2, MaxObjects <- 3, MaxInits <- 2,
    InitFaults <- {"memory", "event", "timer", "timer_start", "task"},
    server <- life_server, task <- life_task, timers <- life_timers,
    callback <- life_callback, lock <- life_lock, handlers <- life_handlers,
    pcbs <- life_pcbs, queue <- life_queue, lists <- life_lists,
    heap <- life_heap, inits <- life_inits, torn <- life_torn,
    unstarted <- life_unstarted

\* What is recorded and sent,
Encode == INSTANCE DiagEncode WITH
    Formats <- {<<>>}, ArgMax <- 8, Ways <- {"write"}, Tags <- {"app"},
    Points <- {[pt |-> "metrics", str |-> TRUE, rom |-> TRUE], [pt |-> "params", str |-> FALSE, rom |-> TRUE]},
    LogSize <- 5, HeaderSize <- 2, PointSize <- 3, StrSize <- 4,
    ReadSize <- 13, Images <- {"none", "valid"}, NoMem <- FALSE,
    MaxRecords <- 3, MaxBoots <- 2, MaxMessages <- 2,
    enabled <- encode_enabled, critical <- encode_critical,
    noncritical <- encode_noncritical, meta <- encode_meta,
    image <- encode_image, booted <- encode_booted, cloud <- encode_cloud,
    last <- encode_last, due <- encode_due, gone <- encode_gone

\* and the arguments of what is logged.
Args == INSTANCE DiagEncode WITH
    Formats <- Formats, ArgMax <- 14, Ways <- {"write"}, Tags <- {"app"},
    Points <- {}, LogSize <- 5, HeaderSize <- 2, PointSize <- 3, StrSize <- 4,
    ReadSize <- 13, Images <- {"none"}, NoMem <- FALSE, MaxRecords <- 1,
    MaxBoots <- 1, MaxMessages <- 1,
    enabled <- encode_enabled, critical <- encode_critical,
    noncritical <- encode_noncritical, meta <- encode_meta,
    image <- encode_image, booted <- encode_booted, cloud <- encode_cloud,
    last <- encode_last, due <- encode_due, gone <- encode_gone

\* Variables about the station,
Network == INSTANCE Diagnostics WITH
    Aps <- Networks, Levels <- {-60, -40}, Threshold <- -50, AppKeys <- {},
    MaxCount <- 9, Faults <- {}, Races <- FALSE,
    Groups <- {"network"}, MaxChanges <- 5,
    wifi <- diag_wifi, ip <- diag_ip, events <- diag_events,
    table <- diag_table, net <- diag_net, met <- diag_met, heap <- diag_heap,
    reported <- diag_reported, adding <- diag_adding, written <- diag_written,
    lost <- diag_lost, changes <- diag_changes

\* and metrics of its connection and of the heap.
Metrics == INSTANCE Diagnostics WITH
    Aps <- {CHOOSE n \in Networks : TRUE}, Levels <- {-60, -40},
    Threshold <- -50, AppKeys <- {"a"}, MaxCount <- 5,
    Faults <- {{"rssi"}, {"conn_status"}}, Races <- FALSE,
    Groups <- {"wifi", "heap"}, MaxChanges <- 5,
    wifi <- diag_wifi, ip <- diag_ip, events <- diag_events,
    table <- diag_table, net <- diag_net, met <- diag_met, heap <- diag_heap,
    reported <- diag_reported, adding <- diag_adding, written <- diag_written,
    lost <- diag_lost, changes <- diag_changes

Work == INSTANCE WorkQueue WITH
    Controllers <- Controllers, QueueSize <- QueueSize, MaxWork <- MaxWork,
    MaxStarts <- MaxStarts,
    queue_state <- work_queue_state, created <- work_created,
    queue <- work_queue, pc <- work_pc, worker <- work_worker,
    added <- work_added, done <- work_done

searchVars ==
    <<search_ticks, search_search, search_chain, search_acts, search_scan,
      search_user, search_raced, search_rx, search_queries>>
resultsVars ==
    <<results_results, results_seen, results_records>>
browseVars ==
    <<browse_active, browse_results, browse_acts, browse_taken, browse_stuck,
      browse_shown, browse_unsaid, browse_seen, browse_rx, browse_calls>>
insightsVars ==
    <<insights_critical, insights_written, insights_pc, insights_sent,
      insights_read, insights_job, insights_data_send_inprogress,
      insights_data_msg_id, insights_data_msg_len, insights_data_sent,
      insights_boot_msg_id, insights_meta_msg_pending, insights_meta_msg_id,
      insights_meta_crc, insights_nvs_crc, insights_meta, insights_timer,
      insights_period, insights_active, insights_outbox, insights_events,
      insights_ids, insights_cloud, insights_erased, insights_overtaken>>
lifeVars ==
    <<life_server, life_task, life_timers, life_callback, life_lock,
      life_handlers, life_pcbs, life_queue, life_lists, life_heap,
      life_inits, life_torn, life_unstarted>>
encodeVars ==
    <<encode_enabled, encode_critical, encode_noncritical, encode_meta,
      encode_image, encode_booted, encode_cloud, encode_last, encode_due,
      encode_gone>>
diagVars ==
    <<diag_wifi, diag_ip, diag_events, diag_table, diag_net, diag_met,
      diag_heap, diag_reported, diag_adding, diag_written, diag_lost,
      diag_changes>>
workVars ==
    <<work_queue_state, work_created, work_queue, work_pc, work_worker,
      work_added, work_done>>
vars == <<part, searchVars, resultsVars, browseVars, insightsVars, lifeVars, encodeVars, diagVars, workVars>>

Init ==
    /\ part \in {"search", "ptr", "any", "srv", "host", "browse", "insights", "faults", "life", "encode", "args", "network", "metrics", "work"}
    /\ Search!Init
    /\ CASE part = "any" -> Any!Init
         [] part = "srv" -> Srv!Init
         [] part = "host" -> Host!Init
         [] OTHER -> Ptr!Init
    /\ Browse!Init
    /\ CASE part = "faults" -> Faulty!Init
         [] OTHER -> Insights!Init
    /\ Life!Init
    /\ CASE part = "args" -> Args!Init
         [] OTHER -> Encode!Init
    /\ part \in {"encode", "args"} \/ (encode_image = "none" /\ encode_enabled = {"ERROR"})
    /\ CASE part = "metrics" -> Metrics!Init
         [] OTHER -> Network!Init
    /\ Work!Init

Next ==
    \/ /\ part = "search" /\ Search!Next
       /\ UNCHANGED <<part, resultsVars, browseVars, insightsVars, lifeVars,
                       encodeVars, diagVars, workVars>>
    \/ /\ part = "ptr" /\ Ptr!Next
       /\ UNCHANGED <<part, searchVars, browseVars, insightsVars, lifeVars,
                       encodeVars, diagVars, workVars>>
    \/ /\ part = "any" /\ Any!Next
       /\ UNCHANGED <<part, searchVars, browseVars, insightsVars, lifeVars,
                       encodeVars, diagVars, workVars>>
    \/ /\ part = "srv" /\ Srv!Next
       /\ UNCHANGED <<part, searchVars, browseVars, insightsVars, lifeVars,
                       encodeVars, diagVars, workVars>>
    \/ /\ part = "host" /\ Host!Next
       /\ UNCHANGED <<part, searchVars, browseVars, insightsVars, lifeVars,
                       encodeVars, diagVars, workVars>>
    \/ /\ part = "browse" /\ Browse!Next
       /\ UNCHANGED <<part, searchVars, resultsVars, insightsVars, lifeVars,
                       encodeVars, diagVars, workVars>>
    \/ /\ part = "insights" /\ Insights!Next
       /\ UNCHANGED <<part, searchVars, resultsVars, browseVars, lifeVars,
                       encodeVars, diagVars, workVars>>
    \/ /\ part = "faults" /\ Faulty!Next
       /\ UNCHANGED <<part, searchVars, resultsVars, browseVars, lifeVars,
                       encodeVars, diagVars, workVars>>
    \/ /\ part = "life" /\ Life!Next
       /\ UNCHANGED <<part, searchVars, resultsVars, browseVars,
                       insightsVars, encodeVars, diagVars, workVars>>
    \/ /\ part = "encode" /\ Encode!Next
       /\ UNCHANGED <<part, searchVars, resultsVars, browseVars,
                       insightsVars, lifeVars, diagVars, workVars>>
    \/ /\ part = "args" /\ Args!Next
       /\ UNCHANGED <<part, searchVars, resultsVars, browseVars,
                       insightsVars, lifeVars, diagVars, workVars>>
    \/ /\ part = "network" /\ Network!Next
       /\ UNCHANGED <<part, searchVars, resultsVars, browseVars,
                       insightsVars, lifeVars, encodeVars, workVars>>
    \/ /\ part = "metrics" /\ Metrics!Next
       /\ UNCHANGED <<part, searchVars, resultsVars, browseVars,
                       insightsVars, lifeVars, encodeVars, workVars>>
    \/ /\ part = "work" /\ Work!Next
       /\ UNCHANGED <<part, searchVars, resultsVars, browseVars,
                       insightsVars, lifeVars, encodeVars, diagVars>>

Spec == Init /\ [][Next]_vars

(***************************************************************************)
(* Properties                                                              *)
(***************************************************************************)

ASSUME ClientAssumptions ==
    /\ Insights!InsightsAssumption /\ Faulty!InsightsAssumption
    /\ Search!SearchAssumption /\ Browse!BrowseAssumption
    /\ Ptr!ResultsAssumption /\ Any!ResultsAssumption
    /\ Srv!ResultsAssumption /\ Host!ResultsAssumption /\ Life!LifeAssumption
    /\ Encode!EncodeAssumption /\ Args!EncodeAssumption
    /\ Network!DiagAssumption /\ Metrics!DiagAssumption /\ Work!QueueAssumption

\* mdns_query_generic frees the search when its semaphore is given: nothing that
\* still uses it is left, neither the chain nor an action that will, and the end
\* of a search comes once, from the timer or from the parser, until a search is
\* freed or ended as full while its end is in the queue (mdns.c:6512, 4209).
\* mdns_free frees what is in the queue and in the lists once, and leaves nothing
\* behind, unless it tears down what is in use: the timer's callback has begun, or
\* the queue is full with the task in the middle of an action or with an action
\* whose object is in a list too; timers that could not be started are left.
NobodyUsesFreed ==
    /\ Search!NobodyUsesFreed /\ Search!EndsOnce
    /\ Life!FreedOnce /\ Life!NothingIsLeft

\* _mdns_search_run and _mdns_search_result_add_*: a search is neither ended by
\* the timer before its time nor sent again after it, and collects no more than
\* the results asked for.
LimitsAreKept == Search!TimeoutIsKept /\ Search!MaxIsKept

\* What was collected stays: results, hosts, texts and addresses are not
\* replaced, and the time to live is the least received.  Nor is a core dump
\* erased before its summary has arrived.
NothingIsReplaced == Ptr!NothingIsReplaced /\ Encode!SummaryArrives

\* _mdns_search_result_add_*: records of one instance (or host) on one interface
\* end up in one result, whatever their order, and no more than max_results are
\* collected.  Every address of a result was received for its host on its
\* interface, also when the instance moves to another host; in a browse those it
\* had until then stay, and are of the host it was on (mdns.c:7450).
ResultsMatchRecords ==
    /\ part = "host" => Host!OneResultPerKey
    /\ part = "ptr" => Ptr!OneResultPerKey
    /\ part \in {"ptr", "srv"} => Ptr!AddressesAreOfHost
    /\ Browse!AddressesAreOfHost

\* _mdns_browse_result_add_*: records of an instance end up in one result, and
\* the application knows its host, its addresses and its time to live unless a
\* report is on its way.  evt_handler and wifi_evt_handler of esp_diagnostics: the
\* cloud knows the access point, address and status of the station once its events
\* are handled, wherever in the initialisation they came; but what an event told
\* between a question and the writing of its answer
\* (esp_diagnostics_network_variables.c:212) is overwritten until the next event
\* that differs, and a station that is connected when its metrics are started has
\* the wrong status until its next event.  The tables hold exactly the keys of
\* those who are on, and a data point has the tag of its key if nobody unregisters
\* while it is written.
ChangesAreReported ==
    /\ Browse!OneResultPerInstance /\ Browse!ChangesAreReported
    /\ part \in {"network", "metrics"} =>
         /\ Network!VariablesFollow /\ Metrics!StatusFollows /\ Metrics!MinIsLeast
         /\ Metrics!TagIsOfKey
         /\ IF part = "network" THEN Network!TablesMatch ELSE Metrics!TablesMatch

\* send_insights_data, insights_event_handler: what is no longer in the store
\* has reached the cloud; data may be sent twice but is not lost, whatever messages
\* and acknowledgements are late, lost or refused, unless the acknowledgement of a
\* message that was given up comes between the read of the next batch and the
\* record of its length (esp_insights.c:459).  The core dump is erased only after
\* the boot data, which holds its summary, has reached the cloud.  The reporting
\* period stays between its limits.  Every record is delivered once,
\* under the boot that wrote it and with the arguments it was logged with, and
\* nothing in the stores holds up the rest.
NoLoss ==
    /\ part \in {"encode", "args"} =>
         /\ Encode!EachOnce /\ Encode!UnderTheirBoot
         /\ Encode!ArgumentsArrive /\ Encode!StoreMoves
    /\ Insights!NoLoss /\ Insights!CoreDumpKept /\ Insights!PeriodInRange

\* esp_rmaker_work_queue: what was enqueued is run at most once and in order,
\* however often the task is stopped and started; the task never works on a queue
\* that was deleted, and there is at most one task.
RunInOrder == Work!RunInOrder /\ Work!TaskHasItsQueue

=============================================================================
