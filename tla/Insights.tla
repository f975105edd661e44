------------------------------ MODULE Insights ------------------------------
(***************************************************************************)
(* Reporting of diagnostics (esp_insights.c over esp_insights_mqtt.c): the *)
(* work queue task sends metadata, boot data and batches of records; the   *)
(* event task handles acknowledgements; the timer task starts reports and  *)
(* gives up on them.  data_lock makes each handler's critical section one  *)
(* step; a message is sent outside of it, one step before it is recorded.  *)
(*                                                                         *)
(* The MQTT client keeps a message in its outbox until it is acknowledged  *)
(* or deleted; it may be delivered long after the sender gave it up.       *)
(***************************************************************************)
EXTENDS Integers, Sequences, SequencesExt, FiniteSetsExt

CONSTANTS
  Faults,       \* subset of {"late", "deleted", "offline", "meta"}, see below
  BatchSize,    \* records that fit INSIGHTS_READ_BUF_SIZE
  MinPeriod, MaxPeriod,     \* CLOUD_REPORTING_PERIOD_MIN_SEC, ..._MAX_SEC
  MaxRecords, MaxMessages, MaxMeta  \* bounds on records, messages, versions of the metadata

InsightsAssumption ==
  /\ Faults \subseteq {"late", "deleted", "offline", "meta"}
  /\ BatchSize \in Nat \ {0} /\ MinPeriod \in 1 .. MaxPeriod

VARIABLES
  critical, written,      \* the unreleased records, and how many there were
  pc, sent, read,         \* the handler: its place, the id of its message, its batch
  job,                    \* the handler is in the work queue
  data_send_inprogress, data_msg_id, data_msg_len, data_sent, boot_msg_id,
  meta_msg_pending, meta_msg_id, meta_crc, nvs_crc, meta,   \* meta: current metadata
  timer,                  \* data_send_timer is active
  period,                 \* cur_seconds of the periodic timer
  active,                 \* is_insights_active
  outbox, events, ids,    \* messages of the MQTT client, events posted, ids used
  cloud, erased,          \* what the cloud has received; is the core dump erased
  overtaken               \* history: records were released that a batch which was
                          \* read and not yet recorded begins with

report == <<data_send_inprogress, data_msg_id, data_msg_len, data_sent>>
metavars == <<meta_msg_pending, meta_msg_id, meta_crc, nvs_crc>>
net == <<outbox, events, ids, cloud>>
vars == <<critical, written, pc, sent, read, job, report, boot_msg_id, metavars, meta, timer, period,
          active, net, erased, overtaken>>

Init ==
  /\ critical = <<>> /\ written = 0 /\ pc = "idle" /\ sent = 0 /\ read = <<>> /\ job = TRUE
  /\ data_send_inprogress = FALSE /\ data_msg_id = 0 /\ data_msg_len = 0 /\ data_sent = FALSE
  /\ boot_msg_id = -1
  /\ meta_msg_pending = FALSE /\ meta_msg_id = 0 /\ meta_crc = 0 /\ nvs_crc = 1 /\ meta = 1
  /\ timer = FALSE /\ period = MinPeriod /\ active = TRUE
  /\ outbox = {} /\ events = <<>> /\ ids = 0 /\ cloud = {} /\ erased = FALSE
  /\ overtaken = FALSE

-----------------------------------------------------------------------------
\* log_write_cb
LogWrite ==
  /\ written < MaxRecords
  /\ written' = written + 1 /\ critical' = Append(critical, written')
  /\ UNCHANGED <<pc, sent, read, job, report, boot_msg_id, metavars, meta, timer, period, active, net, erased, overtaken>>

\* esp_insights_send_data, and data_store_event_handler when memory is low
Enqueue ==
  /\ active /\ ~job /\ job' = TRUE
  /\ UNCHANGED <<critical, written, pc, sent, read, report, boot_msg_id, metavars, meta, timer, period,
                 active, net, erased, overtaken>>

NextPeriod ==
  IF data_sent THEN IF 2 * period > MaxPeriod THEN MaxPeriod ELSE 2 * period
  ELSE IF period \div 2 < MinPeriod THEN MinPeriod ELSE period \div 2

\* esp_insights_common_cb
PeriodicTimer ==
  /\ job' = (job \/ active)
  /\ period' = NextPeriod /\ data_sent' = FALSE
  /\ UNCHANGED <<critical, written, pc, sent, read, data_send_inprogress, data_msg_id, data_msg_len,
                 boot_msg_id, metavars, meta, timer, active, net, erased, overtaken>>

\* esp_insights_mqtt_data_send: the client takes a message of some kind and gives
\* an id, or refuses it.
Send(m) ==
  \/ /\ ids < MaxMessages /\ ids' = ids + 1 /\ sent' = ids'
     /\ outbox' = outbox \cup {[id |-> ids', body |-> m, got |-> FALSE]}
     /\ UNCHANGED <<events, cloud>>
  \/ sent' = -1 /\ UNCHANGED net

\* insights_periodic_handler: its checks
PeriodicHandler ==
  /\ pc = "idle" /\ job /\ job' = FALSE
  /\ data_send_inprogress' = active
  /\ pc' = IF active /\ ~data_send_inprogress THEN "meta" ELSE "idle"
  /\ UNCHANGED <<critical, written, sent, read, data_msg_id, data_msg_len, data_sent, boot_msg_id, metavars,
                 meta, timer, period, active, net, erased, overtaken>>

\* insights_meta_changed, send_insights_meta
SendMeta ==
  /\ pc = "meta"
  /\ IF meta = nvs_crc
     THEN pc' = "boot" /\ UNCHANGED <<meta_crc, sent, net>>
     ELSE pc' = "meta_sent" /\ meta_crc' = meta /\ Send(<<"meta", meta>>)
  /\ UNCHANGED <<critical, written, read, job, report, boot_msg_id, meta_msg_pending, meta_msg_id, nvs_crc,
                 meta, timer, period, active, erased, overtaken>>

RecordMeta ==
  /\ pc = "meta_sent" /\ pc' = "boot"
  /\ IF sent > 0 THEN meta_msg_pending' = TRUE /\ meta_msg_id' = sent
                 ELSE UNCHANGED <<meta_msg_pending, meta_msg_id>>
  /\ UNCHANGED <<critical, written, sent, read, job, report, boot_msg_id, meta_crc, nvs_crc, meta, timer,
                 period, active, net, erased, overtaken>>

\* send_boottime_data
SendBoot ==
  /\ pc = "boot"
  /\ IF boot_msg_id = -1 THEN pc' = "boot_sent" /\ Send(<<"boot">>)
                         ELSE pc' = "data" /\ UNCHANGED <<sent, net>>
  /\ UNCHANGED <<critical, written, read, job, report, boot_msg_id, metavars, meta, timer, period, active, erased, overtaken>>

RecordBoot ==
  /\ pc = "boot_sent" /\ pc' = "data"
  /\ boot_msg_id' = sent
  /\ UNCHANGED <<critical, written, sent, read, job, report, metavars, meta, timer, period, active, net, erased, overtaken>>

\* send_insights_data: read a batch ...
ReadData ==
  /\ pc = "data"
  /\ read' = SubSeq(critical, 1, IF Len(critical) < BatchSize THEN Len(critical) ELSE BatchSize)
  /\ IF read' = <<>> THEN pc' = "idle" /\ data_send_inprogress' = FALSE
                     ELSE pc' = "publish" /\ UNCHANGED data_send_inprogress
  /\ UNCHANGED <<critical, written, sent, job, data_msg_id, data_msg_len, data_sent, boot_msg_id, metavars,
                 meta, timer, period, active, net, erased, overtaken>>

\* ... send it ...
SendData ==
  /\ pc = "publish" /\ pc' = "data_sent"
  /\ Send(<<"data", read>>)
  /\ UNCHANGED <<critical, written, read, job, report, boot_msg_id, metavars, meta, timer, period, active, erased, overtaken>>

\* ... and record the message, or let the next report try again.
RecordData ==
  /\ pc = "data_sent" /\ pc' = "idle" /\ read' = <<>>
  /\ IF sent > 0
     THEN data_msg_len' = Len(read) /\ data_msg_id' = sent /\ timer' = TRUE /\ UNCHANGED data_send_inprogress
     ELSE data_send_inprogress' = FALSE /\ UNCHANGED <<data_msg_len, data_msg_id, timer>>
  /\ UNCHANGED <<critical, written, sent, job, data_sent, boot_msg_id, metavars, meta, period, active, net, erased, overtaken>>

-----------------------------------------------------------------------------
\* esp_diag_data_store_critical_release: nothing if there is less than that.
Released(n) == IF Len(critical) < n THEN critical ELSE SubSeq(critical, n + 1, Len(critical))

IsBootAck(id) == boot_msg_id > 0 /\ id = boot_msg_id

\* Mutant of IsDataAck: any acknowledgement is taken for that of the batch.
IsDataAckAny(id) == TRUE

IsDataAck(id) == id = data_msg_id

\* insights_event_handler, INSIGHTS_EVENT_TRANSPORT_SEND_SUCCESS: one of three kinds
\* of message, or none that is still waited for.
SendSuccess ==
  /\ events # <<>> /\ Head(events)[1] = "success"
  /\ events' = Tail(events) /\ timer' = FALSE
  /\ LET id == Head(events)[2]
         isMeta == ~IsDataAck(id) /\ meta_msg_pending /\ id = meta_msg_id
         isBoot == ~IsDataAck(id) /\ ~isMeta /\ IsBootAck(id)
     IN  /\ critical' = IF IsDataAck(id) THEN Released(data_msg_len) ELSE critical
         /\ data_send_inprogress' = (data_send_inprogress /\ ~IsDataAck(id))
         /\ data_sent' = (data_sent \/ IsDataAck(id) \/ isMeta)
         /\ nvs_crc' = IF isMeta THEN meta_crc ELSE nvs_crc
         /\ meta_msg_pending' = (meta_msg_pending /\ ~isMeta)
         /\ boot_msg_id' = IF isBoot THEN 0 ELSE boot_msg_id
         /\ erased' = (erased \/ isBoot)
         /\ overtaken' = (overtaken \/ (critical' # critical /\ pc \in {"publish", "data_sent"}))
  /\ UNCHANGED <<written, pc, sent, read, job, data_msg_id, data_msg_len, meta_msg_id, meta_crc, meta,
                 period, active, outbox, ids, cloud>>

\* INSIGHTS_EVENT_TRANSPORT_SEND_FAILED, of any message
SendFailed ==
  /\ events # <<>> /\ Head(events)[1] = "failed"
  /\ events' = Tail(events) /\ timer' = FALSE
  /\ data_send_inprogress' = FALSE
  /\ boot_msg_id' = IF IsBootAck(Head(events)[2]) THEN -1 ELSE boot_msg_id
  /\ UNCHANGED <<critical, written, pc, sent, read, job, data_msg_id, data_msg_len, data_sent, metavars,
                 meta, period, active, outbox, ids, cloud, erased, overtaken>>

\* A message, or the event for it, is still on its way.
OnItsWay(id) == (\E m \in outbox : m.id = id) \/ Contains(events, <<"success", id>>)

\* data_send_timeout_cb.  Without the fault "late", what is not acknowledged by now
\* never is.
SendTimeout ==
  /\ timer /\ ("late" \in Faults \/ ~OnItsWay(data_msg_id))
  /\ timer' = FALSE
  /\ data_send_inprogress' = FALSE
  /\ boot_msg_id' = IF boot_msg_id > 0 THEN -1 ELSE boot_msg_id
  /\ UNCHANGED <<critical, written, pc, sent, read, job, data_msg_id, data_msg_len, data_sent, metavars, meta,
                 period, active, net, erased, overtaken>>

-----------------------------------------------------------------------------
\* The network delivers a message, once or more often.
Deliver(m) ==
  /\ ~m.got
  /\ outbox' = (outbox \ {m}) \cup {[m EXCEPT !.got = TRUE]}
  /\ cloud' = cloud \cup (IF m.body[1] = "data" THEN {<<"data", r>> : r \in ToSet(m.body[2])} ELSE {m.body})
  /\ UNCHANGED <<critical, written, pc, sent, read, job, report, boot_msg_id, metavars, meta, timer, period,
                 active, events, ids, erased, overtaken>>

\* rmaker_common_event_handler: RMAKER_MQTT_EVENT_PUBLISHED, or the client deletes a
\* message it could not deliver or get acknowledged, which it reports if so configured.
Settle(m, acked) ==
  /\ acked => m.got
  /\ outbox' = outbox \ {m}
  /\ events' = CASE acked -> Append(events, <<"success", m.id>>)
                 [] ~acked /\ "deleted" \in Faults -> Append(events, <<"failed", m.id>>)
                 [] OTHER -> events
  /\ UNCHANGED <<critical, written, pc, sent, read, job, report, boot_msg_id, metavars, meta, timer, period,
                 active, ids, cloud, erased, overtaken>>

\* Wi-Fi is lost or found.
Offline ==
  /\ "offline" \in Faults /\ active' = ~active
  /\ UNCHANGED <<critical, written, pc, sent, read, job, report, boot_msg_id, metavars, meta, timer, period, net, erased, overtaken>>

\* A metric or a variable is registered.
MetaChange ==
  /\ "meta" \in Faults /\ meta < MaxMeta /\ meta' = meta + 1
  /\ UNCHANGED <<critical, written, pc, sent, read, job, report, boot_msg_id, metavars, timer, period, active, net, erased, overtaken>>

Worker ==
  \/ PeriodicHandler \/ SendMeta \/ RecordMeta \/ SendBoot \/ RecordBoot
  \/ ReadData \/ SendData \/ RecordData

Next ==
  \/ LogWrite \/ Enqueue \/ PeriodicTimer
  \/ Worker
  \/ SendSuccess \/ SendFailed \/ SendTimeout
  \/ \E m \in outbox : Deliver(m) \/ \E acked \in BOOLEAN : Settle(m, acked)
  \/ Offline \/ MetaChange

\* Tasks and timers run, and the client settles every message.
Fairness ==
  /\ WF_vars(Worker) /\ WF_vars(SendSuccess \/ SendFailed)
  /\ WF_vars(SendTimeout) /\ WF_vars(PeriodicTimer)
  /\ WF_vars(\E m \in outbox : Settle(m, FALSE) \/ Settle(m, TRUE))

Spec == Init /\ [][Next]_vars /\ Fairness

-----------------------------------------------------------------------------
\* "In short, there is the possibility of data duplication": never of loss.  What is
\* no longer in the store has reached the cloud, whatever is late, lost or refused,
\* until the acknowledgement of a message that was given up comes between the read
\* of the next batch and the record of its length (esp_insights.c:459): then that
\* length is released of other records.
NoLoss ==
  ~overtaken => \A r \in 1 .. written : Contains(critical, r) \/ <<"data", r>> \in cloud

\* send_boottime_data, insights_event_handler: the core dump is erased only after the
\* boot data, which holds its summary, has reached the cloud.
CoreDumpKept == erased => <<"boot">> \in cloud

\* "crc found and matched, no need to send insights meta": a stored CRC means that the
\* cloud has the metadata.
MetaCrcMeansDelivered == nvs_crc > 1 => <<"meta", nvs_crc>> \in cloud

\* "The period will keep changing between CLOUD_REPORTING_PERIOD_MIN_SEC and
\* CLOUD_REPORTING_PERIOD_MAX_SEC"
PeriodInRange == period \in MinPeriod .. MaxPeriod

\* "timer to reset data_send_inprogress flag on timeout": a report never blocks the
\* later ones for good.
ReportEnds == data_send_inprogress ~> ~data_send_inprogress
=============================================================================
