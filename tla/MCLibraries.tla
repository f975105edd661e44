---------------------------- MODULE MCLibraries -----------------------------
(***************************************************************************)
(* The libraries that the firmware is linked with, each on its own: the    *)
(* responder side of mDNS (the state of the interfaces, the queue of       *)
(* packets to send, the registry of services and hosts, the answers to a   *)
(* query), the diagnostics data store, the choice and the decryption of an *)
(* image, and the glue to MQTT. A behaviour is a behaviour of one of them; *)
(* the others stand still.                                                 *)
(***************************************************************************)
EXTENDS Integers, Sequences

CONSTANTS
    DataLen, Size, ReadSize, MaxBoots,                   \* critical data
    NcHdrLen, NcDataLen, NcSize, NcReadSize, NcMaxBoots, \* non critical data
    MaxMeta, Payloads,                                   \* RtcStore
    MaxImages, MaxNvsErrors,                             \* RcpImages
    MAGIC_SIZE, ENC_GCM_KEY_SIZE, IV_SIZE, BIN_SIZE_DATA, AUTH_SIZE,
    RESERVED_HEADER, BLOCK, BinLens, Surplus, MaxChunk,  \* EncryptedImg
    MAX_MQTT_SUBSCRIPTIONS, Topics, MaxPieces, MaxMessages   \* MqttGlue

VARIABLES
    part,  \* the component that runs in this behaviour
    pcb_pcb, pcb_services, pcb_hostSet, pcb_announced, pcb_byes, pcb_events,
    tx_ticks, tx_tx, tx_acts, tx_taken, tx_scan, tx_others,
    reg_hostname, reg_instance, reg_hosts, reg_services, reg_locked, reg_acts,
    reg_sema, reg_pend, reg_state, reg_fresh, reg_net, reg_left,
    reg_dropped, reg_adds, reg_calls,
    answer_services, answer_dist, answer_questions, answer_discovery,
    answer_probe, answer_known, answer_phase, answer_packet, answer_asked,
    answer_heard,
    net_sys, net_static, net_pending, net_server, net_polled, net_netif,
    net_proto, net_main, net_groups, net_queue, net_lost, net_changes,
    rtc_buf, rtc_read_offset, rtc_filled, rtc_meta_hdr_idx, rtc_meta,
    rtc_init, rtc_pc, rtc_record, rtc_batch, rtc_boots,
    rtcnc_buf, rtcnc_read_offset, rtcnc_filled, rtcnc_meta_hdr_idx,
    rtcnc_meta, rtcnc_init, rtcnc_pc, rtcnc_record, rtcnc_batch, rtcnc_boots,
    rcp_handle, rcp_nvs, rcp_dirs, rcp_loading, rcp_images, rcp_errors,
    rcp_lost, rcp_strayed,
    enc_image, enc_taken, enc_handle, enc_out, enc_fed, enc_ret, enc_end,
    mqtt_data, mqtt_slots, mqtt_connected, mqtt_broker, mqtt_sending,
    mqtt_long, mqtt_calls, mqtt_messages

\* Topics of which one is the beginning of the other.
TwoTopics == {<<"a">>, <<"a", "b">>}

Pcb == INSTANCE MdnsPcb WITH
    Pcbs <- {1, 2}, Services <- {"a", "b"}, Instanced <- {"a"},
    SameType <- FALSE, ServerInstance <- TRUE, Twins <- {1, 2}, MaxEvents <- 6,
    pcb <- pcb_pcb, services <- pcb_services, hostSet <- pcb_hostSet,
    announced <- pcb_announced, byes <- pcb_byes, events <- pcb_events

Tx == INSTANCE MdnsTx WITH
    Addrs <- {"p", "q", "r"}, Pcbs <- {1, 2}, Delays <- {1}, Period <- 32,
    Start <- 0, QLen <- 9, MaxTicks <- 3, MaxOther <- 1,
    ticks <- tx_ticks, tx <- tx_tx, acts <- tx_acts, taken <- tx_taken,
    scan <- tx_scan, others <- tx_others

Named(n) == <<n, 0>>

\* An instance may have the name that the host or the server gets,
Registry == INSTANCE MdnsRegistry WITH
    Tasks <- {"a", "b"}, OwnNames <- {Named("h"), Named("k")},
    Defaults <- {Named("k")}, Delegates <- {Named("g")}, Addrs <- {{"x"}},
    Insts <- {Named("none"), Named("k")}, Types <- {"t"},
    Txts <- {"v"}, Renames <- FALSE, Conflicts <- FALSE, NoMem <- FALSE,
    MaxServices <- 2, QLen <- 2, MaxAdds <- 2, MaxCalls <- 3,
    hostname <- reg_hostname, instance <- reg_instance, hosts <- reg_hosts,
    services <- reg_services, locked <- reg_locked, acts <- reg_acts,
    sema <- reg_sema, pend <- reg_pend, state <- reg_state,
    fresh <- reg_fresh, net <- reg_net, left <- reg_left,
    dropped <- reg_dropped, adds <- reg_adds, calls <- reg_calls

\* and may be renamed, by the user and by lost conflicts; allocations may fail.
Renames == INSTANCE MdnsRegistry WITH
    Tasks <- {"a"}, OwnNames <- {Named("h"), Named("k")},
    Defaults <- {Named("h")}, Delegates <- {}, Addrs <- {},
    Insts <- {Named("none"), Named("h")}, Types <- {"t"},
    Txts <- {"v", "w"}, Renames <- TRUE, Conflicts <- TRUE, NoMem <- TRUE,
    MaxServices <- 2, QLen <- 1, MaxAdds <- 2, MaxCalls <- 3,
    hostname <- reg_hostname, instance <- reg_instance, hosts <- reg_hosts,
    services <- reg_services, locked <- reg_locked, acts <- reg_acts,
    sema <- reg_sema, pend <- reg_pend, state <- reg_state,
    fresh <- reg_fresh, net <- reg_net, left <- reg_left,
    dropped <- reg_dropped, adds <- reg_adds, calls <- reg_calls

\* One question, of any type, for several instances of a type or a delegated host;
Answer == INSTANCE MdnsAnswer WITH
    Types <- {"t"}, Insts <- {"none", "i"}, Delegated <- {"g"},
    QTypes <- {"PTR", "SRV", "TXT", "A", "ANY", "SD"},
    MaxServices <- 2, MaxQuestions <- 1, MaxRecords <- 2,
    services <- answer_services, dist <- answer_dist,
    questions <- answer_questions, discovery <- answer_discovery,
    probe <- answer_probe, known <- answer_known, phase <- answer_phase,
    packet <- answer_packet, asked <- answer_asked, heard <- answer_heard

\* and two questions, for two types and a subtype.
Multi == INSTANCE MdnsAnswer WITH
    Types <- {"t", "u"}, Insts <- {"none", "i"}, Delegated <- {"g"},
    QTypes <- {"PTR", "SRV", "A", "ANY", "SD"}, MaxServices <- 2,
    MaxQuestions <- 2, MaxRecords <- 1,
    services <- answer_services, dist <- answer_dist,
    questions <- answer_questions, discovery <- answer_discovery,
    probe <- answer_probe, known <- answer_known, phase <- answer_phase,
    packet <- answer_packet, asked <- answer_asked, heard <- answer_heard

\* The interfaces the device has,
Net == INSTANCE MdnsNet WITH
    Table <- <<"STA", "AP">>, Customs <- {}, Faults <- FALSE, QueueLen <- 3,
    MaxChanges <- 5,
    sys <- net_sys, static <- net_static, pending <- net_pending,
    server <- net_server, polled <- net_polled, netif <- net_netif,
    proto <- net_proto, main <- net_main, groups <- net_groups,
    queue <- net_queue, lost <- net_lost, changes <- net_changes

\* and one the application adds, with calls that fail.
Custom == INSTANCE MdnsNet WITH
    Table <- <<"STA", "custom">>, Customs <- {"c"}, Faults <- TRUE,
    QueueLen <- 2, MaxChanges <- 4,
    sys <- net_sys, static <- net_static, pending <- net_pending,
    server <- net_server, polled <- net_polled, netif <- net_netif,
    proto <- net_proto, main <- net_main, groups <- net_groups,
    queue <- net_queue, lost <- net_lost, changes <- net_changes

\* The store of critical data,
Rtc == INSTANCE RtcStore WITH
    HdrLen <- 0, DataLen <- DataLen, Size <- Size, ReadSize <- ReadSize,
    MaxMeta <- MaxMeta, Payloads <- Payloads, MaxBoots <- MaxBoots,
    buf <- rtc_buf, read_offset <- rtc_read_offset, filled <- rtc_filled,
    meta_hdr_idx <- rtc_meta_hdr_idx, meta <- rtc_meta, init <- rtc_init,
    pc <- rtc_pc, record <- rtc_record, batch <- rtc_batch, boots <- rtc_boots

\* and of the other data, with a header of its own per record.
RtcNonCritical == INSTANCE RtcStore WITH
    HdrLen <- NcHdrLen, DataLen <- NcDataLen, Size <- NcSize,
    ReadSize <- NcReadSize, MaxMeta <- MaxMeta, Payloads <- Payloads,
    MaxBoots <- NcMaxBoots,
    buf <- rtcnc_buf, read_offset <- rtcnc_read_offset,
    filled <- rtcnc_filled, meta_hdr_idx <- rtcnc_meta_hdr_idx,
    meta <- rtcnc_meta, init <- rtcnc_init, pc <- rtcnc_pc,
    record <- rtcnc_record, batch <- rtcnc_batch, boots <- rtcnc_boots

Rcp == INSTANCE RcpImages WITH
    MaxImages <- MaxImages, MaxNvsErrors <- MaxNvsErrors,
    handle <- rcp_handle, nvs <- rcp_nvs, dirs <- rcp_dirs,
    loading <- rcp_loading, images <- rcp_images, errors <- rcp_errors,
    lost <- rcp_lost, strayed <- rcp_strayed

Enc == INSTANCE EncryptedImg WITH
    MAGIC_SIZE <- MAGIC_SIZE, ENC_GCM_KEY_SIZE <- ENC_GCM_KEY_SIZE,
    IV_SIZE <- IV_SIZE, BIN_SIZE_DATA <- BIN_SIZE_DATA,
    AUTH_SIZE <- AUTH_SIZE, RESERVED_HEADER <- RESERVED_HEADER,
    BLOCK <- BLOCK, BinLens <- BinLens, Surplus <- Surplus,
    MaxChunk <- MaxChunk,
    image <- enc_image, taken <- enc_taken, handle <- enc_handle,
    out <- enc_out, fed <- enc_fed, ret <- enc_ret, end <- enc_end

Mqtt == INSTANCE MqttGlue WITH
    MAX_MQTT_SUBSCRIPTIONS <- MAX_MQTT_SUBSCRIPTIONS, Topics <- Topics,
    Twice <- FALSE, MaxPieces <- MaxPieces, MaxMessages <- MaxMessages,
    data <- mqtt_data, slots <- mqtt_slots, connected <- mqtt_connected,
    broker <- mqtt_broker, sending <- mqtt_sending, long <- mqtt_long,
    calls <- mqtt_calls, messages <- mqtt_messages

pcbVars ==
    <<pcb_pcb, pcb_services, pcb_hostSet, pcb_announced, pcb_byes,
      pcb_events>>
txVars ==
    <<tx_ticks, tx_tx, tx_acts, tx_taken, tx_scan, tx_others>>
regVars ==
    <<reg_hostname, reg_instance, reg_hosts, reg_services, reg_locked,
      reg_acts, reg_sema, reg_pend, reg_state, reg_fresh, reg_net, reg_left,
      reg_dropped, reg_adds, reg_calls>>
answerVars ==
    <<answer_services, answer_dist, answer_questions, answer_discovery,
      answer_probe, answer_known, answer_phase, answer_packet, answer_asked,
      answer_heard>>
netVars ==
    <<net_sys, net_static, net_pending, net_server, net_polled, net_netif,
      net_proto, net_main, net_groups, net_queue, net_lost, net_changes>>
rtcVars ==
    <<rtc_buf, rtc_read_offset, rtc_filled, rtc_meta_hdr_idx, rtc_meta,
      rtc_init, rtc_pc, rtc_record, rtc_batch, rtc_boots>>
rtcncVars ==
    <<rtcnc_buf, rtcnc_read_offset, rtcnc_filled, rtcnc_meta_hdr_idx,
      rtcnc_meta, rtcnc_init, rtcnc_pc, rtcnc_record, rtcnc_batch,
      rtcnc_boots>>
rcpVars ==
    <<rcp_handle, rcp_nvs, rcp_dirs, rcp_loading, rcp_images, rcp_errors,
      rcp_lost, rcp_strayed>>
encVars ==
    <<enc_image, enc_taken, enc_handle, enc_out, enc_fed, enc_ret, enc_end>>
mqttVars ==
    <<mqtt_data, mqtt_slots, mqtt_connected, mqtt_broker, mqtt_sending,
      mqtt_long, mqtt_calls, mqtt_messages>>
vars == <<part, pcbVars, txVars, regVars, answerVars, netVars, rtcVars, rtcncVars, rcpVars, encVars, mqttVars>>

Init ==
    /\ part \in {"pcb", "tx", "reg", "renames", "answer", "multi", "net", "custom", "rtc", "rtcnc", "rcp", "enc", "mqtt"}
    /\ Pcb!Init
    /\ Tx!Init
    /\ CASE part = "renames" -> Renames!Init
         [] OTHER -> Registry!Init
    /\ reg_hostname = Named("h")
    /\ CASE part = "multi" -> Multi!Init
         [] OTHER -> Answer!Init
    /\ part \in {"answer", "multi"} => answer_services[1].type = "t"
    /\ part \in {"answer", "multi"} => \A k \in DOMAIN answer_services :
         answer_services[k].sub => part = "multi" /\ k = 1
    /\ part = "multi" => answer_services[1].host = Answer!Self
    /\ part \in {"answer", "multi"} \/ (Len(answer_services) = 1 /\ answer_services[1].type = "t"
                              /\ answer_services[1].inst = "i" /\ ~answer_services[1].sub
                              /\ answer_services[1].host = Answer!Self /\ ~answer_dist)
    /\ CASE part = "custom" -> Custom!Init
         [] OTHER -> Net!Init
    /\ part \in {"net", "custom"} \/ ~net_static
    /\ Rtc!Init
    /\ RtcNonCritical!Init
    /\ Rcp!Init
    /\ Enc!Init
    /\ part = "enc" \/ enc_image = [len |-> 0, surplus |-> 0, spoiled |-> "no"]
    /\ Mqtt!Init

Next ==
    \/ /\ part = "pcb" /\ Pcb!Next
       /\ UNCHANGED <<part, txVars, regVars, answerVars, netVars, rtcVars,
                       rtcncVars, rcpVars, encVars, mqttVars>>
    \/ /\ part = "tx" /\ Tx!Next
       /\ UNCHANGED <<part, pcbVars, regVars, answerVars, netVars, rtcVars,
                       rtcncVars, rcpVars, encVars, mqttVars>>
    \/ /\ part = "reg" /\ Registry!Next
       /\ UNCHANGED <<part, pcbVars, txVars, answerVars, netVars, rtcVars,
                       rtcncVars, rcpVars, encVars, mqttVars>>
    \/ /\ part = "renames" /\ Renames!Next
       /\ UNCHANGED <<part, pcbVars, txVars, answerVars, netVars, rtcVars,
                       rtcncVars, rcpVars, encVars, mqttVars>>
    \/ /\ part = "answer" /\ Answer!Next
       /\ UNCHANGED <<part, pcbVars, txVars, regVars, netVars, rtcVars,
                       rtcncVars, rcpVars, encVars, mqttVars>>
    \/ /\ part = "multi" /\ Multi!Next
       /\ UNCHANGED <<part, pcbVars, txVars, regVars, netVars, rtcVars,
                       rtcncVars, rcpVars, encVars, mqttVars>>
    \/ /\ part = "net" /\ Net!Next
       /\ UNCHANGED <<part, pcbVars, txVars, regVars, answerVars, rtcVars,
                       rtcncVars, rcpVars, encVars, mqttVars>>
    \/ /\ part = "custom" /\ Custom!Next
       /\ UNCHANGED <<part, pcbVars, txVars, regVars, answerVars, rtcVars,
                       rtcncVars, rcpVars, encVars, mqttVars>>
    \/ /\ part = "rtc" /\ Rtc!Next
       /\ UNCHANGED <<part, pcbVars, txVars, regVars, answerVars, netVars,
                       rtcncVars, rcpVars, encVars, mqttVars>>
    \/ /\ part = "rtcnc" /\ RtcNonCritical!Next
       /\ UNCHANGED <<part, pcbVars, txVars, regVars, answerVars, netVars,
                       rtcVars, rcpVars, encVars, mqttVars>>
    \/ /\ part = "rcp" /\ Rcp!Next
       /\ UNCHANGED <<part, pcbVars, txVars, regVars, answerVars, netVars,
                       rtcVars, rtcncVars, encVars, mqttVars>>
    \/ /\ part = "enc" /\ Enc!Next
       /\ UNCHANGED <<part, pcbVars, txVars, regVars, answerVars, netVars,
                       rtcVars, rtcncVars, rcpVars, mqttVars>>
    \/ /\ part = "mqtt" /\ Mqtt!Next
       /\ UNCHANGED <<part, pcbVars, txVars, regVars, answerVars, netVars,
                       rtcVars, rtcncVars, rcpVars, encVars>>

Spec == Init /\ [][Next]_vars

(***************************************************************************)
(* Properties                                                              *)
(***************************************************************************)

ASSUME LibraryAssumptions ==
    /\ Pcb!PcbAssumption /\ Tx!TxAssumption /\ Registry!RegistryAssumption
    /\ Renames!RegistryAssumption /\ Answer!AnswerAssumption /\ Multi!AnswerAssumption
    /\ Net!NetAssumption /\ Custom!NetAssumption
    /\ Rtc!StoreAssumption /\ RtcNonCritical!StoreAssumption
    /\ Enc!EncryptedImgAssumption /\ Mqtt!MqttAssumption

\* _mdns_init_pcb_probe_new_service, _mdns_tx_handle_packet and
\* _mdns_dup_interface: a PCB that is not probing has an empty probe list; one
\* that is has exactly one packet scheduled, a probe with the records of the
\* services on its list; and an interface is only left out as a duplicate while
\* the other one is in use: whatever conflict, rename, removal or event comes in
\* between.
ProbesMatchState ==
    /\ Pcb!ProbeListOnlyWhileProbing /\ Pcb!ProbingHasItsProbe /\ Pcb!DupIsServed

\* _mdns_execute_action looks at the head of the transmit queue only: the
\* packets the timer has posted are the first ones, and their actions come in
\* their order, also when a packet is cleared and its address given out again,
\* and a packet leaves through the task only when it is due.
PostedInOrder == [](part = "tx" => Tx!PostedInOrder) /\ Tx!SentWhenDue

\* The network knows every announced service under its present name, host and
\* texts, and nothing else: whoever changes a name (mdns_hostname_set,
\* mdns_instance_name_set, mdns_service_instance_name_set) or removes a service
\* takes the old record back. Not so when another device wins a name that an
\* earlier announcement still carries (mdns.c:4188), when a service without a name
\* of its own gets one (mdns.c:6351), and while the interface probes or announces
\* (mdns.c:2379); and new probes drop an announcement not yet sent (mdns.c:2448).
\* Those records, and no others, are exempt.
\* And the responder knows the network: once the events are handled it is on
\* where there is an address, also when mdns_init looked just before it came; an
\* interface it is on has joined the group; packets keep their interface.
NetworkIsCurrent ==
    /\ IF part = "renames" THEN Renames!NetworkIsCurrent ELSE Registry!NetworkIsCurrent
    /\ part = "net" => Net!FollowsAddresses /\ Net!MemberWhereOn
    /\ part = "custom" => Custom!FollowsAddresses /\ Custom!MemberWhereOn /\ Custom!PacketsKeepInterface

\* mdns_service_add never gives a service the name, type and host of another one,
\* whatever was renamed before, by default too; only a change of a host, default or
\* instance name (mdns.c:5155, 6348), by the user or for a lost conflict, can make
\* two alike. Own services follow the host name, delegated ones go with their host
\* (hosts delegated are not named like the device), and a lookup finds every
\* service of a type. A call that waits, with no other one waiting at that time,
\* returns only after its action was executed (with two, action_sema may wake the
\* wrong one, mdns.c:5778) and leaves the semaphore empty.
RegistryIsConsistent ==
    /\ [](part \in {"reg", "renames"} => Registry!ServicesFollowHosts /\ Registry!LookupFindsAll)
    /\ [][(part \in {"reg", "renames"}) => Registry!AddsAreUnique /\ Registry!ReturnsWhenDone]_vars


\* rtc_store_critical_data_release after rtc_store_critical_data_read: what a
\* batch releases are the very bytes it sent, whatever was written in the
\* meantime; and a soft reset never finds bounds that would make
\* rtc_store_integrity_check discard the data.
ReleasesWhatWasSent ==
    /\ part = "rtc" => Rtc!ReleasesWhatWasSent /\ Rtc!BoundsFit
    /\ part = "rtcnc" => RtcNonCritical!ReleasesWhatWasSent /\ RtcNonCritical!BoundsFit

\* What either store implements.
CriticalQueue == INSTANCE DiagQueue WITH
    Record <- Rtc!Record, Capacity <- Rtc!Capacity,
    queue <- IF part = "rtc" THEN Rtc!Records ELSE <<>>
NonCriticalQueue == INSTANCE DiagQueue WITH
    Record <- RtcNonCritical!Record, Capacity <- RtcNonCritical!Capacity,
    queue <- IF part = "rtcnc" THEN RtcNonCritical!Records ELSE <<>>

\* rtc_store.c implements a queue of whole records: whatever the offsets, the
\* splitting of a copy at the end of the buffer and the point of a reset, a record
\* becomes readable in one piece or not at all, and only the oldest are given up.
ImplementsQueue == CriticalQueue!Spec /\ NonCriticalQueue!Spec

\* What arrives in pieces is acted on as a whole: a callback of the MQTT glue gets
\* all pieces of one message of its topic and no others, across reconnects, after
\* which the broker again has what the table holds; decrypting an image gives all
\* of it in order, wherever the chunks were cut; and the directory that is flashed to
\* the co-processor, now or after a restart, holds a complete image although writes
\* of the NVS fail, unless the client itself gave up the only image or downloaded,
\* after a failed write, into the directory the NVS still chooses.
ArrivesWhole ==
    /\ part = "mqtt" => Mqtt!MessagesAreWhole /\ Mqtt!BrokerKnowsTable
    /\ part = "enc" => Enc!CutsDoNotMatter /\ Enc!EndAcceptsOnlyWhole
    /\ part = "rcp" => Rcp!RestartKeepsChoice /\ Rcp!ChosenIsComplete

=============================================================================
