---------------------------- MODULE Diagnostics ----------------------------
(***************************************************************************)
(* esp_diagnostics: the tables of metrics and of variables, and those who  *)
(* fill them: network variables and Wi-Fi metrics follow the station by    *)
(* its events, heap metrics poll.  Initialisation is done by the           *)
(* application's task while the event task already calls the handlers, so  *)
(* it is split where their effects can interleave.                         *)
(*                                                                         *)
(* What a data point says is kept in reported, the last value of every key *)
(* that the write callback accepted.                                       *)
(***************************************************************************)
EXTENDS Integers, Sequences, FiniteSets, SequencesExt

CONSTANTS
    Aps,          \* access points: [ssid, bssid, channel, auth]
    Levels,       \* signal strengths
    Threshold,    \* WIFI_RSSI_THRESHOLD
    AppKeys,      \* variables and metrics of the application
    MaxCount,     \* DIAG_METRICS_MAX_COUNT, DIAG_VARIABLES_MAX_COUNT
    Faults,       \* sets of keys whose writes may fail together
    Races,        \* may keys be unregistered while another task adds?
    Groups,       \* what is used: "network", "wifi", "heap"
    MaxChanges

VARIABLES
    wifi, ip,     \* the access point, or NoAp; the address: "none", "held" or "up"
    events,       \* events on their way to the handlers
    table,        \* s_priv_data of variables.c and metrics.c: [init, list]
    net,          \* network variables: [stage, read, answer, prev, connected, count, over];
                  \* answer: what was read and is yet to be written; over, history:
                  \* keys an event told of before an older answer was written
    met,          \* Wi-Fi metrics: [stage, connected, sent, min, late]; late, history:
                  \* started on a connected station, of which no event has told
    heap,         \* heap metrics are on
    reported,     \* the last value of each key, <<>> or <<value>>
    adding,       \* an add of the application between its lookup and its use
    written,      \* the tag the last add of the application was written under
    lost,         \* a write failed
    changes

vars == <<wifi, ip, events, table, net, met, heap, reported, adding, written, lost, changes>>

NoAp == [ssid |-> <<>>, bssid |-> 0, channel |-> 0, auth |-> 0]
NetOff == [stage |-> "off", read |-> NoAp, answer |-> <<>>, prev |-> NoAp, connected |-> FALSE,
           count |-> 0, over |-> {}]
MetOff == [stage |-> "off", connected |-> FALSE, sent |-> FALSE, min |-> 0, late |-> FALSE]

NetworkKeys == <<"ssid", "bssid", "channel", "auth", "disconn_cnt", "reason", "ipv4">>
WifiKeys == <<"rssi", "min_rssi_ever", "conn_status">>
HeapKeys == <<"alloc_fail", "free">>
Keys == ToSet(NetworkKeys \o WifiKeys \o HeapKeys) \cup AppKeys

DiagAssumption ==
    /\ {MaxCount, MaxChanges} \subseteq Nat \ {0} /\ Threshold \in Int /\ Levels \subseteq Int
    /\ Races \in BOOLEAN /\ Faults \subseteq SUBSET Keys
    /\ Groups \subseteq {"network", "wifi", "heap"}

(***************************************************************************)
(* The tables.  t is "variables" or "metrics".                             *)
(***************************************************************************)

Has(t, key) == \E i \in DOMAIN t.list : t.list[i] = key

\* esp_diag_variable_register, esp_diag_metrics_register: refused when not
\* initialised, full or taken; the callers do not look.
Registered(t, key) ==
    IF ~t.init \/ Len(t.list) >= MaxCount \/ Has(t, key) THEN t
    ELSE [t EXCEPT !.list = Append(@, key)]
AllRegistered(t, keys) == FoldLeft(Registered, t, keys)

\* esp_diag_variable_unregister, esp_diag_metrics_unregister: the last entry
\* takes the place of the one that goes.
Unregistered(t, key) ==
    IF ~Has(t, key) THEN t
    ELSE LET i == CHOOSE i \in DOMAIN t.list : t.list[i] = key
             n == Len(t.list)
         IN [t EXCEPT !.list = SubSeq([@ EXCEPT ![i] = t.list[n]], 1, n - 1)]
AllUnregistered(t, keys) == FoldLeft(Unregistered, t, keys)

\* esp_diag_variable_add, esp_diag_metrics_add: a data point needs a registered
\* key; the write callback refuses the keys bad.
Accepted(t, key, bad) == t.init /\ Has(t, key) /\ key \notin bad
Added(r, t, points, bad) ==
    FoldLeft(LAMBDA q, p : IF Accepted(t, p[1], bad) THEN [q EXCEPT ![p[1]] = <<p[2]>>] ELSE q, r, points)
Bad == Faults \cup {{}}

\* esp_diag_variable_init and esp_diag_metrics_init, called by esp_insights_enable.
TableInit(t) ==
    /\ ~table[t].init /\ table' = [table EXCEPT ![t].init = TRUE]
    /\ UNCHANGED <<wifi, ip, events, net, met, heap, reported, adding, written, lost, changes>>

\* ..._deinit, after everyone that registered here.
TableDeinit(t) ==
    /\ table[t].init /\ adding = <<>> /\ changes < MaxChanges
    /\ t = "variables" => net.stage = "off"
    /\ t = "metrics" => met.stage = "off" /\ ~heap
    /\ table' = [table EXCEPT ![t] = [init |-> FALSE, list |-> <<>>]]
    /\ changes' = changes + 1
    /\ UNCHANGED <<wifi, ip, events, net, met, heap, reported, adding, written, lost>>

(***************************************************************************)
(* The application.                                                        *)
(***************************************************************************)

AppRegister(t, key) ==
    /\ table' = [table EXCEPT ![t] = Registered(@, key)] /\ table' # table
    /\ changes < MaxChanges /\ changes' = changes + 1
    /\ UNCHANGED <<wifi, ip, events, net, met, heap, reported, adding, written, lost>>

AppUnregister(t, key) ==
    /\ adding = <<>> \/ Races
    /\ table' = [table EXCEPT ![t] = Unregistered(@, key)] /\ table' # table
    /\ changes < MaxChanges /\ changes' = changes + 1
    /\ UNCHANGED <<wifi, ip, events, net, met, heap, reported, adding, written, lost>>

\* esp_diag_variable_unregister_all, esp_diag_metrics_unregister_all: the keys of
\* everyone.
AppUnregisterAll(t) ==
    /\ table[t].list # <<>> /\ (adding = <<>> \/ Races) /\ AppKeys # {}
    /\ table' = [table EXCEPT ![t].list = <<>>]
    /\ changes < MaxChanges /\ changes' = changes + 1
    /\ UNCHANGED <<wifi, ip, events, net, met, heap, reported, adding, written, lost>>

\* esp_diag_variable_meta_get returns a place in the table, which is used
\* after the data point was put together.
AppAdd(t, key) ==
    /\ adding = <<>> /\ table[t].init /\ Has(table[t], key) /\ changes < MaxChanges
    /\ adding' = [t |-> t, key |-> key, at |-> CHOOSE i \in DOMAIN table[t].list : table[t].list[i] = key]
    /\ changes' = changes + 1
    /\ UNCHANGED <<wifi, ip, events, table, net, met, heap, reported, written, lost>>

AppWrite ==
    LET l == table[adding.t].list IN
    /\ adding # <<>> /\ adding' = <<>>
    /\ written' = <<adding.key, IF adding.at \in DOMAIN l THEN l[adding.at] ELSE "none">>
    /\ UNCHANGED <<wifi, ip, events, table, net, met, heap, reported, lost, changes>>

(***************************************************************************)
(* Network variables.                                                      *)
(***************************************************************************)

\* esp_diag_network_variables_init: first the handlers,
NetHandlers ==
    /\ "network" \in Groups /\ net.stage = "off" /\ table["variables"].init
    /\ changes < MaxChanges /\ changes' = changes + 1
    /\ net' = [net EXCEPT !.stage = "handlers"]
    /\ UNCHANGED <<wifi, ip, events, table, met, heap, reported, adding, written, lost>>

\* then the table,
NetRegister ==
    /\ net.stage = "handlers"
    /\ net' = [net EXCEPT !.stage = "registered", !.prev = NoAp]
    /\ table' = [table EXCEPT !["variables"] = AllRegistered(@, NetworkKeys)]
    /\ UNCHANGED <<wifi, ip, events, met, heap, reported, adding, written, lost, changes>>

ApPoints(ap) ==
    <<<<"ssid", ap.ssid>>, <<"bssid", ap.bssid>>, <<"channel", ap.channel>>, <<"auth", ap.auth>>>>

\* then what there is already: each of it is asked for, and written after that.
NetRead ==
    /\ net.stage = "registered"
    /\ net' = [net EXCEPT !.stage = "read", !.read = wifi,
                          !.answer = IF wifi # NoAp THEN ApPoints(wifi) ELSE <<>>]
    /\ UNCHANGED <<wifi, ip, events, table, met, heap, reported, adding, written, lost, changes>>
NetKeep ==
    /\ net.stage = "read"
    /\ net' = IF net.read # NoAp
              THEN [net EXCEPT !.stage = "kept", !.read = NoAp, !.prev = net.read, !.connected = TRUE]
              ELSE [net EXCEPT !.stage = "kept"]
    /\ UNCHANGED <<wifi, ip, events, table, met, heap, reported, adding, written, lost, changes>>
NetWrite(from, to, next, bad) ==
    /\ net.stage = from /\ net' = [net EXCEPT !.stage = to, !.answer = next]
    /\ reported' = Added(reported, table["variables"], net.answer, bad) /\ lost' = (lost \/ bad # {})
    /\ UNCHANGED <<wifi, ip, events, table, met, heap, adding, written, changes>>
NetSnapshot(bad) ==
    \/ NetWrite("kept", "address",
                IF wifi # NoAp THEN <<<<"ipv4", IF ip = "up" THEN 1 ELSE 0>>>> ELSE <<>>, bad)
    \/ NetWrite("address", "count", <<<<"disconn_cnt", net.count>>>>, bad)
    \/ NetWrite("count", "on", <<>>, bad)

\* esp_diag_network_variables_deinit
NetDeinit ==
    /\ net.stage = "on" /\ adding = <<>> /\ changes < MaxChanges /\ changes' = changes + 1
    /\ net' = NetOff
    /\ table' = [table EXCEPT !["variables"] = AllUnregistered(@, NetworkKeys)]
    /\ reported' = [k \in Keys |-> IF k \in ToSet(NetworkKeys) THEN <<>> ELSE reported[k]]
    /\ UNCHANGED <<wifi, ip, events, met, heap, adding, written, lost>>

\* evt_handler, WIFI_EVENT_STA_CONNECTED: what differs from the previous access
\* point; a name that is the beginning of the previous one does not.
Differing(ap) ==
    (IF ~IsPrefix(ap.ssid, net.prev.ssid) THEN <<<<"ssid", ap.ssid>>>> ELSE <<>>)
      \o (IF ap.bssid # net.prev.bssid THEN <<<<"bssid", ap.bssid>>>> ELSE <<>>)
      \o (IF ap.channel # net.prev.channel THEN <<<<"channel", ap.channel>>>> ELSE <<>>)
      \o (IF ap.auth # net.prev.auth THEN <<<<"auth", ap.auth>>>> ELSE <<>>)

\* The data points of an event, and what is remembered.
NetPoints(e) ==
    CASE e.type = "CONNECTED" -> Differing(e.ap)
      [] e.type = "DISCONNECTED" ->
            IF net.connected THEN <<<<"reason", 1>>, <<"disconn_cnt", net.count + 1>>>> ELSE <<>>
      [] e.type = "AUTHMODE_CHANGE" -> <<<<"auth", e.ap.auth>>>>
      [] e.type = "GOT_IP" -> <<<<"ipv4", 1>>>>
      [] OTHER -> <<<<"ipv4", 0>>>>
NetTells(e) == IF e.type = "CONNECTED" THEN ApPoints(e.ap) ELSE NetPoints(e)

\* What is or will be overwritten, until an event tells of it again and is reported.
Over(e, r) ==
    LET told == ToSet(NetTells(e))
    IN {p[1] : p \in {q \in told : \E k \in DOMAIN net.answer : net.answer[k][1] = q[1] /\ net.answer[k] # q}}
         \cup {k \in net.over : ~\E p \in told : p[1] = k /\ r[k] = <<p[2]>>}

NetAfter(e) ==
    CASE e.type = "CONNECTED" -> [net EXCEPT !.connected = TRUE, !.prev = e.ap]
      [] e.type = "DISCONNECTED" ->
            IF net.connected THEN [net EXCEPT !.connected = FALSE, !.count = @ + 1] ELSE net
      [] e.type = "AUTHMODE_CHANGE" -> [net EXCEPT !.prev.auth = e.ap.auth]
      [] OTHER -> net

(***************************************************************************)
(* Wi-Fi metrics.                                                          *)
(***************************************************************************)

\* wifi_evt_handler: the status is sent again later if it was not accepted.
StatusPoints(e) ==
    CASE e.type = "CONNECTED" -> <<<<"conn_status", TRUE>>>>
      [] e.type = "DISCONNECTED" /\ met.connected -> <<<<"conn_status", FALSE>>>>
      [] OTHER -> <<>>
MetAfter(e, bad) ==
    LET sent == Accepted(table["metrics"], "conn_status", bad) IN
    CASE e.type = "CONNECTED" -> [met EXCEPT !.connected = TRUE, !.sent = sent]
      [] e.type = "DISCONNECTED" /\ met.connected -> [met EXCEPT !.connected = FALSE, !.sent = sent]
      [] OTHER -> met
Told(e) == e.type \in {"CONNECTED", "DISCONNECTED"}

\* update_min_rssi
MinOf(m, rssi) == IF rssi < m.min THEN rssi ELSE m.min
MinPoints(m, rssi) == IF rssi < m.min THEN <<<<"min_rssi_ever", rssi>>>> ELSE <<>>

\* WIFI_EVENT_STA_BSS_RSSI_LOW
RssiLow(rssi, bad) ==
    /\ met.stage # "off" /\ wifi # NoAp /\ rssi < met.min /\ changes < MaxChanges /\ changes' = changes + 1
    /\ met' = [met EXCEPT !.min = MinOf(met, rssi)]
    /\ reported' = Added(reported, table["metrics"], MinPoints(met, rssi), bad) /\ lost' = (lost \/ bad # {})
    /\ UNCHANGED <<wifi, ip, events, table, net, heap, adding, written>>

\* esp_diag_wifi_metrics_dump of m over the metrics: without an access point
\* there is no strength; if a strength is not accepted, the status is not tried.
Reaches(bad) ==
    wifi = NoAp \/ \A k \in {"rssi", "min_rssi_ever"} : Accepted(table["metrics"], k, bad)
DumpPoints(m, rssi, bad) ==
    (IF wifi = NoAp THEN <<>>
     ELSE MinPoints(m, rssi) \o <<<<"rssi", rssi>>>>
            \o (IF Accepted(table["metrics"], "rssi", bad) THEN <<<<"min_rssi_ever", MinOf(m, rssi)>>>> ELSE <<>>))
      \o (IF Reaches(bad) /\ ~m.sent THEN <<<<"conn_status", m.connected>>>> ELSE <<>>)
Dumped(m, rssi, bad) ==
    [m EXCEPT !.min = IF wifi = NoAp THEN @ ELSE MinOf(m, rssi),
              !.sent = @ \/ (Reaches(bad) /\ Accepted(table["metrics"], "conn_status", bad))]
Dump(m, rssi, bad) ==
    /\ met' = Dumped(m, rssi, bad) /\ lost' = (lost \/ bad # {})
    /\ reported' = Added(reported, table["metrics"], DumpPoints(m, rssi, bad), bad)
    /\ UNCHANGED <<wifi, ip, events, table, net, heap, adding, written, changes>>

WifiDump(rssi, bad) == met.stage = "on" /\ Dump(met, rssi, bad)

\* esp_diag_wifi_metrics_init: the handler, the table, then the first dump.
WifiHandlers ==
    /\ "wifi" \in Groups /\ met.stage = "off" /\ table["metrics"].init
    /\ changes < MaxChanges /\ changes' = changes + 1
    /\ met' = [met EXCEPT !.stage = "handlers", !.late = wifi # NoAp]
    /\ UNCHANGED <<wifi, ip, events, table, net, heap, reported, adding, written, lost>>
WifiRegister ==
    /\ met.stage = "handlers" /\ met' = [met EXCEPT !.stage = "registered", !.min = Threshold]
    /\ table' = [table EXCEPT !["metrics"] = AllRegistered(@, WifiKeys)]
    /\ UNCHANGED <<wifi, ip, events, net, heap, reported, adding, written, lost, changes>>
WifiStart(rssi, bad) ==
    met.stage = "registered" /\ Dump([met EXCEPT !.stage = "on"], rssi, bad)

\* esp_diag_wifi_metrics_deinit
WifiDeinit ==
    /\ met.stage = "on" /\ adding = <<>> /\ changes < MaxChanges /\ changes' = changes + 1
    /\ met' = MetOff
    /\ table' = [table EXCEPT !["metrics"] = AllUnregistered(@, WifiKeys)]
    /\ reported' = [k \in Keys |-> IF k \in ToSet(WifiKeys) THEN <<>> ELSE reported[k]]
    /\ UNCHANGED <<wifi, ip, events, net, heap, adding, written, lost>>

(***************************************************************************)
(* Heap metrics.                                                           *)
(***************************************************************************)

\* esp_diag_heap_metrics_init and _deinit
HeapInit(bad) ==
    /\ "heap" \in Groups /\ ~heap /\ table["metrics"].init /\ heap' = TRUE
    /\ changes < MaxChanges /\ changes' = changes + 1
    /\ table' = [table EXCEPT !["metrics"] = AllRegistered(@, HeapKeys)]
    /\ reported' = Added(reported, table'["metrics"], <<<<"free", 1>>>>, bad) /\ lost' = (lost \/ bad # {})
    /\ UNCHANGED <<wifi, ip, events, net, met, adding, written>>
HeapDeinit ==
    /\ heap /\ heap' = FALSE /\ adding = <<>> /\ changes < MaxChanges /\ changes' = changes + 1
    /\ table' = [table EXCEPT !["metrics"] = AllUnregistered(@, HeapKeys)]
    /\ UNCHANGED <<wifi, ip, events, net, met, reported, adding, written, lost>>

\* alloc_failed_hook: it stays when the metrics are switched off.
AllocFailed(bad) ==
    /\ heap /\ changes < MaxChanges /\ changes' = changes + 1
    /\ reported' = Added(reported, table["metrics"], <<<<"free", 0>>, <<"alloc_fail", 1>>>>, bad)
    /\ lost' = (lost \/ bad # {})
    /\ UNCHANGED <<wifi, ip, events, table, net, met, heap, adding, written>>

(***************************************************************************)
(* The station and its events.                                             *)
(***************************************************************************)

Post(type, ap) ==
    /\ changes < MaxChanges /\ changes' = changes + 1
    /\ events' = Append(events, [type |-> type, ap |-> ap])
    /\ UNCHANGED <<table, net, met, heap, reported, adding, written, lost>>

Connect(ap) == wifi = NoAp /\ wifi' = ap /\ Post("CONNECTED", ap) /\ UNCHANGED ip
Disconnect ==
    /\ wifi # NoAp /\ wifi' = NoAp /\ Post("DISCONNECTED", NoAp)
    /\ ip' = IF ip = "up" THEN "held" ELSE ip
AuthChange(auth) ==
    /\ wifi # NoAp /\ auth # wifi.auth /\ wifi' = [wifi EXCEPT !.auth = auth]
    /\ Post("AUTHMODE_CHANGE", wifi') /\ UNCHANGED ip
GotIp == wifi # NoAp /\ ip # "up" /\ ip' = "up" /\ Post("GOT_IP", wifi) /\ UNCHANGED wifi
LostIp == wifi = NoAp /\ ip = "held" /\ ip' = "none" /\ Post("LOST_IP", NoAp) /\ UNCHANGED wifi

\* The event task calls the handlers that are registered by then.
Dispatch(bad) ==
    LET e == Head(events)
        points == IF net.stage = "off" THEN <<>> ELSE NetPoints(e)
        status == IF met.stage = "off" THEN <<>> ELSE StatusPoints(e)
    IN /\ events # <<>> /\ events' = Tail(events)
       /\ reported' = Added(Added(reported, table["variables"], points, bad), table["metrics"], status, bad)
       /\ net' = IF net.stage = "off" THEN net ELSE [NetAfter(e) EXCEPT !.over = Over(e, reported')]
       /\ met' = IF met.stage = "off" THEN met ELSE [MetAfter(e, bad) EXCEPT !.late = @ /\ ~Told(e)]
       /\ lost' = (lost \/ bad # {})
       /\ UNCHANGED <<wifi, ip, table, heap, adding, written, changes>>

Init ==
    /\ wifi = NoAp /\ ip = "none" /\ events = <<>>
    /\ table = [t \in {"variables", "metrics"} |-> [init |-> FALSE, list |-> <<>>]]
    /\ net = NetOff /\ met = MetOff
    /\ heap = FALSE /\ reported = [k \in Keys |-> <<>>]
    /\ adding = <<>> /\ written = <<"none", "none">> /\ lost = FALSE /\ changes = 0

Next ==
    \/ \E t \in {"variables", "metrics"} : TableInit(t) \/ TableDeinit(t) \/ AppUnregisterAll(t)
    \/ \E t \in {"variables", "metrics"}, k \in AppKeys : AppRegister(t, k) \/ AppUnregister(t, k) \/ AppAdd(t, k)
    \/ AppWrite
    \/ NetHandlers \/ NetRegister \/ NetRead \/ NetKeep \/ NetDeinit
    \/ WifiHandlers \/ WifiRegister \/ WifiDeinit \/ HeapDeinit
    \/ \E bad \in Bad : NetSnapshot(bad) \/ HeapInit(bad) \/ AllocFailed(bad) \/ Dispatch(bad)
    \/ \E rssi \in Levels, bad \in Bad : WifiStart(rssi, bad) \/ WifiDump(rssi, bad) \/ RssiLow(rssi, bad)
    \/ \E ap \in Aps : Connect(ap) \/ AuthChange(ap.auth)
    \/ Disconnect \/ GotIp \/ LostIp

Spec == Init /\ [][Next]_vars

(***************************************************************************)
(* Properties                                                              *)
(***************************************************************************)

AtRest == events = <<>>

\* Once the events are handled, the cloud knows the access point and the
\* address, wherever in esp_diag_network_variables_init the station connected,
\* moved or left, unless a write failed (it is not repeated) or the table was
\* full.  Not so for what an event told of while an older answer was about to be
\* written (esp_diagnostics_network_variables.c:212), for a name that is the
\* beginning of the previous one, and for a first network that is open, whose mode
\* is the zero it is compared with.
VariablesFollow ==
    LET known(k) == Has(table["variables"], k) /\ k \notin net.over
    IN AtRest /\ net.stage = "on" /\ ~lost =>
        /\ wifi # NoAp =>
             \A k \in {"ssid", "bssid", "channel", "auth"} : known(k) => reported[k] = <<wifi[k]>>
        /\ known("ipv4") => /\ ip = "up" => reported["ipv4"] = <<1>>
                            /\ ip = "none" => reported["ipv4"] # <<1>>
        /\ known("disconn_cnt") => reported["disconn_cnt"] = <<net.count>>

\* The status the cloud has is the station's, or will be sent with the next
\* dump, also when writes fail; of a station that was connected when the metrics
\* were started, once one of its events has come.
StatusFollows ==
    AtRest /\ met.stage = "on" /\ met.sent /\ ~met.late => reported["conn_status"] = <<wifi # NoAp>>

\* The least strength is never above the one reported with it.
MinIsLeast ==
    ~lost /\ reported["rssi"] # <<>> =>
        reported["min_rssi_ever"] # <<>> /\ reported["min_rssi_ever"][1] <= reported["rssi"][1]

\* No key is in a table twice, and everyone's keys are as long as it is on, if
\* there was room, and not longer, whatever goes and takes whose place.
TablesMatch ==
    /\ \A t \in {"variables", "metrics"} :
         Cardinality(ToSet(table[t].list)) = Len(table[t].list) /\ Len(table[t].list) <= MaxCount
    /\ \A k \in ToSet(NetworkKeys) : Has(table["variables"], k) => net.stage \notin {"off", "handlers"}
    /\ \A k \in ToSet(WifiKeys) : Has(table["metrics"], k) => met.stage \in {"registered", "on"}
    /\ \A k \in ToSet(HeapKeys) : Has(table["metrics"], k) => heap

\* A data point is written with the tag of its key, if the application does not
\* unregister meanwhile (Races).
TagIsOfKey == written[1] = written[2]

=============================================================================
