------------------------------ MODULE MdnsNet ------------------------------
(***************************************************************************)
(* mdns and the network interfaces: the table of interfaces (mdns.c), the  *)
(* system's events that switch mdns on and off on them, and the UDP        *)
(* control block with its multicast groups (mdns_networking_lwip.c).       *)
(*                                                                         *)
(* Four threads take part: drivers change an interface and post an event,  *)
(* the event loop turns events into actions, the mdns task performs these, *)
(* and lwIP receives.  An interface may therefore be down again when the   *)
(* event of its going up is handled.  What is sent on an enabled interface *)
(* is MdnsPcb's matter; duplicates of interfaces are as well, and the      *)
(* tables here have none.                                                  *)
(***************************************************************************)
EXTENDS Integers, Sequences, FiniteSets, SequencesExt

CONSTANTS
    Table,         \* s_esp_netifs: a predefined interface or Custom per slot
    Customs,       \* the application's own interfaces
    Faults,        \* joining a group or opening the control block may fail
    QueueLen,      \* MDNS_ACTION_QUEUE_LEN
    MaxChanges     \* bound on the changes of interfaces and the calls of mdns

Custom == "custom"
Predefined == {"STA", "AP"}
Presets == <<"STA", "AP", "ETH">>    \* mdns_predef_if_t, in its order
Protocols == {"V4", "V6"}
None == "none"
MAX == 0                             \* MDNS_MAX_INTERFACES: no such interface

NetAssumption ==
    /\ Table \in Seq(Predefined \cup {Custom}) /\ Faults \in BOOLEAN
    /\ Customs \cap Predefined = {} /\ {QueueLen, MaxChanges} \subseteq Nat \ {0}

VARIABLES
    sys,        \* per interface: is it up, and which addresses it has
    static,     \* the station has a fixed address instead of DHCP
    pending,    \* events of the system that were not handled yet
    server,     \* "off", "polling" inside mdns_init, "up"
    polled,     \* slots mdns_init has looked at
    netif,      \* s_esp_netifs[].netif
    proto,      \* s_interfaces[].proto, by slot; ready means it is not 0
    main,       \* _pcb_main is open
    groups,     \* per interface and protocol, how often its group is joined
    queue,      \* actions for the mdns task
    lost,       \* an action was dropped, or lwIP refused one
    changes

vars == <<sys, static, pending, server, polled, netif, proto, main, groups, queue, lost, changes>>

Slots == DOMAIN Table
Netifs == Predefined \cup Customs

(***************************************************************************)
(* The table of interfaces.                                                *)
(***************************************************************************)

\* The first of a set of slots, MAX if it is empty.
FirstOf(S) == IF S = {} THEN MAX ELSE CHOOSE i \in S : \A j \in S : i <= j

\* mdns_if_from_preset_if
IfFromPreset(k) == FirstOf({i \in Slots : Table[i] = k})

\* A predefined interface is looked up when its slot is empty.
Filled(t, i) == IF t[i] = None /\ Table[i] # Custom THEN Table[i] ELSE t[i]

\* _mdns_get_esp_netif
EspNetif(i) == IF i \in Slots THEN Filled(netif, i) ELSE None

\* _mdns_get_if_from_esp_netif: the slots up to the one that is found are filled.
IfFromNetif(n) == FirstOf({i \in Slots : Filled(netif, i) = n})
LookedUp(n) ==
    [i \in Slots |-> IF IfFromNetif(n) = MAX \/ i <= IfFromNetif(n) THEN Filled(netif, i) ELSE netif[i]]

\* mdns_register_netif and mdns_unregister_netif
RegisterNetif(n) ==
    LET free == FirstOf({i \in Slots : Table[i] = Custom /\ netif[i] = None}) IN
    /\ server = "up" /\ \A i \in Slots : netif[i] # n
    /\ free # MAX /\ netif' = [netif EXCEPT ![free] = n]
    /\ UNCHANGED <<sys, static, pending, server, polled, proto, main, groups, queue, lost, changes>>

UnregisterNetif(n) ==
    /\ server = "up"
    /\ \E i \in Slots : /\ Table[i] = Custom /\ netif[i] = n
                        /\ netif' = [netif EXCEPT ![i] = None]
    /\ UNCHANGED <<sys, static, pending, server, polled, proto, main, groups, queue, lost, changes>>

(***************************************************************************)
(* The control block and the groups.  A net record holds what lwIP and     *)
(* mdns_networking_lwip.c know: [proto, main, groups, ok].                 *)
(***************************************************************************)

IsReady(pr, i, p) == p \in pr[i]

\* _udp_join_group: nothing is done on an interface that is down.
Joined(net, n, p, by) ==
    IF n = None \/ ~sys[n].up THEN [net EXCEPT !.ok = FALSE]
    ELSE IF net.groups[n][p] + by < 0 THEN [net EXCEPT !.ok = FALSE]
    ELSE [net EXCEPT !.groups[n][p] = @ + by]

\* _udp_pcb_main_init; refused: lwIP has no memory, or the port is taken.
MainInit(net, refused) ==
    IF net.main THEN net
    ELSE IF refused THEN [net EXCEPT !.ok = FALSE] ELSE [net EXCEPT !.main = TRUE]

\* _udp_pcb_init: the group stays joined when the control block is refused.
PcbInit(net, n, i, p, refused) ==
    LET in == Joined(net, n, p, 1)
        open == IF in.ok THEN MainInit(in, refused) ELSE in
    IN IF open.ok THEN [open EXCEPT !.proto[i] = @ \cup {p}] ELSE open

\* _udp_pcb_is_in_use
InUse(net) == \E j \in Slots : net.proto[j] # {}

\* _udp_pcb_deinit: with the last protocol of the interface its group is left,
\* and with the last interface the control block is closed.
PcbDeinit(net, n, i, p) ==
    LET less == [net EXCEPT !.proto[i] = @ \ {p}]
        left == [Joined(less, n, p, -1) EXCEPT !.ok = TRUE]
    IN IF less.proto[i] # {} THEN less
       ELSE IF InUse(left) THEN left ELSE [left EXCEPT !.main = FALSE]

\* _mdns_pcb_init and _mdns_pcb_deinit have it done in lwIP's thread.
Net == [proto |-> proto, main |-> main, groups |-> groups, ok |-> TRUE]
SetNet(net) == proto' = net.proto /\ main' = net.main /\ groups' = net.groups

\* _mdns_enable_pcb
Enabled(net, n, i, p, refused) ==
    IF IsReady(net.proto, i, p) THEN net ELSE PcbInit(net, n, i, p, refused)

Refusals == IF Faults THEN BOOLEAN ELSE {FALSE}

(***************************************************************************)
(* mdns_init and mdns_free.                                                *)
(***************************************************************************)

\* mdns_init, up to the registration of the handlers.
MdnsInit ==
    /\ server = "off" /\ server' = "polling" /\ polled' = 0
    /\ changes < MaxChanges /\ changes' = changes + 1
    /\ netif' = [i \in Slots |-> None] /\ queue' = <<>>
    /\ UNCHANGED <<sys, static, pending, proto, main, groups, lost>>

\* The loop that asks every interface for its addresses, IPv6 first.
Poll(refused) ==
    LET i == polled + 1
        n == Filled(netif, i)
        has(p) == n # None /\ p \in sys[n].addrs
        six == IF has("V6") THEN Enabled(Net, n, i, "V6", refused) ELSE Net
        four == IF has("V4") THEN Enabled([six EXCEPT !.ok = TRUE], n, i, "V4", refused) ELSE [six EXCEPT !.ok = TRUE]
    IN /\ server = "polling" /\ polled < Len(Table)
       /\ polled' = i /\ netif' = [netif EXCEPT ![i] = n] /\ SetNet(four)
       /\ lost' = (lost \/ ~six.ok \/ ~four.ok)
       /\ UNCHANGED <<sys, static, pending, server, queue, changes>>

\* _mdns_service_task_start
TaskStart ==
    /\ server = "polling" /\ polled = Len(Table) /\ server' = "up"
    /\ UNCHANGED <<sys, static, pending, polled, netif, proto, main, groups, queue, lost, changes>>

\* mdns_free: every slot, IPv4 and then IPv6; the actions left are freed.
AllOff ==
    LET step(net, i) ==
          LET four == PcbDeinit(net, EspNetif(i), i, "V4")
          IN PcbDeinit(four, EspNetif(i), i, "V6")
    IN FoldSeq(LAMBDA i, net : step(net, i), Net, [i \in Slots |-> i])

MdnsFree ==
    /\ server = "up" /\ server' = "off" /\ queue' = <<>>
    /\ SetNet(AllOff) /\ lost' = FALSE
    /\ netif' = [i \in Slots |-> Filled(netif, i)]
    /\ UNCHANGED <<sys, static, pending, polled, changes>>

(***************************************************************************)
(* Interfaces and their events.                                            *)
(***************************************************************************)

Change(n, up, addrs, event) ==
    /\ changes < MaxChanges /\ changes' = changes + 1
    /\ sys' = [sys EXCEPT ![n] = [up |-> up, addrs |-> addrs]]
    /\ pending' = IF n \in Predefined THEN Append(pending, <<event, n>>) ELSE pending
    /\ UNCHANGED <<static, server, polled, netif, proto, main, groups, queue, lost>>

\* The station connects and the access point starts; the latter, and a
\* station with a fixed address, have their address at once.
GoUp(n) ==
    /\ ~sys[n].up
    /\ Change(n, TRUE, IF n = "AP" \/ (n = "STA" /\ static) THEN {"V4"} ELSE {}, "CONNECTED")
GoDown(n) == sys[n].up /\ Change(n, FALSE, {}, "DISCONNECTED")
GotIp(n) ==
    /\ sys[n].up /\ "V4" \notin sys[n].addrs
    /\ Change(n, TRUE, sys[n].addrs \cup {"V4"}, "GOT_IP")
GotIp6(n) ==
    /\ sys[n].up /\ "V6" \notin sys[n].addrs
    /\ Change(n, TRUE, sys[n].addrs \cup {"V6"}, "GOT_IP6")

\* mdns_post_custom_action_tcpip_if: an action for no interface, or one that
\* finds the queue full, is dropped.
Posted(acts) ==
    LET all == SelectSeq(acts, LAMBDA a : a.slot # MAX)
        n == IF Len(all) > QueueLen - Len(queue) THEN QueueLen - Len(queue) ELSE Len(all)
    IN /\ queue' = queue \o SubSeq(all, 1, n)
       /\ lost' = (lost \/ n < Len(all))

Act(what, i, p) == [what |-> what, slot |-> i, p |-> p]

\* What an event posts.  A slot takes the place of a predefined interface in
\* the calls for IP_EVENT_GOT_IP6.
Cast(i) == IF i \in DOMAIN Presets THEN IfFromPreset(Presets[i]) ELSE MAX
ActionsOf(event, n) ==
    LET i == IfFromPreset(n)
        j == IF IfFromNetif(n) = MAX THEN MAX ELSE Cast(IfFromNetif(n))
    IN CASE event = "CONNECTED" ->
              IF n = "AP" \/ static THEN <<Act("ENABLE", i, "V4")>> ELSE <<>>
         [] event = "DISCONNECTED" -> <<Act("DISABLE", i, "V4"), Act("DISABLE", i, "V6")>>
         [] event = "GOT_IP" -> <<Act("ENABLE", i, "V4"), Act("ANNOUNCE", i, "V6")>>
         [] OTHER -> <<Act("ENABLE", j, "V6"), Act("ANNOUNCE", j, "V4")>>

\* mdns_preset_if_handle_system_event
HandleSystemEvent ==
    LET e == Head(pending) IN
    /\ pending # <<>> /\ pending' = Tail(pending)
    /\ IF server = "off" THEN UNCHANGED <<queue, lost>> ELSE Posted(ActionsOf(e[1], e[2]))
    /\ netif' = IF server # "off" /\ e[1] = "GOT_IP6" THEN LookedUp(e[2]) ELSE netif
    /\ UNCHANGED <<sys, static, server, polled, proto, main, groups, changes>>

\* mdns_netif_action
NetifAction(n, what, p) ==
    /\ server = "up" /\ IfFromNetif(n) # MAX
    /\ changes < MaxChanges /\ changes' = changes + 1
    /\ Posted(<<Act(what, IfFromNetif(n), p)>>) /\ netif' = LookedUp(n)
    /\ UNCHANGED <<sys, static, pending, server, polled, proto, main, groups>>

\* perform_event_action, by the mdns task.  Disabling empties the slot first.
Perform(refused) ==
    LET a == Head(queue)
        i == a.slot
        n == Filled(netif, i)
        on == Enabled(Net, n, i, a.p, refused)
        m == Filled([netif EXCEPT ![i] = None], i)
        off == PcbDeinit(Net, m, i, a.p)
    IN /\ server = "up" /\ queue # <<>> /\ queue' = Tail(queue)
       /\ CASE a.what = "ENABLE" ->
                 SetNet(on) /\ netif' = [netif EXCEPT ![i] = n] /\ lost' = (lost \/ (~on.ok /\ n # None /\ sys[n].up))
            [] a.what = "DISABLE" ->
                 IF IsReady(proto, i, a.p) THEN SetNet(off) /\ netif' = [netif EXCEPT ![i] = m] /\ UNCHANGED lost
                 ELSE netif' = [netif EXCEPT ![i] = None] /\ UNCHANGED <<proto, main, groups, lost>>
            [] OTHER -> UNCHANGED <<netif, proto, main, groups, lost>>
       /\ UNCHANGED <<sys, static, pending, server, polled, changes>>

(***************************************************************************)
(* Packets.                                                                *)
(***************************************************************************)

\* _udp_recv: the slot a packet is queued for, found by the interface lwIP got
\* it on; an IPv4 packet from another subnet (near is FALSE) is dropped.  The
\* slots that are filled on the way would be filled when they are next used.
UdpRecv(n, p, near) ==
    LET i == FirstOf({j \in Slots : proto[j] # {} /\ EspNetif(j) = n})
    IN IF ~main \/ (p = "V4" /\ ~near) THEN MAX ELSE i

\* _mdns_udp_pcb_write sends only then.
CanWrite(i, p) == EspNetif(i) # None /\ IsReady(proto, i, p) /\ main

Init ==
    /\ sys = [n \in Netifs |-> [up |-> FALSE, addrs |-> {}]] /\ static \in BOOLEAN
    /\ pending = <<>> /\ server = "off" /\ polled = 0
    /\ netif = [i \in Slots |-> None] /\ proto = [i \in Slots |-> {}] /\ main = FALSE
    /\ groups = [n \in Netifs |-> [p \in Protocols |-> 0]]
    /\ queue = <<>> /\ lost = FALSE /\ changes = 0

Next ==
    \/ MdnsInit
    \/ \E r \in Refusals : Poll(r) \/ Perform(r)
    \/ TaskStart
    \/ MdnsFree
    \/ \E n \in Netifs : GoUp(n) \/ GoDown(n) \/ GotIp(n) \/ GotIp6(n)
    \/ HandleSystemEvent
    \/ \E n \in Customs : \/ RegisterNetif(n)
                          \/ UnregisterNetif(n)
                          \/ \E p \in Protocols, w \in {"ENABLE", "DISABLE"} : NetifAction(n, w, p)

Spec == Init /\ [][Next]_vars

(***************************************************************************)
(* Properties                                                              *)
(***************************************************************************)

AtRest == server = "up" /\ pending = <<>> /\ queue = <<>>

\* Whenever mdns_init was called among the changes of the interfaces, and
\* however far the events lag behind: once they are handled, mdns is on exactly
\* where a predefined interface has an address, unless an action found the
\* queue full or lwIP no memory.
FollowsAddresses ==
    AtRest /\ ~lost =>
        \A i \in Slots : Table[i] # Custom => proto[i] = sys[Table[i]].addrs

\* Where mdns is on and the interface is up, its group is joined, and packets
\* can be sent; the control block is open exactly as long as it is needed.
MemberWhereOn ==
    /\ \A i \in Slots : Table[i] # Custom =>
         \A p \in proto[i] : groups[Table[i]][p] > 0 /\ CanWrite(i, p)
    /\ main <=> \E i \in Slots : proto[i] # {}
    /\ server = "off" => ~main

\* What comes in where mdns is on is handled, and as coming from there.
PacketsKeepInterface ==
    \A n \in Netifs, p \in Protocols :
        LET i == UdpRecv(n, p, TRUE) IN
        /\ i # MAX => EspNetif(i) = n
        /\ \A j \in Slots : Table[j] = n /\ proto[j] # {} => i = j

\* A group is left when mdns is switched off; not so for an interface that had
\* both protocols, one that was already down, and the application's own.
GroupsAreLeft ==
    AtRest => \A n \in Netifs, p \in Protocols :
        groups[n][p] = Cardinality({i \in Slots : netif[i] = n /\ p \in proto[i]})

\* An interface stays registered until it is unregistered; not so when mdns is
\* switched off on it.
RegisteredStays ==
    [][\A i \in Slots : server = "up" /\ server' = "up" /\ netif[i] \in Customs /\ netif'[i] = None
         => UnregisterNetif(netif[i])]_vars

=============================================================================
