------------------------------ MODULE MdnsPcb ------------------------------
(***************************************************************************)
(* The responder of mdns on its interfaces: probing for, announcing and    *)
(* withdrawing services, and interfaces that are duplicates of each other  *)
(* (two on one subnet).  All of it runs in the mdns task or under its      *)
(* lock, so that an operation is one step.                                 *)
(*                                                                         *)
(* A PCB is one interface with one IP protocol.  Of a packet the questions *)
(* and services are kept and whether it carries host addresses; its time   *)
(* is not: any scheduled packet of a PCB may be the next one due.  Names   *)
(* are not kept either: a lost conflict renames and probes again.          *)
(* Allocations succeed.                                                    *)
(***************************************************************************)
EXTENDS Integers, Sequences, FiniteSets, SequencesExt

CONSTANTS Pcbs,         \* one PCB per interface
          Services,
          Instanced,    \* services with an instance name of their own
          SameType,     \* are all services of one type and protocol?
          ServerInstance,  \* does the server have an instance name?
          Twins,        \* the two interfaces configured as each other's duplicate
          MaxEvents     \* bound on calls, system events and conflicts

PcbAssumption ==
  /\ Instanced \subseteq Services /\ ServerInstance \in BOOLEAN /\ MaxEvents \in Nat
  /\ SameType \in BOOLEAN /\ Twins \subseteq Pcbs /\ Cardinality(Twins) \in {0, 2}

VARIABLES pcb,          \* per PCB: state, probe list, flags, scheduled packets
          services,     \* registered services
          hostSet,      \* has a hostname been set?
          announced,    \* history: per PCB, services announced since it was enabled
          byes,         \* history: services withdrawn since
          events

vars == <<pcb, services, hostSet, announced, byes, events>>

Probing    == {"probe1", "probe2", "probe3"}
Announcing == {"announce1", "announce2", "announce3"}

\* What follows a state when one of its packets has been sent.
After(s) == CASE s = "probe1" -> "probe2" [] s = "probe2" -> "probe3"
              [] s = "probe3" -> "announce1" [] s = "announce1" -> "announce2"
              [] s = "announce2" -> "announce3" [] OTHER -> "running"

\* ip: the sections that carry host addresses.
In(ip, section) == IF ip THEN {section} ELSE {}

Packet(kind, qs, svcs, ip) == [kind |-> kind, qs |-> qs, svcs |-> svcs, ip |-> ip]
IsEmpty(p) == p.qs = <<>> /\ p.svcs = {} /\ p.ip = {}

OffPcb == [state |-> "off", ready |-> FALSE, probing |-> <<>>, probeIp |-> FALSE,
           running |-> FALSE, tx |-> {}]

Init ==
  /\ pcb = [i \in Pcbs |-> OffPcb]
  /\ services = {} /\ hostSet = FALSE /\ events = 0
  /\ announced = [i \in Pcbs |-> {}] /\ byes = [i \in Pcbs |-> {}]

\* _mdns_get_other_if
HasOther(i) == i \in Twins
OtherIf(i)  == CHOOSE j \in Twins : j # i

Event == events < MaxEvents /\ events' = events + 1

-----------------------------------------------------------------------------
(* Operations on one PCB record c.                                         *)

\* _mdns_init_pcb_probe_new_service: the new services go first.
ProbeNew(c, new, ip) ==
  LET all == new \o c.probing
      any == ip \/ c.probeIp
  IN [c EXCEPT !.state = "probe1", !.probing = all, !.probeIp = any, !.running = TRUE,
               !.tx = @ \cup {Packet("probe", all, ToSet(all), In(any, "servers"))}]

\* _mdns_clear_pcb_tx_queue_head
ClearTx(c) == [c EXCEPT !.tx = {}]

\* Mutant of InitProbe: services that are being probed are added once more.
InitProbeTwice(c, new, ip) ==
  IF ~hostSet' THEN [ClearTx(c) EXCEPT !.state = "running"] ELSE ProbeNew(ClearTx(c), new, ip)

\* _mdns_init_pcb_probe; without a hostname there is nothing to probe.
InitProbe(c, new, ip) ==
  LET fresh == SelectSeq(new, LAMBDA s : c.state \notin Probing \/ s \notin ToSet(c.probing))
  IN IF ~hostSet' THEN [ClearTx(c) EXCEPT !.state = "running"]
     ELSE ProbeNew(ClearTx(c), fresh, ip)

\* _mdns_announce_pcb: the results it can have (which packet is next is open).
Announce(c, new, ip) ==
  CASE c.ready /\ c.state \in Probing -> {InitProbe(c, new, ip)}
    [] c.ready /\ c.state \in Announcing /\ c.tx # {} ->
         {[c EXCEPT !.state = "announce1",
                    !.tx = (@ \ {p}) \cup {[p EXCEPT !.svcs = @ \cup ToSet(new), !.ip = @ \cup In(ip, "answers")]}]
            : p \in c.tx}
    [] c.ready /\ c.state = "running" /\ hostSet ->
         {[c EXCEPT !.state = "announce1", !.tx = @ \cup {Packet("announce", <<>>, ToSet(new), In(ip, "servers"))}]}
    [] OTHER -> {c}

\* mdns_pcb_deinit_local
Deinit(c) == OffPcb

\* Its records leave a scheduled packet, and the first question with its type.
RemoveFromPacket(p, s, asked) ==
  LET same == SelectInSeq(p.qs, LAMBDA q : SameType \/ q = s)
  IN [p EXCEPT !.svcs = @ \ {s},
               !.qs = IF asked /\ same # 0 THEN RemoveAt(@, same) ELSE @]

\* _mdns_remove_scheduled_service_packets, for the packets of one PCB.
RemoveScheduled(c, s) ==
  LET probed == c.state \in Probing /\ s \in ToSet(c.probing)
      left   == SelectSeq(c.probing, LAMBDA t : t # s)
      shrunk == {RemoveFromPacket(p, s, probed) : p \in c.tx}
      bare   == \E p \in c.tx : p.svcs = {s} /\ "answers" \notin p.ip   \* its answers were cleared
  IN IF ~c.ready \/ c.tx = {} THEN c
     ELSE [c EXCEPT !.tx = {p \in shrunk : ~IsEmpty(p)},
                    !.probing = IF probed THEN left ELSE @,
                    !.running = IF probed /\ left = <<>> /\ ~c.probeIp THEN FALSE ELSE @,
                    !.state = CASE probed /\ left = <<>> /\ ~c.probeIp -> "running"
                                [] c.state \in Announcing /\ bare -> "running"
                                [] OTHER -> @]

\* Clearing of the old probe in _mdns_probe_all_pcbs.
Forget(c) == [c EXCEPT !.probing = <<>>, !.running = FALSE]

-----------------------------------------------------------------------------
(* Operations of the server.                                               *)

InSomeOrder(S) == SetToSeqs(S)

\* _mdns_probe_all_pcbs
ProbeAll(new, ip, clear) ==
  pcb' = [i \in Pcbs |-> LET c == pcb[i]
                         IN IF c.ready THEN InitProbe(IF clear THEN Forget(c) ELSE c, new, ip) ELSE c]

\* _mdns_restart_all_pcbs: every scheduled packet goes first.
RestartAll ==
  \E order \in InSomeOrder(services) :
    pcb' = [i \in Pcbs |-> LET c == ClearTx(pcb[i])
                           IN IF c.ready THEN InitProbe(Forget(c), order, TRUE) ELSE c]

NoInstance == services \ Instanced

\* _mdns_restart_all_pcbs_no_instance
RestartNoInstance ==
  IF NoInstance = {} THEN UNCHANGED pcb
  ELSE \E order \in InSomeOrder(NoInstance) : ProbeAll(order, FALSE, TRUE)

\* _mdns_send_bye: only where the responder runs.
SendBye(svcs) ==
  LET on(i) == hostSet /\ pcb[i].ready /\ pcb[i].state = "running"
  IN /\ byes' = [i \in Pcbs |-> IF on(i) THEN byes[i] \cup svcs ELSE byes[i]]
     /\ announced' = [i \in Pcbs |-> IF on(i) THEN announced[i] \ svcs ELSE announced[i]]

\* mdns_service_add_for_host
ServiceAdd(s) ==
  /\ Event /\ s \notin services /\ hostSet
  /\ services' = services \cup {s}
  /\ UNCHANGED <<hostSet, announced, byes>>
  /\ ProbeAll(<<s>>, FALSE, FALSE)

\* mdns_service_remove_for_host
ServiceRemove(s) ==
  /\ Event /\ s \in services
  /\ SendBye({s})
  /\ services' = services \ {s}
  /\ pcb' = [i \in Pcbs |-> RemoveScheduled(pcb[i], s)]
  /\ UNCHANGED hostSet

\* Updates of a service (TXT items, port, instance, subtype): _mdns_announce_all_pcbs
ServiceUpdate(s) ==
  /\ Event /\ s \in services
  /\ UNCHANGED <<services, hostSet, announced, byes>>
  /\ pcb' \in {f \in [Pcbs -> UNION {Announce(pcb[i], <<s>>, FALSE) : i \in Pcbs}] :
                 \A i \in Pcbs : f[i] \in Announce(pcb[i], <<s>>, FALSE)}

\* ACTION_HOSTNAME_SET
HostnameSet ==
  /\ Event /\ SendBye(NoInstance)
  /\ hostSet' = TRUE
  /\ RestartAll
  /\ UNCHANGED services

\* ACTION_INSTANCE_SET
InstanceSet ==
  /\ Event /\ SendBye(NoInstance)
  /\ UNCHANGED <<services, hostSet>>
  /\ RestartNoInstance

\* _mdns_enable_pcb as a function; the UDP PCB may fail to open.
Enabled(c, opens) ==
  IF ~c.ready /\ ~opens THEN {c}
  ELSE {InitProbe([c EXCEPT !.ready = TRUE], order, TRUE) : order \in InSomeOrder(services)}

\* perform_event_action, ENABLE
EnablePcb(i) ==
  /\ Event /\ UNCHANGED <<services, hostSet, byes>>
  /\ \E opens \in BOOLEAN : \E c \in Enabled(pcb[i], opens) : pcb' = [pcb EXCEPT ![i] = c]
  /\ announced' = [announced EXCEPT ![i] = IF pcb[i].ready THEN @ ELSE {}]

\* The interface that was i's duplicate takes over.
Takeover(i, opens) ==
  IF ~HasOther(i) THEN {OffPcb}
  ELSE IF pcb[i].ready /\ pcb[OtherIf(i)].state = "dup"
  THEN Enabled([pcb[OtherIf(i)] EXCEPT !.state = "off"], opens)
  ELSE {pcb[OtherIf(i)]}

\* perform_event_action, DISABLE
DisablePcb(i) ==
  /\ Event /\ UNCHANGED <<services, hostSet, announced, byes>>
  /\ \E opens \in BOOLEAN : \E c \in Takeover(i, opens) :
       pcb' = [j \in Pcbs |-> CASE j = i -> [IF pcb[i].ready THEN Deinit(pcb[i]) ELSE pcb[i]
                                               EXCEPT !.state = "off"]
                                [] HasOther(i) /\ j # i /\ j \in Twins -> c
                                [] OTHER -> pcb[j]]

\* perform_event_action, ANNOUNCE
AnnouncePcb(i) ==
  /\ Event /\ UNCHANGED <<services, hostSet, announced, byes>>
  /\ \E c \in Announce(pcb[i], <<>>, TRUE) : pcb' = [pcb EXCEPT ![i] = c]

\* _mdns_dup_interface: a packet on i carries the address of its other
\* interface.
Duplicate(i) ==
  /\ Event /\ pcb[i].ready /\ UNCHANGED <<services, hostSet, announced, byes>>
  /\ HasOther(i) /\ pcb[OtherIf(i)].ready
  /\ \E c \in Announce(pcb[OtherIf(i)], <<>>, TRUE) :
       pcb' = [pcb EXCEPT ![i] = [Deinit(pcb[i]) EXCEPT !.state = "dup"], ![OtherIf(i)] = c]

\* mdns_parse_packet, SRV conflict lost for a service of ours
SrvConflict(i, s) ==
  /\ Event /\ pcb[i].ready /\ s \in services /\ hostSet
  /\ UNCHANGED <<services, hostSet>>
  /\ IF pcb[i].running
     THEN /\ CASE s \in Instanced -> ProbeAll(<<s>>, FALSE, FALSE)
               [] s \notin Instanced /\ ServerInstance -> RestartNoInstance
               [] OTHER -> RestartAll
          /\ UNCHANGED <<announced, byes>>
     ELSE /\ pcb' = [pcb EXCEPT ![i] = InitProbe(@, <<s>>, FALSE)]
          /\ byes' = [byes EXCEPT ![i] = @ \cup {s}]
          /\ announced' = [announced EXCEPT ![i] = @ \ {s}]

\* TXT conflict, won or lost
TxtConflict(i, s) ==
  /\ Event /\ pcb[i].ready /\ s \in services /\ ~pcb[i].running
  /\ UNCHANGED <<services, hostSet, announced, byes>>
  /\ pcb' = [pcb EXCEPT ![i] = InitProbe(@, <<s>>, TRUE)]

\* A or AAAA conflict lost
HostConflict(i) ==
  /\ Event /\ pcb[i].ready /\ hostSet
  /\ UNCHANGED <<services, hostSet, announced, byes>>
  /\ IF pcb[i].running THEN RestartAll ELSE pcb' = [pcb EXCEPT ![i] = InitProbe(@, <<>>, TRUE)]

\* _mdns_create_answer_from_parsed_packet, for a shared question about s
Answer(i, s) ==
  /\ Event /\ pcb[i].ready /\ s \in services
  /\ pcb[i].state \in Announcing \cup {"running"}
  /\ pcb' = [pcb EXCEPT ![i].tx = @ \cup {Packet("answer", <<>>, {s}, {})}]
  /\ UNCHANGED <<services, hostSet, announced, byes>>

\* Mutant of Followers: packets are never dropped.
FollowersForever(state, p) ==
  IF state = "probe3" THEN {Packet("announce", <<>>, p.svcs, {"answers"})} ELSE {p}

\* What is scheduled after p was sent: p again, the announcement made from
\* a probe, or nothing.
Followers(state, p) ==
  CASE state \in {"probe1", "probe2", "announce1", "announce2"} -> {p}
    [] state = "probe3" -> {Packet("announce", <<>>, p.svcs, In(p.ip # {} \/ p.svcs # {}, "answers"))}
    [] OTHER -> {}

\* _mdns_tx_handle_packet
TxHandle(i, p) ==
  LET c == pcb[i]
  IN /\ p \in c.tx
     /\ pcb' = [pcb EXCEPT ![i] =
          [c EXCEPT !.tx = (@ \ {p}) \cup Followers(c.state, p),
                    !.state = IF @ \in {"off", "dup"} THEN @ ELSE After(@),
                    !.probing = IF c.state = "probe3" THEN <<>> ELSE @,
                    !.probeIp = IF c.state = "probe3" THEN FALSE ELSE @,
                    !.running = IF c.state = "probe3" THEN FALSE ELSE @]]
     /\ announced' = [announced EXCEPT ![i] = IF p.kind = "announce" /\ c.state # "off"
                                              THEN @ \cup p.svcs ELSE @]
     /\ UNCHANGED <<services, hostSet, byes, events>>

TxStep == \E i \in Pcbs : \E p \in pcb[i].tx : TxHandle(i, p)

Next ==
  \/ TxStep
  \/ HostnameSet \/ InstanceSet
  \/ \E s \in Services : ServiceAdd(s) \/ ServiceRemove(s) \/ ServiceUpdate(s)
  \/ \E i \in Pcbs : EnablePcb(i) \/ DisablePcb(i) \/ AnnouncePcb(i) \/ Duplicate(i) \/ HostConflict(i)
  \/ \E i \in Pcbs, s \in Services : SrvConflict(i, s) \/ TxtConflict(i, s) \/ Answer(i, s)

\* The timer runs for ever and the task handles what it queues.
Spec == Init /\ [][Next]_vars /\ WF_vars(TxStep)

-----------------------------------------------------------------------------
\* _mdns_init_pcb_probe_new_service sizes its array by the state and fills it
\* from the probe list: a PCB that is not probing has an empty list, whatever
\* conflict, rename, removal or event came in between, and no service twice.
ProbeListOnlyWhileProbing ==
  \A i \in Pcbs : /\ pcb[i].state \notin Probing => pcb[i].probing = <<>>
                  /\ Len(pcb[i].probing) = Cardinality(ToSet(pcb[i].probing))

\* A probing PCB has exactly one packet scheduled, a probe that carries the
\* records of the services on its list: answers and announcements of before are
\* gone (_mdns_tx_handle_packet would take any packet for the probe).
ProbingHasItsProbe ==
  \A i \in Pcbs : pcb[i].state \in Probing =>
    \E p \in pcb[i].tx : /\ pcb[i].tx = {p} /\ p.kind = "probe"
                         /\ p.svcs = ToSet(pcb[i].probing) /\ p.ip = In(pcb[i].probeIp, "servers")

\* _mdns_dup_interface, _mdns_disable_pcb: an interface is only left out as a
\* duplicate while the other one is in use.
DupIsServed == \A i \in Pcbs : pcb[i].state = "dup" => pcb[OtherIf(i)].ready

\* Once nothing happens any more every open PCB comes to the running state.
ComesToRest == <>[](\A i \in Pcbs : pcb[i].ready => pcb[i].state = "running" /\ pcb[i].tx = {})

-----------------------------------------------------------------------------
\* mdns.h: "enable (probe, resolve conflicts and announce)": a PCB at rest has
\* announced all services.
EnabledIsAnnounced ==
  \A i \in Pcbs : pcb[i].ready /\ pcb[i].state = "running" /\ pcb[i].tx = {} /\ hostSet
                    => services \subseteq announced[i]

\* mdns.h: "or disable (send bye)": services of a PCB that is disabled have
\* been withdrawn on it.
DisableSendsBye ==
  \A i \in Pcbs : pcb[i].state = "off" => announced[i] \cap services \subseteq byes[i]

\* "Find, remove and free answers and scheduled packets for service": the other
\* services being probed are still asked for.
ProbeAsksForEach ==
  \A i \in Pcbs : \A p \in pcb[i].tx : p.kind = "probe" => p.svcs \subseteq ToSet(p.qs)
=============================================================================
