---------------------------- MODULE MdnsRegistry ----------------------------
(***************************************************************************)
(* The names and services that mdns advertises: the API that adds, changes *)
(* and removes them, and the changes of host names that the service task   *)
(* executes from the action queue.                                         *)
(*                                                                         *)
(* A call that changes services is one step: it holds the service lock.    *)
(* What the interface (one, see MdnsPcb) tells the network is kept in net: *)
(* a name enters it with its announcement, which follows its probing, and  *)
(* stays there until it is replaced or taken back.  A name is a pair: what *)
(* the user gave and the number that a lost conflict appended (0: none).   *)
(***************************************************************************)
EXTENDS Integers, Sequences, SequencesExt, FiniteSets

CONSTANTS Tasks,            \* tasks that set host names
          OwnNames, Defaults,   \* host names and default instance names to set
          Delegates, Addrs, \* delegated hosts and their address lists ({}: none)
          Insts, Types, Txts,
          Renames,          \* may the instance of a service be changed?
          Conflicts,        \* may other devices claim our names?
          NoMem,            \* may an allocation of TXT items fail?
          MaxServices,      \* MDNS_MAX_SERVICES
          QLen,             \* MDNS_ACTION_QUEUE_LEN
          MaxAdds, MaxCalls \* bounds on services added and on other calls

RegistryAssumption ==
  /\ {Renames, Conflicts, NoMem} \subseteq BOOLEAN /\ {MaxServices, QLen, MaxAdds, MaxCalls} \subseteq Nat
  /\ OwnNames \cap Delegates = {}

VARIABLES hostname, instance,   \* of the server
          hosts,        \* _mdns_host_list, the newest first
          services,     \* the newest first
          locked,       \* the service lock, between calls
          acts,         \* action_queue
          sema,         \* action_sema, a binary semaphore
          pend,         \* tasks in a call that waits
          state,        \* of the interface
          fresh,        \* ids of services to be probed or announced; Host: the host name
          net,          \* history: what the network was told
          left,         \* history: records of names given up without a goodbye
          dropped,      \* history: ids of services whose announcement was dropped
          adds, calls   \* counters of the bounds

names   == <<hostname, instance, hosts, services>>
queue   == <<acts, sema, pend>>
told    == <<state, fresh, net, left, dropped>>
vars    == <<names, locked, queue, told, adds, calls>>

Name(n) == <<n, 0>>
None    == Name("none")
Host    == -1

\* _mdns_mangle_name: the next number
Mangle(n) == <<n[1], IF n[2] = 0 THEN 2 ELSE n[2] + 1>>

Init ==
  /\ hostname \in OwnNames /\ instance = None /\ hosts = <<>> /\ services = <<>>
  /\ locked = FALSE /\ acts = <<>> /\ sema = FALSE /\ pend = {}
  /\ state = "running" /\ fresh = {} /\ net = {} /\ left = {} /\ dropped = {}
  /\ adds = 0 /\ calls = 0

DefaultName(host, inst) == IF inst # None THEN inst ELSE host
InstanceName(s) == IF s.inst # None THEN s.inst ELSE DefaultName(hostname, instance)

\* What is announced of s under the host and default names given.
View(s, host, inst) ==
  [id |-> s.id, name |-> IF s.inst # None THEN s.inst ELSE DefaultName(host, inst),
   type |-> s.type, host |-> s.host, txt |-> s.txt]

\* A new announcement replaces the one of the same name.
Announced(n, views) == {r \in n : \A v \in views : <<r.id, r.name>> # <<v.id, v.name>>} \cup views

\* What the network was told of the services S under their present names.
Told(S) == {r \in net : \E s \in S : r.id = s.id /\ r.name = InstanceName(s)}

\* _mdns_send_bye for the services S: only where the responder runs.
Bye(S) == IF state = "running" THEN net \ Told(S) ELSE net
Unsaid(S) == Told(S) \cap Bye(S)

Ids(S) == {s.id : s \in S}

\* _mdns_probe_all_pcbs: announcements that are scheduled are dropped;
\* clear: those that are being probed are forgotten.
Probe(ids, clear) ==
  /\ state' = "probing"
  /\ fresh' = ids \cup IF state = "probing" /\ ~clear THEN fresh ELSE {}
  /\ dropped' = dropped \cup (fresh \ (fresh' \cup {Host}))

\* _mdns_announce_all_pcbs
Announce(ids) ==
  IF state = "probing" THEN Probe(ids, FALSE)
  ELSE state' = "announcing" /\ fresh' = fresh \cup ids /\ UNCHANGED dropped

\* _mdns_remove_scheduled_service_packets
Unschedule(S) ==
  /\ fresh' = fresh \ Ids(S) /\ UNCHANGED dropped
  /\ \/ fresh' = {} /\ state' = "running"
     \/ (fresh' # {} \/ state # "probing") /\ UNCHANGED state

\* _mdns_service_match_instance: host None matches all.
MatchInstance(s, i, t, h) == s.type = t /\ InstanceName(s) = i /\ h \in {None, s.host}
Match(s, t, h) == s.type = t /\ h \in {None, s.host}

\* _mdns_get_service_item_instance
Item(i, t, h) == SelectInSeq(services, LAMBDA s : IF i = None THEN Match(s, t, h) ELSE MatchInstance(s, i, t, h))

Hostname(h) == IF h = None THEN hostname ELSE h

\* A call under the lock; it is blocked for good if the lock is not given back.
Locked == ~locked /\ calls < MaxCalls /\ calls' = calls + 1

KnownHosts == {None} \cup {g.name : g \in ToSet(hosts)}

-----------------------------------------------------------------------------
(* Calls on services                                                       *)

\* Mutant of Exists: only services without an instance name are looked for.
ExistsDefault(i, t, h) == i = None /\ Item(i, t, h) # 0

Exists(i, t, h) == Item(i, t, h) # 0

\* mdns_service_add_for_host, h None: the own host
ServiceAdd(i, t, h, x) ==
  /\ ~locked /\ adds < MaxAdds /\ adds' = adds + 1
  /\ Len(services) < MaxServices /\ ~Exists(i, t, Hostname(h))
  /\ LET s == [id |-> adds, inst |-> i, type |-> t, host |-> Hostname(h), txt |-> x, own |-> h = None]
     IN services' = <<s>> \o services /\ Probe({s.id}, FALSE)
  /\ UNCHANGED <<hostname, instance, hosts, locked, queue, net, left, calls>>

\* mdns_service_port_set, _txt_set, _txt_item_set and _txt_item_remove: x
\* stands for port and texts.  A failed allocation returns with the lock.
TxtSet(i, t, h, x) ==
  LET k == Item(i, t, Hostname(h))
      s == [services[k] EXCEPT !.txt = x]
  IN /\ Locked /\ k # 0
     /\ \/ services' = [services EXCEPT ![k] = s] /\ Announce({s.id}) /\ UNCHANGED locked
        \/ NoMem /\ locked' = TRUE /\ UNCHANGED <<services, state, fresh, dropped>>
     /\ UNCHANGED <<hostname, instance, hosts, queue, net, left, adds>>

\* mdns_service_instance_name_set_for_host: a default name is not taken back.
InstanceNameSet(i, t, h, new) ==
  LET k == Item(i, t, Hostname(h))
      s == services[k]
      said == IF s.inst # None THEN Bye({s}) ELSE net
  IN /\ Renames /\ Locked /\ k # 0
     /\ services' = [services EXCEPT ![k].inst = new]
     /\ net' = said /\ left' = left \cup (Told({s}) \cap said)
     /\ Probe({s.id}, FALSE)
     /\ UNCHANGED <<hostname, instance, hosts, locked, queue, adds>>

\* With an instance the first match, without one all of the type.
Removed(i, t, h) ==
  IF i # None THEN {services[Item(i, t, h)]} ELSE {s \in ToSet(services) : Match(s, t, h)}

Withdraw(S) ==
  /\ services' = SelectSeq(services, LAMBDA s : s \notin S)
  /\ net' = Bye(S) /\ left' = left \cup Unsaid(S) /\ Unschedule(S)

\* mdns_service_remove_for_host
ServiceRemove(i, t, h) ==
  /\ Locked /\ Item(i, t, Hostname(h)) # 0
  /\ Withdraw(Removed(i, t, Hostname(h)))
  /\ UNCHANGED <<hostname, instance, hosts, locked, queue, adds>>

ServiceRemoveAll ==
  /\ Locked /\ services # <<>> /\ Withdraw(ToSet(services))
  /\ UNCHANGED <<hostname, instance, hosts, locked, queue, adds>>

-----------------------------------------------------------------------------
(* Calls on names, executed by the service task                            *)

Send(act) ==
  /\ calls < MaxCalls /\ calls' = calls + 1 /\ Len(acts) < QLen /\ acts' = Append(acts, act)
  /\ UNCHANGED <<names, locked, sema, told, adds>>

\* mdns_hostname_set and mdns_delegate_hostname_add: the caller waits.
SendAndWait(t, act) == t \notin pend /\ Send(act) /\ pend' = pend \cup {t}

\* xSemaphoreTake: the caller returns.
Return(t) ==
  /\ t \in pend /\ sema /\ sema' = FALSE /\ pend' = pend \ {t}
  /\ UNCHANGED <<names, locked, acts, told, adds, calls>>

Give == sema' = TRUE

\* _mdns_remap_self_service_hostname
Remapped(new) == [k \in DOMAIN services |-> [services[k] EXCEPT !.host = IF @ = hostname THEN new ELSE @]]

\* Mutant of NoInstance: those of the own host only.
NoInstanceOwn(ss) == {s \in ToSet(ss) : s.inst = None /\ s.own}

NoInstance(ss) == {s \in ToSet(ss) : s.inst = None}
Views(S, host, inst) == {View(s, host, inst) : s \in S}

\* _mdns_restart_all_pcbs and _mdns_restart_all_pcbs_no_instance
RestartAll == Probe(Ids(ToSet(services)) \cup {Host}, TRUE)
RestartNoInstance ==
  IF NoInstance(services) = {} THEN UNCHANGED <<state, fresh, dropped>> ELSE Probe(Ids(NoInstance(services)), TRUE)

HostnameSet(new) ==
  /\ hostname' = new /\ services' = Remapped(new) /\ RestartAll
  /\ net' = Bye(NoInstance(services)) /\ left' = left \cup Unsaid(NoInstance(services))
  /\ Give
  /\ UNCHANGED <<instance, hosts>>

InstanceSet(new) ==
  /\ instance' = new /\ RestartNoInstance
  /\ net' = Bye(NoInstance(services)) /\ left' = left \cup Unsaid(NoInstance(services))
  /\ UNCHANGED <<hostname, hosts, services, sema>>

DelegateAdd(g, a) ==
  /\ hosts' = IF g = hostname \/ \E x \in ToSet(hosts) : x.name = g THEN hosts
              ELSE <<[name |-> g, addrs |-> a]>> \o hosts
  /\ Give
  /\ UNCHANGED <<hostname, instance, services, told>>

DelegateSetAddress(g, a) ==
  /\ hosts' = [k \in DOMAIN hosts |-> IF hosts[k].name = g /\ g # hostname THEN [hosts[k] EXCEPT !.addrs = a] ELSE hosts[k]]
  /\ UNCHANGED <<hostname, instance, services, told, sema>>

\* Removes the services of the host too.
DelegateRemove(g) ==
  /\ hosts' = SelectSeq(hosts, LAMBDA x : x.name # g)
  /\ Withdraw({s \in ToSet(services) : s.host = g})
  /\ UNCHANGED <<hostname, instance, sema>>

\* _mdns_service_task executes the next action under the lock.
Execute ==
  /\ acts # <<>> /\ ~locked /\ acts' = Tail(acts)
  /\ LET a == Head(acts)
     IN CASE a[1] = "host" -> HostnameSet(a[3])
          [] a[1] = "inst" -> InstanceSet(a[2])
          [] a[1] = "add"  -> DelegateAdd(a[3], a[4])
          [] a[1] = "addr" -> DelegateSetAddress(a[2], a[3])
          [] a[1] = "rem"  -> DelegateRemove(a[2])
  /\ UNCHANGED <<locked, pend, adds, calls>>

-----------------------------------------------------------------------------
(* The interface                                                           *)

\* _mdns_tx_handle_packet: the last probe, the first announcement (a new one
\* replaces the one of the same name) and the last one.
TxHandle ==
  /\ ~locked /\ state # "running"
  /\ state' = CASE state = "probing" -> "announcing" [] state = "announcing" -> "announced" [] OTHER -> "running"
  /\ IF state = "announcing"
     THEN /\ net' = Announced(net, Views({s \in ToSet(services) : s.id \in fresh}, hostname, instance))
          /\ fresh' = {} /\ dropped' = dropped \ fresh
     ELSE UNCHANGED <<net, fresh, dropped>>
  /\ UNCHANGED <<names, locked, queue, left, adds, calls>>

\* The host name is lost.  No goodbye: the names made of it are given up.
MangleHostname ==
  /\ hostname' = Mangle(hostname) /\ services' = Remapped(Mangle(hostname)) /\ RestartAll
  /\ left' = left \cup (IF instance = None THEN Told(NoInstance(services)) ELSE {})
  /\ UNCHANGED <<instance, net>>

\* mdns_parse_packet: another device claims the host name and wins.
HostConflict ==
  /\ Conflicts /\ Locked
  /\ IF state = "probing" THEN MangleHostname
     ELSE Probe({Host}, FALSE) /\ UNCHANGED <<hostname, instance, services, net, left>>
  /\ UNCHANGED <<hosts, locked, queue, adds>>

\* ... or the name of a service: the first of the type is meant.
SrvConflict(t) ==
  LET k == Item(None, t, None)
      s == services[k]
  IN /\ Conflicts /\ Locked /\ k # 0 /\ s.host = hostname
     /\ CASE state # "probing" ->
               /\ net' = net \ Told({s}) /\ Probe({s.id}, FALSE)
               /\ UNCHANGED <<hostname, instance, services, left>>
          [] state = "probing" /\ s.inst # None ->
               /\ services' = [services EXCEPT ![k].inst = Mangle(@)]
               /\ left' = left \cup Told({s}) /\ Probe({s.id}, FALSE)
               /\ UNCHANGED <<hostname, instance, net>>
          [] state = "probing" /\ s.inst = None /\ instance # None ->
               /\ instance' = Mangle(instance)
               /\ left' = left \cup Told(NoInstance(services)) /\ RestartNoInstance
               /\ UNCHANGED <<hostname, services, net>>
          [] OTHER -> MangleHostname
     /\ UNCHANGED <<hosts, locked, queue, adds>>

OnService(i, t, h) ==
  \/ \E x \in Txts : ServiceAdd(i, t, h, x) \/ TxtSet(i, t, h, x)
  \/ \E j \in Insts \ {None} : InstanceNameSet(i, t, h, j)
  \/ ServiceRemove(i, t, h)

Next ==
  \/ \E i \in Insts, t \in Types, h \in KnownHosts : OnService(i, t, h)
  \/ ServiceRemoveAll
  \/ \E t \in Tasks : Return(t) \/ (\E n \in OwnNames : SendAndWait(t, <<"host", t, n>>))
       \/ (\E g \in Delegates, a \in Addrs : SendAndWait(t, <<"add", t, g, a>>))
  \/ \E i \in Defaults : Send(<<"inst", i>>) /\ UNCHANGED pend
  \/ \E g \in Delegates : UNCHANGED pend
       /\ (Send(<<"rem", g>>) \/ (\E a \in Addrs : Send(<<"addr", g, a>>)))
  \/ Execute \/ TxHandle \/ HostConflict \/ (\E t \in Types : SrvConflict(t))

Spec == Init /\ [][Next]_vars

\* The service task runs; a caller of the semaphore that is given is woken.
FairSpec == Spec /\ WF_vars(Execute) /\ \A t \in Tasks : SF_vars(Return(t))

-----------------------------------------------------------------------------
\* The number of results of at most n, at least one.
Limit(n, len) == IF n > len THEN len ELSE IF n = 0 /\ len > 0 THEN 1 ELSE n

\* _mdns_lookup_service: the services found; no service at all if
\* one of them is on a host without an address.
Lookup(i, t, n, self) ==
  LET hit(s) == /\ (s.host = hostname) <=> self
                /\ s.type = t /\ i \in {None, InstanceName(s)}
      all == SelectSeq(services, hit)
      got == SubSeq(all, 1, Limit(n, Len(all)))
      lost == ~self /\ \E s \in ToSet(got) :
                \A g \in ToSet(hosts) : g.name = s.host => g.addrs = {}
  IN IF lost THEN <<>> ELSE got

\* Pairs of services that share their name, type and host.
FullName(s) == <<InstanceName(s), s.type, s.host>>
Clashes ==
  {c \in ToSet(services) \X ToSet(services) : c[1].id < c[2].id /\ FullName(c[1]) = FullName(c[2])}
ClashingIds == {<<c[1].id, c[2].id>> : c \in Clashes}

\* The names that the present services have.
NamesOf == {<<s.id, InstanceName(s)>> : s \in ToSet(services)}

\* "Service already exists": adding a service never gives it a name that another
\* one of the type and host has, whatever was renamed before; two come to share
\* a name only when the name of one that exists changes.
AddsAreUnique == NamesOf \subseteq NamesOf' => ClashingIds' \subseteq ClashingIds

\* No two services have the same name, type and host at all.
NamesAreUnique == Clashes = {}

\* The network knows every service that is not on its way to be announced under
\* its present name, host and texts, and nothing else, except the records of
\* names given up without a goodbye (left) and services whose announcement was
\* dropped (dropped).
NetworkIsCurrent ==
  /\ \A s \in ToSet(services) : s.id \notin fresh \cup dropped => View(s, hostname, instance) \in net
  /\ \A r \in net \ left : \E s \in ToSet(services) :
       /\ r.id = s.id /\ r.name = InstanceName(s)
       /\ s.id \in fresh \cup dropped \/ r = View(s, hostname, instance)

\* No name is given up without a goodbye, and no announcement is dropped.
NothingIsLeft == left = {}
NothingIsDropped == dropped = {}

\* Services of the own host follow its name; a delegated service stays with
\* its host and goes with it.
ServicesFollowHosts ==
  \A s \in ToSet(services) : IF s.own THEN s.host = hostname ELSE s.host \in KnownHosts

\* CHANGELOG.md, "Allow for adding a delegated host with no address": a lookup
\* finds every service of the type on delegated hosts, and on the own host.
LookupFindsAll ==
  \A t \in Types, self \in BOOLEAN :
    ToSet(Lookup(None, t, MaxServices, self)) = {s \in ToSet(services) : s.type = t /\ (s.own <=> self)}

\* No call keeps the service lock when it returns.
LockIsFree == ~locked

Waiting(a) == a[1] \in {"host", "add"}

\* A call that waits, with no other waiting at that time, returns only when its
\* action was executed, and nothing is left in the semaphore for a later one.
ReturnsWhenDone ==
  \A t \in Tasks : pend = {t} /\ t \notin pend' => ~sema' /\ ~\E a \in ToSet(acts) : Waiting(a)

\* ... whoever else waits.
BlocksUntilDone ==
  [][\A t \in Tasks : t \in pend \ pend' => \A a \in ToSet(acts) : Waiting(a) => a[2] # t]_vars

\* ... and then it does return.
CallsReturn == \A t \in Tasks : t \in pend ~> t \notin pend
=============================================================================
