--------------------------- MODULE MdnsCollision ----------------------------
(***************************************************************************)
(* Several devices that run mdns.c and were given the same host name: what *)
(* each does with the probes, announcements and answers of the others      *)
(* (mdns_parse_packet), who wins (_mdns_check_a_collision and its          *)
(* siblings), and the name the loser takes (_mdns_mangle_name).            *)
(*                                                                         *)
(* Every device has one interface and one address; an address is its rank. *)
(* Packets of one sender arrive in order, those of different senders in    *)
(* any order.                                                              *)
(***************************************************************************)
EXTENDS Integers, Sequences, SequencesExt, FiniteSetsExt

CONSTANTS
    Devices,     \* addresses, numbers
    Base,        \* the host name they all start with: [words, suffix]
    Probes,      \* probes before a name is announced (3 in the code)
    Announces,   \* announcements (3 in the code)
    MaxLost,     \* bound on the packets the network loses
    MaxQueue     \* bound on the packets on their way between two devices

MdnsCollisionAssumption ==
    /\ Devices \subseteq Nat \ {0} /\ MaxQueue \in Nat \ {0}
    /\ Probes \in Nat \ {0} /\ Announces \in Nat \ {0} /\ MaxLost \in Nat

VARIABLES
    host,       \* _mdns_server->hostname of every device
    sent,       \* probes and announcements sent since the last restart
    wire,       \* wire[d][e]: packets from d to e, in order
    lost        \* number of packets lost

vars == <<host, sent, wire, lost>>

Running == Probes + Announces
ProbeRunning(d) == sent[d] < Probes

(***************************************************************************)
(* _mdns_mangle_name.  A name is what stands before its last dash and the  *)
(* number after it; suffix is None when there is no dash or no number.     *)
(***************************************************************************)

None == -1

Mangle(name) == [name EXCEPT !.suffix = IF @ = None THEN 2 ELSE @ + 1]

(***************************************************************************)
(* Who wins: 1 for them, -1 for us, 0 when there is nothing to decide.     *)
(***************************************************************************)

Sign(ours, theirs) == IF ours > theirs THEN -1 ELSE IF ours < theirs THEN 1 ELSE 0

\* _mdns_check_a_collision, _mdns_check_aaaa_collision: an address of 0 says
\* that the name is taken.
CheckAddress(ours, theirs) == IF theirs = 0 THEN 1 ELSE Sign(ours, theirs)

\* memcmp.
RECURSIVE CompareBytes(_, _)
CompareBytes(s, t) ==
    IF s = <<>> THEN 0
    ELSE IF s[1] # t[1] THEN Sign(s[1], t[1]) ELSE CompareBytes(Tail(s), Tail(t))

\* The longer data win; data of the same length are compared as bytes.
CheckBytes(ours, theirs) ==
    IF Len(ours) # Len(theirs) THEN Sign(Len(ours), Len(theirs)) ELSE CompareBytes(ours, theirs)

\* _mdns_check_srv_collision, on priority, weight, port and the target.
SrvData(s) == <<s.priority, s.weight, s.port, Len(s.host)>> \o s.host
CheckSrv(ours, theirs) == CheckBytes(SrvData(ours), SrvData(theirs))

\* append_one_txt_record_entry: an item is [key, value], value a sequence or
\* NoValue; the equals sign is Equals.
Equals == 0
NoValue == <<-1>>
TxtEntry(t) ==
    LET text == IF t.value = NoValue THEN t.key ELSE t.key \o <<Equals>> \o t.value
    IN <<Len(text)>> \o text
TxtData(txt) == IF txt = <<>> THEN <<0>> ELSE FlattenSeq([k \in DOMAIN txt |-> TxtEntry(txt[k])])

\* _mdns_check_txt_collision; an empty list is one byte on the wire.
CheckTxt(txt, data) ==
    IF Len(data) = 1 THEN IF txt = <<>> THEN 0 ELSE -1
    ELSE IF txt = <<>> THEN 1 ELSE CheckBytes(TxtData(txt), data)

\* _mdns_txt_items_count_get: a length reaches past the end.
RECURSIVE Overruns(_, _)
Overruns(data, i) ==
    /\ i <= Len(data) /\ data[i] # 0
    /\ i + data[i] > Len(data) \/ Overruns(data, i + 1 + data[i])

\* _mdns_txt_item_name_get_len.
KeyLen(part) ==
    LET at == {k \in DOMAIN part : part[k] = Equals} IN IF at = {} THEN Len(part) ELSE Min(at) - 1

\* The loop of _mdns_result_txt_create, from the i-th byte on: nothing is
\* returned when an entry reaches past the end.  After a key the equals sign
\* is skipped, whether or not there is one.
NoItems == [ok |-> FALSE, items |-> <<>>]
Prefixed(item, rest) == IF rest.ok THEN [rest EXCEPT !.items = <<item>> \o @] ELSE NoItems
RECURSIVE TxtFrom(_, _)
TxtFrom(data, i) ==
    IF i > Len(data) \/ data[i] = 0 THEN [ok |-> TRUE, items |-> <<>>]
    ELSE IF i + data[i] > Len(data) THEN NoItems
    ELSE LET part == SubSeq(data, i + 1, i + data[i])
             key == KeyLen(part)
         IN IF key = 0 THEN TxtFrom(data, i + 1 + Len(part))
            ELSE Prefixed([key |-> SubSeq(part, 1, key), value |-> SubSeq(part, key + 2, Len(part))],
                          TxtFrom(data, i + 1 + (IF key = Len(part) THEN key + 1 ELSE Len(part))))
TxtCreate(data) ==
    IF Len(data) = 1 \/ Overruns(data, 1) THEN <<>> ELSE TxtFrom(data, 1).items

(***************************************************************************)
(* The devices.                                                            *)
(***************************************************************************)

Others(d) == Devices \ {d}
Packet(d, kind) == [kind |-> kind, host |-> host[d], ip |-> d]
Room(d) == \A e \in Others(d) : Len(wire[d][e]) < MaxQueue

Sent(w, d, kind) == [w EXCEPT ![d] = [e \in Others(d) |-> Append(@[e], Packet(d, kind))]]

\* A probe asks for the host name and offers the address for it.
Probe(d) ==
    /\ ProbeRunning(d) /\ Room(d)
    /\ wire' = Sent(wire, d, "probe")
    /\ sent' = [sent EXCEPT ![d] = @ + 1]
    /\ UNCHANGED <<host, lost>>

Announce(d) ==
    /\ ~ProbeRunning(d) /\ sent[d] < Running /\ Room(d)
    /\ wire' = Sent(wire, d, "answer")
    /\ sent' = [sent EXCEPT ![d] = @ + 1]
    /\ UNCHANGED <<host, lost>>

\* Mutant of Lose: a device that is up does not probe again.
LoseProbingOnly(d) ==
    IF ProbeRunning(d)
      THEN host' = [host EXCEPT ![d] = Mangle(@)] /\ sent' = [sent EXCEPT ![d] = 0]
      ELSE UNCHANGED <<host, sent>>

\* They win: while the name is being probed another one is taken, and all
\* probing starts over; otherwise the name is probed again.
Lose(d) ==
    /\ host' = IF ProbeRunning(d) THEN [host EXCEPT ![d] = Mangle(@)] ELSE host
    /\ sent' = [sent EXCEPT ![d] = 0]

\* What the device at e makes of the next packet of d, an A or AAAA record.
\* A question about its own name is answered once probing is over, unless
\* the record of the packet wins.
Receive(d, e) ==
    /\ wire[d][e] # <<>> /\ UNCHANGED lost
    /\ LET p == Head(wire[d][e])
           rest == [wire EXCEPT ![d][e] = Tail(@)]
           ours == p.host = host[e]
           lose == ours /\ CheckAddress(e, p.ip) = 1
           reply == ours /\ ~lose /\ p.kind = "probe" /\ ~ProbeRunning(e)
       IN \/ lose /\ Lose(e) /\ wire' = rest
          \/ reply /\ Room(e) /\ wire' = Sent(rest, e, "answer") /\ UNCHANGED <<host, sent>>
          \/ ~lose /\ ~reply /\ wire' = rest /\ UNCHANGED <<host, sent>>

\* External: multicast over UDP.
Drop(d, e) ==
    /\ wire[d][e] # <<>> /\ lost < MaxLost
    /\ wire' = [wire EXCEPT ![d][e] = Tail(@)] /\ lost' = lost + 1
    /\ UNCHANGED <<host, sent>>

Init ==
    /\ host = [d \in Devices |-> Base] /\ sent = [d \in Devices |-> 0]
    /\ wire = [d \in Devices |-> [e \in Others(d) |-> <<>>]] /\ lost = 0

Next ==
    \E d \in Devices :
      \/ Probe(d)
      \/ Announce(d)
      \/ \E e \in Others(d) : Receive(d, e) \/ Drop(d, e)

Fairness == \A d \in Devices : WF_vars(Probe(d)) /\ WF_vars(Announce(d))
                                 /\ \A e \in Others(d) : WF_vars(Receive(d, e))

Spec == Init /\ [][Next]_vars
FairSpec == Spec /\ Fairness

(***************************************************************************)
(* Properties                                                              *)
(***************************************************************************)

Quiet == \A d \in Devices : sent[d] = Running /\ \A e \in Others(d) : wire[d][e] = <<>>

\* When every device is up and no packet is on its way, no two devices have
\* the same host name, although the network may lose fewer packets than there
\* are probes: nobody probed, announced or answered past the others.
NamesEndUpDifferent ==
    Quiet => \A d, e \in Devices : d # e => host[d] # host[e]

Renames(d) == IF host[d] = Base THEN 0
              ELSE IF Base.suffix = None THEN host[d].suffix - 1 ELSE host[d].suffix - Base.suffix

\* The device with the highest address keeps the name it was given, whatever
\* the order in which the packets arrive, and nobody is renamed more often
\* than there are devices ahead of it.
WinnerKeepsName ==
    /\ host[Max(Devices)] = Base
    /\ \A d \in Devices : Renames(d) <= Cardinality({e \in Devices : e > d})

\* The names settle.
NamesSettle == <>[](\A d, e \in Devices : d # e => host[d] # host[e])

\* The tie break: two devices that compare the same two records never both win
\* nor both lose.
Srvs == [priority : {0, 1}, weight : {0}, port : {0, 1, 2}, host : {<<1>>, <<2>>, <<1, 1>>}]
Txts == {<<>>} \cup UNION {[1..n -> [key : {<<1>>, <<2>>}, value : {NoValue, <<>>, <<1>>}]] : n \in 1..2}
TieBreakIsFair ==
    /\ \A a, b \in 1..3 : CheckAddress(a, b) = -CheckAddress(b, a)
    /\ \A a, b \in Srvs : CheckSrv(a, b) = -CheckSrv(b, a) /\ (CheckSrv(a, b) = 0 <=> a = b)
    /\ \A a, b \in Txts : CheckTxt(a, TxtData(b)) = -CheckTxt(b, TxtData(a))
                            /\ (CheckTxt(a, TxtData(b)) = 0 <=> a = b)

\* The items of a TXT record are read as they were written, if none but the
\* last is a key without an equals sign.
TxtIsReadBack ==
    \A t \in Txts : (\A k \in DOMAIN t : t[k].value = NoValue => k = Len(t)) =>
      LET shown == [k \in DOMAIN t |-> [t[k] EXCEPT !.value = IF @ = NoValue THEN <<>> ELSE @]]
      IN TxtCreate(TxtData(t)) = shown

=============================================================================
