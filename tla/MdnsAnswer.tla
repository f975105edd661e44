----------------------------- MODULE MdnsAnswer -----------------------------
(***************************************************************************)
(* How the mdns responder answers a query: mdns_parse_packet collects the  *)
(* questions for our names and strikes those whose answers the querier     *)
(* lists as known, _mdns_create_answer_from_parsed_packet builds the       *)
(* reply.  A query marked distributed may be continued by packets with     *)
(* more known answers, which strike answers of the scheduled reply.        *)
(*                                                                         *)
(* A name is a record [host, type, sub]: type None is a host name, sub is  *)
(* a subtype in the place of the instance.  Known answers agree with our   *)
(* records (conflicts are in MdnsPcb) and come once.  Allocations succeed. *)
(***************************************************************************)
EXTENDS Integers, Sequences, SequencesExt, FiniteSets

CONSTANTS Types, Insts,     \* service types; instances ("none": not set)
          Delegated,        \* delegated host names
          QTypes,           \* types of questions: PTR, SRV, TXT, A, ANY, "SD" (discovery)
          MaxServices, MaxQuestions, MaxRecords

AnswerAssumption ==
  /\ QTypes \subseteq {"PTR", "SRV", "TXT", "A", "ANY", "SD"}
  /\ {MaxServices, MaxQuestions, MaxRecords} \subseteq Nat

VARIABLES services,     \* _mdns_server->services
          dist,         \* parsed_packet->distributed
          questions,    \* parsed_packet->questions, the newest first
          discovery, probe,
          known,        \* parsed_packet->records
          phase,        \* "questions", "records", "scheduled" or "sent"
          packet,       \* the reply; <<>>: none
          asked, heard  \* history: questions and known answers of the query

vars == <<services, dist, questions, discovery, probe, known, phase, packet, asked, heard>>

None == "none"
Self == "self"
Dflt == "dflt"          \* _mdns_get_default_instance_name

SrvItem == [type : Types, inst : Insts, host : {Self} \cup Delegated, sub : BOOLEAN]

InstanceName(s) == IF s.inst = None THEN Dflt ELSE s.inst

Init ==
  /\ services \in UNION {[1..n -> SrvItem] : n \in 1..MaxServices}
  /\ \A j, k \in DOMAIN services : j # k /\ services[j].type = services[k].type
       => InstanceName(services[j]) # InstanceName(services[k])
  /\ dist \in BOOLEAN
  /\ questions = <<>> /\ discovery = FALSE /\ probe = FALSE /\ known = <<>>
  /\ phase = "questions" /\ packet = <<>> /\ asked = {} /\ heard = {}

-----------------------------------------------------------------------------
(* Names.  Items are indices of services, 0: none.                         *)

ServiceItem(t) == SelectInSeq(services, LAMBDA s : s.type = t)

ServiceItemInstance(h, t) ==
  IF h = None THEN ServiceItem(t)
  ELSE SelectInSeq(services, LAMBDA s : s.type = t /\ InstanceName(s) = h)

NameIsOurs(n) ==
  CASE n.type = None -> n.host \in {Self} \cup Delegated
    [] n.sub -> \E s \in ToSet(services) : s.type = n.type /\ s.sub
    [] OTHER -> ServiceItemInstance(n.host, n.type) # 0

InstNames == [host : (Insts \cup {Dflt}) \ {None}, type : Types, sub : {FALSE}]
TypeNames == [host : {None}, type : Types, sub : BOOLEAN]
HostNames == [host : {Self} \cup Delegated, type : {None}, sub : {FALSE}]

\* The names that questions of a type are for.
QNames(rt) ==
  CASE rt = "PTR" -> TypeNames
    [] rt = "A"   -> HostNames
    [] rt = "ANY" -> InstNames \cup HostNames \cup {n \in TypeNames : ~n.sub}
    [] OTHER      -> InstNames

Question(rt, n) ==
  /\ phase = "questions" /\ Cardinality(asked) < MaxQuestions /\ NameIsOurs(n)
  /\ LET q == [rt |-> rt, host |-> n.host, type |-> n.type, sub |-> n.sub]
     IN q \notin asked /\ questions' = <<q>> \o questions /\ asked' = asked \cup {q}
  /\ probe' = (probe \/ (rt = "ANY" /\ n.host # None))
  /\ UNCHANGED <<services, dist, discovery, known, phase, packet, heard>>

\* One question for every service.
Discovery ==
  /\ phase = "questions" /\ Cardinality(asked) < MaxQuestions /\ ~discovery
  /\ discovery' = TRUE
  /\ LET sd(s) == [rt |-> "SD", host |-> None, type |-> s.type, sub |-> FALSE]
     IN /\ questions' = Reverse([k \in DOMAIN services |-> sd(services[k])]) \o questions
        /\ asked' = asked \cup {sd(s) : s \in ToSet(services)}
  /\ UNCHANGED <<services, dist, probe, known, phase, packet, heard>>

EndQuestions ==
  /\ phase = "questions" /\ asked # {} /\ phase' = "records"
  /\ UNCHANGED <<services, dist, questions, discovery, probe, known, packet, asked, heard>>

-----------------------------------------------------------------------------
(* Known answers                                                           *)


\* k is the item of the service (not used for addresses).
QuestionMatches(q, rt, k) ==
  /\ q.rt = rt
  /\ CASE rt = "A" -> TRUE
       [] rt \in {"PTR", "SD"} -> q.type = services[k].type /\ services[k].inst \in {None, q.host}
       [] OTHER -> q.type = services[k].type /\ q.host = InstanceName(services[k])

RemoveQuestion(rt, k) ==
  LET j == SelectInSeq(questions, LAMBDA q : QuestionMatches(q, rt, k))
  IN questions' = IF j = 0 THEN questions ELSE RemoveAt(questions, j)

\* From the scheduled packets that are distributed.
RemoveScheduled(rt, k) ==
  packet' = [j \in DOMAIN packet |->
              [packet[j] EXCEPT !.ans = IF packet[j].dist
                                        THEN {a \in @ : ~(a.rt = rt /\ a.srv = k)} ELSE @]]

\* A PTR record for instance h (None: a type, the answer to a discovery).
KnownPtr(h, t, high, disc) ==
  LET k == ServiceItemInstance(h, t)
  IN /\ k # 0 /\ (disc => discovery /\ h = None)
     /\ CASE disc -> RemoveQuestion("SD", k) /\ UNCHANGED packet
          [] ~disc /\ questions # <<>> /\ ~probe -> RemoveQuestion("PTR", k) /\ UNCHANGED packet
          [] OTHER -> UNCHANGED questions /\ IF high THEN RemoveScheduled("PTR", k) ELSE UNCHANGED packet
     /\ known' = <<[host |-> h, type |-> t, high |-> high]>> \o known

\* SRV and TXT records; the item is the first of the type.  The time to live
\* of a SRV record does not matter when more packets follow.
KnownSrvTxt(rt, t, high) ==
  LET k == ServiceItem(t)
  IN /\ UNCHANGED known
     /\ CASE questions # <<>> -> RemoveQuestion(rt, k) /\ UNCHANGED packet
          [] OTHER -> /\ UNCHANGED questions
                      /\ IF high \/ (rt = "SRV" /\ dist) THEN RemoveScheduled(rt, k) ELSE UNCHANGED packet

KnownA(high) ==
  /\ UNCHANGED known
  /\ CASE questions # <<>> -> RemoveQuestion("A", 0) /\ UNCHANGED packet
       [] OTHER -> UNCHANGED questions /\ IF high THEN RemoveScheduled("A", 0) ELSE UNCHANGED packet

\* The record of type rt for name n is known; high: for more than half its life.
KnownAnswer(rt, n, high) ==
  /\ phase = "records" /\ Cardinality(heard) < MaxRecords /\ NameIsOurs(n)
  /\ \A r \in heard : <<r[1], r[2]>> # <<rt, n>>
  /\ heard' = heard \cup {<<rt, n, high>>}
  /\ CASE rt = "PTR" -> KnownPtr(n.host, n.type, high, FALSE)
       [] rt = "SD"  -> KnownPtr(None, n.type, high, TRUE)
       [] rt = "A"   -> ~probe /\ KnownA(high)
       [] OTHER      -> ~probe /\ KnownSrvTxt(rt, n.type, high)
  /\ UNCHANGED <<services, dist, discovery, probe, phase, asked>>

-----------------------------------------------------------------------------
(* The reply                                                               *)

Answer(rt, k, h) == [rt |-> rt, srv |-> k, host |-> h]

\* _mdns_create_answer_from_service; an A answer stands for A and AAAA.
FromService(k, q, shared) ==
  LET away == services[k].host # Self
      addr == {Answer("A", k, services[k].host)}
      data == {Answer("SRV", k, None), Answer("TXT", k, None)}
      add  == (IF away THEN data ELSE {}) \cup (IF away \/ shared THEN addr ELSE {})
  IN CASE q.rt \in {"PTR", "ANY"} -> [ans |-> {Answer("PTR", k, None)} \cup ((data \cup addr) \ add), add |-> add]
       [] q.rt = "SRV" -> [ans |-> {Answer("SRV", k, None)}, add |-> addr]
       [] q.rt = "TXT" -> [ans |-> {Answer("TXT", k, None)}, add |-> {}]
       [] q.rt = "SD"  -> [ans |-> {Answer("SD", k, None)}, add |-> {}]

MatchesPtrQuestion(s, q) ==
  s.type = q.type /\ IF q.sub THEN s.sub ELSE q.host \in {None, InstanceName(s)}

IsKnown(s) ==
  \E r \in ToSet(known) : r.high /\ r.type = s.type
    /\ IF s.inst = None THEN r.host = None ELSE r.host = s.inst

Shared(q) == q.rt \in {"PTR", "SD"} \/ ~probe

\* _mdns_append_host_list: skips the head of the host list, appends its end.
HostList(hosts) == {Self} \cup (IF hosts = <<>> THEN {} ELSE ToSet(Tail(hosts)) \cup {None})

\* The items that answer q and what they add.
Items(q) ==
  IF q.rt \in {"SRV", "TXT"} THEN {ServiceItemInstance(q.host, q.type)}
  ELSE {k \in DOMAIN services : MatchesPtrQuestion(services[k], q) /\ ~IsKnown(services[k])}

AnswersTo(q) ==
  IF q.type # None
  THEN [ans |-> UNION {FromService(k, q, Shared(q)).ans : k \in Items(q)},
        add |-> UNION {FromService(k, q, Shared(q)).add : k \in Items(q)}]
  ELSE [ans |-> IF q.rt = "A" THEN {Answer("A", 0, q.host)}
                ELSE {Answer("A", 0, h) : h \in HostList(SetToSeq(Delegated))},
        add |-> {}]

\* port: the query came from the mDNS port; other queriers get their question
\* back.  A reply is sent at once when the last question handled is not shared.
Reply(port) ==
  /\ phase = "records"
  /\ LET rs == [j \in DOMAIN questions |-> AnswersTo(questions[j])]
         p == [ans |-> UNION {r.ans : r \in ToSet(rs)}, add |-> UNION {r.add : r \in ToSet(rs)},
               dist |-> dist, repeat |-> ~port /\ \E q \in ToSet(questions) : q.rt \in {"ANY", "A"}]
         made == questions # <<>> /\ \E r \in ToSet(rs) : r.ans # {}
     IN IF made
        THEN packet' = <<p>> /\ phase' = IF Shared(Last(questions)) THEN "scheduled" ELSE "sent"
        ELSE UNCHANGED packet /\ phase' = IF packet = <<>> THEN "sent" ELSE "scheduled"
  /\ UNCHANGED <<services, dist, questions, discovery, probe, known, asked, heard>>

\* The next packet of a distributed query has known answers only.
Continue ==
  /\ phase = "scheduled" /\ dist /\ phase' = "records" /\ dist' \in BOOLEAN
  /\ questions' = <<>> /\ discovery' = FALSE /\ probe' = FALSE /\ known' = <<>>
  /\ UNCHANGED <<services, packet, asked, heard>>

Send ==
  /\ phase = "scheduled" /\ phase' = "sent"
  /\ UNCHANGED <<services, dist, questions, discovery, probe, known, packet, asked, heard>>

Next ==
  \/ \E rt \in QTypes \ {"SD"} : \E n \in QNames(rt) : Question(rt, n)
  \/ "SD" \in QTypes /\ Discovery
  \/ EndQuestions \/ (\E port \in BOOLEAN : Reply(port)) \/ Continue \/ Send
  \/ \E rt \in QTypes \ {"ANY"}, high \in BOOLEAN :
       \E n \in CASE rt = "SD" -> {m \in TypeNames : ~m.sub} [] rt = "A" -> HostNames [] OTHER -> InstNames :
         KnownAnswer(rt, n, high)

Spec == Init /\ [][Next]_vars

-----------------------------------------------------------------------------
Sent == IF packet = <<>> THEN {} ELSE packet[1].ans \cup packet[1].add

NameOf(s) == [host |-> InstanceName(s), type |-> s.type, sub |-> FALSE]

\* Is the record of type rt of service s known to the querier?
Heard(rt, s) == \E high \in BOOLEAN : <<rt, NameOf(s), high>> \in heard /\ (rt = "PTR" => high)

\* The records that question q asks service k for.
Asks(q, rt, k) ==
  CASE rt = "PTR" -> q.rt \in {"PTR", "ANY"} /\ q.type # None /\ MatchesPtrQuestion(services[k], q)
    [] rt \in {"SRV", "TXT"} -> q.rt = rt /\ q.type = services[k].type /\ q.host = InstanceName(services[k])

\* Known answers that are taken for record rt of service k although they are others:
\* SRV and TXT of any instance for those of the first one of the type (mdns.c:3810);
\* a PTR record, however old, of a service without an instance name for the answer to
\* all that a PTR question asks for (mdns.c:3873); and the type itself, known from a
\* discovery, for the PTR record of such a service (mdns.c:1902).
TakenForIt(q, rt, k) ==
  LET t == services[k].type
  IN \/ rt \in {"SRV", "TXT"} /\ k = ServiceItem(t) /\ \E r \in heard : r[1] = rt /\ r[2].type = t
     \/ rt = "PTR" /\ q.rt = "PTR" /\ \E r \in heard : r[1] = "PTR" /\ r[2].type = t /\ r[2].host = Dflt
     \/ rt = "PTR" /\ services[k].inst = None /\ \E r \in heard : r[1] = "SD" /\ r[2].type = t /\ r[3]


\* No PTR record the querier knows is in the answers, even when it is
\* listed in a later packet of the query.  Of a service without an instance
\* name only the answers to one PTR question are struck: an ANY question, or one
\* for a subtype, brings it again (mdns.c:1900).
KnownIsNotRepeated ==
  phase = "sent" /\ packet # <<>> =>
    \A a \in packet[1].ans : a.rt = "PTR" =>
      ~Heard("PTR", services[a.srv])
        \/ (services[a.srv].inst = None /\ \E q \in asked : q.rt = "ANY" \/ q.sub)

\* mdns.h, mdns_delegate_hostname_add: "A/AAAA queries will be replied for the
\* hostname": an address asked for is sent unless an address is known, which is
\* taken for that of any host (mdns.c:3370); asked for any record, the newest
\* delegated host is left out (mdns.c:2056).
HostsAreAnswered ==
  phase = "sent" =>
    \A q \in asked : q.type = None =>
      \/ \E a \in Sent : a.rt = "A" /\ a.host = q.host
      \/ \E r \in heard : r[1] = "A"
      \/ q.rt = "ANY" /\ q.host = Head(SetToSeq(Delegated))

\* The same without exemptions.
OnlyKnownIsOmitted ==
  phase = "sent" =>
    \A q \in asked : \A rt \in {"PTR", "SRV", "TXT"}, k \in DOMAIN services :
      Asks(q, rt, k) => Heard(rt, services[k]) \/ \E a \in Sent : a.rt = rt /\ a.srv = k
AddressesAreSent ==
  phase = "sent" =>
    \A q \in asked : q.type = None =>
      (\E a \in Sent : a.rt = "A" /\ a.host = q.host) \/ \E r \in heard : r[1] = "A" /\ r[2].host = q.host
=============================================================================
