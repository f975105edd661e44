---------------------------- MODULE MdnsResults ----------------------------
(***************************************************************************)
(* What one search of mdns collects from the records it receives, in any   *)
(* order and on several interfaces: _mdns_search_find_from decides which   *)
(* records are for it, the _mdns_search_result_add_ functions merge them.  *)
(* A record is one step; records are for the service of the search.        *)
(***************************************************************************)
EXTENDS Integers, Sequences, SequencesExt

CONSTANTS Type,         \* of the search: "PTR", "SRV", "TXT", "A" or "ANY"
          HasService,   \* is a service given? (an ANY search without one is for a host)
          Wanted,       \* the instance or host name it is for
          Netifs, Instances, Hosts, Ips, Txts, Ttls,
          MaxResults,          \* max_results, 0: no limit
          MaxRecords    \* bound on records

ResultsAssumption ==
  /\ Type \in {"PTR", "SRV", "TXT", "A", "ANY"} /\ HasService \in BOOLEAN /\ MaxResults \in Nat
  /\ Ttls \subseteq Nat /\ MaxRecords \in Nat

VARIABLES results,      \* search->result, the newest first
          seen,         \* history: addresses received, <<netif, host, ip>>
          records

vars == <<results, seen, records>>

None == "none"

Init == results = <<>> /\ seen = {} /\ records = 0

NewResult(n, t) == [netif |-> n, inst |-> None, host |-> None, txt |-> None, ips |-> {}, ttl |-> t]

\* The first result that satisfies P, 0: none.
Find(P(_)) == SelectInSeq(results, P)

HasRoom == MaxResults = 0 \/ Len(results) < MaxResults

\* Mutant of UpdateTtl: the new one.
UpdateTtlNew(r, t) == [r EXCEPT !.ttl = t]

\* _mdns_result_update_ttl
UpdateTtl(r, t) == [r EXCEPT !.ttl = IF @ < t THEN @ ELSE t]

\* Merge into result k, or add a new one while there is room.
Merge(k, old, new) ==
  IF k # 0 THEN [results EXCEPT ![k] = old]
  ELSE IF HasRoom THEN <<new>> \o results ELSE results

Record == records < MaxRecords /\ records' = records + 1

OfInstance(n, i) == Find(LAMBDA r : r.netif = n /\ r.inst = i)

\* _mdns_search_result_add_ptr
AddPtr(n, i, t) ==
  LET k == OfInstance(n, i)
  IN Merge(k, UpdateTtl(results[k], t), [NewResult(n, t) EXCEPT !.inst = i])

Ptr(n, i, t) ==
  /\ Record /\ Type = "PTR"
  /\ results' = AddPtr(n, i, t)
  /\ UNCHANGED seen

\* Is an SRV or TXT record of instance i for this search?
ForInstance(i, type) ==
  \/ Type = "PTR"
  \/ Type = "ANY" /\ HasService /\ i = Wanted
  \/ Type = type /\ i = Wanted

\* An instance that a PTR search does not know yet is added.
WithInstance(n, i, t) == IF OfInstance(n, i) = 0 THEN AddPtr(n, i, t) ELSE results

\* "assign host/port for this entry only if not previously set"
SetHost(r, h) == [r EXCEPT !.host = IF @ = None THEN h ELSE @]

SetIn(seq, n, i, Op(_)) ==
  LET k == SelectInSeq(seq, LAMBDA r : r.netif = n /\ r.inst = i)
  IN IF k = 0 THEN seq ELSE [seq EXCEPT ![k] = Op(@)]

\* Mutant of OfHost: the first result of the interface.
OfHostAny(n, h) == Find(LAMBDA r : r.netif = n)

OfHost(n, h) == Find(LAMBDA r : r.netif = n /\ r.host = h)

\* _mdns_search_result_add_srv
AddSrv(n, h, t) ==
  LET k == OfHost(n, h)
  IN Merge(k, UpdateTtl(results[k], t), [NewResult(n, t) EXCEPT !.host = h, !.inst = Wanted])

Srv(n, i, h, t) ==
  /\ Record /\ ForInstance(i, "SRV")
  /\ results' = IF Type = "PTR" THEN SetIn(WithInstance(n, i, t), n, i, LAMBDA r : SetHost(r, h))
                ELSE AddSrv(n, h, t)
  /\ UNCHANGED seen

\* _mdns_search_result_add_txt
AddTxt(n, v, t) ==
  LET k == Find(LAMBDA r : r.netif = n)
  IN IF k # 0 /\ (k # 0 => results[k].txt # None) THEN results
     ELSE Merge(k, UpdateTtl([results[k] EXCEPT !.txt = v], t), [NewResult(n, t) EXCEPT !.txt = v])

Txt(n, i, v, t) ==
  /\ Record /\ ForInstance(i, "TXT")
  /\ results' = IF Type = "PTR"
                THEN SetIn(WithInstance(n, i, t), n, i, LAMBDA r : [r EXCEPT !.txt = IF @ = None THEN v ELSE @])
                ELSE AddTxt(n, v, t)
  /\ UNCHANGED seen

\* _mdns_search_result_add_ip: for a host the first result of the interface,
\* otherwise the first with the host's name.
Ip(n, h, a, t) ==
  LET byHost == OfHost(n, h)
      byIf   == Find(LAMBDA r : r.netif = n)
      add(k) == UpdateTtl([results[k] EXCEPT !.ips = @ \cup {a}], t)
  IN /\ Record
     /\ CASE Type \in {"PTR", "SRV"} /\ byHost # 0 -> results' = [results EXCEPT ![byHost] = add(byHost)]
          [] Type = "A" \/ (Type = "ANY" /\ ~HasService) ->
               h = Wanted /\ results' = Merge(byIf, add(byIf), [NewResult(n, t) EXCEPT !.host = h, !.ips = {a}])
          [] OTHER -> UNCHANGED results
     /\ seen' = seen \cup {<<n, h, a>>}

Next ==
  \E n \in Netifs, t \in Ttls :
    \/ \E i \in Instances : Ptr(n, i, t)
    \/ \E i \in Instances, h \in Hosts : Srv(n, i, h, t)
    \/ \E i \in Instances, v \in Txts : Txt(n, i, v, t)
    \/ \E h \in Hosts, a \in Ips : Ip(n, h, a, t)

Spec == Init /\ [][Next]_vars

\* _mdns_create_search_packet: instances sent as known answers.
Known(n) == {k \in DOMAIN results : /\ Type = "PTR" /\ results[k].netif = n
                                    /\ results[k].inst # None /\ results[k].host # None
                                    /\ results[k].ips # {}}

-----------------------------------------------------------------------------
Key(r) == CASE Type = "PTR" -> <<r.netif, r.inst>>
            [] Type = "SRV" -> <<r.netif, r.host>>
            [] OTHER        -> <<r.netif>>

\* Records of one instance (or host) on one interface end up in one result,
\* whatever their order, and no more than max_results are collected.
OneResultPerKey ==
  /\ \A j, k \in DOMAIN results : j # k => Key(results[j]) # Key(results[k])
  /\ MaxResults # 0 => Len(results) <= MaxResults

\* Every address of a result was received for the host of that result on its
\* interface, also when the instance moves to another host.
AddressesAreOfHost ==
  \A k \in DOMAIN results : \A a \in results[k].ips :
    <<results[k].netif, results[k].host, a>> \in seen

\* What was collected stays: results, hosts, texts and addresses are not
\* replaced, and the time to live is the least received.
NothingIsReplaced ==
  [][LET new == Len(results') - Len(results)
     IN /\ new >= 0
        /\ \A k \in DOMAIN results :
             LET r == results[k]
                 s == results'[k + new]
             IN /\ s.netif = r.netif /\ s.inst = r.inst /\ s.ttl <= r.ttl /\ r.ips \subseteq s.ips
                /\ s.host \in {r.host} \cup (IF r.host = None THEN Hosts ELSE {})
                /\ r.txt # None => s.txt = r.txt]_vars

\* mdns.h, addr: "linked list of IP addresses found": results on one host have
\* the same addresses, so that all of them become known answers.
SameHostSameAddresses ==
  \A n \in Netifs : \A j \in Known(n), k \in DOMAIN results :
    results[k].netif = n /\ results[k].host = results[j].host => results[k].ips = results[j].ips
=============================================================================
