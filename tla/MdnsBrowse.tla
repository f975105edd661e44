----------------------------- MODULE MdnsBrowse -----------------------------
(***************************************************************************)
(* Browsing in mdns: one browse for a service type, started and stopped by *)
(* the application through the action queue, the results that received     *)
(* packets add to it, and the actions that report changed results.         *)
(*                                                                         *)
(* The service task executes actions with the service lock held; the lock  *)
(* is a FreeRTOS mutex that its holder cannot take again.  A packet has up *)
(* to two records, chosen when it is parsed.  Allocations succeed.         *)
(***************************************************************************)
EXTENDS Integers, Sequences, SequencesExt

CONSTANTS Instances, Hosts, Ips, Txts, Ttls,   \* Ttls: 0 is a goodbye
          QLen,         \* MDNS_ACTION_QUEUE_LEN
          MaxRx, MaxCalls   \* bounds on packets and on calls of the application

BrowseAssumption ==
  Ttls \subseteq Nat /\ {QLen, MaxRx, MaxCalls} \subseteq Nat

VARIABLES active,       \* is the browse in the chain?
          results,      \* browse->result; history in each: what of ips is of
                        \* another host than it names now
          acts,         \* action_queue; <<"sync", S>> reports the results of instances S
          taken,        \* the action the task has received
          stuck,        \* the task waits for the lock it holds
          shown,        \* history: what the application was last told of an instance
          unsaid,       \* history: instances whose report found the queue full
          seen,         \* history: addresses received, <<host, ip>>
          rx, calls     \* counters of the bounds

vars == <<active, results, acts, taken, stuck, shown, unsaid, seen, rx, calls>>

None == "none"
NoAct == <<None, {}>>

Init ==
  /\ active = FALSE /\ results = <<>> /\ acts = <<>> /\ taken = NoAct /\ stuck = FALSE
  /\ shown = [i \in Instances |-> <<>>] /\ unsaid = {} /\ seen = {} /\ rx = 0 /\ calls = 0

Room == Len(acts) < QLen

\* mdns_browse_new, mdns_browse_delete
Call(what) ==
  /\ calls < MaxCalls /\ calls' = calls + 1 /\ Room
  /\ acts' = Append(acts, <<what, {}>>)
  /\ UNCHANGED <<active, results, taken, stuck, shown, unsaid, seen, rx>>

Receive ==
  /\ rx < MaxRx /\ rx' = rx + 1 /\ Room
  /\ acts' = Append(acts, <<"rx", {}>>)
  /\ UNCHANGED <<active, results, taken, stuck, shown, unsaid, seen, calls>>

-----------------------------------------------------------------------------
(* Records.  A parse state has the results and the instances to report.    *)

Index(res, i) == SelectInSeq(res, LAMBDA r : r.inst = i)

\* 0 is taken over and replaced; otherwise _mdns_result_update_ttl.
NewTtl(r, t) == IF r.ttl = 0 \/ t < r.ttl THEN t ELSE r.ttl

\* A new result is reported.
AddResult(st, r) == [res |-> <<r>> \o st.res, sync |-> st.sync \cup {r.inst}]

Changed(st, k, r, report) ==
  [res |-> [st.res EXCEPT ![k] = r], sync |-> IF report THEN st.sync \cup {r.inst} ELSE st.sync]

\* _mdns_copy_address_in_previous_result
CopyAddress(res, r) ==
  LET S == {k \in DOMAIN res : res[k].host = r.host /\ res[k].ips # {}}
      k == Min(S)
  IN IF r.ips # {} \/ S = {} THEN r ELSE [r EXCEPT !.ips = res[k].ips, !.other = res[k].other]

NewResult(i, t) == [inst |-> i, host |-> None, txt |-> None, ips |-> {}, other |-> {}, ttl |-> t]

\* It is on another host now; the addresses it has stay.
NewHost(res, r, h) ==
  IF r.host = h THEN r ELSE CopyAddress(res, [r EXCEPT !.host = h, !.other = r.ips])

\* Mutant of Srv: a change of the host is not reported.
SrvQuiet(st, i, h, t) ==
  LET k == Index(st.res, i)
      r == st.res[k]
      s == NewHost(st.res, [r EXCEPT !.ttl = NewTtl(r, t)], h)
  IN IF k = 0 THEN AddResult(st, [NewResult(i, t) EXCEPT !.host = h])
     ELSE Changed(st, k, s, s.ttl # r.ttl)

\* _mdns_browse_result_add_srv
Srv(st, i, h, t) ==
  LET k == Index(st.res, i)
      r == st.res[k]
      s == NewHost(st.res, [r EXCEPT !.ttl = NewTtl(r, t)], h)
  IN IF k = 0 THEN AddResult(st, [NewResult(i, t) EXCEPT !.host = h])
     ELSE Changed(st, k, s, s.host # r.host \/ s.ttl # r.ttl)

\* _mdns_browse_result_add_txt: a first text is not a change.
Txt(st, i, v, t) ==
  LET k == Index(st.res, i)
      r == st.res[k]
      s == [r EXCEPT !.txt = v, !.ttl = NewTtl(r, t)]
  IN IF k = 0 THEN AddResult(st, [NewResult(i, t) EXCEPT !.txt = v])
     ELSE Changed(st, k, s, r.txt \notin {None, v} \/ s.ttl # r.ttl)

LacksAddress(r, h, a) == r.host = h /\ a \notin r.ips

\* _mdns_browse_result_add_ip: the first result on the host that lacks it.
Ip(st, h, a, t) ==
  LET k == SelectInSeq(st.res, LAMBDA r : LacksAddress(r, h, a))
  IN IF k = 0 THEN st
     ELSE Changed(st, k, [st.res[k] EXCEPT !.ips = @ \cup {a}, !.ttl = NewTtl(st.res[k], t)], TRUE)

\* The records a packet may have.
Records ==
  {<<"srv", i, h, t>> : i \in Instances, h \in Hosts, t \in Ttls}
    \cup {<<"txt", i, v, t>> : i \in Instances, v \in Txts, t \in Ttls}
    \cup {<<"ip", h, a, t>> : h \in Hosts, a \in Ips, t \in Ttls} \cup {<<"skip">>}

Apply(st, rec) ==
  CASE rec[1] = "srv" -> Srv(st, rec[2], rec[3], rec[4])
    [] rec[1] = "txt" -> Txt(st, rec[2], rec[3], rec[4])
    [] rec[1] = "ip"  -> Ip(st, rec[2], rec[3], rec[4])
    [] OTHER -> st

\* mdns_parse_packet; without room the report is lost.
Parse ==
  \E one, two \in Records :
    LET st == Apply(Apply([res |-> results, sync |-> {}], one), two)
    IN /\ results' = IF active THEN st.res ELSE results
       /\ acts' = IF active /\ st.sync # {} /\ Room THEN Append(acts, <<"sync", st.sync>>) ELSE acts
       /\ unsaid' = unsaid \cup IF active /\ ~Room THEN st.sync ELSE {}
       /\ seen' = seen \cup {<<rec[2], rec[3]>> : rec \in {q \in {one, two} : q[1] = "ip"}}
       /\ UNCHANGED <<active, shown, stuck>>

\* _mdns_browse_sync: tells the application; a result that says goodbye is
\* freed by mdns_query_results_free, which takes the lock.
Sync(S) ==
  LET bye == {k \in DOMAIN results : results[k].inst \in S /\ results[k].ttl = 0}
  IN /\ shown' = [i \in Instances |-> LET k == Index(results, i)
                                      IN IF i \in S /\ k # 0 THEN <<results[k]>> ELSE shown[i]]
     /\ stuck' = (bye # {}) /\ unsaid' = unsaid \ S
     /\ UNCHANGED <<active, results, acts, seen>>

\* _mdns_browse_finish: frees the browse, and its results under the lock.
Finish ==
  /\ stuck' = (active /\ results # <<>>)
  /\ active' = FALSE /\ results' = <<>> /\ unsaid' = {}
  /\ UNCHANGED <<acts, shown, seen>>

\* _mdns_browse_add: a browse for the type may already be there.
Add ==
  /\ active' = TRUE
  /\ UNCHANGED <<results, acts, stuck, shown, unsaid, seen>>

\* _mdns_service_task: receives without the lock ...
Take ==
  /\ taken = NoAct /\ acts # <<>>
  /\ taken' = Head(acts) /\ acts' = Tail(acts)
  /\ UNCHANGED <<active, results, stuck, shown, unsaid, seen, rx, calls>>

\* ... and executes with it.
Execute ==
  /\ taken # NoAct /\ ~stuck /\ taken' = NoAct
  /\ CASE taken[1] = "add"  -> Add
       [] taken[1] = "end"  -> Finish
       [] taken[1] = "rx"   -> Parse
       [] taken[1] = "sync" -> Sync(taken[2])
  /\ UNCHANGED <<rx, calls>>

Next == Call("add") \/ Call("end") \/ Receive \/ Take \/ Execute

Spec == Init /\ [][Next]_vars

-----------------------------------------------------------------------------
Pending == Append(acts, taken)
ToReport(i) == \E k \in DOMAIN Pending : Pending[k][1] = "sync" /\ i \in Pending[k][2]

\* Records of an instance end up in one result, whatever comes first.
OneResultPerInstance ==
  \A j, k \in DOMAIN results : results[j].inst = results[k].inst => j = k

\* Every address of a result was received for its host, but for those it, or the
\* result they were copied from, already had when it was told of another host
\* (mdns.c:7450).
AddressesAreOfHost ==
  \A k \in DOMAIN results : \A a \in results[k].ips \ results[k].other :
    <<results[k].host, a>> \in seen

\* The application knows the host, the addresses and the time to live of every
\* result unless a report is on its way, or found the action queue full and no
\* other report of that instance has been made since.
ChangesAreReported ==
  \A k \in DOMAIN results :
    LET r == results[k]
    IN ToReport(r.inst) \/ r.inst \in unsaid \/ stuck
       \/ \E s \in ToSet(shown[r.inst]) : s.host = r.host /\ s.ips = r.ips /\ s.ttl = r.ttl

\* mdns.h, notifier: "called when the browsing service changed": the same for
\* the text.
TextIsReported ==
  \A k \in DOMAIN results :
    LET r == results[k]
    IN ToReport(r.inst) \/ stuck \/ \E s \in ToSet(shown[r.inst]) : s.txt = r.txt

\* mdns.h, "Stop the `_service._proto` browse": the task goes on, without
\* waiting for itself.
NeverStuck == ~stuck
=============================================================================
