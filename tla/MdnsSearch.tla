----------------------------- MODULE MdnsSearch -----------------------------
(***************************************************************************)
(* The life of a query in mdns: the task that asks for it, the timer that  *)
(* sends it again and ends it, the service task that owns the chain of     *)
(* searches, and the action queue between them.                            *)
(*                                                                         *)
(* What a search finds is in MdnsResults; here a received packet adds one  *)
(* result to any of the running searches.  The structure of a search is    *)
(* its address, which can be allocated again once it was freed.  The task  *)
(* receives and executes an action in one step (two in MdnsTx).            *)
(***************************************************************************)
EXTENDS Integers, Sequences, SequencesExt

CONSTANTS Searches,     \* addresses of search structures
          Async,        \* those of asynchronous queries
          MaxResults,   \* max_results argument
          Width,        \* values of the uint8_t that holds it
          Timeout, Resend,   \* timeout argument; 1000 ms
          Period, Start,     \* clock values (2^32 ms), and the first one
          QLen,         \* MDNS_ACTION_QUEUE_LEN
          MaxTicks, MaxRx, MaxQueries   \* bounds: time, packets, queries

SearchAssumption ==
  /\ Async \subseteq Searches /\ Timeout \in Nat \ {0}
  /\ {MaxResults, Resend, QLen, MaxTicks, MaxRx, MaxQueries, Start} \subseteq Nat
  /\ Width \in Nat \ {0} /\ Period \in Nat \ {0}

VARIABLES ticks,        \* time passed
          search,       \* the structures
          chain,        \* search_once
          acts,         \* action_queue
          scan,         \* position of the timer callback in the chain, 0: not running
          user,         \* what the task that owns the query does
          raced,        \* history: one was freed or ended while its end was in the queue
          rx, queries   \* counters of the bounds

vars == <<ticks, search, chain, acts, scan, user, raced, rx, queries>>

Now      == (Start + ticks) % Period
Unlocked == scan = 0
InChain(s) == s \in ToSet(chain)
Act(t, s) == <<t, s>>
Posted(t, s) == Act(t, s) \in ToSet(acts)
NoSearch  == "none"

Freed == [alive |-> FALSE, state |-> "off", started |-> 0, sent |-> 0, num |-> 0, sem |-> 0,
          since |-> 0, late |-> 0, early |-> FALSE]

Init ==
  /\ ticks = 0 /\ chain = <<>> /\ acts = <<>> /\ scan = 0 /\ rx = 0 /\ queries = 0 /\ raced = FALSE
  /\ search = [s \in Searches |-> Freed]
  /\ user = [s \in Searches |-> "idle"]

\* max_results is a uint8_t; 0 means no limit.
StoredMax == MaxResults % Width

\* _mdns_send_search_action, with no wait
Room == Len(acts) < QLen

\* mdns_query_generic and mdns_query_async_new: a full queue is an error.
Query(s) ==
  /\ user[s] = "idle" /\ queries < MaxQueries /\ queries' = queries + 1
  /\ ticks + Timeout < MaxTicks         \* bound: its time can pass
  /\ IF Room
     THEN /\ search' = [search EXCEPT ![s] = [Freed EXCEPT !.alive = TRUE, !.state = "init",
                                                           !.started = Now, !.since = ticks]]
          /\ acts' = Append(acts, Act("add", s))
          /\ user' = [user EXCEPT ![s] = "waiting"]
     ELSE UNCHANGED <<search, acts, user>>
  /\ UNCHANGED <<ticks, chain, scan, raced, rx>>

\* The semaphore was given: a synchronous query frees its search at once.
TakeResults(s) ==
  /\ user[s] = "waiting" /\ search[s].sem > 0
  /\ IF s \in Async
     THEN /\ search' = [search EXCEPT ![s].sem = @ - 1]
          /\ user' = [user EXCEPT ![s] = "ended"]
     ELSE /\ search' = [search EXCEPT ![s] = Freed]
          /\ user' = [user EXCEPT ![s] = "idle"]
  /\ UNCHANGED <<ticks, chain, acts, scan, raced, rx, queries>>

\* mdns_query_async_delete: of the structure only the state is looked at, which is
\* off from the timer's decision on, before its action has taken it from the chain.
AsyncDelete(s) ==
  /\ s \in Async /\ user[s] \in {"waiting", "ended"}
  /\ search[s].state = "off" /\ Unlocked
  /\ search' = [search EXCEPT ![s] = Freed]
  /\ user' = [user EXCEPT ![s] = "idle"]
  /\ raced' = (raced \/ Posted("end", s))
  /\ UNCHANGED <<ticks, chain, acts, scan, rx, queries>>

-----------------------------------------------------------------------------
\* _mdns_search_run: the timer goes through the chain under the lock.
ScanStart ==
  /\ Unlocked /\ chain # <<>> /\ scan' = 1
  /\ UNCHANGED <<ticks, search, chain, acts, user, raced, rx, queries>>

\* Mutant of Expired: a period early.
ExpiredAt(s) == search[s].state # "off" /\ Now >= (search[s].started + Timeout) % Period

\* now > (s->started_at + s->timeout), in 32 bits
Expired(s) == search[s].state # "off" /\ Now > (search[s].started + Timeout) % Period

\* Mutant of ScanExpired: the state is not put back when the queue is full.
ScanExpiredForgotten(s) ==
  /\ acts' = IF Room THEN Append(acts, Act("end", s)) ELSE acts
  /\ search' = [search EXCEPT ![s].state = "off"]

\* The end is posted, or tried again in the next period.
ScanExpired(s) ==
  /\ acts' = IF Room THEN Append(acts, Act("end", s)) ELSE acts
  /\ search' = [search EXCEPT ![s].state = IF Room THEN "off" ELSE "running",
                              ![s].early = ticks - search[s].since <= Timeout]

\* The query is posted to be sent; sent_at goes back when the queue is full.
ScanSend(s) ==
  /\ acts' = IF Room THEN Append(acts, Act("send", s)) ELSE acts
  /\ search' = [search EXCEPT ![s].state = "running",
                              ![s].sent = IF Room THEN Now ELSE (Now - Resend) % Period,
                              ![s].late = ticks - search[s].since]

IsDue(s) == CASE search[s].state = "init"    -> TRUE
              [] search[s].state = "running" -> (Now - search[s].sent) % Period > Resend
              [] OTHER -> FALSE

ScanStep ==
  /\ scan \in DOMAIN chain /\ scan' = scan + 1
  /\ LET s == chain[scan]
     IN IF Expired(s) THEN ScanExpired(s)
        ELSE IF IsDue(s) THEN ScanSend(s)
        ELSE UNCHANGED <<search, acts>>
  /\ UNCHANGED <<ticks, chain, user, raced, rx, queries>>

ScanEnd ==
  /\ scan > Len(chain) /\ scan' = 0
  /\ UNCHANGED <<ticks, search, chain, acts, user, raced, rx, queries>>

-----------------------------------------------------------------------------
\* _mdns_search_finish: off, out of the chain, semaphore given.
Finish(f, gone) ==
  [s \in Searches |-> IF s \in gone THEN [f[s] EXCEPT !.state = "off", !.sem = 1] ELSE f[s]]

\* Mutant of Detach: it stays in the chain.
DetachNothing(gone) == chain

\* queueDetach, for each of them.
Without(q, gone) ==
  LET kept[n \in 0 .. Len(q)] ==
        IF n = 0 THEN <<>> ELSE IF q[n] \in gone THEN kept[n - 1] ELSE Append(kept[n - 1], q[n])
  IN kept[Len(q)]

Detach(gone) == Without(chain, gone)

\* mdns_parse_packet: results for running searches, and
\* _mdns_search_finish_done if the packet is authoritative and well-formed, which
\* looks at the results only.
Parse ==
  \E hit \in SUBSET {s \in ToSet(chain) : search[s].state # "off"}, done \in BOOLEAN :
    LET found == [s \in Searches |-> IF s \in hit /\ (StoredMax = 0 \/ search[s].num < StoredMax)
                                     THEN [search[s] EXCEPT !.num = @ + 1] ELSE search[s]]
        full  == {s \in ToSet(chain) : done /\ StoredMax # 0 /\ found[s].num >= StoredMax}
    IN /\ search' = Finish(found, full) /\ chain' = Detach(full)
       /\ raced' = (raced \/ \E s \in full : Posted("end", s))

\* _mdns_execute_action; a search that is no longer active is not sent.
Execute ==
  /\ acts # <<>> /\ Unlocked
  /\ acts' = Tail(acts)
  /\ LET t == Head(acts)[1]
         s == Head(acts)[2]
     IN CASE t = "add"  -> chain' = <<s>> \o chain /\ UNCHANGED <<search, raced>>
          [] t = "send" -> UNCHANGED <<chain, search, raced>>
          [] t = "end"  -> chain' = Detach({s}) /\ search' = Finish(search, {s}) /\ UNCHANGED raced
          [] OTHER      -> Parse       \* "rx"
  /\ UNCHANGED <<ticks, scan, user, rx, queries>>

Receive ==
  /\ rx < MaxRx /\ rx' = rx + 1 /\ Room
  /\ acts' = Append(acts, Act("rx", NoSearch))
  /\ UNCHANGED <<ticks, search, chain, scan, user, raced, queries>>

Tick ==
  /\ ticks < MaxTicks /\ ticks' = ticks + 1
  /\ UNCHANGED <<search, chain, acts, scan, user, raced, rx, queries>>

Next ==
  \/ \E s \in Searches : Query(s) \/ TakeResults(s) \/ AsyncDelete(s)
  \/ ScanStart \/ ScanStep \/ ScanEnd \/ Execute \/ Receive \/ Tick

\* Time passes, the timer is periodic, the service task runs and gets the
\* mutex between two periods, and a task whose semaphore was given runs.
Spec == Init /\ [][Next]_vars
        /\ WF_vars(Tick) /\ WF_vars(ScanStart) /\ WF_vars(ScanStep \/ ScanEnd) /\ SF_vars(Execute)
        /\ \A s \in Searches : WF_vars(TakeResults(s))

-----------------------------------------------------------------------------
\* mdns_query_generic and mdns_query_async_delete free a search: nothing that
\* still uses it is left, neither the chain nor an action that will, as long as none
\* was freed (mdns.c:6512), or ended as full (mdns.c:4209), between the timer's
\* decision to end it and the action that does.
NobodyUsesFreed ==
  ~raced =>
    /\ \A s \in ToSet(chain) : search[s].alive
    /\ \A k \in DOMAIN acts : acts[k][1] \in {"add", "end"} => search[acts[k][2]].alive

\* The end of a search comes once, from the timer or from the parser, with the
\* same two exceptions.
EndsOnce ==
  ~raced =>
    \A s \in Searches :
      LET ends == {k \in DOMAIN acts : acts[k] = Act("end", s)}
      IN /\ \A j, k \in ends : j = k
         /\ search[s].sem = 1 => ends = {} /\ ~InChain(s) /\ Act("add", s) \notin ToSet(acts)

\* mdns.h, "time in milliseconds to wait for answers": a search is neither
\* ended by the timer before its time nor sent again after it.
TimeoutIsKept ==
  \A s \in Searches : ~search[s].early /\ search[s].late <= Timeout

\* mdns.h, "maximum results to be collected".
MaxIsKept == \A s \in Searches : MaxResults # 0 => search[s].num <= MaxResults

\* A query returns: the wait on its semaphore has no time limit.
QueryReturns == \A s \in Searches : user[s] = "waiting" ~> user[s] # "waiting"

-----------------------------------------------------------------------------
(* Inductive strengthening of TimeoutIsKept and MaxIsKept, for a clock     *)
(* that does not wrap: what a structure says of its query, at time t.      *)

Kinds == {"add", "send", "end", "rx"}

Structures ==
  [alive : BOOLEAN, state : {"off", "init", "running"}, started : Nat, sent : Nat, num : Nat,
   sem : 0 .. 1, since : Nat, late : Int, early : BOOLEAN]

\* An active search knows when it was started, and its limits are kept.
KeepsLimits(r, t) ==
  /\ r.state # "off" => r.started = (Start + r.since) % Period /\ r.since <= t
  /\ ~r.early /\ r.late <= Timeout
  /\ StoredMax # 0 => r.num <= StoredMax

KnownActs(a) == a \in Seq(ToSet(a)) /\ \A k \in DOMAIN a : a[k][1] \in Kinds

SearchInv ==
  /\ ticks \in 0 .. MaxTicks /\ KnownActs(acts)
  /\ search \in [Searches -> Structures]
  /\ \A s \in Searches : KeepsLimits(search[s], ticks)

-----------------------------------------------------------------------------
(* Inductive strengthening of NobodyUsesFreed and EndsOnce: until the first *)
(* race whatever may still be done to a search belongs to a task that      *)
(* waits for it.                                                           *)

\* A search is added once and ended once, and only searches are.
GoodActs(a) ==
  /\ \A k \in DOMAIN a : a[k] = Act(a[k][1], a[k][2]) /\ (a[k][1] # "rx" => a[k][2] \in Searches)
  /\ \A j, k \in DOMAIN a : a[j] = a[k] /\ a[k][1] \in {"add", "end"} => j = k

\* First it is to be added, then in the chain, and last to be ended, from when on
\* it is off.
UsedBySearch(s) ==
  /\ Posted("add", s) \/ Posted("end", s) \/ InChain(s) =>
       /\ user[s] = "waiting" /\ search[s].alive /\ search[s].sem = 0
       /\ search[s].state = "off" => Posted("end", s)
  /\ Posted("add", s) => ~Posted("end", s) /\ ~InChain(s)
  /\ Posted("end", s) => InChain(s) /\ search[s].state = "off"

SearchTypes ==
  /\ ticks \in 0 .. MaxTicks /\ KnownActs(acts) /\ chain \in Seq(Searches)
  /\ search \in [Searches -> Structures]
  /\ user \in [Searches -> {"idle", "waiting", "ended"}]

OwnersWait == SearchTypes /\ GoodActs(acts) /\ \A s \in Searches : UsedBySearch(s)

UseInv == raced \in BOOLEAN /\ (raced \/ OwnersWait)
=============================================================================
