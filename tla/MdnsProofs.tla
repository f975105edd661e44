----------------------------- MODULE MdnsProofs -----------------------------
(***************************************************************************)
(* Theorems of MdnsSearch and MdnsLife, for every value of their constants:*)
(* nobody uses a search that was freed, each ends once, and the limits of  *)
(* a query are kept; the server frees each of its objects once and leaves  *)
(* none.  A list of the code is a sequence; what taking elements out of    *)
(* one leaves is proved first.                                             *)
(***************************************************************************)
EXTENDS MdnsLife, WellFoundedInduction, TLAPS

CONSTANTS Searches, Async, MaxResults, Width, Timeout, Resend,
          Period, Start, QLen, MaxTicks, MaxRx, MaxQueries

VARIABLES ticks, search, chain, acts, scan, user, raced, rx, queries

Search == INSTANCE MdnsSearch


-----------------------------------------------------------------------------
(* Sequences.                                                              *)

\* Induction
LEMMA LeastNat ==
  ASSUME NEW T \in SUBSET Nat, T # {}
  PROVE  \E m \in T : \A j \in T : m <= j
<1> DEFINE R == OpToRel(<, Nat)
<1>1. IsWellFoundedOn(R, Nat)
  BY NatLessThanWellFounded, Zenon DEF R
<1> HIDE DEF R
<1>2. PICK m \in T : \A j \in T : ~(<<j, m>> \in R)
  BY <1>1, WFMin
<1>3. R = {x \in Nat \X Nat : x[1] < x[2]}
  BY Zenon DEF R, OpToRel
<1>4. \A j \in T : ~(j < m)
  BY <1>2, <1>3
<1> QED BY <1>4

LEMMA WithoutIs ==
  ASSUME NEW S, NEW q \in Seq(S), NEW gone
  PROVE  /\ Search!Without(q, gone) \in Seq(S)
         /\ \A x : (\E k \in 1 .. Len(Search!Without(q, gone)) : Search!Without(q, gone)[k] = x)
                     <=> x \notin gone /\ \E k \in 1 .. Len(q) : q[k] = x
<1> DEFINE L == Len(q)
           Body(f, n) == IF n = 0 THEN <<>> ELSE IF q[n] \in gone THEN f[n - 1] ELSE Append(f[n - 1], q[n])
           kept == CHOOSE f : f = [n \in 0 .. L |-> Body(f, n)]
           Partial(f, m) == f \in [0 .. m -> Seq(S)] /\ \A n \in 0 .. m : f[n] = Body(f, n)
           T == {m \in 0 .. L : ~ \E f : Partial(f, m)}
<1>0. L \in Nat /\ q \in [1 .. L -> S]
  OBVIOUS
<1>1. Search!Without(q, gone) = kept[L]
  BY Zenon DEF Search!Without
<1> HIDE DEF L, kept
<1>2. T = {}
  <2>1. SUFFICES ASSUME T # {} PROVE FALSE
    OBVIOUS
  <2>2. PICK m \in T : \A j \in T : m <= j
    <3> HIDE DEF Partial
    <3>1. T \in SUBSET Nat
      BY <1>0
    <3> QED BY <2>1, <3>1, LeastNat
  <2>3. m \in 0 .. L /\ ~ \E f : Partial(f, m)
    BY <2>2
  <2>4. CASE m = 0
    <3> DEFINE f == [n \in 0 .. 0 |-> <<>>]
    <3>1. Partial(f, 0)
      OBVIOUS
    <3> QED BY <2>3, <2>4, <3>1
  <2>5. CASE m # 0
    <3>1. m - 1 \in 0 .. L /\ m - 1 \notin T
      <4> HIDE DEF Partial
      <4> QED BY <1>0, <2>2, <2>3, <2>5
    <3>2. PICK f : Partial(f, m - 1)
      BY <3>1
    <3> DEFINE g == [n \in 0 .. m |-> IF n < m THEN f[n] ELSE Body(f, m)]
    <3>3. f \in [0 .. m - 1 -> Seq(S)] /\ \A n \in 0 .. m - 1 : f[n] = Body(f, n)
      BY <3>2
    <3>4. m \in 1 .. L /\ q[m] \in S /\ f[m - 1] \in Seq(S)
      BY <1>0, <2>3, <2>5, <3>3
    <3>5. Body(f, m) \in Seq(S)
      BY <3>4
    <3>6. g \in [0 .. m -> Seq(S)]
      <4>1. \A n \in 0 .. m : (IF n < m THEN f[n] ELSE Body(f, m)) \in Seq(S)
        <5> HIDE DEF Body
        <5> QED BY <3>3, <3>4, <3>5
      <4> HIDE DEF Body
      <4> QED BY <4>1
    <3>7. ASSUME NEW n \in 0 .. m PROVE g[n] = Body(g, n)
      <4>1. CASE n < m
        <5>1. g[n] = f[n] /\ n \in 0 .. m - 1 /\ f[n] = Body(f, n)
          <6> HIDE DEF Body
          <6> QED BY <3>3, <3>4, <4>1
        <5>2. n # 0 => g[n - 1] = f[n - 1]
          <6> HIDE DEF Body
          <6> QED BY <3>4, <4>1
        <5> HIDE DEF g
        <5> QED BY <5>1, <5>2
      <4>2. CASE n = m
        <5>1. g[n] = Body(f, m)
          <6> HIDE DEF Body
          <6> QED BY <3>4, <4>2
        <5>2. g[n - 1] = f[n - 1]
          <6> HIDE DEF Body
          <6> QED BY <3>4, <4>2
        <5> HIDE DEF g
        <5> QED BY <3>4, <5>1, <5>2, <4>2
      <4> QED BY <4>1, <4>2, <3>4
    <3> HIDE DEF g, Body
    <3> QED BY <2>3, <3>6, <3>7
  <2> QED BY <2>4, <2>5
<1>3. PICK f : Partial(f, L)
  <2> HIDE DEF Partial
  <2>1. L \in 0 .. L
    BY <1>0
  <2>2. L \notin T
    <3> HIDE DEF T
    <3> QED BY <1>2
  <2> QED BY <2>1, <2>2, Zenon
<1>4. f = [n \in 0 .. L |-> Body(f, n)]
  <2> HIDE DEF Body
  <2> QED BY <1>3
<1>5. kept = [n \in 0 .. L |-> Body(kept, n)]
  <2> HIDE DEF Body
  <2> QED BY <1>4, Zenon DEF kept
<1> DEFINE Good(n) == /\ kept[n] \in Seq(S)
                      /\ \A x : (\E k \in 1 .. Len(kept[n]) : kept[n][k] = x)
                                  <=> x \notin gone /\ \E k \in 1 .. n : q[k] = x
           U == {n \in 0 .. L : ~Good(n)}
<1>6. U = {}
  <2>1. SUFFICES ASSUME U # {} PROVE FALSE
    OBVIOUS
  <2>2. PICK m \in U : \A j \in U : m <= j
    <3> HIDE DEF Good
    <3>1. U \in SUBSET Nat
      BY <1>0
    <3> QED BY <2>1, <3>1, LeastNat
  <2>3. m \in 0 .. L /\ ~Good(m)
    BY <2>2
  <2>4. CASE m = 0
    <3>1. kept[0] = <<>>
      BY <1>0, <1>5
    <3> QED BY <2>3, <2>4, <3>1
  <2>5. CASE m # 0
    <3>1. m - 1 \in 0 .. L /\ Good(m - 1)
      <4> HIDE DEF Good
      <4> QED BY <1>0, <2>2, <2>3, <2>5
    <3>2. m \in 1 .. L /\ q[m] \in S
      BY <1>0, <2>3, <2>5
    <3>3. kept[m] = IF q[m] \in gone THEN kept[m - 1] ELSE Append(kept[m - 1], q[m])
      <4>1. kept[m] = Body(kept, m)
        <5> HIDE DEF Body
        <5> QED BY <1>5, <2>3
      <4> QED BY <3>2, <4>1
    <3> DEFINE c == kept[m - 1]
    <3>4. c \in Seq(S) /\ Len(c) \in Nat
      BY <3>1
    <3>5. \A x : (\E k \in 1 .. Len(c) : c[k] = x) <=> x \notin gone /\ \E k \in 1 .. m - 1 : q[k] = x
      BY <3>1
    <3>6. \A x : (\E k \in 1 .. m : q[k] = x) <=> x = q[m] \/ \E k \in 1 .. m - 1 : q[k] = x
      BY <3>2
    <3>7. CASE q[m] \in gone
      <4>1. kept[m] = c
        BY <3>3, <3>7
      <4> HIDE DEF c
      <4> QED BY <2>3, <3>4, <3>5, <3>6, <3>7, <4>1
    <3>8. CASE q[m] \notin gone
      <4>1. kept[m] = Append(c, q[m])
        BY <3>3, <3>8
      <4> HIDE DEF c
      <4>2. /\ kept[m] \in Seq(S) /\ Len(kept[m]) = Len(c) + 1
            /\ kept[m][Len(c) + 1] = q[m]
            /\ \A k \in 1 .. Len(c) : kept[m][k] = c[k]
        BY <3>2, <3>4, <4>1
      <4> DEFINE d == kept[m]
      <4>3. d \in Seq(S) /\ Len(d) = Len(c) + 1 /\ d[Len(c) + 1] = q[m] /\ \A k \in 1 .. Len(c) : d[k] = c[k]
        BY <4>2
      <4> HIDE DEF d
      <4>4. \A k \in 1 .. Len(d) : k = Len(c) + 1 \/ k \in 1 .. Len(c)
        BY <3>4, <4>3
      <4>5. Len(c) + 1 \in 1 .. Len(d) /\ \A k \in 1 .. Len(c) : k \in 1 .. Len(d)
        BY <3>4, <4>3
      <4>6. \A x : (\E k \in 1 .. Len(d) : d[k] = x) <=> x = q[m] \/ \E k \in 1 .. Len(c) : c[k] = x
        BY <4>3, <4>4, <4>5
      <4>7. Good(m)
        BY <3>5, <3>6, <3>8, <4>3, <4>6 DEF d
      <4> QED BY <2>3, <4>7
    <3> QED BY <3>7, <3>8
  <2> QED BY <2>4, <2>5
<1>7. Good(L)
  <2> HIDE DEF Good
  <2>1. L \in 0 .. L
    BY <1>0
  <2> QED BY <1>6, <2>1
<1> HIDE DEF Body
<1> QED BY <1>1, <1>7 DEF L

\* The actions in the queue.
LEMMA AppendGood ==
  ASSUME NEW a, Search!KnownActs(a), Search!GoodActs(a), NEW t, NEW s, t # "rx" => s \in Searches,
         t \in {"add", "end"} => <<t, s>> \notin Search!ToSet(a)
  PROVE  /\ Search!GoodActs(Append(a, <<t, s>>))
         /\ Search!ToSet(Append(a, <<t, s>>)) = Search!ToSet(a) \cup {<<t, s>>}
<1> DEFINE T == Search!ToSet(a) \cup {<<t, s>>}
           e == <<t, s>>
           b == Append(a, e)
<1>1. a \in Seq(T) /\ e \in T /\ e[1] = t /\ e[2] = s
  BY DEF Search!KnownActs
<1> HIDE DEF T, e
<1>2. /\ b \in Seq(T) /\ DOMAIN b = 1 .. Len(a) + 1 /\ Len(a) \in Nat /\ DOMAIN a = 1 .. Len(a)
      /\ \A k \in 1 .. Len(a) : b[k] = a[k]
      /\ b[Len(a) + 1] = e
  BY <1>1
<1> HIDE DEF b
<1>3. Search!ToSet(b) = Search!ToSet(a) \cup {e}
  <2>1. \A k \in DOMAIN b : k \in DOMAIN a \/ k = Len(a) + 1
    BY <1>2
  <2>2. \A k \in DOMAIN a : k \in DOMAIN b
    BY <1>2
  <2>3. Len(a) + 1 \in DOMAIN b
    BY <1>2
  <2> QED BY <1>2, <2>1, <2>2, <2>3 DEF Search!ToSet
<1>4. \A k \in DOMAIN b : b[k] = Search!Act(b[k][1], b[k][2]) /\ (b[k][1] # "rx" => b[k][2] \in Searches)
  <2>1. e = Search!Act(e[1], e[2]) /\ (e[1] # "rx" => e[2] \in Searches)
    BY <1>1 DEF Search!Act, e
  <2> QED BY <1>2, <2>1 DEF Search!GoodActs
<1>5. ASSUME NEW j \in DOMAIN b, NEW k \in DOMAIN b, b[j] = b[k], b[k][1] \in {"add", "end"}
      PROVE  j = k
  <2>1. e[1] \in {"add", "end"} => \A i \in 1 .. Len(a) : a[i] # e
    BY <1>1, <1>2 DEF Search!ToSet, e
  <2>2. CASE j \in 1 .. Len(a) /\ k \in 1 .. Len(a)
    BY <1>2, <1>5, <2>2 DEF Search!GoodActs
  <2>3. CASE j = Len(a) + 1 \/ k = Len(a) + 1
    BY <1>2, <1>5, <2>1, <2>3
  <2> QED BY <1>2, <2>2, <2>3
<1> QED BY <1>3, <1>4, <1>5 DEF Search!GoodActs, b, e

LEMMA TailGood ==
  ASSUME NEW a, Search!KnownActs(a), Search!GoodActs(a), a # <<>>
  PROVE  /\ Search!GoodActs(Tail(a)) /\ Search!ToSet(Tail(a)) \subseteq Search!ToSet(a)
         /\ Search!ToSet(a) = Search!ToSet(Tail(a)) \cup {Head(a)}
         /\ Head(a) = Search!Act(Head(a)[1], Head(a)[2])
         /\ Head(a)[1] # "rx" => Head(a)[2] \in Searches
         /\ Head(a)[1] \in {"add", "end"} => Head(a) \notin Search!ToSet(Tail(a))
<1> DEFINE b == Tail(a)
<1>1. /\ DOMAIN b = 1 .. Len(a) - 1 /\ Len(a) \in Nat /\ Len(a) > 0 /\ DOMAIN a = 1 .. Len(a)
      /\ \A k \in 1 .. Len(a) - 1 : b[k] = a[k + 1]
      /\ Head(a) = a[1]
  BY DEF Search!KnownActs
<1> HIDE DEF b
<1>2. 1 \in DOMAIN a /\ \A k \in DOMAIN b : k + 1 \in DOMAIN a /\ b[k] = a[k + 1] /\ k + 1 # 1
  BY <1>1
<1>3. Search!ToSet(b) \subseteq Search!ToSet(a) /\ Search!ToSet(a) = Search!ToSet(b) \cup {Head(a)}
  <2>1. \A k \in DOMAIN a : k = 1 \/ (k - 1 \in DOMAIN b /\ b[k - 1] = a[k])
    BY <1>1
  <2>2. \A k \in DOMAIN a : a[k] \in Search!ToSet(b) \cup {Head(a)}
    BY <1>1, <2>1 DEF Search!ToSet
  <2>3. Head(a) \in Search!ToSet(a) /\ \A k \in DOMAIN b : b[k] \in Search!ToSet(a)
    BY <1>1, <1>2 DEF Search!ToSet
  <2> QED BY <2>2, <2>3 DEF Search!ToSet
<1>4. /\ Head(a) = Search!Act(Head(a)[1], Head(a)[2]) /\ (Head(a)[1] # "rx" => Head(a)[2] \in Searches)
      /\ Head(a)[1] \in {"add", "end"} => \A k \in DOMAIN b : b[k] # Head(a)
  BY <1>1, <1>2 DEF Search!GoodActs
<1>5. Head(a)[1] \in {"add", "end"} => Head(a) \notin Search!ToSet(b)
  BY <1>4 DEF Search!ToSet
<1>6. Search!GoodActs(b)
  <2>1. \A j, k \in DOMAIN b : j + 1 = k + 1 => j = k
    BY <1>1
  <2> QED BY <1>2, <2>1 DEF Search!GoodActs
<1> QED BY <1>3, <1>4, <1>5, <1>6 DEF b

-----------------------------------------------------------------------------
(* The limits of a search.  While the clock does not wrap, its values are  *)
(* the times themselves.                                                   *)

LEMMA SearchConstants ==
  ASSUME Search!SearchAssumption
  PROVE  /\ Start \in Nat /\ Period \in Nat /\ Period > 0 /\ Timeout \in Nat /\ Timeout > 0
         /\ MaxTicks \in Nat /\ Resend \in Nat /\ MaxResults \in Nat /\ Width \in Nat /\ Width > 0
BY DEF Search!SearchAssumption

LEMMA RemainderFacts ==
  ASSUME Search!SearchAssumption
  PROVE  /\ \A a \in Int : a % Period \in Nat
         /\ \A a \in Nat : a < Period => a % Period = a
         /\ \A a \in Nat : a < Width => a % Width = a
         /\ Search!StoredMax \in Nat
BY SearchConstants DEF Search!StoredMax

\* Appending an action and taking the first one off leave known actions.
LEMMA AppendKnown ==
  ASSUME Search!SearchAssumption, NEW a, Search!KnownActs(a), NEW e, e[1] \in Search!Kinds
  PROVE  Search!KnownActs(Append(a, e))
<1> USE DEF Search!KnownActs
<1> DEFINE T == Search!ToSet(a) \cup {e}
           b == Append(a, e)
<1>1. a \in Seq(T) /\ e \in T
  OBVIOUS
<1> HIDE DEF T
<1>2. /\ b \in Seq(T) /\ DOMAIN b = 1 .. Len(a) + 1 /\ Len(a) \in Nat /\ DOMAIN a = 1 .. Len(a)
      /\ \A k \in 1 .. Len(a) : b[k] = a[k]
      /\ b[Len(a) + 1] = e
  BY <1>1
<1> HIDE DEF b
<1>3. Len(b) \in Nat /\ b = [k \in 1 .. Len(b) |-> b[k]]
  BY <1>2
<1>4. \A k \in 1 .. Len(b) : b[k] \in Search!ToSet(b)
  BY <1>2, <1>3, Zenon DEF Search!ToSet
<1>5. \A k \in DOMAIN b : b[k][1] \in Search!Kinds
  BY <1>2
<1>6. b \in Seq(Search!ToSet(b))
  BY <1>2, <1>3, <1>4
<1> QED BY <1>5, <1>6 DEF b

LEMMA TailKnown ==
  ASSUME Search!SearchAssumption, NEW a, Search!KnownActs(a), a # <<>>
  PROVE  Search!KnownActs(Tail(a)) /\ Head(a)[1] \in Search!Kinds
<1> USE DEF Search!KnownActs
<1> DEFINE b == Tail(a)
<1>1. /\ DOMAIN b = 1 .. Len(a) - 1 /\ Len(a) \in Nat /\ Len(a) > 0 /\ DOMAIN a = 1 .. Len(a)
      /\ \A k \in 1 .. Len(a) - 1 : b[k] = a[k + 1]
      /\ Head(a) = a[1] /\ b \in Seq(Search!ToSet(a))
  OBVIOUS
<1> HIDE DEF b
<1>2. Len(b) \in Nat /\ b = [k \in 1 .. Len(b) |-> b[k]]
  <2>1. b \in Seq(Search!ToSet(a))
    BY <1>1
  <2> QED BY <2>1
<1>3. \A k \in 1 .. Len(b) : b[k] \in Search!ToSet(b)
  BY <1>1, <1>2, Zenon DEF Search!ToSet
<1>4. \A k \in DOMAIN b : b[k][1] \in Search!Kinds
  BY <1>1
<1>5. Head(a)[1] \in Search!Kinds
  BY <1>1
<1>6. b \in Seq(Search!ToSet(b))
  BY <1>1, <1>2, <1>3
<1> QED BY <1>4, <1>5, <1>6 DEF b

LEMMA StructureFields ==
  ASSUME Search!SearchAssumption, NEW al \in BOOLEAN, NEW st \in {"off", "init", "running"},
         NEW at \in Nat, NEW sn \in Nat, NEW nm \in Nat, NEW sm \in 0 .. 1, NEW si \in Nat, NEW la \in Int, NEW ea \in BOOLEAN
  PROVE  [alive |-> al, state |-> st, started |-> at, sent |-> sn, num |-> nm, sem |-> sm,
          since |-> si, late |-> la, early |-> ea] \in Search!Structures
BY DEF Search!Structures

LEMMA FieldTypes ==
  ASSUME Search!SearchAssumption, NEW r \in Search!Structures
  PROVE  /\ r.alive \in BOOLEAN /\ r.state \in {"off", "init", "running"} /\ r.started \in Nat
         /\ r.sent \in Nat /\ r.num \in Nat /\ r.sem \in 0 .. 1 /\ r.since \in Nat /\ r.late \in Int
         /\ r.early \in BOOLEAN
BY DEF Search!Structures

LEMMA FreedStructure ==
  ASSUME Search!SearchAssumption
  PROVE  /\ Search!Freed \in Search!Structures
         /\ \A t \in Nat : Search!KeepsLimits(Search!Freed, t)
<1>1. Search!Freed \in Search!Structures
  <2>1. PICK no \in BOOLEAN : no = FALSE
    BY Zenon
  <2>2. Search!Freed = [alive |-> no, state |-> "off", started |-> 0, sent |-> 0, num |-> 0,
                        sem |-> 0, since |-> 0, late |-> 0, early |-> no]
    BY <2>1, Zenon DEF Search!Freed
  <2> QED BY <2>2, StructureFields
<1>2. \A t \in Nat : Search!KeepsLimits(Search!Freed, t)
  BY SearchConstants, RemainderFacts DEF Search!KeepsLimits, Search!Freed
<1> QED BY <1>1, <1>2

LEMMA StartedStructure ==
  ASSUME Search!SearchAssumption, NEW al \in BOOLEAN, NEW at \in Nat, NEW si \in Nat
  PROVE  LET r == [Search!Freed EXCEPT !.alive = al, !.state = "init", !.started = at, !.since = si]
         IN  /\ r \in Search!Structures
             /\ at = (Start + si) % Period => Search!KeepsLimits(r, si)
<1> DEFINE r == [Search!Freed EXCEPT !.alive = al, !.state = "init", !.started = at, !.since = si]
<1>1. r \in Search!Structures
  BY FreedStructure DEF Search!Structures
<1>2. r.started = at /\ r.since = si /\ r.late = 0 /\ r.num = 0 /\ ~r.early
  BY DEF Search!Freed
<1>3. at = (Start + si) % Period => Search!KeepsLimits(r, si)
  BY <1>2, SearchConstants, RemainderFacts DEF Search!KeepsLimits
<1> QED BY <1>1, <1>3

LEMMA ExpiredStructure ==
  ASSUME Search!SearchAssumption, NEW r \in Search!Structures, NEW t \in Nat, Search!KeepsLimits(r, t),
         NEW st \in {"off", "running"}, NEW ea \in BOOLEAN, ~ea, r.state # "off"
  PROVE  LET q == [r EXCEPT !.state = st, !.early = ea]
         IN  q \in Search!Structures /\ Search!KeepsLimits(q, t)
<1> DEFINE q == [r EXCEPT !.state = st, !.early = ea]
<1>1. q \in Search!Structures
  BY DEF Search!Structures
<1>2. /\ q.started = r.started /\ q.since = r.since /\ q.late = r.late /\ q.num = r.num
      /\ ~q.early
  BY DEF Search!Structures
<1> QED BY <1>1, <1>2 DEF Search!KeepsLimits

LEMMA SentStructure ==
  ASSUME Search!SearchAssumption, NEW r \in Search!Structures, NEW t \in Nat, Search!KeepsLimits(r, t),
         NEW sn \in Nat, NEW la \in Nat, la <= Timeout, r.state # "off"
  PROVE  LET q == [r EXCEPT !.state = "running", !.sent = sn, !.late = la]
         IN  q \in Search!Structures /\ Search!KeepsLimits(q, t)
<1> DEFINE q == [r EXCEPT !.state = "running", !.sent = sn, !.late = la]
<1>1. q \in Search!Structures
  <2>1. la \in Int
    OBVIOUS
  <2> QED BY <2>1 DEF Search!Structures
<1>2. /\ q.started = r.started /\ q.since = r.since /\ q.late = la /\ q.num = r.num
      /\ q.early = r.early
  BY DEF Search!Structures
<1> QED BY <1>1, <1>2 DEF Search!KeepsLimits

LEMMA FoundStructure ==
  ASSUME Search!SearchAssumption, NEW r \in Search!Structures, NEW t \in Nat, Search!KeepsLimits(r, t),
         Search!StoredMax = 0 \/ r.num < Search!StoredMax
  PROVE  LET q == [r EXCEPT !.num = @ + 1]
         IN  q \in Search!Structures /\ Search!KeepsLimits(q, t)
<1> DEFINE q == [r EXCEPT !.num = @ + 1]
<1>1. q \in Search!Structures
  <2>1. PICK n \in Nat : n = r.num + 1
    BY FieldTypes
  <2>2. [r EXCEPT !.num = n] \in Search!Structures
    BY DEF Search!Structures
  <2> QED BY <2>1, <2>2
<1>2. /\ q.state = r.state /\ q.started = r.started /\ q.since = r.since /\ q.late = r.late
      /\ q.num = r.num + 1 /\ q.early = r.early /\ r.num \in Nat
  BY DEF Search!Structures
<1> QED BY <1>1, <1>2, RemainderFacts DEF Search!KeepsLimits

LEMMA EndedStructure ==
  ASSUME Search!SearchAssumption, NEW r \in Search!Structures, NEW t \in Nat, Search!KeepsLimits(r, t)
  PROVE  LET q == [r EXCEPT !.state = "off", !.sem = 1]
         IN  q \in Search!Structures /\ Search!KeepsLimits(q, t)
<1> DEFINE q == [r EXCEPT !.state = "off", !.sem = 1]
<1>1. q \in Search!Structures
  <2>1. PICK m \in 0 .. 1 : m = 1
    OBVIOUS
  <2>2. [r EXCEPT !.state = "off", !.sem = m] \in Search!Structures
    BY DEF Search!Structures
  <2> QED BY <2>1, <2>2
<1>2. q.state = "off" /\ q.late = r.late /\ q.num = r.num /\ q.early = r.early
  BY DEF Search!Structures
<1> QED BY <1>1, <1>2 DEF Search!KeepsLimits

LEMMA TakenStructure ==
  ASSUME Search!SearchAssumption, NEW r \in Search!Structures, NEW t \in Nat, Search!KeepsLimits(r, t), r.sem > 0
  PROVE  LET q == [r EXCEPT !.sem = @ - 1]
         IN  q \in Search!Structures /\ Search!KeepsLimits(q, t)
<1> DEFINE q == [r EXCEPT !.sem = @ - 1]
<1>1. q \in Search!Structures
  BY DEF Search!Structures
<1>2. /\ q.state = r.state /\ q.started = r.started /\ q.since = r.since /\ q.late = r.late
      /\ q.num = r.num /\ q.early = r.early
  BY DEF Search!Structures
<1> QED BY <1>1, <1>2 DEF Search!KeepsLimits

\* Only the structure of s changes.
LEMMA ChangeOne ==
  ASSUME Search!SearchAssumption, NEW f \in [Searches -> Search!Structures], NEW t \in Nat,
         \A x \in Searches : Search!KeepsLimits(f[x], t), NEW s, NEW r,
         s \in Searches => r \in Search!Structures /\ Search!KeepsLimits(r, t)
  PROVE  /\ [f EXCEPT ![s] = r] \in [Searches -> Search!Structures]
         /\ \A x \in Searches : Search!KeepsLimits([f EXCEPT ![s] = r][x], t)
<1>1. ASSUME NEW x \in Searches
      PROVE  /\ [f EXCEPT ![s] = r][x] \in Search!Structures
             /\ Search!KeepsLimits([f EXCEPT ![s] = r][x], t)
  BY <1>1
<1> QED BY <1>1

\* Starting a query: its structure starts from nothing, at the present time.
LEMMA QueryStep ==
  ASSUME Search!SearchAssumption, Search!SearchInv, NEW s \in Searches, Search!Query(s)
  PROVE  Search!SearchInv'
<1> USE DEF Search!SearchInv
<1>1. ticks' = ticks /\ ticks \in Nat
  BY SearchConstants DEF Search!Query
<1>2. CASE ~Search!Room
  BY <1>2 DEF Search!Query
<1>3. CASE Search!Room
  <2> DEFINE r == [Search!Freed EXCEPT !.alive = TRUE, !.state = "init", !.started = Search!Now,
                                       !.since = ticks]
  <2>1. acts' = Append(acts, <<"add", s>>)
    BY <1>3 DEF Search!Query, Search!Act
  <2>2. search' = [search EXCEPT ![s] = r]
    BY <1>3 DEF Search!Query
  <2>3. Search!KnownActs(acts')
    <3>1. <<"add", s>>[1] \in Search!Kinds
      BY DEF Search!Kinds
    <3> QED BY <2>1, <3>1, AppendKnown
  <2>4. r \in Search!Structures /\ Search!KeepsLimits(r, ticks)
    <3>1. PICK yes \in BOOLEAN : yes = TRUE
      BY Zenon
    <3>2. PICK at \in Nat : at = Search!Now /\ at = (Start + ticks) % Period
      BY <1>1, SearchConstants, RemainderFacts DEF Search!Now
    <3>3. PICK t \in Nat : t = ticks
      BY <1>1
    <3>4. r = [Search!Freed EXCEPT !.alive = yes, !.state = "init", !.started = at, !.since = t]
      BY <3>1, <3>2, <3>3, Zenon
    <3>5. at = (Start + t) % Period
      BY <3>2, <3>3
    <3> HIDE DEF r
    <3> QED BY <3>3, <3>4, <3>5, StartedStructure
  <2> HIDE DEF r
  <2> QED BY <1>1, <2>2, <2>3, <2>4, ChangeOne
<1> QED BY <1>2, <1>3

LEMMA TakeResultsStep ==
  ASSUME Search!SearchAssumption, Search!SearchInv, NEW s \in Searches, Search!TakeResults(s)
  PROVE  Search!SearchInv'
<1> USE DEF Search!SearchInv
<1>1. ticks' = ticks /\ ticks \in Nat /\ acts' = acts
  BY SearchConstants DEF Search!TakeResults
<1>2. CASE s \in Async
  <2> DEFINE r == [search[s] EXCEPT !.sem = @ - 1]
  <2>1. search' = [search EXCEPT ![s] = r]
    BY <1>2 DEF Search!TakeResults
  <2>2. r \in Search!Structures /\ Search!KeepsLimits(r, ticks)
    BY <1>1, TakenStructure DEF Search!TakeResults
  <2> HIDE DEF r
  <2> QED BY <1>1, <2>1, <2>2, ChangeOne
<1>3. CASE s \notin Async
  <2>1. search' = [search EXCEPT ![s] = Search!Freed]
    BY <1>3 DEF Search!TakeResults
  <2> QED BY <1>1, <2>1, FreedStructure, ChangeOne
<1> QED BY <1>2, <1>3

LEMMA AsyncDeleteStep ==
  ASSUME Search!SearchAssumption, Search!SearchInv, NEW s \in Searches, Search!AsyncDelete(s)
  PROVE  Search!SearchInv'
<1> USE DEF Search!SearchInv
<1>1. ticks' = ticks /\ ticks \in Nat /\ acts' = acts
  BY SearchConstants DEF Search!AsyncDelete
<1>2. search' = [search EXCEPT ![s] = Search!Freed]
  BY DEF Search!AsyncDelete
<1> QED BY <1>1, <1>2, FreedStructure, ChangeOne

\* What the clock says of an active search, when it cannot wrap.
LEMMA ClockFacts ==
  ASSUME Search!SearchAssumption, Start + MaxTicks + Timeout < Period, NEW t \in 0 .. MaxTicks,
         NEW r \in Search!Structures, Search!KeepsLimits(r, t), r.state # "off"
  PROVE  /\ t - r.since \in Nat
         /\ (Start + t) % Period > (r.started + Timeout) % Period <=> t - r.since > Timeout
<1>1. r.since \in Nat /\ r.since <= t /\ r.started = (Start + r.since) % Period
  BY FieldTypes DEF Search!KeepsLimits
<1>2. Start + r.since \in Nat /\ Start + r.since < Period /\ Start + t \in Nat /\ Start + t < Period
  BY <1>1, SearchConstants
<1>3. r.started = Start + r.since /\ (Start + t) % Period = Start + t
  BY <1>1, <1>2, RemainderFacts
<1>4. r.started + Timeout \in Nat /\ r.started + Timeout < Period
  BY <1>1, <1>3, SearchConstants
<1>5. (r.started + Timeout) % Period = Start + r.since + Timeout
  BY <1>3, <1>4, RemainderFacts
<1>6. t - r.since \in Nat
  BY <1>1
<1>7. Start + t > Start + r.since + Timeout <=> t - r.since > Timeout
  BY <1>1, SearchConstants
<1> QED BY <1>3, <1>5, <1>6, <1>7

\* The timer ends a search only after its time, and sends it only within it.
LEMMA ScanStepStep ==
  ASSUME Search!SearchAssumption, Search!SearchInv, Search!ScanStep, Start + MaxTicks + Timeout < Period
  PROVE  Search!SearchInv'
<1> USE DEF Search!SearchInv
<1>1. ticks' = ticks /\ ticks \in Nat /\ ticks \in 0 .. MaxTicks
  BY SearchConstants DEF Search!ScanStep
<1> DEFINE s == chain[scan]
<1>2. CASE Search!Expired(s)
  <2>1. Search!ScanExpired(s)
    BY <1>2 DEF Search!ScanStep
  <2>2. Search!KnownActs(acts')
    <3>1. <<"end", s>>[1] \in Search!Kinds
      BY DEF Search!Kinds
    <3>2. acts' = acts \/ acts' = Append(acts, <<"end", s>>)
      BY <2>1 DEF Search!ScanExpired, Search!Act
    <3> QED BY <3>1, <3>2, AppendKnown
  <2> DEFINE soon == ticks - search[s].since <= Timeout
  <2>3. PICK st \in {"off", "running"} :
           search' = [search EXCEPT ![s].state = st, ![s].early = soon]
    BY <2>1 DEF Search!ScanExpired
  <2>4. CASE s \notin Searches
    <3>1. search' = search
      BY <2>3, <2>4
    <3> QED BY <1>1, <2>2, <3>1
  <2>5. CASE s \in Searches
    <3>1. search[s].state # "off"
      BY <1>2 DEF Search!Expired
    <3>2. ticks - search[s].since > Timeout
      BY <1>1, <1>2, <2>5, <3>1, ClockFacts DEF Search!Expired, Search!Now
    <3>3. search[s].since \in Nat
      BY <2>5, FieldTypes
    <3>4. soon \in BOOLEAN /\ ~soon
      BY <1>1, <3>2, <3>3, SearchConstants
    <3>5. PICK ea \in BOOLEAN : ea = soon /\ ~ea
      BY <3>4, Zenon
    <3> DEFINE r == [search[s] EXCEPT !.state = st, !.early = ea]
    <3>6. search' = [search EXCEPT ![s].state = st, ![s].early = ea]
      BY <2>3, <3>5, Zenon
    <3>7. search' = [search EXCEPT ![s] = r]
      BY <3>6
    <3>8. r \in Search!Structures /\ Search!KeepsLimits(r, ticks)
      BY <1>1, <2>5, <3>1, <3>5, ExpiredStructure
    <3> HIDE DEF r, s
    <3> QED BY <1>1, <2>2, <3>7, <3>8, ChangeOne
  <2> QED BY <2>4, <2>5
<1>3. CASE ~Search!Expired(s) /\ Search!IsDue(s)
  <2>1. Search!ScanSend(s)
    BY <1>3 DEF Search!ScanStep
  <2>2. Search!KnownActs(acts')
    <3>1. <<"send", s>>[1] \in Search!Kinds
      BY DEF Search!Kinds
    <3>2. acts' = acts \/ acts' = Append(acts, <<"send", s>>)
      BY <2>1 DEF Search!ScanSend, Search!Act
    <3> QED BY <3>1, <3>2, AppendKnown
  <2>3. PICK sn \in Nat :
           search' = [search EXCEPT ![s].state = "running", ![s].sent = sn,
                               ![s].late = ticks - search[s].since]
    <3>1. Search!Now \in Nat /\ (Search!Now - Resend) % Period \in Nat
      BY <1>1, SearchConstants, RemainderFacts DEF Search!Now
    <3> QED BY <2>1, <3>1 DEF Search!ScanSend
  <2> DEFINE r == [search[s] EXCEPT !.state = "running", !.sent = sn,
                                           !.late = ticks - search[s].since]
  <2>4. ASSUME s \in Searches
        PROVE  r \in Search!Structures /\ Search!KeepsLimits(r, ticks)
    <3>1. search[s].state # "off"
      BY <1>3 DEF Search!IsDue
    <3>2. /\ ticks - search[s].since \in Nat
          /\ ~(ticks - search[s].since > Timeout)
      BY <1>1, <1>3, <2>4, <3>1, ClockFacts DEF Search!Expired, Search!Now
    <3>3. ticks - search[s].since <= Timeout
      BY <3>2, SearchConstants
    <3> QED BY <1>1, <2>4, <3>1, <3>2, <3>3, SentStructure
  <2>5. search' = [search EXCEPT ![s] = r]
    BY <2>3
  <2> HIDE DEF r, s
  <2> QED BY <1>1, <2>2, <2>4, <2>5, ChangeOne
<1>4. CASE ~Search!Expired(s) /\ ~Search!IsDue(s)
  BY <1>1, <1>4 DEF Search!ScanStep
<1> QED BY <1>2, <1>3, <1>4

\* Ending some of the searches.
LEMMA FinishKeeps ==
  ASSUME Search!SearchAssumption, NEW f \in [Searches -> Search!Structures], NEW t \in Nat,
         \A x \in Searches : Search!KeepsLimits(f[x], t), NEW gone
  PROVE  /\ Search!Finish(f, gone) \in [Searches -> Search!Structures]
         /\ \A x \in Searches : Search!KeepsLimits(Search!Finish(f, gone)[x], t)
<1> DEFINE g == Search!Finish(f, gone)
           ended(x) == [f[x] EXCEPT !.state = "off", !.sem = 1]
<1>1. \A x \in Searches : ended(x) \in Search!Structures /\ Search!KeepsLimits(ended(x), t)
  BY EndedStructure
<1>2. g = [x \in Searches |-> IF x \in gone THEN ended(x) ELSE f[x]]
  BY DEF Search!Finish
<1> HIDE DEF g, ended
<1>3. \A x \in Searches : g[x] \in Search!Structures /\ Search!KeepsLimits(g[x], t)
  BY <1>1, <1>2
<1>4. g \in [Searches -> Search!Structures]
  BY <1>2, <1>3
<1> QED BY <1>3, <1>4 DEF g

\* A packet gives results only to searches that still have room for one.
LEMMA ParseKeeps ==
  ASSUME Search!SearchAssumption, search \in [Searches -> Search!Structures], NEW t \in Nat,
         \A x \in Searches : Search!KeepsLimits(search[x], t), Search!Parse
  PROVE  /\ search' \in [Searches -> Search!Structures]
         /\ \A x \in Searches : Search!KeepsLimits(search'[x], t)
<1> DEFINE more(x) == [search[x] EXCEPT !.num = @ + 1]
           room(x) == Search!StoredMax = 0 \/ search[x].num < Search!StoredMax
           found(hit) == [x \in Searches |-> IF x \in hit /\ room(x) THEN more(x) ELSE search[x]]
<1>1. PICK hit, gone : search' = Search!Finish(found(hit), gone)
  BY Zenon DEF Search!Parse
<1>2. \A x \in Searches : room(x) => more(x) \in Search!Structures /\ Search!KeepsLimits(more(x), t)
  BY FoundStructure
<1> HIDE DEF more, room
<1>3. \A x \in Searches : /\ found(hit)[x] \in Search!Structures
                          /\ Search!KeepsLimits(found(hit)[x], t)
  BY <1>2
<1>4. found(hit) \in [Searches -> Search!Structures]
  BY <1>3
<1> HIDE DEF found
<1> QED BY <1>1, <1>3, <1>4, FinishKeeps

LEMMA ExecuteStep ==
  ASSUME Search!SearchAssumption, Search!SearchInv, Search!Execute
  PROVE  Search!SearchInv'
<1> USE DEF Search!SearchInv
<1>1. ticks' = ticks /\ ticks \in Nat
  BY SearchConstants DEF Search!Execute
<1>2. Search!KnownActs(acts') /\ Head(acts)[1] \in Search!Kinds
  BY TailKnown DEF Search!Execute
<1> DEFINE s == Head(acts)[2]
<1>3. CASE Head(acts)[1] \in {"add", "send"}
  <2>1. search' = search
    BY <1>3 DEF Search!Execute
  <2> QED BY <1>1, <1>2, <2>1
<1>4. CASE Head(acts)[1] = "end"
  <2>1. search' = Search!Finish(search, {s})
    BY <1>4 DEF Search!Execute
  <2> HIDE DEF s
  <2>2. PICK gone : gone = {s}
    OBVIOUS
  <2> QED BY <1>1, <1>2, <2>1, <2>2, FinishKeeps
<1>5. CASE Head(acts)[1] = "rx"
  <2>1. Search!Parse
    BY <1>5 DEF Search!Execute
  <2> QED BY <1>1, <1>2, <2>1, ParseKeeps
<1> QED BY <1>2, <1>3, <1>4, <1>5 DEF Search!Kinds

LEMMA ReceiveSearchStep ==
  ASSUME Search!SearchAssumption, Search!SearchInv, Search!Receive
  PROVE  Search!SearchInv'
<1>1. <<"rx", Search!NoSearch>>[1] \in Search!Kinds
  BY DEF Search!Kinds
<1>2. Search!KnownActs(acts')
  BY <1>1, AppendKnown DEF Search!SearchInv, Search!Receive, Search!Act
<1> QED BY <1>2 DEF Search!SearchInv, Search!Receive

LEMMA TickSearchStep ==
  ASSUME Search!SearchAssumption, Search!SearchInv, Search!Tick
  PROVE  Search!SearchInv'
<1> USE DEF Search!SearchInv, Search!Tick
<1>1. /\ ticks' \in 0 .. MaxTicks /\ ticks \in Nat /\ ticks' = ticks + 1
      /\ search' = search /\ acts' = acts
  BY SearchConstants
<1>2. ASSUME NEW x \in Searches PROVE Search!KeepsLimits(search[x], ticks')
  <2>1. search[x].since \in Nat /\ Search!KeepsLimits(search[x], ticks)
    BY FieldTypes
  <2> QED BY <1>1, <2>1 DEF Search!KeepsLimits
<1> QED BY <1>1, <1>2

LEMMA SearchNextStep ==
  ASSUME Search!SearchAssumption, Search!SearchInv, Search!Next, Start + MaxTicks + Timeout < Period
  PROVE  Search!SearchInv'
<1>1. CASE \E s \in Searches : Search!Query(s) \/ Search!TakeResults(s) \/ Search!AsyncDelete(s)
  BY <1>1, QueryStep, TakeResultsStep, AsyncDeleteStep
<1>2. CASE Search!ScanStart \/ Search!ScanEnd
  BY <1>2 DEF Search!SearchInv, Search!ScanStart, Search!ScanEnd
<1>3. CASE Search!ScanStep \/ Search!Execute \/ Search!Receive \/ Search!Tick
  BY <1>3, ScanStepStep, ExecuteStep, ReceiveSearchStep, TickSearchStep
<1> QED BY <1>1, <1>2, <1>3 DEF Search!Next

LEMMA SearchInitStep ==
  ASSUME Search!SearchAssumption, Search!Init
  PROVE  Search!SearchInv
<1> USE DEF Search!Init
<1>1. ticks \in 0 .. MaxTicks /\ ticks \in Nat
  BY SearchConstants
<1>2. Search!KnownActs(acts)
  BY DEF Search!KnownActs
<1>3. /\ search \in [Searches -> Search!Structures]
      /\ \A s \in Searches : Search!KeepsLimits(search[s], ticks)
  BY <1>1, FreedStructure
<1> QED BY <1>1, <1>2, <1>3 DEF Search!SearchInv

LEMMA SearchStands ==
  ASSUME Search!SearchInv, UNCHANGED Search!vars
  PROVE  Search!SearchInv'
BY DEF Search!SearchInv, Search!vars

LEMMA SearchSafe ==
  ASSUME Search!SearchAssumption, Search!SearchInv, MaxResults < Width
  PROVE  Search!TimeoutIsKept /\ Search!MaxIsKept
<1>1. Search!TimeoutIsKept
  BY DEF Search!SearchInv, Search!KeepsLimits, Search!TimeoutIsKept
<1>2. Search!StoredMax = MaxResults
  BY SearchConstants, RemainderFacts DEF Search!StoredMax
<1>3. Search!MaxIsKept
  BY <1>2 DEF Search!SearchInv, Search!KeepsLimits, Search!MaxIsKept
<1> QED BY <1>1, <1>3

-----------------------------------------------------------------------------
(* Nobody uses a search that was freed.                                    *)

\* The types are kept whatever the clock does.
LEMMA TypedChange ==
  ASSUME NEW f \in [Searches -> Search!Structures], NEW s, NEW r, s \in Searches => r \in Search!Structures
  PROVE  [f EXCEPT ![s] = r] \in [Searches -> Search!Structures]
OBVIOUS

LEMMA FinishIs ==
  ASSUME NEW f \in [Searches -> Search!Structures], NEW gone
  PROVE  /\ Search!Finish(f, gone) \in [Searches -> Search!Structures]
         /\ \A x \in Searches :
              IF x \in gone
              THEN /\ Search!Finish(f, gone)[x].state = "off"
                   /\ Search!Finish(f, gone)[x].alive = f[x].alive /\ Search!Finish(f, gone)[x].num = f[x].num
              ELSE Search!Finish(f, gone)[x] = f[x]
<1> DEFINE ended(x) == [f[x] EXCEPT !.state = "off", !.sem = 1]
<1>1. ASSUME NEW x \in Searches
      PROVE  /\ ended(x) \in Search!Structures /\ ended(x).state = "off"
             /\ ended(x).alive = f[x].alive /\ ended(x).num = f[x].num
  <2>1. PICK m \in 0 .. 1 : m = 1
    OBVIOUS
  <2>2. PICK r \in Search!Structures : r = f[x]
    OBVIOUS
  <2>3. LET q == [r EXCEPT !.state = "off", !.sem = m]
        IN  q \in Search!Structures /\ q.state = "off" /\ q.alive = r.alive /\ q.num = r.num
    BY DEF Search!Structures
  <2> QED BY <2>1, <2>2, <2>3
<1>2. Search!Finish(f, gone) = [x \in Searches |-> IF x \in gone THEN ended(x) ELSE f[x]]
  BY DEF Search!Finish
<1> HIDE DEF ended
<1> QED BY <1>1, <1>2

\* What a packet finds for the searches that it hits.
LEMMA FoundIs ==
  ASSUME NEW f \in [Searches -> Search!Structures], NEW hit
  PROVE  LET g == [x \in Searches |-> IF x \in hit /\ (Search!StoredMax = 0 \/ f[x].num < Search!StoredMax)
                                      THEN [f[x] EXCEPT !.num = @ + 1] ELSE f[x]]
         IN  /\ g \in [Searches -> Search!Structures]
             /\ \A x \in Searches : /\ g[x].state = f[x].state /\ g[x].alive = f[x].alive
                                    /\ g[x].sem = f[x].sem
                                    /\ x \notin hit => g[x] = f[x]
<1> DEFINE more(x) == [f[x] EXCEPT !.num = @ + 1]
           room(x) == Search!StoredMax = 0 \/ f[x].num < Search!StoredMax
           g == [x \in Searches |-> IF x \in hit /\ room(x) THEN more(x) ELSE f[x]]
<1>1. ASSUME NEW x \in Searches
      PROVE  /\ more(x) \in Search!Structures /\ more(x).state = f[x].state
             /\ more(x).alive = f[x].alive /\ more(x).sem = f[x].sem
  <2>1. PICK r \in Search!Structures : r = f[x]
    OBVIOUS
  <2>2. PICK n \in Nat : n = r.num + 1
    BY DEF Search!Structures
  <2>3. LET q == [r EXCEPT !.num = n]
        IN  q \in Search!Structures /\ q.state = r.state /\ q.alive = r.alive /\ q.sem = r.sem
    BY DEF Search!Structures
  <2> QED BY <2>1, <2>2, <2>3
<1> HIDE DEF more, room
<1>2. g \in [Searches -> Search!Structures]
  BY <1>1
<1>3. \A x \in Searches : /\ g[x].state = f[x].state /\ g[x].alive = f[x].alive
                          /\ g[x].sem = f[x].sem
                          /\ x \notin hit => g[x] = f[x]
  BY <1>1
<1> QED BY <1>2, <1>3 DEF more, room

\* Nothing about x changes, but its addition may have been executed.
LEMMA UsedLess ==
  ASSUME NEW x, Search!UsedBySearch(x),
         Search!Posted("add", x)' => Search!Posted("add", x), Search!Posted("end", x)' <=> Search!Posted("end", x),
         Search!InChain(x)' <=> Search!InChain(x), user'[x] = user[x], search'[x] = search[x]
  PROVE  Search!UsedBySearch(x)'
BY DEF Search!UsedBySearch

\* A search that is in use is not freed.
LEMMA UseTypes ==
  ASSUME Search!OwnersWait
  PROVE  /\ ticks \in 0 .. MaxTicks /\ Search!KnownActs(acts) /\ chain \in Seq(Searches)
         /\ search \in [Searches -> Search!Structures] /\ Search!GoodActs(acts)
         /\ user \in [Searches -> {"idle", "waiting", "ended"}]
         /\ \A x \in Searches : Search!UsedBySearch(x)
BY DEF Search!OwnersWait, Search!SearchTypes

LEMMA InitUse ==
  ASSUME Search!SearchAssumption, Search!Init
  PROVE  Search!UseInv
<1> USE DEF Search!Init
<1>1. ticks \in 0 .. MaxTicks
  BY SearchConstants
<1>2. search \in [Searches -> Search!Structures]
  BY FreedStructure
<1>3. Search!KnownActs(acts) /\ Search!GoodActs(acts) /\ Search!ToSet(acts) = {} /\ Search!ToSet(chain) = {}
  BY DEF Search!KnownActs, Search!GoodActs, Search!ToSet
<1>4. \A x \in Searches : Search!UsedBySearch(x)
  BY <1>3 DEF Search!UsedBySearch, Search!Posted, Search!InChain
<1>5. Search!OwnersWait
  BY <1>1, <1>2, <1>3, <1>4 DEF Search!OwnersWait, Search!SearchTypes
<1>6. raced \in BOOLEAN
  OBVIOUS
<1> QED BY <1>5, <1>6, Zenon DEF Search!UseInv

\* A query starts with a search that nobody uses.
LEMMA QueryUse ==
  ASSUME Search!SearchAssumption, Search!OwnersWait, NEW s \in Searches, Search!Query(s)
  PROVE  Search!OwnersWait'
<1>1. ticks' = ticks /\ chain' = chain /\ user[s] = "idle"
  BY DEF Search!Query
<1>2. CASE ~Search!Room
  <2>1. search' = search /\ acts' = acts /\ user' = user
    BY <1>2 DEF Search!Query
  <2> QED BY <1>1, <2>1 DEF Search!OwnersWait, Search!SearchTypes, Search!UsedBySearch, Search!Posted, Search!InChain
<1>3. CASE Search!Room
  <2> DEFINE r == [Search!Freed EXCEPT !.alive = TRUE, !.state = "init", !.started = Search!Now, !.since = ticks]
  <2>1. /\ acts' = Append(acts, <<"add", s>>) /\ search' = [search EXCEPT ![s] = r]
        /\ user' = [user EXCEPT ![s] = "waiting"]
    BY <1>3 DEF Search!Query, Search!Act
  <2>2. r \in Search!Structures /\ r.alive /\ r.sem = 0 /\ r.state = "init"
    <3>1. PICK yes \in BOOLEAN : yes = TRUE
      BY Zenon
    <3>2. PICK at \in Nat : at = Search!Now
      BY UseTypes, SearchConstants, RemainderFacts DEF Search!Now
    <3>3. PICK t \in Nat : t = ticks
      BY UseTypes, SearchConstants
    <3>4. r = [Search!Freed EXCEPT !.alive = yes, !.state = "init", !.started = at, !.since = t]
      BY <3>1, <3>2, <3>3, Zenon
    <3>5. r.alive /\ r.sem = 0 /\ r.state = "init"
      BY DEF Search!Freed
    <3> HIDE DEF r
    <3> QED BY <3>4, <3>5, StartedStructure
  <2> HIDE DEF r
  <2>3. ~Search!Posted("add", s) /\ ~Search!Posted("end", s) /\ ~Search!InChain(s)
    BY <1>1, UseTypes DEF Search!UsedBySearch
  <2>4. /\ Search!GoodActs(acts') /\ Search!KnownActs(acts')
        /\ Search!ToSet(acts') = Search!ToSet(acts) \cup {<<"add", s>>}
    <3>1. <<"add", s>> \notin Search!ToSet(acts)
      BY <2>3 DEF Search!Posted, Search!Act
    <3>2. <<"add", s>>[1] \in Search!Kinds
      BY DEF Search!Kinds
    <3> QED BY <2>1, <3>1, <3>2, UseTypes, AppendGood, AppendKnown
  <2>5. /\ search' \in [Searches -> Search!Structures] /\ user' \in [Searches -> {"idle", "waiting", "ended"}]
        /\ search'[s] = r /\ user'[s] = "waiting"
        /\ \A x \in Searches : x # s => search'[x] = search[x] /\ user'[x] = user[x]
    BY <2>1, <2>2, UseTypes
  <2>6. ASSUME NEW x \in Searches PROVE Search!UsedBySearch(x)'
    <3>1. CASE x = s
      <4>1. ~Search!Posted("end", s)' /\ ~Search!InChain(s)'
        BY <1>1, <2>3, <2>4 DEF Search!Posted, Search!Act, Search!InChain
      <4> QED BY <2>2, <2>5, <3>1, <4>1, RemainderFacts DEF Search!UsedBySearch
    <3>2. CASE x # s
      <4>1. Search!Posted("add", x)' => Search!Posted("add", x)
        BY <2>4, <3>2 DEF Search!Posted, Search!Act
      <4>2. Search!Posted("end", x)' <=> Search!Posted("end", x)
        BY <2>4 DEF Search!Posted, Search!Act
      <4>3. Search!InChain(x)' <=> Search!InChain(x)
        BY <1>1 DEF Search!InChain
      <4> QED BY <2>5, <3>2, <4>1, <4>2, <4>3, UseTypes, UsedLess
    <3> QED BY <3>1, <3>2
  <2> QED BY <1>1, <2>4, <2>5, <2>6, UseTypes DEF Search!OwnersWait, Search!SearchTypes
<1> QED BY <1>2, <1>3

\* Who takes the results of a search, or deletes one, is the only one who
\* still has it.
LEMMA OwnerUse ==
  ASSUME Search!OwnersWait, NEW s \in Searches, ~Search!Posted("add", s), ~Search!Posted("end", s), ~Search!InChain(s),
         ticks' = ticks, chain' = chain, acts' = acts,
         NEW r \in Search!Structures, search' = [search EXCEPT ![s] = r],
         NEW u \in {"idle", "waiting", "ended"}, user' = [user EXCEPT ![s] = u]
  PROVE  Search!OwnersWait'
<1>1. /\ search' \in [Searches -> Search!Structures] /\ user' \in [Searches -> {"idle", "waiting", "ended"}]
      /\ \A x \in Searches : x # s => search'[x] = search[x] /\ user'[x] = user[x]
  BY UseTypes
<1>2. \A t, x : (Search!Posted(t, x)' <=> Search!Posted(t, x)) /\ (Search!InChain(x)' <=> Search!InChain(x))
  BY DEF Search!Posted, Search!InChain
<1>3. ASSUME NEW x \in Searches PROVE Search!UsedBySearch(x)'
  <2>1. CASE x = s
    BY <1>2, <2>1 DEF Search!UsedBySearch
  <2>2. CASE x # s
    BY <1>1, <1>2, <2>2, UseTypes, UsedLess
  <2> QED BY <2>1, <2>2
<1> QED BY <1>1, <1>3, UseTypes DEF Search!OwnersWait, Search!SearchTypes

LEMMA TakeUse ==
  ASSUME Search!SearchAssumption, Search!OwnersWait, NEW s \in Searches, Search!TakeResults(s)
  PROVE  Search!OwnersWait'
<1>1. /\ ticks' = ticks /\ chain' = chain /\ acts' = acts
      /\ user[s] = "waiting" /\ search[s].sem > 0
  BY DEF Search!TakeResults
<1>2. ~Search!Posted("add", s) /\ ~Search!Posted("end", s) /\ ~Search!InChain(s)
  BY <1>1, UseTypes DEF Search!UsedBySearch
<1>3. CASE s \in Async
  <2> DEFINE r == [search[s] EXCEPT !.sem = @ - 1]
  <2>1. search' = [search EXCEPT ![s] = r] /\ user' = [user EXCEPT ![s] = "ended"]
    BY <1>3 DEF Search!TakeResults
  <2>2. r \in Search!Structures
    <3>1. PICK m \in 0 .. 1 : m = search[s].sem - 1
      BY <1>1, UseTypes, FieldTypes
    <3>2. PICK q \in Search!Structures : q = search[s]
      BY UseTypes
    <3>3. [q EXCEPT !.sem = m] \in Search!Structures
      BY DEF Search!Structures
    <3> QED BY <3>1, <3>2, <3>3
  <2> HIDE DEF r
  <2> QED BY <1>1, <1>2, <2>1, <2>2, OwnerUse
<1>4. CASE s \notin Async
  <2>1. search' = [search EXCEPT ![s] = Search!Freed] /\ user' = [user EXCEPT ![s] = "idle"]
    BY <1>4 DEF Search!TakeResults
  <2> QED BY <1>1, <1>2, <2>1, FreedStructure, OwnerUse
<1> QED BY <1>3, <1>4

\* Who deletes a search that is off and has no end to come is its owner.
LEMMA DeleteUse ==
  ASSUME Search!SearchAssumption, Search!OwnersWait, NEW s \in Searches, Search!AsyncDelete(s), ~raced'
  PROVE  Search!OwnersWait'
<1>1. /\ ticks' = ticks /\ chain' = chain /\ acts' = acts
      /\ search[s].state = "off" /\ ~Search!Posted("end", s)
      /\ search' = [search EXCEPT ![s] = Search!Freed]
      /\ user' = [user EXCEPT ![s] = "idle"]
  BY DEF Search!AsyncDelete
<1>2. ~Search!Posted("add", s) /\ ~Search!Posted("end", s) /\ ~Search!InChain(s)
  BY <1>1, UseTypes DEF Search!UsedBySearch
<1> QED BY <1>1, <1>2, FreedStructure, OwnerUse

\* The timer posts the end only of an active search, which it turns off.
LEMMA ScanUse ==
  ASSUME Search!SearchAssumption, Search!OwnersWait, Search!ScanStep
  PROVE  Search!OwnersWait'
<1>1. /\ ticks' = ticks /\ chain' = chain /\ user' = user /\ scan \in DOMAIN chain
  BY DEF Search!ScanStep
<1>2. PICK s \in Searches : s = chain[scan] /\ Search!InChain(s)
  BY <1>1, UseTypes DEF Search!InChain, Search!ToSet
<1>3. Search!Now \in Nat /\ (Search!Now - Resend) % Period \in Nat
  <2>1. Start + ticks \in Int
    BY UseTypes, SearchConstants
  <2>2. Search!Now \in Nat
    BY <2>1, RemainderFacts DEF Search!Now
  <2> QED BY <2>2, SearchConstants, RemainderFacts
<1>4. ~Search!Posted("add", s) /\ (Search!Posted("end", s) => search[s].state = "off")
  BY <1>2, UseTypes DEF Search!UsedBySearch
<1>5. ASSUME NEW t \in {"send", "end"}, t = "end" => ~Search!Posted("end", s),
             NEW r \in Search!Structures, r.alive = search[s].alive, r.sem = search[s].sem,
             search' = [search EXCEPT ![s] = r],
             \/ (acts' = acts /\ r.state # "off")
             \/ (acts' = Append(acts, <<t, s>>) /\ (t = "end" <=> r.state = "off")),
             search[s].state # "off"
      PROVE  Search!OwnersWait'
  <2>1. /\ search' \in [Searches -> Search!Structures] /\ search'[s] = r
        /\ \A x \in Searches : x # s => search'[x] = search[x]
    BY <1>2, <1>5, UseTypes
  <2>2. /\ Search!GoodActs(acts') /\ Search!KnownActs(acts')
        /\ Search!ToSet(acts') \in {Search!ToSet(acts), Search!ToSet(acts) \cup {<<t, s>>}}
        /\ <<"end", s>> \in Search!ToSet(acts') <=> r.state = "off"
    <3>1. <<"end", s>> \notin Search!ToSet(acts)
      BY <1>4, <1>5 DEF Search!Posted, Search!Act
    <3>2. CASE acts' = acts
      <4>1. r.state # "off"
        <5>1. CASE acts' = Append(acts, <<t, s>>)
          <6>1. Len(acts') # Len(acts)
            <7>1. acts \in Seq(Search!ToSet(acts) \cup {<<t, s>>}) /\ <<t, s>> \in Search!ToSet(acts) \cup {<<t, s>>}
              BY UseTypes DEF Search!KnownActs
            <7> QED BY <5>1, <7>1
          <6> QED BY <3>2, <6>1
        <5> QED BY <1>5, <5>1
      <4> QED BY <3>1, <3>2, <4>1, UseTypes
    <3>3. CASE acts' = Append(acts, <<t, s>>)
      <4>1. <<t, s>>[1] \in Search!Kinds
        BY DEF Search!Kinds
      <4>2. t # "rx" /\ (t \in {"add", "end"} => <<t, s>> \notin Search!ToSet(acts))
        BY <3>1
      <4>3. /\ Search!GoodActs(acts') /\ Search!KnownActs(acts')
            /\ Search!ToSet(acts') = Search!ToSet(acts) \cup {<<t, s>>}
        BY <1>2, <3>3, <4>1, <4>2, UseTypes, AppendGood, AppendKnown
      <4>4. CASE t = "end"
        <5>1. acts # acts'
          BY <3>1, <4>3, <4>4
        <5>2. <<t, s>> = <<"end", s>>
          BY <4>4
        <5> QED BY <1>5, <4>3, <4>4, <5>1, <5>2
      <4>5. CASE t = "send"
        <5>1. <<"end", s>> # <<t, s>>
          BY <4>5
        <5>2. r.state # "off"
          BY <1>5, <4>5
        <5> QED BY <3>1, <4>3, <5>1, <5>2
      <4> QED BY <4>4, <4>5
    <3> QED BY <1>5, <3>2, <3>3
  <2>3. \A x : (Search!InChain(x)' <=> Search!InChain(x)) /\ (Search!Posted("add", x)' => Search!Posted("add", x))
    BY <1>1, <2>2 DEF Search!InChain, Search!Posted, Search!Act
  <2>4. \A x : x # s => (Search!Posted("end", x)' <=> Search!Posted("end", x))
    BY <2>2 DEF Search!Posted, Search!Act
  <2>5. ASSUME NEW x \in Searches PROVE Search!UsedBySearch(x)'
    <3>1. CASE x = s
      <4>1. user[s] = "waiting" /\ search[s].alive /\ search[s].sem = 0
        BY <1>2, UseTypes DEF Search!UsedBySearch
      <4>2. ~Search!Posted("add", s)' /\ Search!InChain(s)' /\ (Search!Posted("end", s)' <=> r.state = "off")
        BY <1>2, <1>4, <2>2, <2>3 DEF Search!Posted, Search!Act
      <4> QED BY <1>1, <1>5, <2>1, <3>1, <4>1, <4>2 DEF Search!UsedBySearch
    <3>2. CASE x # s
      BY <1>1, <2>1, <2>3, <2>4, <3>2, UseTypes, UsedLess
    <3> QED BY <3>1, <3>2
  <2> QED BY <1>1, <2>1, <2>2, <2>5, UseTypes DEF Search!OwnersWait, Search!SearchTypes
<1>6. CASE Search!Expired(s)
  <2> DEFINE st == IF Search!Room THEN "off" ELSE "running"
             soon == ticks - search[s].since <= Timeout
             r == [search[s] EXCEPT !.state = st, !.early = soon]
  <2>1. Search!ScanExpired(s)
    BY <1>2, <1>6 DEF Search!ScanStep
  <2>2. search[s].state # "off" /\ ~Search!Posted("end", s)
    BY <1>4, <1>6 DEF Search!Expired
  <2>3. PICK ea \in BOOLEAN : ea = soon
    <3>1. ticks \in Int /\ search[s].since \in Int
      BY <1>2, UseTypes, FieldTypes, SearchConstants
    <3>2. soon \in BOOLEAN
      BY <3>1, SearchConstants
    <3> QED BY <3>2
  <2>4. PICK to \in {"off", "running"} : to = st
    OBVIOUS
  <2>5. PICK q \in Search!Structures : q = search[s]
    BY <1>2, UseTypes
  <2>6. LET p == [q EXCEPT !.state = to, !.early = ea]
        IN  p \in Search!Structures /\ p.alive = q.alive /\ p.sem = q.sem /\ p.state = to
    BY DEF Search!Structures
  <2>7. search' = [search EXCEPT ![s] = r]
    BY <2>1 DEF Search!ScanExpired
  <2>8. r = [q EXCEPT !.state = to, !.early = ea]
    BY <2>3, <2>4, <2>5, Zenon
  <2>9. (acts' = acts /\ st # "off") \/ (acts' = Append(acts, <<"end", s>>) /\ st = "off")
    BY <2>1 DEF Search!ScanExpired, Search!Act
  <2> HIDE DEF r, st, soon
  <2>10. /\ r \in Search!Structures /\ r.alive = search[s].alive /\ r.sem = search[s].sem
         /\ r.state = st
    BY <2>4, <2>5, <2>6, <2>8
  <2>11. PICK t \in {"send", "end"} : t = "end"
    OBVIOUS
  <2>12. /\ t = "end" => ~Search!Posted("end", s)
         /\ \/ (acts' = acts /\ r.state # "off")
            \/ (acts' = Append(acts, <<t, s>>) /\ (t = "end" <=> r.state = "off"))
    BY <2>2, <2>9, <2>10, <2>11
  <2> QED BY <1>5, <2>2, <2>7, <2>10, <2>12
<1>7. CASE ~Search!Expired(s) /\ Search!IsDue(s)
  <2> DEFINE r == [search[s] EXCEPT !.state = "running",
                                    !.sent = IF Search!Room THEN Search!Now ELSE (Search!Now - Resend) % Period,
                                    !.late = ticks - search[s].since]
  <2>1. Search!ScanSend(s)
    BY <1>2, <1>7 DEF Search!ScanStep
  <2>2. search[s].state # "off"
    BY <1>7 DEF Search!IsDue
  <2>3. PICK at \in Nat : at = IF Search!Room THEN Search!Now ELSE (Search!Now - Resend) % Period
    BY <1>3
  <2>4. PICK la \in Int : la = ticks - search[s].since
    BY <1>2, UseTypes, FieldTypes, SearchConstants
  <2>5. PICK q \in Search!Structures : q = search[s]
    BY <1>2, UseTypes
  <2>6. LET p == [q EXCEPT !.state = "running", !.sent = at, !.late = la]
        IN  p \in Search!Structures /\ p.alive = q.alive /\ p.sem = q.sem /\ p.state = "running"
    BY DEF Search!Structures
  <2>7. search' = [search EXCEPT ![s] = r]
    BY <2>1 DEF Search!ScanSend
  <2>8. r = [q EXCEPT !.state = "running", !.sent = at, !.late = la]
    BY <2>3, <2>4, <2>5, Zenon
  <2>9. acts' = acts \/ acts' = Append(acts, <<"send", s>>)
    BY <2>1 DEF Search!ScanSend, Search!Act
  <2> HIDE DEF r
  <2>10. /\ r \in Search!Structures /\ r.alive = search[s].alive /\ r.sem = search[s].sem
         /\ r.state = "running"
    BY <2>5, <2>6, <2>8
  <2>11. PICK t \in {"send", "end"} : t = "send"
    OBVIOUS
  <2>12. /\ t = "end" => ~Search!Posted("end", s)
         /\ \/ (acts' = acts /\ r.state # "off")
            \/ (acts' = Append(acts, <<t, s>>) /\ (t = "end" <=> r.state = "off"))
    BY <2>9, <2>10, <2>11
  <2> QED BY <1>5, <2>2, <2>7, <2>10, <2>12
<1>8. CASE ~Search!Expired(s) /\ ~Search!IsDue(s)
  <2>1. search' = search /\ acts' = acts
    BY <1>2, <1>8 DEF Search!ScanStep
  <2> QED BY <1>1, <2>1 DEF Search!OwnersWait, Search!SearchTypes, Search!UsedBySearch, Search!Posted, Search!InChain
<1> QED BY <1>6, <1>7, <1>8

\* A detached search is no longer in the chain, and the others are.
LEMMA DetachIs ==
  ASSUME chain \in Seq(Searches), NEW gone
  PROVE  /\ Search!Detach(gone) \in Seq(Searches)
         /\ \A x : x \in Search!ToSet(Search!Detach(gone)) <=> x \in Search!ToSet(chain) /\ x \notin gone
<1> DEFINE w == Search!Without(chain, gone)
<1>1. /\ w \in Seq(Searches)
      /\ \A x : (\E k \in 1 .. Len(w) : w[k] = x)
                  <=> x \notin gone /\ \E k \in 1 .. Len(chain) : chain[k] = x
  BY WithoutIs
<1> HIDE DEF w
<1>2. DOMAIN w = 1 .. Len(w) /\ DOMAIN chain = 1 .. Len(chain)
  BY <1>1
<1>3. \A x : x \in Search!ToSet(w) <=> x \in Search!ToSet(chain) /\ x \notin gone
  BY <1>1, <1>2 DEF Search!ToSet
<1> QED BY <1>1, <1>3 DEF Search!Detach, w

\* The service task takes an action off the queue.
LEMMA TailUse ==
  ASSUME Search!OwnersWait, acts # <<>>, acts' = Tail(acts)
  PROVE  /\ Search!GoodActs(acts') /\ Search!ToSet(acts') \subseteq Search!ToSet(acts)
         /\ \A t, x : Search!Posted(t, x)' => Search!Posted(t, x)
         /\ \A x : Head(acts)[1] # "end" \/ Head(acts)[2] # x =>
                        (Search!Posted("end", x) => Search!Posted("end", x)')
<1>1. \A x : Head(acts)[1] # "end" \/ Head(acts)[2] # x => Search!Act("end", x) # Head(acts)
  BY DEF Search!Act
<1> QED BY <1>1, UseTypes, TailGood DEF Search!Posted

\* The packet ends the searches that it fills, which are not being ended yet.
LEMMA ParseUse ==
  ASSUME Search!SearchAssumption, Search!OwnersWait, ~raced',
         acts # <<>>, acts' = Tail(acts), Head(acts)[1] = "rx", Search!KnownActs(acts'),
         Search!Parse, ticks' = ticks, user' = user
  PROVE  Search!OwnersWait'
<1> DEFINE found(hit) == [x \in Searches |-> IF x \in hit /\ (Search!StoredMax = 0 \/ search[x].num < Search!StoredMax)
                                             THEN [search[x] EXCEPT !.num = @ + 1] ELSE search[x]]
           full(hit, done) == {x \in Search!ToSet(chain) :
                                 done /\ Search!StoredMax # 0 /\ found(hit)[x].num >= Search!StoredMax}
<1>1. PICK hit \in SUBSET {x \in Search!ToSet(chain) : search[x].state # "off"}, done \in BOOLEAN :
        /\ search' = Search!Finish(found(hit), full(hit, done)) /\ chain' = Search!Detach(full(hit, done))
        /\ raced' = (raced \/ \E x \in full(hit, done) : Search!Posted("end", x))
  BY Zenon DEF Search!Parse
<1> DEFINE g == found(hit)
           gone == full(hit, done)
<1>2. /\ g \in [Searches -> Search!Structures]
      /\ \A x \in Searches : /\ g[x].state = search[x].state /\ g[x].alive = search[x].alive
                             /\ g[x].sem = search[x].sem
                             /\ x \notin hit => g[x] = search[x]
  BY UseTypes, FoundIs
<1>3. gone \subseteq Search!ToSet(chain)
  OBVIOUS
<1>4. /\ search' = Search!Finish(g, gone) /\ chain' = Search!Detach(gone)
      /\ \A x \in gone : ~Search!Posted("end", x)
  BY <1>1
<1> HIDE DEF g, gone, found, full
<1>5. /\ chain' \in Seq(Searches)
      /\ \A x : Search!InChain(x)' <=> Search!InChain(x) /\ x \notin gone
  BY <1>4, UseTypes, DetachIs DEF Search!InChain
<1>6. /\ search' \in [Searches -> Search!Structures]
      /\ \A x \in Searches : x \notin gone => search'[x] = g[x]
  BY <1>2, <1>4, FinishIs
<1>7. /\ Search!GoodActs(acts') /\ \A t, x : Search!Posted(t, x)' => Search!Posted(t, x)
      /\ \A x : Search!Posted("end", x) <=> Search!Posted("end", x)'
  BY TailUse
<1>8. ASSUME NEW x \in Searches PROVE Search!UsedBySearch(x)'
  <2>1. Search!UsedBySearch(x)
    BY UseTypes
  <2>2. CASE x \in gone
    <3>1. Search!InChain(x) /\ ~Search!Posted("end", x)
      BY <1>3, <1>4, <2>2 DEF Search!InChain
    <3>2. ~Search!Posted("end", x)' /\ ~Search!Posted("add", x)' /\ ~Search!InChain(x)'
      BY <1>5, <1>7, <2>1, <2>2, <3>1 DEF Search!UsedBySearch
    <3> QED BY <3>2 DEF Search!UsedBySearch
  <2>3. CASE x \notin gone /\ Search!InChain(x)
    <3>1. search'[x] = g[x] /\ Search!InChain(x)' /\ ~Search!Posted("add", x)'
      BY <1>5, <1>6, <1>7, <2>1, <2>3 DEF Search!UsedBySearch
    <3> QED BY <1>2, <1>7, <2>1, <2>3, <3>1 DEF Search!UsedBySearch
  <2>4. CASE x \notin gone /\ ~Search!InChain(x)
    <3>1. x \notin hit
      BY <2>4 DEF Search!InChain
    <3>2. search'[x] = search[x]
      BY <1>2, <1>6, <2>4, <3>1
    <3> QED BY <1>5, <1>7, <2>1, <2>4, <3>2, UsedLess
  <2> QED BY <2>2, <2>3, <2>4
<1> QED BY <1>5, <1>6, <1>7, <1>8, UseTypes DEF Search!OwnersWait, Search!SearchTypes

LEMMA ExecuteUse ==
  ASSUME Search!SearchAssumption, Search!OwnersWait, ~raced', Search!Execute
  PROVE  Search!OwnersWait'
<1>1. ticks' = ticks /\ user' = user /\ acts # <<>> /\ acts' = Tail(acts)
  BY DEF Search!Execute
<1>2. Search!KnownActs(acts') /\ Head(acts)[1] \in Search!Kinds
  BY <1>1, UseTypes, TailKnown
<1>3. PICK t, s : t = Head(acts)[1] /\ s = Head(acts)[2]
  OBVIOUS
<1>4. /\ Head(acts) = Search!Act(t, s) /\ (t # "rx" => s \in Searches)
      /\ Search!Posted(t, s)
      /\ t \in {"add", "end"} => ~Search!Posted(t, s)'
  BY <1>1, <1>3, UseTypes, TailGood DEF Search!Posted
<1>5. /\ Search!GoodActs(acts') /\ \A a, x : Search!Posted(a, x)' => Search!Posted(a, x)
      /\ \A x : t # "end" \/ s # x => (Search!Posted("end", x) => Search!Posted("end", x)')
  BY <1>1, <1>3, TailUse
<1>6. CASE t = "add"
  <2>1. chain' = <<s>> \o chain /\ search' = search /\ s \in Searches
    BY <1>3, <1>4, <1>6 DEF Search!Execute
  <2>2. chain' \in Seq(Searches) /\ \A x : Search!InChain(x)' <=> x = s \/ Search!InChain(x)
    <3>1. PICK c \in Seq(Searches) : c = chain
      BY UseTypes
    <3> DEFINE b == <<s>> \o c
    <3>2. /\ b \in Seq(Searches) /\ Len(b) = Len(c) + 1 /\ Len(c) \in Nat /\ b[1] = s
          /\ \A k \in 1 .. Len(c) : b[k + 1] = c[k]
          /\ DOMAIN b = 1 .. Len(b) /\ DOMAIN c = 1 .. Len(c)
      BY <2>1
    <3> HIDE DEF b
    <3>3. \A k \in DOMAIN b : k = 1 \/ (k - 1 \in DOMAIN c /\ k = k - 1 + 1)
      BY <3>2
    <3>4. 1 \in DOMAIN b /\ \A k \in DOMAIN c : k + 1 \in DOMAIN b
      BY <3>2
    <3>5. Search!ToSet(b) = {s} \cup Search!ToSet(c)
      <4>1. \A k \in DOMAIN b : b[k] \in {s} \cup Search!ToSet(c)
        BY <3>2, <3>3 DEF Search!ToSet
      <4>2. s \in Search!ToSet(b) /\ \A k \in DOMAIN c : c[k] \in Search!ToSet(b)
        <5>1. \A k \in DOMAIN b : b[k] \in Search!ToSet(b)
          BY DEF Search!ToSet
        <5> QED BY <3>2, <3>4, <5>1
      <4> QED BY <4>1, <4>2 DEF Search!ToSet
    <3> QED BY <2>1, <3>1, <3>2, <3>5 DEF Search!InChain, b
  <2>3. ASSUME NEW x \in Searches PROVE Search!UsedBySearch(x)'
    <3>1. CASE x = s
      <4>1. Search!Posted("add", s) /\ ~Search!Posted("add", s)' /\ Search!UsedBySearch(s)
        BY <1>4, <1>6, <2>1, UseTypes
      <4>2. ~Search!Posted("end", s)'
        BY <1>5, <4>1 DEF Search!UsedBySearch
      <4> QED BY <1>1, <2>1, <3>1, <4>1, <4>2 DEF Search!UsedBySearch
    <3>2. CASE x # s
      BY <1>1, <1>5, <1>6, <2>1, <2>2, <3>2, UseTypes, UsedLess
    <3> QED BY <3>1, <3>2
  <2> QED BY <1>1, <1>2, <1>5, <2>1, <2>2, <2>3, UseTypes DEF Search!OwnersWait, Search!SearchTypes
<1>7. CASE t = "send"
  <2>1. chain' = chain /\ search' = search
    BY <1>3, <1>7 DEF Search!Execute
  <2>2. \A x \in Searches : Search!UsedBySearch(x)'
    BY <1>1, <1>5, <1>7, <2>1, UseTypes, UsedLess DEF Search!InChain
  <2> QED BY <1>1, <1>2, <1>5, <2>1, <2>2, UseTypes DEF Search!OwnersWait, Search!SearchTypes
<1>8. CASE t = "end"
  <2>1. PICK gone : gone = {s}
    OBVIOUS
  <2>2. chain' = Search!Detach(gone) /\ search' = Search!Finish(search, gone) /\ s \in Searches
    BY <1>3, <1>4, <1>8, <2>1 DEF Search!Execute
  <2>3. chain' \in Seq(Searches) /\ \A x : Search!InChain(x)' <=> Search!InChain(x) /\ x # s
    BY <2>1, <2>2, UseTypes, DetachIs DEF Search!InChain
  <2>4. search' \in [Searches -> Search!Structures] /\ \A x \in Searches : x # s => search'[x] = search[x]
    BY <2>1, <2>2, UseTypes, FinishIs
  <2>5. ASSUME NEW x \in Searches PROVE Search!UsedBySearch(x)'
    <3>1. CASE x = s
      <4>1. Search!Posted("end", s) /\ ~Search!Posted("end", s)' /\ Search!UsedBySearch(s)
        BY <1>4, <1>8, <2>2, UseTypes
      <4>2. ~Search!Posted("add", s)' /\ ~Search!InChain(s)'
        BY <1>5, <2>3, <4>1 DEF Search!UsedBySearch
      <4> QED BY <3>1, <4>1, <4>2 DEF Search!UsedBySearch
    <3>2. CASE x # s
      BY <1>1, <1>5, <2>3, <2>4, <3>2, UseTypes, UsedLess
    <3> QED BY <3>1, <3>2
  <2> QED BY <1>1, <1>2, <1>5, <2>3, <2>4, <2>5, UseTypes DEF Search!OwnersWait, Search!SearchTypes
<1>9. CASE t = "rx"
  <2>1. Search!Parse
    BY <1>3, <1>9 DEF Search!Execute
  <2> QED BY <1>1, <1>2, <1>3, <1>9, <2>1, ParseUse
<1> QED BY <1>2, <1>3, <1>6, <1>7, <1>8, <1>9 DEF Search!Kinds

LEMMA ReceiveUse ==
  ASSUME Search!SearchAssumption, Search!OwnersWait, Search!Receive
  PROVE  Search!OwnersWait'
<1>1. /\ ticks' = ticks /\ search' = search /\ chain' = chain /\ user' = user
      /\ acts' = Append(acts, <<"rx", Search!NoSearch>>)
  BY DEF Search!Receive, Search!Act
<1>2. /\ Search!GoodActs(acts') /\ Search!KnownActs(acts')
      /\ Search!ToSet(acts') = Search!ToSet(acts) \cup {<<"rx", Search!NoSearch>>}
  <2>1. <<"rx", Search!NoSearch>>[1] \in Search!Kinds
    BY DEF Search!Kinds
  <2>2. PICK t, s : t = "rx" /\ s = Search!NoSearch
    OBVIOUS
  <2>3. acts' = Append(acts, <<t, s>>) /\ <<t, s>>[1] \in Search!Kinds
    BY <1>1, <2>1, <2>2
  <2> QED BY <2>2, <2>3, UseTypes, AppendGood, AppendKnown
<1>3. \A x \in Searches : Search!UsedBySearch(x)'
  <2>1. \A x : /\ Search!Posted("add", x)' => Search!Posted("add", x)
               /\ Search!Posted("end", x)' <=> Search!Posted("end", x)
    BY <1>2 DEF Search!Posted, Search!Act
  <2> QED BY <1>1, <2>1, UseTypes, UsedLess DEF Search!InChain
<1> QED BY <1>1, <1>2, <1>3, UseTypes DEF Search!OwnersWait, Search!SearchTypes

LEMMA NextUse ==
  ASSUME Search!SearchAssumption, Search!UseInv, [Search!Next]_(Search!vars)
  PROVE  Search!UseInv'
<1>1. raced' \in BOOLEAN /\ (raced => raced')
  <2>1. raced \in BOOLEAN
    BY DEF Search!UseInv
  <2>2. CASE \E s \in Searches : Search!AsyncDelete(s)
    BY <2>1, <2>2 DEF Search!AsyncDelete
  <2>3. CASE Search!Execute
    <3>1. Search!Parse => raced' \in BOOLEAN /\ (raced => raced')
      BY <2>1, Zenon DEF Search!Parse
    <3>2. Search!Parse \/ raced' = raced
      BY <2>3, Zenon DEF Search!Execute
    <3> QED BY <2>1, <3>1, <3>2
  <2>4. CASE \/ \E s \in Searches : Search!Query(s) \/ Search!TakeResults(s)
             \/ Search!ScanStart \/ Search!ScanStep \/ Search!ScanEnd \/ Search!Receive \/ Search!Tick
             \/ UNCHANGED Search!vars
    BY <2>1, <2>4 DEF Search!Query, Search!TakeResults, Search!ScanStart, Search!ScanStep, Search!ScanEnd,
                      Search!Receive, Search!Tick, Search!vars
  <2> QED BY <2>2, <2>3, <2>4 DEF Search!Next
<1>2. ASSUME ~raced' PROVE Search!OwnersWait'
  <2>0. Search!OwnersWait
    BY <1>1, <1>2 DEF Search!UseInv
  <2>1. CASE \E s \in Searches : Search!Query(s) \/ Search!TakeResults(s) \/ Search!AsyncDelete(s)
    BY <1>2, <2>0, <2>1, QueryUse, TakeUse, DeleteUse
  <2>2. CASE Search!ScanStart \/ Search!ScanEnd \/ UNCHANGED Search!vars
    <3>1. ticks' = ticks /\ search' = search /\ chain' = chain /\ user' = user /\ acts' = acts
      BY <2>2 DEF Search!ScanStart, Search!ScanEnd, Search!vars
    <3> QED BY <2>0, <3>1 DEF Search!OwnersWait, Search!SearchTypes, Search!UsedBySearch, Search!Posted,
                              Search!InChain
  <2>3. CASE Search!Tick
    <3>1. /\ ticks' \in 0 .. MaxTicks
          /\ search' = search /\ chain' = chain /\ user' = user /\ acts' = acts
      BY <2>0, <2>3, UseTypes, SearchConstants DEF Search!Tick
    <3> QED BY <2>0, <3>1 DEF Search!OwnersWait, Search!SearchTypes, Search!UsedBySearch, Search!Posted,
                              Search!InChain
  <2>4. CASE Search!ScanStep \/ Search!Execute \/ Search!Receive
    BY <1>2, <2>0, <2>4, ScanUse, ExecuteUse, ReceiveUse
  <2> QED BY <2>1, <2>2, <2>3, <2>4 DEF Search!Next
<1> QED BY <1>1, <1>2 DEF Search!UseInv

LEMMA UseSafe ==
  ASSUME Search!UseInv
  PROVE  Search!NobodyUsesFreed /\ Search!EndsOnce
<1>0. SUFFICES ASSUME Search!OwnersWait PROVE Search!NobodyUsesFreed /\ Search!EndsOnce
  BY DEF Search!UseInv, Search!NobodyUsesFreed, Search!EndsOnce
<1>1. Search!NobodyUsesFreed
  <2>1. ASSUME NEW s \in Search!ToSet(chain) PROVE search[s].alive
    <3>1. s \in Searches
      BY <1>0, UseTypes DEF Search!ToSet
    <3> QED BY <3>1, <1>0, UseTypes DEF Search!UsedBySearch, Search!InChain
  <2>2. ASSUME NEW k \in DOMAIN acts, acts[k][1] \in {"add", "end"} PROVE search[acts[k][2]].alive
    <3>1. PICK t, s : t = acts[k][1] /\ s = acts[k][2]
      OBVIOUS
    <3>2. acts[k] = Search!Act(t, s) /\ s \in Searches
      BY <2>2, <3>1, <1>0, UseTypes DEF Search!GoodActs
    <3>3. Search!Posted(t, s)
      BY <3>2 DEF Search!Posted, Search!ToSet
    <3> QED BY <2>2, <3>1, <3>2, <3>3, <1>0, UseTypes DEF Search!UsedBySearch
  <2> QED BY <2>1, <2>2 DEF Search!NobodyUsesFreed
<1>2. ASSUME NEW s \in Searches
      PROVE  LET ends == {k \in DOMAIN acts : acts[k] = Search!Act("end", s)}
             IN  /\ \A j, k \in ends : j = k
                 /\ search[s].sem = 1 => ends = {} /\ ~Search!InChain(s) /\ Search!Act("add", s) \notin Search!ToSet(acts)
  <2>1. Search!Act("end", s)[1] = "end"
    BY DEF Search!Act
  <2>2. \A j, k \in DOMAIN acts : acts[j] = Search!Act("end", s) /\ acts[k] = Search!Act("end", s) => j = k
    BY <2>1, <1>0, UseTypes DEF Search!GoodActs
  <2>3. search[s].sem = 1 => ~Search!Posted("end", s) /\ ~Search!InChain(s) /\ ~Search!Posted("add", s)
    BY <1>0, UseTypes DEF Search!UsedBySearch
  <2>4. ~Search!Posted("end", s) => \A k \in DOMAIN acts : acts[k] # Search!Act("end", s)
    BY DEF Search!Posted, Search!ToSet
  <2> QED BY <2>2, <2>3, <2>4 DEF Search!Posted
<1> QED BY <1>1, <1>2 DEF Search!EndsOnce

\* mdns_query_generic frees its search when the semaphore is given; that comes
\* last, after the search has left the chain and its only end has been executed,
\* whatever packets come and whenever an asynchronous query is deleted, until one
\* is deleted, or ended as full, while its end is still in the queue.
THEOREM SearchLifetime ==
  ASSUME Search!SearchAssumption
  PROVE  Search!Spec => [](Search!NobodyUsesFreed /\ Search!EndsOnce)
<1>1. Search!Init => Search!UseInv
  BY InitUse
<1>2. Search!UseInv /\ [Search!Next]_(Search!vars) => Search!UseInv'
  BY NextUse
<1>3. Search!UseInv => Search!NobodyUsesFreed /\ Search!EndsOnce
  BY UseSafe
<1> QED BY <1>1, <1>2, <1>3, PTL DEF Search!Spec

\* As long as the clock does not wrap, the timer neither ends a search before
\* its timeout nor sends it again after that; and a max_results that its uint8_t
\* can hold is not exceeded.
THEOREM SearchLimits ==
  ASSUME Search!SearchAssumption, Start + MaxTicks + Timeout < Period, MaxResults < Width
  PROVE  Search!Spec => [](Search!TimeoutIsKept /\ Search!MaxIsKept)
<1>1. Search!Init => Search!SearchInv
  BY SearchInitStep
<1>2. Search!SearchInv /\ [Search!Next]_(Search!vars) => Search!SearchInv'
  <2>1. ASSUME Search!SearchInv, UNCHANGED Search!vars PROVE Search!SearchInv'
    BY <2>1, SearchStands
  <2> QED BY <2>1, SearchNextStep
<1>3. Search!SearchInv => Search!TimeoutIsKept /\ Search!MaxIsKept
  BY SearchSafe
<1> QED BY <1>1, <1>2, <1>3, PTL DEF Search!Spec


-----------------------------------------------------------------------------
(* The life of the server: every object has one owner.                     *)

USE DEF history

LEMMA OneOwnerIs ==
  ASSUME NEW q, NEW t, NEW s, NEW b, NEW i, NEW u, NEW all
  PROVE  OneOwner(q, t, s, b, i, u, all) <=>
         \A o :
           /\ o \in all <=> o \in q \/ o \in t \/ o \in s \/ o \in b \/ o \in i \/ o \in u
           /\ o \in q => o \notin t /\ o \notin s /\ o \notin b /\ o \notin i /\ o \notin u
           /\ o \in t => o \notin s /\ o \notin b /\ o \notin i /\ o \notin u
           /\ o \in s => o \notin b /\ o \notin i /\ o \notin u
           /\ o \in b => o \notin i /\ o \notin u
           /\ o \in i => o \notin u
BY DEF OneOwner

\* The heap.
AllocatedIn(h) == [h EXCEPT !.live = @ \cup {h.next}, !.next = @ + 1]

LEMMA HeapFields ==
  ASSUME NEW h \in Heaps
  PROVE  h.live \subseteq Nat /\ h.next \in Nat \ {0} /\ h.user \subseteq Nat
BY DEF Heaps

LEMMA FreedIs ==
  ASSUME NEW h \in Heaps, ~h.twice, NEW S, S \subseteq h.live
  PROVE  /\ Freed(h, S) \in Heaps /\ ~Freed(h, S).twice
         /\ Freed(h, S).live = h.live \ S /\ Freed(h, S).next = h.next /\ Freed(h, S).user = h.user
<1>1. PICK no \in BOOLEAN : no = FALSE /\ no = (h.twice \/ ~(S \subseteq h.live))
  BY Zenon
<1>2. PICK rest \in SUBSET Nat : rest = h.live \ S
  BY HeapFields
<1>3. Freed(h, S) = [h EXCEPT !.live = rest, !.twice = no]
  BY <1>1, <1>2, Zenon DEF Freed
<1>4. LET f == [h EXCEPT !.live = rest, !.twice = no]
      IN  f \in Heaps /\ f.twice = no /\ f.live = rest /\ f.next = h.next /\ f.user = h.user
  BY DEF Heaps
<1> QED BY <1>1, <1>2, <1>3, <1>4

LEMMA UsedIs ==
  ASSUME NEW h \in Heaps, ~h.twice, NEW S, S \subseteq h.live
  PROVE  /\ Used(h, S) \in Heaps /\ ~Used(h, S).twice
         /\ Used(h, S).live = h.live /\ Used(h, S).next = h.next /\ Used(h, S).user = h.user
<1>1. PICK no \in BOOLEAN : no = FALSE /\ no = (h.twice \/ ~(S \subseteq h.live))
  BY Zenon
<1>2. Used(h, S) = [h EXCEPT !.twice = no]
  BY <1>1, Zenon DEF Used
<1>3. LET f == [h EXCEPT !.twice = no]
      IN  f \in Heaps /\ f.twice = no /\ f.live = h.live /\ f.next = h.next /\ f.user = h.user
  BY DEF Heaps
<1> QED BY <1>1, <1>2, <1>3

LEMMA AllocatedIs ==
  ASSUME NEW h \in Heaps, ~h.twice
  PROVE  LET f == AllocatedIn(h)
         IN  /\ f \in Heaps /\ ~f.twice
             /\ f.live = h.live \cup {h.next} /\ f.next = h.next + 1 /\ f.user = h.user
<1>1. PICK more \in SUBSET Nat : more = h.live \cup {h.next}
  BY HeapFields
<1>2. PICK n \in Nat \ {0} : n = h.next + 1
  BY HeapFields
<1>3. AllocatedIn(h) = [h EXCEPT !.live = more, !.next = n]
  BY <1>1, <1>2, Zenon DEF AllocatedIn
<1>4. LET f == [h EXCEPT !.live = more, !.next = n]
      IN  f \in Heaps /\ f.twice = h.twice /\ f.live = more /\ f.next = n /\ f.user = h.user
  BY DEF Heaps
<1> QED BY <1>1, <1>2, <1>3, <1>4

\* The user gets or gives back an object.
LEMMA UserIs ==
  ASSUME NEW h \in Heaps, ~h.twice, NEW u \in SUBSET Nat
  PROVE  LET f == [h EXCEPT !.user = u]
         IN  f \in Heaps /\ ~f.twice /\ f.live = h.live /\ f.next = h.next /\ f.user = u
BY DEF Heaps

\* Sequences of actions.
LEMMA AppendIs ==
  ASSUME NEW S, NEW q \in Seq(S), NEW a \in S
  PROVE  /\ Append(q, a) \in Seq(S) /\ Len(q) \in Nat
         /\ DOMAIN q = 1 .. Len(q) /\ DOMAIN Append(q, a) = 1 .. Len(q) + 1
         /\ \A k \in DOMAIN q : k \in DOMAIN Append(q, a) /\ Append(q, a)[k] = q[k] /\ k < Len(q) + 1
         /\ Append(q, a)[Len(q) + 1] = a /\ Len(q) + 1 \in DOMAIN Append(q, a)
         /\ \A k \in DOMAIN Append(q, a) : k = Len(q) + 1 \/ k \in DOMAIN q
OBVIOUS

LEMMA TailIs ==
  ASSUME NEW S, NEW q \in Seq(S), q # <<>>
  PROVE  /\ Tail(q) \in Seq(S) /\ Head(q) = q[1] /\ 1 \in DOMAIN q /\ Head(q) \in S
         /\ \A k \in DOMAIN Tail(q) : k \in Nat /\ k + 1 \in DOMAIN q /\ Tail(q)[k] = q[k + 1] /\ k + 1 # 1
         /\ \A k \in DOMAIN q : k = 1 \/ (k \in Nat /\ k - 1 \in DOMAIN Tail(q) /\ Tail(q)[k - 1] = q[k] /\ k - 1 + 1 = k)
<1>1. DOMAIN q = 1 .. Len(q) /\ Len(q) \in Nat /\ Len(q) > 0 /\ DOMAIN Tail(q) = 1 .. Len(q) - 1
  OBVIOUS
<1>2. \A k \in 1 .. Len(q) - 1 : Tail(q)[k] = q[k + 1]
  OBVIOUS
<1>3. Tail(q) \in Seq(S) /\ Head(q) = q[1] /\ Head(q) \in S
  OBVIOUS
<1> QED BY <1>1, <1>2, <1>3

LEMMA ActionFields ==
  ASSUME NEW a \in Actions
  PROVE  a.type \in ActionTypes /\ a.obj \in Nat
BY DEF Actions

LEMMA QueueAppend ==
  ASSUME NEW q \in Seq(Actions), NEW a \in Actions
  PROVE  InQueue(Append(q, a)) = InQueue(q) \cup (IF a.type \in Owning THEN {a.obj} ELSE {})
<1> DEFINE b == Append(q, a)
<1>1. /\ \A k \in DOMAIN q : k \in DOMAIN b /\ b[k] = q[k]
      /\ b[Len(q) + 1] = a /\ Len(q) + 1 \in DOMAIN b
      /\ \A k \in DOMAIN b : k = Len(q) + 1 \/ k \in DOMAIN q
  BY AppendIs
<1> HIDE DEF b
<1>2. \A o : o \in InQueue(b) <=> \E k \in DOMAIN b : b[k].type \in Owning /\ b[k].obj = o
  BY DEF InQueue
<1>3. \A o : o \in InQueue(q) <=> \E k \in DOMAIN q : q[k].type \in Owning /\ q[k].obj = o
  BY DEF InQueue
<1>4. ASSUME NEW o
      PROVE  o \in InQueue(b) <=> o \in InQueue(q) \/ (a.type \in Owning /\ a.obj = o)
  <2>1. o \in InQueue(b) => o \in InQueue(q) \/ (a.type \in Owning /\ a.obj = o)
    BY <1>1, <1>2, <1>3
  <2>2. o \in InQueue(q) => o \in InQueue(b)
    BY <1>1, <1>2, <1>3
  <2>3. a.type \in Owning /\ a.obj = o => o \in InQueue(b)
    BY <1>1, <1>2
  <2> QED BY <2>1, <2>2, <2>3
<1> QED BY <1>4 DEF b

LEMMA QueueTail ==
  ASSUME NEW q \in Seq(Actions), q # <<>>, NEW tx, OnceEach(q, tx)
  PROVE  /\ InQueue(Tail(q)) = InQueue(q) \ (IF Head(q).type \in Owning THEN {Head(q).obj} ELSE {})
         /\ Head(q).type \in Owning => Head(q).obj \in InQueue(q)
         /\ OnceEach(Tail(q), tx)
<1> DEFINE b == Tail(q)
           e == Head(q)
<1>1. /\ e = q[1] /\ 1 \in DOMAIN q
      /\ \A k \in DOMAIN b : k \in Nat /\ k + 1 \in DOMAIN q /\ b[k] = q[k + 1] /\ k + 1 # 1
      /\ \A k \in DOMAIN q : k = 1 \/ (k \in Nat /\ k - 1 \in DOMAIN b /\ b[k - 1] = q[k] /\ k - 1 + 1 = k)
  BY TailIs
<1> HIDE DEF b, e
<1>2. \A o : o \in InQueue(b) <=> \E k \in DOMAIN b : b[k].type \in Owning /\ b[k].obj = o
  BY DEF InQueue
<1>3. \A o : o \in InQueue(q) <=> \E k \in DOMAIN q : q[k].type \in Owning /\ q[k].obj = o
  BY DEF InQueue
<1>4. \A k \in DOMAIN q : q[k].type \in Owning /\ e.type \in Owning /\ q[k].obj = e.obj => k = 1
  BY <1>1 DEF OnceEach
<1>5. ASSUME NEW o
      PROVE  o \in InQueue(b) <=> o \in InQueue(q) /\ ~(e.type \in Owning /\ e.obj = o)
  <2>1. ASSUME o \in InQueue(b) PROVE o \in InQueue(q) /\ ~(e.type \in Owning /\ e.obj = o)
    <3>1. PICK k \in DOMAIN b : b[k].type \in Owning /\ b[k].obj = o
      BY <1>2, <2>1
    <3>2. k + 1 \in DOMAIN q /\ q[k + 1].type \in Owning /\ q[k + 1].obj = o /\ k + 1 # 1
      BY <1>1, <3>1
    <3>3. o \in InQueue(q)
      BY <1>3, <3>2
    <3> QED BY <1>4, <3>2, <3>3
  <2>2. o \in InQueue(q) /\ ~(e.type \in Owning /\ e.obj = o) => o \in InQueue(b)
    BY <1>1, <1>2, <1>3
  <2> QED BY <2>1, <2>2
<1>6. e.type \in Owning => e.obj \in InQueue(q)
  BY <1>1, <1>3
<1>7. OnceEach(b, tx)
  <2>1. \A j, k \in DOMAIN b : j + 1 = k + 1 => j = k
    BY <1>1
  <2> QED BY <1>1, <2>1 DEF OnceEach
<1> QED BY <1>5, <1>6, <1>7 DEF b, e

-----------------------------------------------------------------------------
(* What each operation does to the owners.                                 *)

LEMMA OwnedFacts ==
  ASSUME NEW q, NEW tx, NEW s, NEW b, NEW i, NEW h, Owned(q, tx, s, b, i, h)
  PROVE  /\ q \in Seq(Actions) /\ tx \in Seq(Packets) /\ s \subseteq Nat /\ b \subseteq Nat /\ i \in Nat
         /\ h \in Heaps /\ ~h.twice
         /\ OneOwner(InQueue(q), Objects(tx), s, b, {i} \ {0}, h.user, h.live)
         /\ h.next \in Nat \ {0} /\ h.next \notin h.live
         /\ \A o \in h.live : o # 0 /\ o < h.next /\ o \in Nat
         /\ OnceEach(q, tx)
         /\ \A k \in DOMAIN q : q[k].type = "SEARCH_END" => q[k].obj \in s
BY HeapFields DEF Owned

\* A new object is posted, or freed at once.
LEMMA OwnedPost ==
  ASSUME NEW q, NEW tx, NEW s, NEW b, NEW i, NEW h, Owned(q, tx, s, b, i, h),
         NEW type \in Owning
  PROVE  /\ Owned(Append(q, [type |-> type, obj |-> h.next]), tx, s, b, i, AllocatedIn(h))
         /\ Owned(q, tx, s, b, i, Freed(AllocatedIn(h), {h.next}))
<1> DEFINE n == h.next
           a == [type |-> type, obj |-> n]
           g == AllocatedIn(h)
           c == Append(q, a)
<1>0. n \in Nat \ {0} /\ n \notin h.live /\ h \in Heaps /\ ~h.twice /\ (\A o \in h.live : o # 0 /\ o < n /\ o \in Nat)
  BY OwnedFacts
<1>1. g \in Heaps /\ ~g.twice /\ g.live = h.live \cup {n} /\ g.next = n + 1 /\ g.user = h.user
  BY <1>0, AllocatedIs
<1>2. a \in Actions /\ a.type = type /\ a.obj = n /\ type # "SEARCH_END"
  BY <1>0 DEF Actions, ActionTypes, Owning, Calls
<1> HIDE DEF n, a, g, c
<1>3. Owned(q, tx, s, b, i, Freed(g, {n}))
  <2>1. /\ Freed(g, {n}) \in Heaps /\ ~Freed(g, {n}).twice
        /\ Freed(g, {n}).live = h.live /\ Freed(g, {n}).next = n + 1 /\ Freed(g, {n}).user = h.user
    <3>1. {n} \subseteq g.live /\ g.live \ {n} = h.live
      BY <1>0, <1>1
    <3> QED BY <1>1, <3>1, FreedIs
  <2>2. \A o \in h.live : o # 0 /\ o < n + 1
    BY <1>0
  <2> QED BY <2>1, <2>2 DEF Owned
<1>4. /\ c \in Seq(Actions) /\ InQueue(c) = InQueue(q) \cup {n}
      /\ \A k \in DOMAIN q : c[k] = q[k]
      /\ c[Len(q) + 1] = a
      /\ \A k \in DOMAIN c : k = Len(q) + 1 \/ k \in DOMAIN q
  <2>1. q \in Seq(Actions)
    BY OwnedFacts
  <2>2. InQueue(c) = InQueue(q) \cup {n}
    BY <1>2, <2>1, QueueAppend DEF c
  <2> QED BY <1>2, <2>1, <2>2, AppendIs DEF c
<1>5. n \notin InQueue(q) /\ OneOwner(InQueue(c), Objects(tx), s, b, {i} \ {0}, g.user, g.live)
  <2>1. OneOwner(InQueue(q), Objects(tx), s, b, {i} \ {0}, h.user, h.live)
    BY OwnedFacts
  <2> QED BY <1>0, <1>1, <1>4, <2>1, OneOwnerIs
<1>6. OnceEach(c, tx)
  <2>1. \A k \in DOMAIN q : q[k].type \in Owning => q[k].obj # n
    BY <1>5 DEF InQueue
  <2>2. OnceEach(q, tx)
    BY OwnedFacts
  <2>3. ASSUME NEW j \in DOMAIN c, NEW k \in DOMAIN c, c[j].type \in Owning, c[k].type \in Owning, c[j].obj = c[k].obj
        PROVE  j = k
    BY <1>2, <1>4, <2>1, <2>2, <2>3 DEF OnceEach
  <2>4. ASSUME NEW j \in DOMAIN c, NEW k \in DOMAIN c, c[j].type = "SEARCH_END", c[k] = c[j]
        PROVE  j = k
    BY <1>2, <1>4, <2>2, <2>4 DEF OnceEach
  <2> QED BY <2>2, <2>3, <2>4 DEF OnceEach
<1>7. \A k \in DOMAIN c : c[k].type = "SEARCH_END" => c[k].obj \in s
  BY <1>2, <1>4, OwnedFacts
<1>8. \A o \in g.live : o # 0 /\ o < g.next
  BY <1>0, <1>1
<1>9. Owned(c, tx, s, b, i, g)
  BY <1>1, <1>4, <1>5, <1>6, <1>7, <1>8, OwnedFacts DEF Owned
<1> QED BY <1>3, <1>9 DEF n, a, g, c

\* An action that only names an object is posted.
LEMMA OwnedName ==
  ASSUME NEW q, NEW tx, NEW s, NEW b, NEW i, NEW h, Owned(q, tx, s, b, i, h),
         NEW a \in Actions, a.type \notin Owning,
         a.type = "SEARCH_END" => a.obj \in s /\ \A k \in DOMAIN q : q[k] # a
  PROVE  Owned(Append(q, a), tx, s, b, i, h)
<1> DEFINE c == Append(q, a)
<1>1. /\ c \in Seq(Actions) /\ InQueue(c) = InQueue(q)
      /\ \A k \in DOMAIN q : c[k] = q[k]
      /\ c[Len(q) + 1] = a
      /\ \A k \in DOMAIN c : k = Len(q) + 1 \/ k \in DOMAIN q
  <2>1. q \in Seq(Actions)
    BY OwnedFacts
  <2>2. InQueue(c) = InQueue(q)
    BY <2>1, QueueAppend
  <2> HIDE DEF c
  <2> QED BY <2>1, <2>2, AppendIs DEF c
<1> HIDE DEF c
<1>2. OnceEach(c, tx)
  <2>1. OnceEach(q, tx)
    BY OwnedFacts
  <2>2. ASSUME NEW j \in DOMAIN c, NEW k \in DOMAIN c, c[j].type \in Owning, c[k].type \in Owning, c[j].obj = c[k].obj
        PROVE  j = k
    BY <1>1, <2>1, <2>2 DEF OnceEach
  <2>3. ASSUME NEW j \in DOMAIN c, NEW k \in DOMAIN c, c[j].type = "SEARCH_END", c[k] = c[j]
        PROVE  j = k
    BY <1>1, <2>1, <2>3 DEF OnceEach
  <2> QED BY <2>1, <2>2, <2>3 DEF OnceEach
<1>3. \A k \in DOMAIN c : c[k].type = "SEARCH_END" => c[k].obj \in s
  BY <1>1, OwnedFacts
<1>4. Owned(c, tx, s, b, i, h)
  BY <1>1, <1>2, <1>3 DEF Owned
<1> QED BY <1>4 DEF c

LEMMA OneOwnerObject ==
  ASSUME NEW q, NEW tx, NEW s, NEW b, NEW i, NEW h, Owned(q, tx, s, b, i, h)
  PROVE  /\ InQueue(q) \subseteq h.live /\ Objects(tx) \subseteq h.live /\ s \subseteq h.live
         /\ b \subseteq h.live /\ {i} \ {0} \subseteq h.live /\ h.user \subseteq h.live
BY OwnedFacts DEF OneOwner

\* The task takes an action whose object goes somewhere else.
LEMMA OwnedMove ==
  ASSUME NEW q, NEW tx, NEW s, NEW b, NEW i, NEW h, Owned(q, tx, s, b, i, h),
         q # <<>>, Head(q).type \in Owning,
         NEW s2, s \subseteq s2, s2 \subseteq Nat, NEW b2, b2 \subseteq Nat, NEW i2 \in Nat,
         NEW g \in Heaps, ~g.twice, g.live \subseteq h.live, g.next = h.next,
         OneOwner(InQueue(q) \ {Head(q).obj}, Objects(tx), s2, b2, {i2} \ {0}, g.user, g.live)
  PROVE  Owned(Tail(q), tx, s2, b2, i2, g)
<1>1. q \in Seq(Actions) /\ OnceEach(q, tx)
  BY OwnedFacts
<1>2. InQueue(Tail(q)) = InQueue(q) \ {Head(q).obj} /\ OnceEach(Tail(q), tx)
  BY <1>1, QueueTail
<1>3. Tail(q) \in Seq(Actions) /\ \A k \in DOMAIN Tail(q) : k + 1 \in DOMAIN q /\ Tail(q)[k] = q[k + 1]
  BY <1>1, TailIs
<1>4. \A k \in DOMAIN Tail(q) : Tail(q)[k].type = "SEARCH_END" => Tail(q)[k].obj \in s2
  BY <1>3, OwnedFacts
<1>5. \A o \in g.live : o # 0 /\ o < g.next
  BY OwnedFacts
<1> QED BY <1>2, <1>3, <1>4, <1>5, OwnedFacts DEF Owned

LEMMA OwnedFree ==
  ASSUME NEW q, NEW tx, NEW s, NEW b, NEW i, NEW h, Owned(q, tx, s, b, i, h),
         q # <<>>, Head(q).type \in Owning
  PROVE  Owned(Tail(q), tx, s, b, i, Freed(h, {Head(q).obj}))
<1> DEFINE o == Head(q).obj
           g == Freed(h, {o})
<1>1. q \in Seq(Actions) /\ OnceEach(q, tx) /\ h \in Heaps /\ ~h.twice /\ s \subseteq Nat /\ b \subseteq Nat /\ i \in Nat
  BY OwnedFacts
<1>2. o \in InQueue(q)
  BY <1>1, QueueTail
<1>3. {o} \subseteq h.live
  BY <1>2, OneOwnerObject
<1>4. g \in Heaps /\ ~g.twice /\ g.live = h.live \ {o} /\ g.next = h.next /\ g.user = h.user
  BY <1>1, <1>3, FreedIs
<1> HIDE DEF o, g
<1>5. OneOwner(InQueue(q) \ {o}, Objects(tx), s, b, {i} \ {0}, g.user, g.live)
  <2>1. OneOwner(InQueue(q), Objects(tx), s, b, {i} \ {0}, h.user, h.live)
    BY OwnedFacts
  <2> QED BY <1>2, <1>4, <2>1, OneOwnerIs
<1>6. Owned(Tail(q), tx, s, b, i, g)
  BY <1>1, <1>4, <1>5, OwnedMove DEF o
<1> QED BY <1>6 DEF g, o

LEMMA OwnedSearch ==
  ASSUME NEW q, NEW tx, NEW s, NEW b, NEW i, NEW h, Owned(q, tx, s, b, i, h),
         q # <<>>, Head(q).type \in Owning
  PROVE  Owned(Tail(q), tx, s \cup {Head(q).obj}, b, i, Used(h, {Head(q).obj}))
<1> DEFINE o == Head(q).obj
           g == Used(h, {o})
           s2 == s \cup {o}
<1>1. q \in Seq(Actions) /\ OnceEach(q, tx) /\ h \in Heaps /\ ~h.twice /\ s \subseteq Nat /\ b \subseteq Nat /\ i \in Nat
  BY OwnedFacts
<1>2. o \in InQueue(q)
  BY <1>1, QueueTail
<1>3. {o} \subseteq h.live /\ o \in Nat
  <2>1. o \in h.live
    BY <1>2, OneOwnerObject
  <2> HIDE DEF o
  <2> QED BY <2>1, OwnedFacts
<1>4. g \in Heaps /\ ~g.twice /\ g.live = h.live /\ g.next = h.next /\ g.user = h.user
  BY <1>1, <1>3, UsedIs
<1> HIDE DEF o, g
<1>5. OneOwner(InQueue(q) \ {o}, Objects(tx), s2, b, {i} \ {0}, g.user, g.live)
  <2>1. OneOwner(InQueue(q), Objects(tx), s, b, {i} \ {0}, h.user, h.live)
    BY OwnedFacts
  <2> QED BY <1>2, <1>4, <2>1, OneOwnerIs
<1>6. s \subseteq s2 /\ s2 \subseteq Nat /\ g.live \subseteq h.live
  BY <1>1, <1>3, <1>4
<1> HIDE DEF s2
<1>7. Owned(Tail(q), tx, s2, b, i, g)
  BY <1>1, <1>4, <1>5, <1>6, OwnedMove DEF o
<1> QED BY <1>7 DEF g, o, s2

LEMMA OwnedInstance ==
  ASSUME NEW q, NEW tx, NEW s, NEW b, NEW i, NEW h, Owned(q, tx, s, b, i, h),
         q # <<>>, Head(q).type \in Owning
  PROVE  Owned(Tail(q), tx, s, b, Head(q).obj, IF i = 0 THEN h ELSE Freed(h, {i}))
<1> DEFINE o == Head(q).obj
           g == IF i = 0 THEN h ELSE Freed(h, {i})
<1>1. q \in Seq(Actions) /\ OnceEach(q, tx) /\ h \in Heaps /\ ~h.twice /\ s \subseteq Nat /\ b \subseteq Nat /\ i \in Nat
  BY OwnedFacts
<1>2. o \in InQueue(q)
  BY <1>1, QueueTail
<1>3. o \in h.live /\ o \in Nat /\ o # 0
  <2>1. o \in h.live
    BY <1>2, OneOwnerObject
  <2> HIDE DEF o
  <2> QED BY <2>1, OwnedFacts
<1>4. g \in Heaps /\ ~g.twice /\ g.live = h.live \ ({i} \ {0}) /\ g.next = h.next /\ g.user = h.user
  <2>1. CASE i = 0
    BY <1>1, <2>1
  <2>2. CASE i # 0
    <3>1. {i} \subseteq h.live /\ {i} \ {0} = {i}
      BY <2>2, OneOwnerObject
    <3> QED BY <1>1, <2>2, <3>1, FreedIs
  <2> QED BY <2>1, <2>2
<1> HIDE DEF o, g
<1>5. OneOwner(InQueue(q) \ {o}, Objects(tx), s, b, {o} \ {0}, g.user, g.live)
  <2>1. OneOwner(InQueue(q), Objects(tx), s, b, {i} \ {0}, h.user, h.live)
    BY OwnedFacts
  <2>2. \A x : x \in {o} \ {0} <=> x = o
    BY <1>3
  <2>3. PICK was, now : was = {i} \ {0} /\ now = {o} \ {0}
    OBVIOUS
  <2>4. OneOwner(InQueue(q) \ {o}, Objects(tx), s, b, now, g.user, g.live)
    BY <1>2, <1>3, <1>4, <2>1, <2>2, <2>3, OneOwnerIs
  <2> QED BY <2>3, <2>4
<1>6. Owned(Tail(q), tx, s, b, o, g)
  BY <1>1, <1>3, <1>4, <1>5, OwnedMove DEF o
<1> QED BY <1>6 DEF g, o

\* _mdns_browse_add, the first one.
LEMMA OwnedBrowse ==
  ASSUME NEW q, NEW tx, NEW s, NEW i, NEW h, Owned(q, tx, s, {}, i, h),
         q # <<>>, Head(q).type \in Owning
  PROVE  Owned(Tail(q), tx, s, {Head(q).obj}, i, Used(h, {Head(q).obj}))
<1> DEFINE o == Head(q).obj
           g == Used(h, {o})
<1>1. q \in Seq(Actions) /\ OnceEach(q, tx) /\ h \in Heaps /\ ~h.twice /\ s \subseteq Nat /\ i \in Nat
  BY OwnedFacts
<1>2. o \in InQueue(q)
  BY <1>1, QueueTail
<1>3. {o} \subseteq h.live /\ o \in Nat
  <2>1. o \in h.live
    BY <1>2, OneOwnerObject
  <2> HIDE DEF o
  <2> QED BY <2>1, OwnedFacts
<1>4. g \in Heaps /\ ~g.twice /\ g.live = h.live /\ g.next = h.next /\ g.user = h.user
  BY <1>1, <1>3, UsedIs
<1> HIDE DEF o, g
<1>5. OneOwner(InQueue(q) \ {o}, Objects(tx), s, {o}, {i} \ {0}, g.user, g.live)
  <2>1. OneOwner(InQueue(q), Objects(tx), s, {}, {i} \ {0}, h.user, h.live)
    BY OwnedFacts
  <2> QED BY <1>2, <1>4, <2>1, OneOwnerIs
<1>6. {o} \subseteq Nat /\ s \subseteq s /\ g.live \subseteq h.live
  BY <1>3, <1>4
<1>7. Owned(Tail(q), tx, s, {o}, i, g)
  BY <1>1, <1>4, <1>5, <1>6, OwnedMove DEF o
<1> QED BY <1>7 DEF g, o

\* _mdns_browse_finish
LEMMA OwnedBrowseEnd ==
  ASSUME NEW q, NEW tx, NEW s, NEW b, NEW i, NEW h, Owned(q, tx, s, b, i, h),
         q # <<>>, Head(q).type \in Owning
  PROVE  Owned(Tail(q), tx, s, {}, i, Freed(h, b \cup {Head(q).obj}))
<1> DEFINE o == Head(q).obj
           d == b \cup {o}
           g == Freed(h, d)
<1>1. q \in Seq(Actions) /\ OnceEach(q, tx) /\ h \in Heaps /\ ~h.twice /\ s \subseteq Nat /\ i \in Nat
  BY OwnedFacts
<1>2. o \in InQueue(q)
  BY <1>1, QueueTail
<1>3. d \subseteq h.live
  BY <1>2, OneOwnerObject
<1>4. g \in Heaps /\ ~g.twice /\ g.live = h.live \ d /\ g.next = h.next /\ g.user = h.user
  BY <1>1, <1>3, FreedIs
<1> HIDE DEF o, g
<1>5. OneOwner(InQueue(q) \ {o}, Objects(tx), s, {}, {i} \ {0}, g.user, g.live)
  <2>1. OneOwner(InQueue(q), Objects(tx), s, b, {i} \ {0}, h.user, h.live)
    BY OwnedFacts
  <2> QED BY <1>2, <1>4, <2>1, OneOwnerIs
<1>6. {} \subseteq Nat /\ s \subseteq s /\ g.live \subseteq h.live
  BY <1>4
<1>7. Owned(Tail(q), tx, s, {}, i, g)
  BY <1>1, <1>4, <1>5, <1>6, OwnedMove DEF o
<1> QED BY <1>7 DEF g, o

\* An action that only names its object.
LEMMA OwnedSkip ==
  ASSUME NEW q, NEW tx, NEW s, NEW b, NEW i, NEW h, Owned(q, tx, s, b, i, h),
         q # <<>>, Head(q).type \notin Owning
  PROVE  /\ Owned(Tail(q), tx, s, b, i, h)
         /\ Head(q).type = "SEARCH_END" =>
              Head(q).obj \in s /\ \A k \in DOMAIN Tail(q) : Tail(q)[k] # Head(q)
<1>1. q \in Seq(Actions) /\ OnceEach(q, tx)
  BY OwnedFacts
<1>2. InQueue(Tail(q)) = InQueue(q) /\ OnceEach(Tail(q), tx)
  BY <1>1, QueueTail
<1>3. /\ Tail(q) \in Seq(Actions) /\ \A k \in DOMAIN Tail(q) : k + 1 \in DOMAIN q /\ Tail(q)[k] = q[k + 1] /\ k + 1 # 1
      /\ Head(q) = q[1] /\ 1 \in DOMAIN q
  BY <1>1, TailIs
<1>4. \A k \in DOMAIN Tail(q) : Tail(q)[k].type = "SEARCH_END" => Tail(q)[k].obj \in s
  BY <1>3, OwnedFacts
<1>5. Head(q).type = "SEARCH_END" =>
        Head(q).obj \in s /\ \A k \in DOMAIN Tail(q) : Tail(q)[k] # Head(q)
  <2>1. q[1].type = "SEARCH_END" => q[1].obj \in s
    BY <1>3, OwnedFacts
  <2>2. \A k \in DOMAIN q : q[1].type = "SEARCH_END" /\ q[k] = q[1] => k = 1
    BY <1>1, <1>3 DEF OnceEach
  <2> QED BY <1>3, <2>1, <2>2
<1>6. Owned(Tail(q), tx, s, b, i, h)
  BY <1>2, <1>3, <1>4, OwnedFacts DEF Owned
<1> QED BY <1>5, <1>6

LEMMA OwnedUse ==
  ASSUME NEW q, NEW tx, NEW s, NEW b, NEW i, NEW h, Owned(q, tx, s, b, i, h),
         NEW S, S \subseteq h.live
  PROVE  Owned(q, tx, s, b, i, Used(h, S))
<1>1. h \in Heaps /\ ~h.twice
  BY OwnedFacts
<1>2. /\ Used(h, S) \in Heaps /\ ~Used(h, S).twice
      /\ Used(h, S).live = h.live /\ Used(h, S).next = h.next /\ Used(h, S).user = h.user
  BY <1>1, UsedIs
<1> QED BY <1>2 DEF Owned

\* _mdns_search_finish, of a search that no other action is to end.
LEMMA OwnedFinish ==
  ASSUME NEW q, NEW tx, NEW s, NEW b, NEW i, NEW h, Owned(q, tx, s, b, i, h),
         NEW o \in s, \A k \in DOMAIN q : q[k].type = "SEARCH_END" => q[k].obj # o
  PROVE  Owned(q, tx, s \ {o}, b, i, [Used(h, {o}) EXCEPT !.user = @ \cup {o}])
<1> DEFINE e == Used(h, {o})
           u == h.user \cup {o}
           g == [e EXCEPT !.user = u]
           s2 == s \ {o}
<1>1. h \in Heaps /\ ~h.twice /\ {o} \subseteq h.live /\ h.user \subseteq Nat /\ o \in Nat
  <2>1. o \in h.live
    BY OneOwnerObject
  <2>2. h \in Heaps
    BY OwnedFacts
  <2> QED BY <2>1, <2>2, OwnedFacts, HeapFields
<1>2. e \in Heaps /\ ~e.twice /\ e.live = h.live /\ e.next = h.next /\ e.user = h.user
  BY <1>1, UsedIs
<1> HIDE DEF e
<1>3. g \in Heaps /\ ~g.twice /\ g.live = h.live /\ g.next = h.next /\ g.user = u
  <2>1. u \in SUBSET Nat
    BY <1>1
  <2> HIDE DEF u, g
  <2> QED BY <1>2, <2>1, UserIs DEF g
<1>4. OneOwner(InQueue(q), Objects(tx), s2, b, {i} \ {0}, u, h.live)
  <2>1. OneOwner(InQueue(q), Objects(tx), s, b, {i} \ {0}, h.user, h.live)
    BY OwnedFacts
  <2> QED BY <1>1, <2>1, OneOwnerIs
<1> HIDE DEF u
<1>5. g = [e EXCEPT !.user = @ \cup {o}]
  BY <1>2 DEF u
<1> HIDE DEF g
<1>6. \A k \in DOMAIN q : q[k].type = "SEARCH_END" => q[k].obj \in s2
  BY OwnedFacts
<1>7. s2 \subseteq Nat
  BY OwnedFacts
<1> HIDE DEF s2
<1>8. Owned(q, tx, s2, b, i, g)
  BY <1>3, <1>4, <1>6, <1>7, OwnedFacts DEF Owned
<1> QED BY <1>5, <1>8 DEF s2, e

\* mdns_query_async_delete
LEMMA OwnedDelete ==
  ASSUME NEW q, NEW tx, NEW s, NEW b, NEW i, NEW h, Owned(q, tx, s, b, i, h), NEW o \in h.user
  PROVE  Owned(q, tx, s, b, i, Freed([h EXCEPT !.user = @ \ {o}], {o}))
<1> DEFINE u == h.user \ {o}
           e == [h EXCEPT !.user = u]
           g == Freed(e, {o})
<1>1. h \in Heaps /\ ~h.twice /\ {o} \subseteq h.live /\ u \in SUBSET Nat
  <2>1. o \in h.live
    BY OneOwnerObject
  <2>2. h \in Heaps
    BY OwnedFacts
  <2> QED BY <2>1, <2>2, OwnedFacts, HeapFields
<1>2. e \in Heaps /\ ~e.twice /\ e.live = h.live /\ e.next = h.next /\ e.user = u
  <2> HIDE DEF u
  <2> QED BY <1>1, UserIs
<1>3. e = [h EXCEPT !.user = @ \ {o}]
  OBVIOUS
<1> HIDE DEF e
<1>4. g \in Heaps /\ ~g.twice /\ g.live = h.live \ {o} /\ g.next = h.next /\ g.user = u
  BY <1>1, <1>2, FreedIs
<1> HIDE DEF g
<1>5. OneOwner(InQueue(q), Objects(tx), s, b, {i} \ {0}, u, g.live)
  <2>1. OneOwner(InQueue(q), Objects(tx), s, b, {i} \ {0}, h.user, h.live)
    BY OwnedFacts
  <2> QED BY <1>4, <2>1, OneOwnerIs
<1>6. \A x \in g.live : x # 0 /\ x < g.next
  BY <1>4, OwnedFacts
<1> HIDE DEF u
<1>7. Owned(q, tx, s, b, i, g)
  BY <1>4, <1>5, <1>6, OwnedFacts DEF Owned
<1> QED BY <1>3, <1>7 DEF g

\* What is scheduled to be sent.
LEMMA OwnedTx ==
  ASSUME NEW q, NEW tx, NEW s, NEW b, NEW i, NEW h, Owned(q, tx, s, b, i, h),
         NEW tx2 \in Seq(Packets), \A j, k \in DOMAIN tx2 : tx2[j].obj = tx2[k].obj => j = k,
         NEW g \in Heaps, ~g.twice, \A o \in g.live : o # 0 /\ o < g.next,
         OneOwner(InQueue(q), Objects(tx2), s, b, {i} \ {0}, g.user, g.live)
  PROVE  Owned(q, tx2, s, b, i, g)
<1>1. OnceEach(q, tx2)
  BY OwnedFacts DEF OnceEach
<1> QED BY <1>1, OwnedFacts DEF Owned

LEMMA PacketFields ==
  ASSUME NEW r \in Packets
  PROVE  r.obj \in Nat /\ r.queued \in BOOLEAN
BY DEF Packets

LEMMA TxFacts ==
  ASSUME NEW q, NEW tx, NEW s, NEW b, NEW i, NEW h, Owned(q, tx, s, b, i, h)
  PROVE  /\ tx \in Seq(Packets)
         /\ \A j, k \in DOMAIN tx : tx[j].obj = tx[k].obj => j = k
         /\ \A k \in DOMAIN tx : tx[k].obj \in Objects(tx) /\ tx[k].obj \in h.live /\ tx[k].obj \in Nat
<1>1. tx \in Seq(Packets) /\ \A j, k \in DOMAIN tx : tx[j].obj = tx[k].obj => j = k
  BY OwnedFacts DEF OnceEach
<1>2. \A k \in DOMAIN tx : tx[k].obj \in Objects(tx)
  BY DEF Objects
<1>3. \A o \in Objects(tx) : o \in h.live
  BY OneOwnerObject
<1>4. \A o \in h.live : o \in Nat
  BY OwnedFacts
<1> QED BY <1>1, <1>2, <1>3, <1>4

LEMMA OwnedSchedule ==
  ASSUME NEW q, NEW tx, NEW s, NEW b, NEW i, NEW h, Owned(q, tx, s, b, i, h)
  PROVE  Owned(q, Append(tx, [obj |-> h.next, queued |-> FALSE]), s, b, i, AllocatedIn(h))
<1> DEFINE n == h.next
           e == [obj |-> n, queued |-> FALSE]
           tx2 == Append(tx, e)
           g == AllocatedIn(h)
<1>1. n \in Nat \ {0} /\ n \notin h.live /\ h \in Heaps /\ ~h.twice /\ \A o \in h.live : o # 0 /\ o < n /\ o \in Nat
  BY OwnedFacts
<1>2. g \in Heaps /\ ~g.twice /\ g.live = h.live \cup {n} /\ g.next = n + 1 /\ g.user = h.user
  BY <1>1, AllocatedIs
<1>3. e \in Packets /\ e.obj = n
  <2>1. PICK no \in BOOLEAN : no = FALSE
    BY Zenon
  <2>2. e = [obj |-> n, queued |-> no]
    BY <2>1, Zenon
  <2> HIDE DEF e
  <2> QED BY <1>1, <2>2 DEF Packets
<1> HIDE DEF n, e, g
<1>4. /\ tx2 \in Seq(Packets)
      /\ \A k \in DOMAIN tx : k \in DOMAIN tx2 /\ tx2[k] = tx[k]
      /\ tx2[Len(tx) + 1] = e /\ Len(tx) + 1 \in DOMAIN tx2
      /\ \A k \in DOMAIN tx2 : k = Len(tx) + 1 \/ k \in DOMAIN tx
  BY <1>3, TxFacts, AppendIs
<1> HIDE DEF tx2
<1>5. \A k \in DOMAIN tx : tx[k].obj # n
  BY <1>1, TxFacts
<1>6. \A j, k \in DOMAIN tx2 : tx2[j].obj = tx2[k].obj => j = k
  BY <1>3, <1>4, <1>5, TxFacts
<1>7. Objects(tx2) = Objects(tx) \cup {n}
  <2>1. \A k \in DOMAIN tx2 : tx2[k].obj \in Objects(tx) \cup {n}
    BY <1>3, <1>4 DEF Objects
  <2>2. \A k \in DOMAIN tx : tx[k].obj \in Objects(tx2)
    BY <1>4 DEF Objects
  <2>3. n \in Objects(tx2)
    BY <1>3, <1>4 DEF Objects
  <2> QED BY <2>1, <2>2, <2>3 DEF Objects
<1>8. OneOwner(InQueue(q), Objects(tx2), s, b, {i} \ {0}, g.user, g.live)
  <2>1. OneOwner(InQueue(q), Objects(tx), s, b, {i} \ {0}, h.user, h.live)
    BY OwnedFacts
  <2> QED BY <1>1, <1>2, <1>7, <2>1, OneOwnerIs
<1>9. \A o \in g.live : o # 0 /\ o < g.next
  BY <1>1, <1>2
<1>10. Owned(q, tx2, s, b, i, g)
  BY <1>2, <1>4, <1>6, <1>8, <1>9, OwnedTx
<1> QED BY <1>10 DEF tx2, g, e, n

LEMMA OwnedMark ==
  ASSUME NEW q, NEW tx, NEW s, NEW b, NEW i, NEW h, Owned(q, tx, s, b, i, h), NEW k \in DOMAIN tx
  PROVE  Owned(q, [tx EXCEPT ![k].queued = TRUE], s, b, i, h)
<1> DEFINE tx2 == [tx EXCEPT ![k].queued = TRUE]
<1>1. PICK r \in Packets : r = tx[k]
  BY TxFacts
<1>2. PICK yes \in BOOLEAN : yes = TRUE
  BY Zenon
<1>3. [r EXCEPT !.queued = yes] \in Packets /\ [r EXCEPT !.queued = yes].obj = r.obj
  BY DEF Packets
<1>4. PICK e \in Packets : e = [r EXCEPT !.queued = yes] /\ e.obj = tx[k].obj
  BY <1>1, <1>3
<1>5. tx2 = [tx EXCEPT ![k] = e]
  BY <1>1, <1>2, <1>4, Zenon
<1> HIDE DEF tx2
<1>6. /\ tx2 \in Seq(Packets) /\ DOMAIN tx2 = DOMAIN tx
      /\ \A j \in DOMAIN tx : tx2[j].obj = tx[j].obj
  BY <1>4, <1>5, TxFacts
<1>7. Objects(tx2) = Objects(tx)
  BY <1>6 DEF Objects
<1>8. \A j, m \in DOMAIN tx2 : tx2[j].obj = tx2[m].obj => j = m
  BY <1>6, TxFacts
<1>9. Owned(q, tx2, s, b, i, h)
  BY <1>6, <1>7, <1>8, OwnedFacts, OwnedTx
<1> QED BY <1>9 DEF tx2

\* What the first packet leaves behind.
LEMMA OtherPackets ==
  ASSUME NEW q, NEW tx, NEW s, NEW b, NEW i, NEW h, Owned(q, tx, s, b, i, h), tx # <<>>
  PROVE  /\ Tail(tx) \in Seq(Packets) /\ tx[1].obj \in Objects(tx) /\ tx[1].obj \in h.live /\ tx[1].obj \in Nat
         /\ Objects(Tail(tx)) = Objects(tx) \ {tx[1].obj}
         /\ \A j, k \in DOMAIN Tail(tx) : Tail(tx)[j].obj = Tail(tx)[k].obj => j = k
<1> DEFINE d == Tail(tx)
<1>1. /\ d \in Seq(Packets) /\ 1 \in DOMAIN tx
      /\ \A k \in DOMAIN d : k \in Nat /\ k + 1 \in DOMAIN tx /\ d[k] = tx[k + 1] /\ k + 1 # 1
      /\ \A k \in DOMAIN tx : k = 1 \/ (k \in Nat /\ k - 1 \in DOMAIN d /\ d[k - 1] = tx[k] /\ k - 1 + 1 = k)
  <2>1. tx \in Seq(Packets)
    BY TxFacts
  <2> QED BY <2>1, TailIs
<1> HIDE DEF d
<1>2. tx[1].obj \in Objects(tx) /\ tx[1].obj \in h.live /\ tx[1].obj \in Nat
  BY <1>1, TxFacts
<1>3. Objects(d) = Objects(tx) \ {tx[1].obj}
  <2>1. ASSUME NEW k \in DOMAIN d PROVE d[k].obj \in Objects(tx) \ {tx[1].obj}
    <3>1. k + 1 \in DOMAIN tx /\ d[k] = tx[k + 1] /\ k + 1 # 1
      BY <1>1
    <3>2. tx[k + 1].obj \in Objects(tx)
      BY <3>1, TxFacts
    <3>3. tx[k + 1].obj # tx[1].obj
      BY <1>1, <3>1, TxFacts
    <3> QED BY <3>1, <3>2, <3>3
  <2>2. \A k \in DOMAIN tx : tx[k].obj # tx[1].obj => tx[k].obj \in Objects(d)
    BY <1>1 DEF Objects
  <2> QED BY <2>1, <2>2 DEF Objects
<1>4. \A j, k \in DOMAIN d : d[j].obj = d[k].obj => j = k
  <2>1. \A j, k \in DOMAIN d : j + 1 = k + 1 => j = k
    BY <1>1
  <2>2. \A j, k \in DOMAIN tx : tx[j].obj = tx[k].obj => j = k
    BY TxFacts
  <2>3. ASSUME NEW j \in DOMAIN d, NEW k \in DOMAIN d, d[j].obj = d[k].obj PROVE j = k
    <3>1. j + 1 \in DOMAIN tx /\ k + 1 \in DOMAIN tx /\ tx[j + 1].obj = tx[k + 1].obj
      BY <1>1, <2>3
    <3>2. j + 1 = k + 1
      BY <2>2, <3>1
    <3> QED BY <2>1, <3>2
  <2> QED BY <2>3
<1> QED BY <1>1, <1>2, <1>3, <1>4 DEF d

LEMMA OwnedSent ==
  ASSUME NEW q, NEW tx, NEW s, NEW b, NEW i, NEW h, Owned(q, tx, s, b, i, h), tx # <<>>
  PROVE  Owned(q, Tail(tx), s, b, i, Freed(h, {tx[1].obj}))
<1> DEFINE o == tx[1].obj
           g == Freed(h, {o})
           d == Tail(tx)
<1>1. /\ d \in Seq(Packets) /\ o \in Objects(tx) /\ {o} \subseteq h.live
      /\ Objects(d) = Objects(tx) \ {o}
      /\ \A j, k \in DOMAIN d : d[j].obj = d[k].obj => j = k
  BY OtherPackets
<1> HIDE DEF o, d
<1>2. g \in Heaps /\ ~g.twice /\ g.live = h.live \ {o} /\ g.next = h.next /\ g.user = h.user
  BY <1>1, OwnedFacts, FreedIs
<1> HIDE DEF g
<1>3. OneOwner(InQueue(q), Objects(d), s, b, {i} \ {0}, g.user, g.live)
  <2>1. OneOwner(InQueue(q), Objects(tx), s, b, {i} \ {0}, h.user, h.live)
    BY OwnedFacts
  <2> QED BY <1>1, <1>2, <2>1, OneOwnerIs
<1>4. \A x \in g.live : x # 0 /\ x < g.next
  BY <1>2, OwnedFacts
<1>5. Owned(q, d, s, b, i, g)
  BY <1>1, <1>2, <1>3, <1>4, OwnedTx
<1> QED BY <1>5 DEF g, o, d

\* The same packet is scheduled again.
LEMMA OwnedAgain ==
  ASSUME NEW q, NEW tx, NEW s, NEW b, NEW i, NEW h, Owned(q, tx, s, b, i, h), tx # <<>>
  PROVE  Owned(q, Append(Tail(tx), [obj |-> tx[1].obj, queued |-> FALSE]), s, b, i, Used(h, {tx[1].obj}))
<1> DEFINE o == tx[1].obj
           e == [obj |-> o, queued |-> FALSE]
           d == Tail(tx)
           tx2 == Append(d, e)
<1>1. /\ d \in Seq(Packets) /\ o \in Objects(tx) /\ {o} \subseteq h.live /\ o \in Nat
      /\ Objects(d) = Objects(tx) \ {o}
      /\ \A j, k \in DOMAIN d : d[j].obj = d[k].obj => j = k
  BY OtherPackets
<1>2. e \in Packets /\ e.obj = o
  <2>1. PICK no \in BOOLEAN : no = FALSE
    BY Zenon
  <2>2. e = [obj |-> o, queued |-> no]
    BY <2>1, Zenon
  <2> HIDE DEF e, o
  <2> QED BY <1>1, <2>2 DEF Packets
<1> HIDE DEF o, d, e
<1>3. /\ tx2 \in Seq(Packets)
      /\ \A k \in DOMAIN d : k \in DOMAIN tx2 /\ tx2[k] = d[k]
      /\ tx2[Len(d) + 1] = e /\ Len(d) + 1 \in DOMAIN tx2
      /\ \A k \in DOMAIN tx2 : k = Len(d) + 1 \/ k \in DOMAIN d
  BY <1>1, <1>2, AppendIs
<1> HIDE DEF tx2
<1>4. \A k \in DOMAIN d : d[k].obj \in Objects(d) /\ d[k].obj # o
  BY <1>1 DEF Objects
<1>5. \A j, k \in DOMAIN tx2 : tx2[j].obj = tx2[k].obj => j = k
  BY <1>1, <1>2, <1>3, <1>4
<1>6. Objects(tx2) = Objects(tx)
  <2>1. \A k \in DOMAIN tx2 : tx2[k].obj \in Objects(d) \cup {o}
    BY <1>2, <1>3, <1>4
  <2>2. \A k \in DOMAIN d : d[k].obj \in Objects(tx2)
    BY <1>3 DEF Objects
  <2>3. o \in Objects(tx2)
    BY <1>2, <1>3 DEF Objects
  <2>4. Objects(tx2) = Objects(d) \cup {o}
    BY <2>1, <2>2, <2>3 DEF Objects
  <2> QED BY <1>1, <2>4
<1>7. Owned(q, tx2, s, b, i, h)
  BY <1>3, <1>5, <1>6, OwnedFacts, OwnedTx
<1>8. Owned(q, tx2, s, b, i, Used(h, {o}))
  BY <1>1, <1>7, OwnedUse
<1> QED BY <1>8 DEF tx2, e, o, d

\* An interface goes off with the packets scheduled on it.
LEMMA OwnedOff ==
  ASSUME NEW q, NEW tx, NEW s, NEW b, NEW i, NEW h, Owned(q, tx, s, b, i, h)
  PROVE  Owned(q, <<>>, s, b, i, Freed(h, Objects(tx)))
<1> DEFINE g == Freed(h, Objects(tx))
<1>1. Objects(tx) \subseteq h.live
  BY OneOwnerObject
<1>2. g \in Heaps /\ ~g.twice /\ g.live = h.live \ Objects(tx) /\ g.next = h.next /\ g.user = h.user
  BY <1>1, OwnedFacts, FreedIs
<1> HIDE DEF g
<1>3. PICK tx2 \in Seq(Packets) : tx2 = <<>>
  <2>1. <<>> \in Seq(Packets)
    OBVIOUS
  <2> QED BY <2>1
<1>4. Objects(tx2) = {} /\ \A j, k \in DOMAIN tx2 : tx2[j].obj = tx2[k].obj => j = k
  BY <1>3 DEF Objects
<1>5. OneOwner(InQueue(q), Objects(tx2), s, b, {i} \ {0}, g.user, g.live)
  <2>1. OneOwner(InQueue(q), Objects(tx), s, b, {i} \ {0}, h.user, h.live)
    BY OwnedFacts
  <2> QED BY <1>2, <1>4, <2>1, OneOwnerIs
<1>6. \A x \in g.live : x # 0 /\ x < g.next
  BY <1>2, OwnedFacts
<1>7. Owned(q, tx2, s, b, i, g)
  BY <1>2, <1>4, <1>5, <1>6, OwnedTx
<1> QED BY <1>3, <1>7 DEF g

-----------------------------------------------------------------------------
(* What _mdns_free_action leaves, one action after the other.              *)

LEMMA DrainedIs ==
  ASSUME queue \in Seq(Actions), heap \in Heaps, ~heap.twice,
         0 \notin heap.live, \A k \in DOMAIN queue : queue[k].obj = 0 \/ queue[k].obj \in heap.live,
         \A j, k \in DOMAIN queue : queue[j].obj # 0 /\ queue[j].obj = queue[k].obj => j = k
  PROVE  /\ Drained \in Heaps /\ ~Drained.twice /\ Drained.user = heap.user /\ Drained.next = heap.next
         /\ Drained.live = heap.live \ {queue[k].obj : k \in DOMAIN queue}
<1> DEFINE L == Len(queue)
           Body(f, n) == IF n = 0 THEN heap ELSE FreeAction(f[n - 1], queue[n])
           left == CHOOSE f : f = [n \in 0 .. L |-> Body(f, n)]
           Partial(f, m) == f = [n \in 0 .. m |-> f[n]] /\ \A n \in 0 .. m : f[n] = Body(f, n)
           T == {m \in 0 .. L : ~ \E f : Partial(f, m)}
<1>0. L \in Nat /\ DOMAIN queue = 1 .. L
  OBVIOUS
<1>1. Drained = left[L]
  BY Zenon DEF Drained
<1> HIDE DEF L, left
<1>2. T = {}
  <2>1. SUFFICES ASSUME T # {} PROVE FALSE
    OBVIOUS
  <2>2. PICK m \in T : \A j \in T : m <= j
    <3> HIDE DEF Partial
    <3>1. T \in SUBSET Nat
      BY <1>0
    <3> QED BY <2>1, <3>1, LeastNat
  <2>3. m \in 0 .. L /\ ~ \E f : Partial(f, m)
    BY <2>2
  <2>4. CASE m = 0
    <3> DEFINE f == [n \in 0 .. 0 |-> heap]
    <3>1. Partial(f, 0)
      OBVIOUS
    <3> QED BY <2>3, <2>4, <3>1
  <2>5. CASE m # 0
    <3>1. m - 1 \in 0 .. L /\ m - 1 \notin T
      <4> HIDE DEF Partial
      <4> QED BY <1>0, <2>2, <2>3, <2>5
    <3>2. PICK f : Partial(f, m - 1)
      BY <3>1
    <3> DEFINE g == [n \in 0 .. m |-> IF n < m THEN f[n] ELSE Body(f, m)]
    <3>3. \A n \in 0 .. m - 1 : f[n] = Body(f, n)
      BY <3>2
    <3>4. m \in 1 .. L
      BY <1>0, <2>3, <2>5
    <3>5. g = [n \in 0 .. m |-> g[n]]
      <4> HIDE DEF Body
      <4> QED OBVIOUS
    <3>7. ASSUME NEW n \in 0 .. m PROVE g[n] = Body(g, n)
      <4>1. CASE n < m
        <5>1. g[n] = f[n] /\ n \in 0 .. m - 1 /\ f[n] = Body(f, n)
          <6> HIDE DEF Body
          <6> QED BY <3>3, <3>4, <4>1
        <5>2. n # 0 => g[n - 1] = f[n - 1]
          <6> HIDE DEF Body
          <6> QED BY <3>4, <4>1
        <5> HIDE DEF g
        <5> QED BY <5>1, <5>2
      <4>2. CASE n = m
        <5>1. g[n] = Body(f, m)
          <6> HIDE DEF Body
          <6> QED BY <3>4, <4>2
        <5>2. g[n - 1] = f[n - 1]
          <6> HIDE DEF Body
          <6> QED BY <3>4, <4>2
        <5> HIDE DEF g
        <5> QED BY <3>4, <5>1, <5>2, <4>2
      <4> QED BY <4>1, <4>2, <3>4
    <3> HIDE DEF g, Body
    <3> QED BY <2>3, <3>5, <3>7
  <2> QED BY <2>4, <2>5
<1>3. PICK f : Partial(f, L)
  <2> HIDE DEF Partial
  <2>1. L \in 0 .. L
    BY <1>0
  <2>2. L \notin T
    <3> HIDE DEF T
    <3> QED BY <1>2
  <2> QED BY <2>1, <2>2, Zenon
<1>4. f = [n \in 0 .. L |-> Body(f, n)]
  <2>1. f = [n \in 0 .. L |-> f[n]] /\ \A n \in 0 .. L : f[n] = Body(f, n)
    BY <1>3
  <2> HIDE DEF Body
  <2> QED BY <2>1
<1>5. left = [n \in 0 .. L |-> Body(left, n)]
  <2> HIDE DEF Body
  <2> QED BY <1>4, Zenon DEF left
<1> DEFINE Gone(n) == {queue[k].obj : k \in 1 .. n}
           Good(n) == /\ left[n] \in Heaps /\ ~left[n].twice
                      /\ left[n].user = heap.user /\ left[n].next = heap.next
                      /\ left[n].live = heap.live \ Gone(n)
           U == {n \in 0 .. L : ~Good(n)}
<1>6. U = {}
  <2>1. SUFFICES ASSUME U # {} PROVE FALSE
    OBVIOUS
  <2>2. PICK m \in U : \A j \in U : m <= j
    <3> HIDE DEF Good
    <3>1. U \in SUBSET Nat
      BY <1>0
    <3> QED BY <2>1, <3>1, LeastNat
  <2>3. m \in 0 .. L /\ ~Good(m)
    BY <2>2
  <2>4. CASE m = 0
    <3>1. left[0] = heap
      BY <1>0, <1>5
    <3>2. Gone(0) = {}
      OBVIOUS
    <3> HIDE DEF Gone
    <3> QED BY <2>3, <2>4, <3>1, <3>2
  <2>5. CASE m # 0
    <3>1. m - 1 \in 0 .. L /\ Good(m - 1)
      <4> HIDE DEF Good
      <4> QED BY <1>0, <2>2, <2>3, <2>5
    <3>2. m \in DOMAIN queue /\ m \in 1 .. L
      BY <1>0, <2>3, <2>5
    <3> DEFINE o == queue[m].obj
               h == left[m - 1]
    <3>3. left[m] = IF o = 0 THEN h ELSE Freed(h, {o})
      <4>1. left[m] = Body(left, m)
        <5> HIDE DEF Body
        <5> QED BY <1>5, <2>3
      <4> QED BY <3>2, <4>1 DEF FreeAction
    <3>4. h \in Heaps /\ ~h.twice /\ h.user = heap.user /\ h.next = heap.next /\ h.live = heap.live \ Gone(m - 1)
      BY <3>1
    <3>5. o # 0 => o \in heap.live /\ o \notin Gone(m - 1)
      <4>1. \A k \in 1 .. m - 1 : k \in DOMAIN queue /\ k # m
        BY <1>0, <3>2
      <4> QED BY <3>2, <4>1
    <3>6. Gone(m) = Gone(m - 1) \cup {o}
      <4>1. \A k \in 1 .. m : k = m \/ k \in 1 .. m - 1
        BY <3>2
      <4>2. m \in 1 .. m /\ \A k \in 1 .. m - 1 : k \in 1 .. m
        BY <3>2
      <4> QED BY <4>1, <4>2
    <3> HIDE DEF o, h, Gone
    <3>7. o # 0 =>
          /\ Freed(h, {o}) \in Heaps /\ ~Freed(h, {o}).twice
          /\ Freed(h, {o}).live = h.live \ {o} /\ Freed(h, {o}).next = h.next /\ Freed(h, {o}).user = h.user
      BY <3>4, <3>5, FreedIs
    <3>8. Good(m)
      <4>1. CASE o = 0
        BY <3>3, <3>4, <3>6, <4>1
      <4>2. CASE o # 0
        BY <3>3, <3>4, <3>6, <3>7, <4>2
      <4> QED BY <4>1, <4>2
    <3> QED BY <2>3, <3>8
  <2> QED BY <2>4, <2>5
<1>7. Good(L)
  <2> HIDE DEF Good
  <2>1. L \in 0 .. L
    BY <1>0
  <2> QED BY <1>6, <2>1
<1> HIDE DEF Body
<1> QED BY <1>0, <1>1, <1>7

-----------------------------------------------------------------------------
(* The last action.                                                        *)

LEMMA PostedBehind ==
  ASSUME NEW q \in Seq(Actions), NEW a \in Actions
  PROVE  /\ NoStop(q) /\ a.type # "TASK_STOP" => NoStop(Append(q, a))
         /\ NoStop(q) /\ a.type = "TASK_STOP" => Ends(Append(q, a))
         /\ Ends(q) /\ Late(a) => Ends(Append(q, a))
         /\ Ended(q) /\ Late(a) => Ended(Append(q, a))
<1> DEFINE c == Append(q, a)
<1>1. /\ \A k \in DOMAIN q : k \in DOMAIN c /\ c[k] = q[k] /\ k < Len(q) + 1 /\ k \in Nat
      /\ c[Len(q) + 1] = a /\ Len(q) + 1 \in DOMAIN c /\ Len(q) \in Nat
      /\ \A k \in DOMAIN c : k = Len(q) + 1 \/ k \in DOMAIN q
  BY AppendIs
<1> HIDE DEF c
<1>2. NoStop(q) /\ a.type # "TASK_STOP" => NoStop(c)
  BY <1>1 DEF NoStop
<1>3. ASSUME NoStop(q), a.type = "TASK_STOP" PROVE Ends(c)
  <2>1. StopsAt(c, Len(q) + 1)
    <3>1. \A k \in DOMAIN c : ~(k > Len(q) + 1)
      BY <1>1
    <3>2. \A k \in DOMAIN c : k < Len(q) + 1 => c[k].type # "TASK_STOP"
      BY <1>1, <1>3 DEF NoStop
    <3> QED BY <1>1, <1>3, <3>1, <3>2 DEF StopsAt
  <2> QED BY <1>1, <2>1 DEF Ends
<1>4. ASSUME Ends(q), Late(a) PROVE Ends(c)
  <2>1. PICK p \in DOMAIN q : StopsAt(q, p)
    BY <1>4 DEF Ends
  <2>2. p \in DOMAIN c /\ p < Len(q) + 1 /\ c[p] = q[p] /\ p \in Nat
    BY <1>1
  <2>3. ASSUME NEW k \in DOMAIN c PROVE (k > p => Late(c[k])) /\ (k < p => c[k].type # "TASK_STOP")
    <3>1. CASE k \in DOMAIN q
      BY <1>1, <2>1, <3>1 DEF StopsAt
    <3>2. CASE k = Len(q) + 1
      BY <1>1, <1>4, <2>2, <3>2
    <3> QED BY <1>1, <3>1, <3>2
  <2>4. StopsAt(c, p)
    BY <2>1, <2>2, <2>3 DEF StopsAt
  <2> QED BY <2>2, <2>4 DEF Ends
<1>5. Ended(q) /\ Late(a) => Ended(c)
  BY <1>1 DEF Ended, Late, Owning
<1> QED BY <1>2, <1>3, <1>4, <1>5 DEF c

LEMMA TakenFirst ==
  ASSUME NEW q \in Seq(Actions), q # <<>>
  PROVE  /\ NoStop(q) => NoStop(Tail(q)) /\ Head(q).type # "TASK_STOP"
         /\ Ends(q) /\ Head(q).type # "TASK_STOP" => Ends(Tail(q))
         /\ Ends(q) /\ Head(q).type = "TASK_STOP" => Ended(Tail(q))
<1> DEFINE d == Tail(q)
<1>1. /\ Head(q) = q[1] /\ 1 \in DOMAIN q
      /\ \A k \in DOMAIN d : k \in Nat /\ k + 1 \in DOMAIN q /\ d[k] = q[k + 1] /\ k + 1 # 1
      /\ \A k \in DOMAIN q : k = 1 \/ (k \in Nat /\ k - 1 \in DOMAIN d /\ d[k - 1] = q[k] /\ k - 1 + 1 = k)
  BY TailIs
<1>2. \A k \in DOMAIN q : k \in Nat /\ k >= 1
  OBVIOUS
<1>3. \A k \in DOMAIN d : k >= 1
  OBVIOUS
<1> HIDE DEF d
<1>4. NoStop(q) => NoStop(d) /\ Head(q).type # "TASK_STOP"
  BY <1>1 DEF NoStop
<1>5. ASSUME Ends(q) PROVE IF Head(q).type # "TASK_STOP" THEN Ends(d) ELSE Ended(d)
  <2>1. PICK p \in DOMAIN q : StopsAt(q, p)
    BY <1>5 DEF Ends
  <2>2. CASE p = 1
    <3>1. \A k \in DOMAIN d : k + 1 > p
      BY <1>1, <1>3, <2>2
    <3>2. Ended(d) /\ Head(q).type = "TASK_STOP"
      BY <1>1, <2>1, <2>2, <3>1 DEF StopsAt, Ended, Late, Owning
    <3> QED BY <3>2
  <2>3. CASE p # 1
    <3>1. p - 1 \in DOMAIN d /\ d[p - 1] = q[p] /\ p \in Nat /\ 1 < p
      BY <1>1, <1>2, <2>3
    <3>2. Head(q).type # "TASK_STOP"
      BY <1>1, <2>1, <3>1 DEF StopsAt
    <3>3. ASSUME NEW k \in DOMAIN d
          PROVE  (k > p - 1 => Late(d[k])) /\ (k < p - 1 => d[k].type # "TASK_STOP")
      <4>1. k \in Nat /\ k + 1 \in DOMAIN q /\ d[k] = q[k + 1]
        BY <1>1
      <4>2. (k + 1 > p => Late(q[k + 1])) /\ (k + 1 < p => q[k + 1].type # "TASK_STOP")
        BY <2>1, <4>1 DEF StopsAt
      <4> QED BY <3>1, <4>1, <4>2
    <3>4. StopsAt(d, p - 1)
      BY <2>1, <3>1, <3>3 DEF StopsAt
    <3> QED BY <3>1, <3>2, <3>4 DEF Ends
  <2> QED BY <2>2, <2>3
<1> QED BY <1>4, <1>5 DEF d

-----------------------------------------------------------------------------
(* The steps.                                                              *)

LEMMA TxSet ==
  ASSUME NEW l \in Lists, NEW x \in Seq(Packets)
  PROVE  LET m == [l EXCEPT !.tx = x]
         IN  m \in Lists /\ m.tx = x /\ m.searches = l.searches /\ m.browses = l.browses /\ m.instance = l.instance
BY DEF Lists

LEMMA SearchesSet ==
  ASSUME NEW l \in Lists, NEW x \in SUBSET Nat
  PROVE  LET m == [l EXCEPT !.searches = x]
         IN  m \in Lists /\ m.tx = l.tx /\ m.searches = x /\ m.browses = l.browses /\ m.instance = l.instance
BY DEF Lists

LEMMA BrowsesSet ==
  ASSUME NEW l \in Lists, NEW x \in SUBSET Nat
  PROVE  LET m == [l EXCEPT !.browses = x]
         IN  m \in Lists /\ m.tx = l.tx /\ m.searches = l.searches /\ m.browses = x /\ m.instance = l.instance
BY DEF Lists

LEMMA InstanceSet ==
  ASSUME NEW l \in Lists, NEW x \in Nat
  PROVE  LET m == [l EXCEPT !.instance = x]
         IN  m \in Lists /\ m.tx = l.tx /\ m.searches = l.searches /\ m.browses = l.browses /\ m.instance = x
BY DEF Lists

\* What is owned, by the lists of the server.
OwnedBy(q, l, h) == Owned(q, l.tx, l.searches, l.browses, l.instance, h)

LEMMA LifeFacts ==
  ASSUME OwnedOnce
  PROVE  /\ lists \in Lists /\ OwnedBy(queue, lists, heap) /\ Phases
         /\ queue \in Seq(Actions) /\ heap \in Heaps /\ ~heap.twice /\ heap.next \in Nat
BY OwnedFacts DEF OwnedOnce, OwnedBy

LEMMA LifeFrom ==
  ASSUME lists' \in Lists, OwnedBy(queue', lists', heap'), Phases'
  PROVE  OwnedOnce'
BY DEF OwnedOnce, OwnedBy

LEMMA AllocatedSame == Allocated = AllocatedIn(heap) /\ New = heap.next
BY DEF Allocated, AllocatedIn, New

LEMMA NoListsIs ==
  /\ NoLists \in Lists /\ NoLists.tx = <<>> /\ NoLists.searches = {} /\ NoLists.browses = {}
  /\ NoLists.instance = 0
BY DEF NoLists, Lists

LEMMA InitLife ==
  ASSUME Init
  PROVE  LifeInv
<1> USE DEF Init
<1>1. heap \in Heaps /\ ~heap.twice /\ heap.live = {} /\ heap.user = {}
  <2>1. PICK no \in BOOLEAN : no = FALSE
    BY Zenon
  <2>2. [live |-> {}, next |-> 1, user |-> {}, twice |-> no] \in Heaps
    BY DEF Heaps
  <2> QED BY <2>1, <2>2
<1>2. InQueue(<<>>) = {} /\ Objects(<<>>) = {} /\ OnceEach(<<>>, <<>>)
  BY DEF InQueue, Objects, OnceEach
<1>3. Owned(<<>>, <<>>, {}, {}, 0, heap)
  BY <1>1, <1>2 DEF Owned, OneOwner
<1>4. Phases
  BY DEF Phases
<1>5. OwnedOnce
  BY <1>3, <1>4, NoListsIs DEF OwnedOnce
<1>6. torn \in BOOLEAN
  OBVIOUS
<1> QED BY <1>5, <1>6, Zenon DEF LifeInv

LEMMA InitStep ==
  ASSUME OwnedOnce, MdnsInit
  PROVE  OwnedOnce'
<1>1. PICK up \in BOOLEAN :
        /\ server = "none" /\ server' = "up" /\ handlers' = TRUE /\ pcbs' = up
        /\ lock' = TRUE /\ timers' = timers + 1 /\ task' = TRUE /\ queue' = <<>> /\ callback' = callback
        /\ lists' = [NoLists EXCEPT !.tx = IF up THEN <<[obj |-> New, queued |-> FALSE]>> ELSE <<>>]
        /\ heap' = IF up THEN Allocated ELSE heap
        /\ unstarted' = unstarted
  BY DEF MdnsInit
<1>2. queue = <<>> /\ lists = NoLists /\ timers = unstarted /\ unstarted \in Nat /\ ~callback
  BY <1>1, LifeFacts DEF Phases
<1>3. Owned(<<>>, <<>>, {}, {}, 0, heap)
  BY <1>2, LifeFacts, NoListsIs DEF OwnedBy
<1>4. Phases'
  BY <1>1, <1>2 DEF Phases, NoStop
<1>5. CASE up
  <2>1. Owned(<<>>, Append(<<>>, [obj |-> heap.next, queued |-> FALSE]), {}, {}, 0, AllocatedIn(heap))
    BY <1>3, OwnedSchedule
  <2>2. PICK x : x = <<[obj |-> heap.next, queued |-> FALSE]>> /\ x = Append(<<>>, [obj |-> heap.next, queued |-> FALSE])
    <3>1. PICK e : e = [obj |-> heap.next, queued |-> FALSE]
      OBVIOUS
    <3>2. <<e>> = Append(<<>>, e)
      OBVIOUS
    <3> QED BY <3>1, <3>2, Zenon
  <2>3. Owned(<<>>, x, {}, {}, 0, AllocatedIn(heap)) /\ x \in Seq(Packets)
    BY <2>1, <2>2, OwnedFacts
  <2>4. lists' = [NoLists EXCEPT !.tx = x] /\ heap' = AllocatedIn(heap)
    BY <1>1, <1>5, <2>2, AllocatedSame
  <2>5. OwnedBy(queue', lists', heap') /\ lists' \in Lists
    <3>1. /\ lists' \in Lists /\ lists'.tx = x /\ lists'.searches = {} /\ lists'.browses = {}
          /\ lists'.instance = 0
      BY <2>3, <2>4, NoListsIs, TxSet
    <3> QED BY <1>1, <2>3, <2>4, <3>1 DEF OwnedBy
  <2> QED BY <1>4, <2>5, LifeFrom
<1>6. CASE ~up
  <2>1. <<>> \in Seq(Packets)
    OBVIOUS
  <2>2. lists' = [NoLists EXCEPT !.tx = <<>>] /\ heap' = heap
    BY <1>1, <1>6
  <2>3. OwnedBy(queue', lists', heap') /\ lists' \in Lists
    <3>1. /\ lists' \in Lists /\ lists'.tx = <<>> /\ lists'.searches = {} /\ lists'.browses = {}
          /\ lists'.instance = 0
      BY <2>1, <2>2, NoListsIs, TxSet
    <3> QED BY <1>1, <1>3, <2>2, <3>1 DEF OwnedBy
  <2> QED BY <1>4, <2>3, LifeFrom
<1> QED BY <1>5, <1>6

\* What leaves the objects alone.
LEMMA AloneStep ==
  ASSUME OwnedOnce, queue' = queue, lists' = lists, heap' = heap, Phases'
  PROVE  OwnedOnce'
BY LifeFacts, LifeFrom

LEMMA FailsStep ==
  ASSUME OwnedOnce,
         InitFails \/ \E f \in {"timer", "timer_start", "task"} : TaskStartFails(f)
  PROVE  OwnedOnce'
<1>1. CASE InitFails
  <2>1. Phases'
    BY <1>1, LifeFacts DEF InitFails, Phases, NoStop, Ends, Ended
  <2> QED BY <1>1, <2>1, AloneStep DEF InitFails
<1>2. CASE \E f \in {"timer", "timer_start", "task"} : TaskStartFails(f)
  <2>1. PICK f \in {"timer", "timer_start", "task"} : TaskStartFails(f)
    BY <1>2
  <2>2. timers' = unstarted' /\ unstarted' \in Nat /\ server = "none"
    <3>1. server = "none" /\ timers = unstarted /\ unstarted \in Nat
      BY <2>1, LifeFacts DEF TaskStartFails, Phases
    <3> QED BY <2>1, <3>1 DEF TaskStartFails
  <2>3. Phases'
    BY <2>1, <2>2, LifeFacts DEF TaskStartFails, Phases
  <2> QED BY <2>1, <2>3, AloneStep DEF TaskStartFails
<1> QED BY <1>1, <1>2

\* A new action is posted, with the object it owns.
LEMMA PostNewStep ==
  ASSUME OwnedOnce, NEW type \in Owning, PostNew(type),
         server = "up" \/ (server = "stopping" /\ type = "RX_HANDLE"),
         UNCHANGED <<server, task, timers, callback, lock, handlers, pcbs, lists, unstarted>>
  PROVE  OwnedOnce'
<1> DEFINE a == [type |-> type, obj |-> New]
<1>1. /\ OwnedBy(Append(queue, a), lists, Allocated)
      /\ OwnedBy(queue, lists, Freed(Allocated, {New}))
  BY LifeFacts, OwnedPost, AllocatedSame DEF OwnedBy
<1>2. a \in Actions /\ a.type # "TASK_STOP" /\ (type = "RX_HANDLE" => Late(a))
  BY LifeFacts, AllocatedSame DEF Actions, ActionTypes, Owning, Calls, Late
<1> HIDE DEF a
<1>3. CASE HasRoom
  <2>1. queue' = Append(queue, a) /\ heap' = Allocated
    BY <1>3 DEF PostNew, a
  <2>2. Phases'
    BY <1>2, <2>1, LifeFacts, PostedBehind DEF Phases
  <2> QED BY <1>1, <2>1, <2>2, LifeFacts, LifeFrom
<1>4. CASE ~HasRoom
  <2>1. queue' = queue /\ heap' = Freed(Allocated, {New})
    BY <1>4 DEF PostNew
  <2>2. Phases'
    BY <2>1, LifeFacts DEF Phases, NoStop, Ends, Ended
  <2> QED BY <1>1, <2>1, <2>2, LifeFacts, LifeFrom
<1> QED BY <1>3, <1>4

LEMMA CallStep ==
  ASSUME OwnedOnce, NEW c \in Calls, Call(c)
  PROVE  OwnedOnce'
BY PostNewStep DEF Call, Owning

LEMMA ReceiveStep ==
  ASSUME OwnedOnce, Receive
  PROVE  OwnedOnce'
<1>1. server = "up" \/ server = "stopping"
  BY LifeFacts DEF Receive, Phases
<1>2. "RX_HANDLE" \in Owning
  BY DEF Owning
<1> QED BY <1>1, <1>2, PostNewStep DEF Receive

LEMMA SystemEventStep ==
  ASSUME OwnedOnce, SystemEvent
  PROVE  OwnedOnce'
<1> DEFINE a == [type |-> "SYSTEM_EVENT", obj |-> 0]
<1>1. server = "up"
  BY LifeFacts DEF SystemEvent, Phases
<1>2. a \in Actions /\ a.type \notin Owning /\ a.type # "SEARCH_END" /\ a.type # "TASK_STOP"
  BY DEF Actions, ActionTypes, Owning, Calls
<1>3. queue' = Append(queue, a) /\ lists' = lists /\ heap' = heap
  BY DEF SystemEvent
<1> HIDE DEF a
<1>4. OwnedBy(queue', lists', heap')
  BY <1>2, <1>3, LifeFacts, OwnedName DEF OwnedBy
<1>5. Phases'
  BY <1>1, <1>2, <1>3, LifeFacts, PostedBehind DEF Phases, SystemEvent
<1> QED BY <1>3, <1>4, <1>5, LifeFacts, LifeFrom

LEMMA QueryDeleteStep ==
  ASSUME OwnedOnce, NEW s \in heap.user, QueryDelete(s)
  PROVE  OwnedOnce'
<1>1. queue' = queue /\ lists' = lists /\ heap' = Freed([heap EXCEPT !.user = @ \ {s}], {s})
  BY DEF QueryDelete
<1>2. OwnedBy(queue', lists', heap')
  BY <1>1, LifeFacts, OwnedDelete DEF OwnedBy
<1>3. Phases'
  BY <1>1, LifeFacts DEF Phases, QueryDelete, NoStop, Ends, Ended
<1> QED BY <1>1, <1>2, <1>3, LifeFacts, LifeFrom

LEMMA TimerFiresStep ==
  ASSUME OwnedOnce, TimerFires
  PROVE  OwnedOnce'
<1>1. Phases'
  BY LifeFacts DEF Phases, TimerFires, NoStop, Ends, Ended
<1> QED BY <1>1, AloneStep DEF TimerFires

LEMMA TimerRunsStep ==
  ASSUME OwnedOnce, TimerRuns
  PROVE  OwnedOnce'
<1>1. server = "up" /\ lock /\ task /\ timers = unstarted + 1 /\ unstarted \in Nat /\ NoStop(queue)
  BY LifeFacts DEF TimerRuns, Phases
<1>2. /\ heap' = heap /\ callback' = FALSE /\ server' = "up" /\ lock' = lock /\ task' = task
      /\ timers' = timers /\ unstarted' = unstarted
  BY <1>1 DEF TimerRuns
<1>3. CASE SchedulerRun
  <2>1. PICK k \in DOMAIN lists.tx :
          /\ queue' = Append(queue, [type |-> "TX_HANDLE", obj |-> lists.tx[k].obj])
          /\ lists' = [lists EXCEPT !.tx[k].queued = TRUE]
    BY <1>3 DEF SchedulerRun
  <2> DEFINE a == [type |-> "TX_HANDLE", obj |-> lists.tx[k].obj]
             x == [lists.tx EXCEPT ![k].queued = TRUE]
  <2>2. lists.tx[k].obj \in Nat
    BY LifeFacts, TxFacts DEF OwnedBy
  <2>3. a \in Actions /\ a.type \notin Owning /\ a.type # "SEARCH_END" /\ a.type # "TASK_STOP"
    BY <2>2 DEF Actions, ActionTypes, Owning, Calls
  <2>4. lists' = [lists EXCEPT !.tx = x]
    BY <2>1
  <2> HIDE DEF a
  <2>5. Owned(Append(queue, a), lists.tx, lists.searches, lists.browses, lists.instance, heap)
    BY <2>3, LifeFacts, OwnedName DEF OwnedBy
  <2>6. Owned(Append(queue, a), x, lists.searches, lists.browses, lists.instance, heap)
    BY <2>5, OwnedMark
  <2> HIDE DEF x
  <2>7. x \in Seq(Packets) /\ lists \in Lists
    BY <2>6, OwnedFacts, LifeFacts
  <2>8. OwnedBy(queue', lists', heap') /\ lists' \in Lists
    <3>1. /\ lists' \in Lists /\ lists'.tx = x /\ lists'.searches = lists.searches
          /\ lists'.browses = lists.browses /\ lists'.instance = lists.instance
      BY <2>4, <2>7, TxSet
    <3> QED BY <1>2, <2>1, <2>6, <3>1 DEF OwnedBy, a
  <2>9. Phases'
    BY <1>1, <1>2, <2>1, <2>3, LifeFacts, PostedBehind DEF Phases, a
  <2> QED BY <2>8, <2>9, LifeFrom
<1>4. CASE SearchRun
  <2>1. PICK s \in lists.searches, type \in {"SEARCH_SEND", "SEARCH_END"} :
          /\ \A k \in DOMAIN queue : queue[k] # [type |-> "SEARCH_END", obj |-> s]
          /\ queue' = Append(queue, [type |-> type, obj |-> s]) /\ lists' = lists
    BY <1>4 DEF SearchRun
  <2> DEFINE a == [type |-> type, obj |-> s]
  <2>2. s \in Nat
    BY LifeFacts, OwnedFacts DEF OwnedBy
  <2>3. /\ a \in Actions /\ a.type \notin Owning /\ a.type # "TASK_STOP"
        /\ a.type = "SEARCH_END" => a.obj \in lists.searches /\ \A k \in DOMAIN queue : queue[k] # a
    BY <2>1, <2>2 DEF Actions, ActionTypes, Owning, Calls
  <2> HIDE DEF a
  <2>4. OwnedBy(queue', lists', heap')
    BY <1>2, <2>1, <2>3, LifeFacts, OwnedName DEF OwnedBy, a
  <2>5. Phases'
    BY <1>1, <1>2, <2>1, <2>3, LifeFacts, PostedBehind DEF Phases, a
  <2> QED BY <2>1, <2>4, <2>5, LifeFacts, LifeFrom
<1>5. CASE UNCHANGED <<queue, lists>>
  <2>1. Phases'
    BY <1>1, <1>2, <1>5 DEF Phases, NoStop
  <2> QED BY <1>2, <1>5, <2>1, AloneStep
<1> QED BY <1>3, <1>4, <1>5 DEF TimerRuns

\* The service task takes an action other than its last one.
LEMMA TaskFacts ==
  ASSUME OwnedOnce, NEW type, TaskStep(type)
  PROVE  /\ queue # <<>> /\ Head(queue).type = type /\ queue \in Seq(Actions) /\ Head(queue) \in Actions
         /\ OwnedBy(queue, lists, heap) /\ lists \in Lists
         /\ UNCHANGED <<server, timers, callback, lock, handlers, unstarted>>
         /\ task /\ server \in {"up", "stopping"}
<1>1. queue # <<>> /\ Head(queue).type = type /\ task /\ UNCHANGED <<server, timers, callback, lock, handlers, unstarted>>
  BY DEF TaskStep
<1>2. server \in {"up", "stopping"}
  BY <1>1, LifeFacts DEF Phases
<1>3. Head(queue) \in Actions
  BY <1>1, LifeFacts, TailIs
<1> QED BY <1>1, <1>2, <1>3, LifeFacts

LEMMA TaskPhases ==
  ASSUME OwnedOnce, NEW type, TaskStep(type), type # "TASK_STOP", task' = task
  PROVE  /\ queue' = Tail(queue) => Phases'
         /\ \A a \in Actions : a.type # "TASK_STOP" /\ Late(a) /\ queue' = Append(Tail(queue), a) => Phases'
<1>1. /\ queue # <<>> /\ Head(queue).type # "TASK_STOP" /\ queue \in Seq(Actions) /\ Tail(queue) \in Seq(Actions)
      /\ UNCHANGED <<server, timers, callback, lock, handlers, unstarted>>
      /\ task /\ server \in {"up", "stopping"} /\ Phases
  BY TaskFacts, LifeFacts, TailIs
<1>2. /\ server = "up" => NoStop(Tail(queue))
      /\ server = "stopping" => Ends(Tail(queue))
  BY <1>1, TakenFirst DEF Phases
<1>3. CASE queue' = Tail(queue)
  BY <1>1, <1>2, <1>3 DEF Phases
<1>4. ASSUME NEW a \in Actions, a.type # "TASK_STOP", Late(a), queue' = Append(Tail(queue), a)
      PROVE  Phases'
  <2>1. /\ server = "up" => NoStop(queue')
        /\ server = "stopping" => Ends(queue')
    BY <1>1, <1>2, <1>4, PostedBehind
  <2> QED BY <1>1, <2>1 DEF Phases
<1> QED BY <1>3, <1>4

\* The action is done, its object freed.
LEMMA FreedStep ==
  ASSUME OwnedOnce, NEW type \in Owning, TaskStep(type), task' = task, queue' = Tail(queue),
         heap' = Freed(heap, {Obj}), lists' = lists
  PROVE  OwnedOnce'
<1>1. type # "TASK_STOP"
  BY DEF Owning, Calls
<1>2. Phases'
  BY <1>1, TaskPhases
<1>3. OwnedBy(queue', lists', heap')
  BY TaskFacts, OwnedFree DEF OwnedBy, Obj
<1> QED BY <1>2, <1>3, TaskFacts, LifeFrom

LEMMA ExecSetStep ==
  ASSUME OwnedOnce, ExecInstanceSet
  PROVE  OwnedOnce'
<1>1. "INSTANCE_SET" \in Owning /\ TaskStep("INSTANCE_SET")
  BY DEF ExecInstanceSet, Owning, Calls
<1>2. Phases'
  BY <1>1, TaskPhases DEF ExecInstanceSet
<1>3. Obj \in Nat /\ lists \in Lists
  BY <1>1, TaskFacts, ActionFields DEF Obj
<1>4. /\ lists' \in Lists /\ lists'.tx = lists.tx /\ lists'.searches = lists.searches
      /\ lists'.browses = lists.browses /\ lists'.instance = Obj
  BY <1>3, InstanceSet DEF ExecInstanceSet
<1>5. PICK h : h = (IF lists.instance = 0 THEN heap ELSE Freed(heap, {lists.instance}))
  OBVIOUS
<1>6. /\ Owned(queue, lists.tx, lists.searches, lists.browses, lists.instance, heap)
      /\ queue # <<>> /\ Head(queue).type \in Owning
  BY <1>1, TaskFacts DEF OwnedBy
<1>7. Owned(Tail(queue), lists.tx, lists.searches, lists.browses, Head(queue).obj, h)
  BY <1>5, <1>6, OwnedInstance
<1>8. heap' = h /\ queue' = Tail(queue)
  BY <1>1, <1>5 DEF ExecInstanceSet
<1>9. OwnedBy(queue', lists', heap')
  BY <1>4, <1>7, <1>8 DEF OwnedBy, Obj
<1> QED BY <1>2, <1>4, <1>9, LifeFrom

LEMMA ExecAddStep ==
  ASSUME OwnedOnce, ExecSearchAdd
  PROVE  OwnedOnce'
<1>1. "SEARCH_ADD" \in Owning /\ TaskStep("SEARCH_ADD")
  BY DEF ExecSearchAdd, Owning, Calls
<1>2. Phases'
  BY <1>1, TaskPhases DEF ExecSearchAdd
<1>3. PICK x : x = lists.searches \cup {Obj}
  OBVIOUS
<1>4. Owned(Tail(queue), lists.tx, x, lists.browses, lists.instance, Used(heap, {Obj}))
  BY <1>1, <1>3, TaskFacts, OwnedSearch DEF OwnedBy, Obj
<1>5. x \in SUBSET Nat /\ lists \in Lists
  BY <1>1, <1>4, TaskFacts, OwnedFacts
<1>6. lists' = [lists EXCEPT !.searches = x]
  BY <1>3 DEF ExecSearchAdd
<1>7. /\ lists' \in Lists /\ lists'.tx = lists.tx /\ lists'.searches = x
      /\ lists'.browses = lists.browses /\ lists'.instance = lists.instance
  BY <1>5, <1>6, SearchesSet
<1>8. OwnedBy(queue', lists', heap')
  BY <1>4, <1>7 DEF OwnedBy, ExecSearchAdd
<1> QED BY <1>2, <1>7, <1>8, LifeFrom

LEMMA ExecSendStep ==
  ASSUME OwnedOnce, ExecSearchSend
  PROVE  OwnedOnce'
<1>1. TaskStep("SEARCH_SEND") /\ "SEARCH_SEND" \notin Owning
  BY DEF ExecSearchSend, Owning, Calls
<1>2. Phases'
  BY <1>1, TaskPhases DEF ExecSearchSend
<1>3. Owned(Tail(queue), lists.tx, lists.searches, lists.browses, lists.instance, heap)
  BY <1>1, TaskFacts, OwnedSkip DEF OwnedBy
<1>4. CASE Obj \in lists.searches
  <2>1. {Obj} \subseteq heap.live
    BY <1>3, <1>4, OneOwnerObject
  <2>2. OwnedBy(queue', lists', heap')
    BY <1>3, <1>4, <2>1, OwnedUse DEF OwnedBy, ExecSearchSend
  <2> QED BY <1>1, <1>2, <2>2, TaskFacts, LifeFrom DEF ExecSearchSend
<1>5. CASE Obj \notin lists.searches
  <2>1. OwnedBy(queue', lists', heap')
    BY <1>3, <1>5 DEF OwnedBy, ExecSearchSend
  <2> QED BY <1>1, <1>2, <2>1, TaskFacts, LifeFrom DEF ExecSearchSend
<1> QED BY <1>4, <1>5

LEMMA ExecEndStep ==
  ASSUME OwnedOnce, ExecSearchEnd
  PROVE  OwnedOnce'
<1>1. TaskStep("SEARCH_END") /\ "SEARCH_END" \notin Owning
  BY DEF ExecSearchEnd, Owning, Calls
<1>2. Phases'
  BY <1>1, TaskPhases DEF ExecSearchEnd
<1>3. /\ Owned(Tail(queue), lists.tx, lists.searches, lists.browses, lists.instance, heap)
      /\ Obj \in lists.searches /\ \A k \in DOMAIN Tail(queue) : Tail(queue)[k] # Head(queue)
  BY <1>1, TaskFacts, OwnedSkip DEF OwnedBy, Obj
<1>4. \A k \in DOMAIN Tail(queue) : Tail(queue)[k].type = "SEARCH_END" => Tail(queue)[k].obj # Obj
  <2>1. \A a, c \in Actions : a.type = c.type /\ a.obj = c.obj => a = c
    BY DEF Actions
  <2>2. Head(queue) \in Actions /\ Head(queue).type = "SEARCH_END" /\ Head(queue).obj = Obj
    BY <1>1, TaskFacts DEF Obj
  <2>3. \A k \in DOMAIN Tail(queue) : Tail(queue)[k] \in Actions
    <3>1. Tail(queue) \in Seq(Actions)
      BY <1>3, OwnedFacts
    <3> QED BY <3>1
  <2> QED BY <1>3, <2>1, <2>2, <2>3
<1>5. PICK x : x = lists.searches \ {Obj}
  OBVIOUS
<1>6. Owned(Tail(queue), lists.tx, x, lists.browses, lists.instance,
            [Used(heap, {Obj}) EXCEPT !.user = @ \cup {Obj}])
  BY <1>3, <1>4, <1>5, OwnedFinish
<1>7. x \in SUBSET Nat /\ lists \in Lists
  BY <1>1, <1>6, TaskFacts, OwnedFacts
<1>8. lists' = [lists EXCEPT !.searches = x]
  BY <1>5 DEF ExecSearchEnd
<1>9. /\ lists' \in Lists /\ lists'.tx = lists.tx /\ lists'.searches = x
      /\ lists'.browses = lists.browses /\ lists'.instance = lists.instance
  BY <1>7, <1>8, SearchesSet
<1>10. OwnedBy(queue', lists', heap')
  BY <1>6, <1>9 DEF OwnedBy, ExecSearchEnd
<1> QED BY <1>2, <1>9, <1>10, LifeFrom

LEMMA ExecBrowseStep ==
  ASSUME OwnedOnce, ExecBrowseAdd \/ ExecBrowseEnd
  PROVE  OwnedOnce'
<1>1. CASE ExecBrowseAdd /\ lists.browses # {}
  <2>1. "BROWSE_ADD" \in Owning
    BY DEF Owning, Calls
  <2> QED BY <1>1, <2>1, FreedStep DEF ExecBrowseAdd
<1>2. CASE ExecBrowseAdd /\ lists.browses = {}
  <2>1. "BROWSE_ADD" \in Owning /\ TaskStep("BROWSE_ADD")
    BY <1>2 DEF ExecBrowseAdd, Owning, Calls
  <2>2. Phases'
    BY <1>2, <2>1, TaskPhases DEF ExecBrowseAdd
  <2>3. PICK x : x = {Obj}
    OBVIOUS
  <2>4. Owned(queue, lists.tx, lists.searches, {}, lists.instance, heap)
    BY <1>2, <2>1, TaskFacts DEF OwnedBy
  <2>5. Owned(Tail(queue), lists.tx, lists.searches, x, lists.instance, Used(heap, {Obj}))
    BY <2>1, <2>3, <2>4, TaskFacts, OwnedBrowse DEF Obj
  <2>6. x \in SUBSET Nat /\ lists \in Lists
    BY <2>1, <2>5, TaskFacts, OwnedFacts
  <2>7. lists' = [lists EXCEPT !.browses = x] /\ heap' = Used(heap, {Obj}) /\ queue' = Tail(queue)
    BY <1>2, <2>3 DEF ExecBrowseAdd
  <2>8. /\ lists' \in Lists /\ lists'.tx = lists.tx /\ lists'.searches = lists.searches
        /\ lists'.browses = x /\ lists'.instance = lists.instance
    BY <2>6, <2>7, BrowsesSet
  <2>9. OwnedBy(queue', lists', heap')
    BY <2>5, <2>7, <2>8 DEF OwnedBy
  <2> QED BY <2>2, <2>8, <2>9, LifeFrom
<1>3. CASE ExecBrowseEnd
  <2>1. "BROWSE_END" \in Owning /\ TaskStep("BROWSE_END")
    BY <1>3 DEF ExecBrowseEnd, Owning, Calls
  <2>2. Phases'
    BY <1>3, <2>1, TaskPhases DEF ExecBrowseEnd
  <2>3. Owned(Tail(queue), lists.tx, lists.searches, {}, lists.instance,
              Freed(heap, lists.browses \cup {Obj}))
    BY <2>1, TaskFacts, OwnedBrowseEnd DEF OwnedBy, Obj
  <2>4. {} \in SUBSET Nat /\ lists \in Lists
    BY <2>1, TaskFacts
  <2>5. /\ lists' \in Lists /\ lists'.tx = lists.tx /\ lists'.searches = lists.searches
        /\ lists'.browses = {} /\ lists'.instance = lists.instance
    BY <1>3, <2>4, BrowsesSet DEF ExecBrowseEnd
  <2>6. OwnedBy(queue', lists', heap')
    BY <1>3, <2>3, <2>5 DEF OwnedBy, ExecBrowseEnd
  <2> QED BY <2>2, <2>5, <2>6, LifeFrom
<1> QED BY <1>1, <1>2, <1>3

LEMMA ExecDropStep ==
  ASSUME OwnedOnce, ExecBrowseSync \/ ExecDelegate
  PROVE  OwnedOnce'
<1>1. "BROWSE_SYNC" \in Owning /\ "DELEGATE" \in Owning
  BY DEF Owning, Calls
<1> QED BY <1>1, FreedStep DEF ExecBrowseSync, ExecDelegate

\* What is to be sent changes.
LEMMA TxStep ==
  ASSUME OwnedOnce, Phases', NEW x, lists' = [lists EXCEPT !.tx = x],
         Owned(queue', x, lists.searches, lists.browses, lists.instance, heap')
  PROVE  OwnedOnce'
<1>1. x \in Seq(Packets) /\ lists \in Lists
  BY OwnedFacts, LifeFacts
<1>2. /\ lists' \in Lists /\ lists'.tx = x /\ lists'.searches = lists.searches
      /\ lists'.browses = lists.browses /\ lists'.instance = lists.instance
  BY <1>1, TxSet
<1>3. OwnedBy(queue', lists', heap')
  BY <1>2 DEF OwnedBy
<1> QED BY <1>2, <1>3, LifeFrom

LEMMA ExecTxStep ==
  ASSUME OwnedOnce, ExecTxHandle
  PROVE  OwnedOnce'
<1>1. TaskStep("TX_HANDLE") /\ "TX_HANDLE" \notin Owning
  BY DEF ExecTxHandle, Owning, Calls
<1>2. Phases' /\ queue' = Tail(queue)
  BY <1>1, TaskPhases DEF ExecTxHandle
<1>3. Owned(queue', lists.tx, lists.searches, lists.browses, lists.instance, heap)
  BY <1>1, <1>2, TaskFacts, OwnedSkip DEF OwnedBy
<1>4. CASE lists.tx # <<>> /\ lists.tx[1].obj = Obj /\ lists.tx[1].queued
  <2>1. CASE lists' = [lists EXCEPT !.tx = Tail(@)] /\ heap' = Freed(heap, {Obj})
    <3>1. Owned(queue', Tail(lists.tx), lists.searches, lists.browses, lists.instance, heap')
      BY <1>3, <1>4, <2>1, OwnedSent
    <3>2. lists' = [lists EXCEPT !.tx = Tail(lists.tx)]
      BY <2>1
    <3> QED BY <1>2, <3>1, <3>2, TxStep
  <2>2. CASE /\ lists' = [lists EXCEPT !.tx = Append(Tail(@), [obj |-> Obj, queued |-> FALSE])]
             /\ heap' = Used(heap, {Obj})
    <3>1. PICK x : x = Append(Tail(lists.tx), [obj |-> Obj, queued |-> FALSE])
      OBVIOUS
    <3>2. Owned(queue', x, lists.searches, lists.browses, lists.instance, heap')
      BY <1>3, <1>4, <2>2, <3>1, OwnedAgain
    <3>3. lists' = [lists EXCEPT !.tx = x]
      BY <2>2, <3>1
    <3> QED BY <1>2, <3>2, <3>3, TxStep
  <2> QED BY <1>4, <2>1, <2>2 DEF ExecTxHandle
<1>5. CASE ~(lists.tx # <<>> /\ lists.tx[1].obj = Obj /\ lists.tx[1].queued)
  <2>1. lists' = lists /\ heap' = heap
    BY <1>5 DEF ExecTxHandle
  <2> QED BY <1>2, <1>3, <2>1, LifeFacts, LifeFrom DEF OwnedBy
<1> QED BY <1>4, <1>5

LEMMA ExecRxStep ==
  ASSUME OwnedOnce, ExecRxHandle
  PROVE  OwnedOnce'
<1> DEFINE done == Freed(heap, {Obj})
           more == [done EXCEPT !.live = @ \cup {New}, !.next = @ + 1]
<1>1. TaskStep("RX_HANDLE") /\ "RX_HANDLE" \in Owning /\ task' = task
  BY DEF ExecRxHandle, Owning
<1>2. Owned(Tail(queue), lists.tx, lists.searches, lists.browses, lists.instance, done)
  BY <1>1, TaskFacts, OwnedFree DEF OwnedBy, Obj
<1>3. done.next = heap.next
  <2>0. /\ Owned(queue, lists.tx, lists.searches, lists.browses, lists.instance, heap)
        /\ queue \in Seq(Actions) /\ queue # <<>> /\ Head(queue).type \in Owning
    BY <1>1, TaskFacts DEF OwnedBy
  <2>1. Head(queue).obj \in InQueue(queue)
    <3>1. OnceEach(queue, lists.tx)
      BY <2>0, OwnedFacts
    <3> QED BY <2>0, <3>1, QueueTail
  <2>2. {Obj} \subseteq heap.live
    BY <2>0, <2>1, OneOwnerObject DEF Obj
  <2> QED BY <2>2, LifeFacts, FreedIs
<1>4. more = AllocatedIn(done)
  BY <1>3 DEF AllocatedIn, New
<1> HIDE DEF done, more
<1>5. CASE queue' = Tail(queue) /\ heap' = done /\ lists' = lists
  BY <1>1, <1>2, <1>5, TaskPhases, LifeFacts, LifeFrom DEF OwnedBy
<1>6. CASE /\ heap' = more /\ queue' = Tail(queue)
           /\ lists' = [lists EXCEPT !.tx = Append(@, [obj |-> New, queued |-> FALSE])]
  <2>1. PICK x : x = Append(lists.tx, [obj |-> New, queued |-> FALSE])
    OBVIOUS
  <2>2. Owned(queue', x, lists.searches, lists.browses, lists.instance, heap')
    BY <1>2, <1>3, <1>4, <1>6, <2>1, OwnedSchedule DEF New
  <2>3. lists' = [lists EXCEPT !.tx = x] /\ Phases'
    BY <1>1, <1>6, <2>1, TaskPhases
  <2> QED BY <2>2, <2>3, TxStep
<1>7. CASE /\ heap' = more /\ lists' = lists
           /\ queue' = Append(Tail(queue), [type |-> "BROWSE_SYNC", obj |-> New])
  <2> DEFINE a == [type |-> "BROWSE_SYNC", obj |-> New]
  <2>1. "BROWSE_SYNC" \in Owning
    BY DEF Owning
  <2>2. a \in Actions /\ a.type # "TASK_STOP" /\ Late(a)
    BY LifeFacts, AllocatedSame DEF Actions, ActionTypes, Owning, Late
  <2>3. OwnedBy(queue', lists', heap')
    BY <1>2, <1>3, <1>4, <1>7, <2>1, OwnedPost DEF OwnedBy, New
  <2>4. queue' = Append(Tail(queue), a)
    BY <1>7
  <2> HIDE DEF a
  <2>5. Phases'
    BY <1>1, <2>2, <2>4, TaskPhases
  <2> QED BY <1>7, <2>3, <2>5, LifeFacts, LifeFrom
<1> QED BY <1>5, <1>6, <1>7 DEF ExecRxHandle, done, more

LEMMA ExecEventStep ==
  ASSUME OwnedOnce, ExecSystemEvent
  PROVE  OwnedOnce'
<1>1. TaskStep("SYSTEM_EVENT") /\ "SYSTEM_EVENT" \notin Owning
  BY DEF ExecSystemEvent, Owning, Calls
<1>2. Phases' /\ queue' = Tail(queue)
  BY <1>1, TaskPhases DEF ExecSystemEvent
<1>3. Owned(queue', lists.tx, lists.searches, lists.browses, lists.instance, heap)
  BY <1>1, <1>2, TaskFacts, OwnedSkip DEF OwnedBy
<1>4. CASE heap' = Allocated /\ lists' = [lists EXCEPT !.tx = Append(@, [obj |-> New, queued |-> FALSE])]
  <2>1. PICK x : x = Append(lists.tx, [obj |-> New, queued |-> FALSE])
    OBVIOUS
  <2>2. Owned(queue', x, lists.searches, lists.browses, lists.instance, heap')
    BY <1>3, <1>4, <2>1, OwnedSchedule, AllocatedSame
  <2>3. lists' = [lists EXCEPT !.tx = x]
    BY <1>4, <2>1
  <2> QED BY <1>2, <2>2, <2>3, TxStep
<1>5. CASE heap' = Freed(heap, Objects(lists.tx)) /\ lists' = [lists EXCEPT !.tx = <<>>]
  <2>1. Owned(queue', <<>>, lists.searches, lists.browses, lists.instance, heap')
    BY <1>3, <1>5, OwnedOff
  <2> QED BY <1>2, <1>5, <2>1, TxStep
<1>6. CASE lists' = lists /\ heap' = heap
  BY <1>2, <1>3, <1>6, LifeFacts, LifeFrom DEF OwnedBy
<1> QED BY <1>4, <1>5, <1>6 DEF ExecSystemEvent

LEMMA ExecStopStep ==
  ASSUME OwnedOnce, ExecStop
  PROVE  OwnedOnce'
<1>1. TaskStep("TASK_STOP") /\ "TASK_STOP" \notin Owning
  BY DEF ExecStop, Owning, Calls
<1>2. server = "stopping" /\ Ends(queue)
  BY <1>1, TaskFacts, TakenFirst, LifeFacts DEF Phases
<1>3. Ended(Tail(queue))
  BY <1>1, <1>2, TaskFacts, TakenFirst
<1>4. Phases'
  BY <1>1, <1>2, <1>3, TaskFacts, LifeFacts DEF Phases, ExecStop
<1>5. OwnedBy(queue', lists', heap')
  BY <1>1, TaskFacts, OwnedSkip DEF OwnedBy, ExecStop
<1> QED BY <1>4, <1>5, LifeFacts, LifeFrom DEF ExecStop

\* mdns_free, of a server whose timer's callback has not begun: the task is sent its
\* last action, or leaves a queue of actions that own their objects.
LEMMA FreeStep ==
  ASSUME OwnedOnce, FreeAsks \/ FreeDeletes \/ FreeInterrupts, ~torn'
  PROVE  OwnedOnce'
<1>1. /\ server = "up" /\ server' = "stopping" /\ handlers' = FALSE /\ timers' = timers - 1
      /\ UNCHANGED <<callback, lock, pcbs, lists, heap, unstarted>>
      /\ ~callback /\ ~FreeInterrupts
  BY DEF FreeAsks, FreeDeletes, FreeInterrupts, MdnsFree
<1>2. timers = unstarted + 1 /\ unstarted \in Nat /\ NoStop(queue) /\ task
  BY <1>1, LifeFacts DEF Phases
<1>3. CASE FreeAsks
  <2>1. queue' = Append(queue, Stop) /\ task' = task
    BY <1>3 DEF FreeAsks
  <2>2. Stop \in Actions /\ Stop.type = "TASK_STOP" /\ Stop.type \notin Owning
    BY DEF Stop, Actions, ActionTypes, Owning, Calls
  <2>3. OwnedBy(queue', lists', heap')
    BY <1>1, <2>1, <2>2, LifeFacts, OwnedName DEF OwnedBy
  <2>4. Ends(queue')
    BY <1>2, <2>1, <2>2, LifeFacts, PostedBehind
  <2>5. Phases'
    BY <1>1, <1>2, <2>1, <2>4 DEF Phases
  <2> QED BY <1>1, <2>3, <2>5, LifeFacts, LifeFrom
<1>4. CASE FreeDeletes
  <2>1. queue' = queue /\ task' = FALSE /\ ~Names(queue)
    BY <1>4 DEF FreeDeletes
  <2>2. \A k \in DOMAIN queue : queue[k] \in Actions
    BY LifeFacts
  <2>3. \A k \in DOMAIN queue : queue[k].type = "SYSTEM_EVENT" => queue[k].obj = 0
    BY <2>2 DEF Actions
  <2>4. \A k \in DOMAIN queue : queue[k].type \in Owning \cup {"SYSTEM_EVENT"}
    BY <1>2, <2>1, <2>2 DEF Names, Naming, NoStop, Actions, ActionTypes
  <2>5. Ended(queue)
    BY <2>3, <2>4 DEF Ended
  <2>6. Phases'
    BY <1>1, <1>2, <2>1, <2>5 DEF Phases, Ended
  <2> QED BY <1>1, <2>1, <2>6, AloneStep
<1> QED BY <1>1, <1>3, <1>4

LEMMA StoppedStep ==
  ASSUME OwnedOnce, TaskStopped
  PROVE  OwnedOnce'
<1>1. Phases'
  BY LifeFacts DEF Phases, TaskStopped, Ended
<1> QED BY <1>1, AloneStep DEF TaskStopped

\* The actions that are left own their objects; what they do not own the lists do.
LEMMA FreeRestStep ==
  ASSUME OwnedOnce, FreeRest
  PROVE  OwnedOnce'
<1> DEFINE inLists == Objects(lists.tx) \cup lists.searches \cup lists.browses \cup ({lists.instance} \ {0})
<1>1. /\ server = "stopped" /\ Ended(queue) /\ ~handlers /\ timers = unstarted /\ unstarted \in Nat
      /\ ~task /\ ~pcbs /\ ~callback
  BY LifeFacts DEF FreeRest, Phases
<1>2. \A k \in DOMAIN queue : queue[k].obj # 0 => queue[k].type \in Owning
  BY <1>1 DEF Ended
<1>3. InQueue(queue) \subseteq heap.live /\ \A o \in heap.live : o # 0
  BY LifeFacts, OwnedFacts, OneOwnerObject DEF OwnedBy
<1>4. OneOwner(InQueue(queue), Objects(lists.tx), lists.searches, lists.browses, {lists.instance} \ {0},
               heap.user, heap.live)
  BY LifeFacts, OwnedFacts DEF OwnedBy
<1>5. \A k \in DOMAIN queue : queue[k].obj = 0 \/ queue[k].obj \in InQueue(queue)
  BY <1>2 DEF InQueue
<1>6. \A j, k \in DOMAIN queue : queue[j].obj # 0 /\ queue[j].obj = queue[k].obj => j = k
  BY <1>2, LifeFacts, OwnedFacts DEF OwnedBy, OnceEach
<1>7. /\ Drained \in Heaps /\ ~Drained.twice /\ Drained.user = heap.user /\ Drained.next = heap.next
      /\ Drained.live = heap.live \ InQueue(queue)
  <2>1. /\ Drained \in Heaps /\ ~Drained.twice /\ Drained.user = heap.user /\ Drained.next = heap.next
        /\ Drained.live = heap.live \ {queue[k].obj : k \in DOMAIN queue}
    BY <1>3, <1>5, <1>6, LifeFacts, DrainedIs
  <2>2. InQueue(queue) \subseteq {queue[k].obj : k \in DOMAIN queue}
    BY DEF InQueue
  <2>3. \A o \in heap.live : o \in {queue[k].obj : k \in DOMAIN queue} => o \in InQueue(queue)
    BY <1>3, <1>5
  <2> QED BY <2>1, <2>2, <2>3
<1>8. inLists \subseteq Drained.live /\ Drained.live \ inLists = heap.user /\ heap.user \subseteq heap.live
  BY <1>4, <1>7, OneOwnerIs
<1>9. heap' = Freed(Drained, inLists) /\ queue' = <<>> /\ lists' = NoLists
  BY DEF FreeRest
<1> HIDE DEF inLists
<1>10. /\ heap' \in Heaps /\ ~heap'.twice
       /\ heap'.live = heap.user /\ heap'.next = heap.next /\ heap'.user = heap.user
  BY <1>7, <1>8, <1>9, FreedIs
<1>11. \A o \in heap'.live : o # 0 /\ o < heap'.next
  BY <1>8, <1>10, LifeFacts, OwnedFacts DEF OwnedBy
<1>12. InQueue(<<>>) = {} /\ Objects(<<>>) = {} /\ OnceEach(<<>>, <<>>)
  BY DEF InQueue, Objects, OnceEach
<1>13. Owned(<<>>, <<>>, {}, {}, 0, heap')
  BY <1>10, <1>11, <1>12 DEF Owned, OneOwner
<1>14. Phases'
  BY <1>1, <1>9 DEF Phases, FreeRest
<1>15. OwnedBy(queue', lists', heap')
  BY <1>9, <1>13, NoListsIs DEF OwnedBy
<1> QED BY <1>9, <1>14, <1>15, NoListsIs, LifeFrom

LEMMA NextLife ==
  ASSUME LifeInv, [Next]_vars
  PROVE  LifeInv'
<1>1. torn' \in BOOLEAN /\ (torn => torn')
  <2>1. torn \in BOOLEAN
    BY DEF LifeInv
  <2>2. CASE FreeAsks \/ FreeDeletes \/ FreeInterrupts
    BY <2>1, <2>2 DEF FreeAsks, FreeDeletes, FreeInterrupts
  <2>3. CASE [Next]_vars /\ ~(FreeAsks \/ FreeDeletes \/ FreeInterrupts)
    <3>1. torn' = torn
      BY <2>3 DEF Next, vars, MdnsInit, InitFails, TaskStartFails, Call, SystemEvent, Receive, QueryDelete,
                  TimerFires, TimerRuns, TaskStep, ExecInstanceSet, ExecSearchAdd, ExecSearchSend, ExecSearchEnd,
                  ExecBrowseAdd, ExecBrowseEnd, ExecBrowseSync, ExecTxHandle, ExecRxHandle, ExecSystemEvent,
                  ExecDelegate, ExecStop, TaskStopped, FreeRest
    <3> QED BY <2>1, <3>1
  <2> QED BY <2>2, <2>3
<1>2. ASSUME ~torn' PROVE OwnedOnce'
  <2>0. OwnedOnce
    BY <1>1, <1>2 DEF LifeInv
  <2>1. CASE MdnsInit \/ InitFails \/ \E f \in {"timer", "timer_start", "task"} : TaskStartFails(f)
    BY <2>0, <2>1, InitStep, FailsStep
  <2>2. CASE (\E c \in Calls : Call(c)) \/ SystemEvent \/ Receive \/ (\E s \in heap.user : QueryDelete(s))
    BY <2>0, <2>2, CallStep, SystemEventStep, ReceiveStep, QueryDeleteStep
  <2>3. CASE TimerFires \/ TimerRuns
    BY <2>0, <2>3, TimerFiresStep, TimerRunsStep
  <2>4. CASE \/ ExecInstanceSet \/ ExecSearchAdd \/ ExecSearchSend \/ ExecSearchEnd
             \/ ExecBrowseAdd \/ ExecBrowseEnd \/ ExecBrowseSync
             \/ ExecTxHandle \/ ExecRxHandle \/ ExecSystemEvent \/ ExecDelegate \/ ExecStop
    BY <2>0, <2>4, ExecSetStep, ExecAddStep, ExecSendStep, ExecEndStep, ExecBrowseStep, ExecDropStep, ExecTxStep,
       ExecRxStep, ExecEventStep, ExecStopStep
  <2>5. CASE FreeAsks \/ FreeDeletes \/ FreeInterrupts \/ TaskStopped \/ FreeRest
    BY <1>2, <2>0, <2>5, FreeStep, StoppedStep, FreeRestStep
  <2>6. CASE UNCHANGED vars
    <3>1. Phases'
      BY <2>0, <2>6, LifeFacts DEF vars, Phases, NoStop, Ends, Ended
    <3> QED BY <2>0, <2>6, <3>1, AloneStep DEF vars
  <2> QED BY <2>0, <2>1, <2>2, <2>3, <2>4, <2>5, <2>6 DEF Next
<1> QED BY <1>1, <1>2 DEF LifeInv

LEMMA LifeSafe ==
  ASSUME LifeInv
  PROVE  FreedOnce /\ NothingIsLeft
<1>0. SUFFICES ASSUME OwnedOnce PROVE FreedOnce /\ NothingIsLeft
  BY DEF LifeInv, FreedOnce, NothingIsLeft
<1>1. FreedOnce
  BY <1>0, LifeFacts DEF FreedOnce
<1>2. ASSUME server = "none"
      PROVE  heap.live = heap.user /\ timers = unstarted /\ ~task /\ ~handlers /\ ~pcbs
  <2>1. queue = <<>> /\ lists = NoLists /\ timers = unstarted /\ ~task /\ ~handlers /\ ~pcbs
    BY <1>2, <1>0, LifeFacts DEF Phases
  <2>2. Owned(<<>>, <<>>, {}, {}, 0, heap)
    BY <2>1, <1>0, LifeFacts, NoListsIs DEF OwnedBy
  <2>3. OneOwner(InQueue(<<>>), Objects(<<>>), {}, {}, {0} \ {0}, heap.user, heap.live)
    BY <2>2, OwnedFacts
  <2>4. InQueue(<<>>) = {} /\ Objects(<<>>) = {}
    BY DEF InQueue, Objects
  <2>5. heap.live = heap.user
    BY <2>3, <2>4 DEF OneOwner
  <2> QED BY <2>1, <2>5
<1> QED BY <1>1, <1>2 DEF NothingIsLeft

\* mdns_free: whatever the queue holds when it is called and whatever arrives
\* behind its last action, each object is freed once, none is used after that,
\* and none is left but those of the caller; unless the timer's callback was under
\* way, or the queue full and one of its actions named what a list holds, or the task
\* in the middle of one.
THEOREM LifeTheorem == Spec => [](FreedOnce /\ NothingIsLeft)
<1>1. Init => LifeInv
  BY InitLife
<1>2. LifeInv /\ [Next]_vars => LifeInv'
  BY NextLife
<1>3. LifeInv => FreedOnce /\ NothingIsLeft
  BY LifeSafe
<1> QED BY <1>1, <1>2, <1>3, PTL DEF Spec

=============================================================================
