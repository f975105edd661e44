----------------------------- MODULE MdnsPacket -----------------------------
(***************************************************************************)
(* How mdns.c writes a packet: _mdns_dispatch_tx_packet walks the          *)
(* questions and the three lists of answers of a scheduled packet and      *)
(* appends them to one static buffer, compressing each name against every  *)
(* name that is already there.  The buffer is not cleared between packets, *)
(* and an append that does not fit gives up where it stands.               *)
(*                                                                         *)
(* A byte is a pair: <<"len", n>> a label's length (0 ends a name),        *)
(* <<"chr", l>> a character of label l, <<"ref", p>> the first byte of a   *)
(* compression pointer, <<"rdlen", n>> the first byte of a data length,    *)
(* <<"type", t>> a record type, and <<"x", 0>> a byte nobody interprets.   *)
(* Names are sequences of labels.                                          *)
(***************************************************************************)
EXTENDS Integers, Sequences, FiniteSets, SequencesExt

CONSTANTS
    MaxPacket,    \* MDNS_MAX_PACKET_SIZE
    Inst,         \* instance name of the service
    Host,         \* host name of the device
    Subtype,      \* subtype label of the service
    LongLabel,    \* the one label that is longer than a character
    LongLen,      \* its length
    Txts,         \* how many TXT items the service has
    TxtLen,       \* length of a TXT item
    Ip6Count,     \* addresses esp_netif_get_all_ip6 returns
    Dup,          \* the other interface is on the same subnet
    Items,        \* kinds of questions and answers in a packet
    MaxItems,     \* bound on the items of a packet
    MaxPackets    \* bound on the packets sent

VARIABLES
    buf,          \* the bytes of the static buffer behind the header that were
                  \* ever written; the others are still zero
    index,        \* where the next byte goes
    section,      \* "questions", "answers" or "sent"
    log,          \* what the counts in the header stand for, in order
    whole,        \* history: all of this packet found room
    items,        \* items taken from the lists of this packet
    packets       \* packets begun

vars == <<buf, index, section, log, whole, items, packets>>

MDNS_HEAD_LEN == 12
Zero == <<"len", 0>>
Opaque == <<"x", 0>>

LabelLen(l) == IF l = LongLabel THEN LongLen ELSE 1
StartsWithUnderscore == {"_svc", "_tcp", "_udp", "_services", "_dns_sd", "_sub"}

ServiceName == <<"_svc", "_tcp", "local">>
InstanceName == <<Inst>> \o ServiceName
SubtypeName == <<Subtype, "_sub">> \o ServiceName
SdName == <<"_services", "_dns_sd", "_udp", "local">>
HostName == <<Host, "local">>

\* The byte at offset p of a packet.
At(b, p) == IF p - MDNS_HEAD_LEN < Len(b) THEN b[p - MDNS_HEAD_LEN + 1] ELSE Zero

(***************************************************************************)
(* Reading a name.                                                         *)
(***************************************************************************)

NoName == [parts |-> <<>>, sub |-> FALSE, invalid |-> FALSE]
Unreadable == [ok |-> FALSE, name |-> NoName, next |-> 0]

\* The label l, added to what was read of a name so far.
AddLabel(nm, l) ==
    LET n == [nm EXCEPT !.invalid = @ \/ Len(nm.parts) = 4] IN
    IF Len(n.parts) = 1 /\ l \notin StartsWithUnderscore \cup {"local"}
      THEN [n EXCEPT !.parts[1] = Append(@, l)]
      ELSE IF l = "_sub" THEN [n EXCEPT !.sub = TRUE]
      ELSE IF n.invalid THEN n
      ELSE [n EXCEPT !.parts = Append(@, <<l>>)]

\* The label whose length byte is at p, as a set: empty when the bytes there
\* are not one label of that length.
LabelAt(b, p) ==
    LET n == At(b, p)[2] IN
    IF p + n >= MaxPacket \/ At(b, p + 1)[1] # "chr" THEN {}
    ELSE {l \in {At(b, p + 1)[2]} :
            LabelLen(l) = n /\ \A k \in 1..n : At(b, p + k) = <<"chr", l>>}

RefAllowed(address, start) == address < start

RECURSIVE ReadFqdn(_, _, _, _)
ReadFqdn(b, start, p, nm) ==
    LET byte == At(b, p) IN
    IF p >= MaxPacket \/ byte = Zero
      THEN [ok |-> TRUE, name |-> nm, next |-> p + 1]
      ELSE IF byte[1] = "len" /\ LabelAt(b, p) # {}
        THEN ReadFqdn(b, start, p + 1 + byte[2],
                      AddLabel(nm, CHOOSE l \in LabelAt(b, p) : TRUE))
      ELSE IF byte[1] = "ref" /\ RefAllowed(byte[2], start)
        THEN [ReadFqdn(b, byte[2], byte[2], nm) EXCEPT !.next = p + 2]
      ELSE Unreadable

\* The name a receiver makes of the bytes at p: _mdns_parse_fqdn moves the
\* parts of a short name to the fields they belong to.
FieldsOf(s) ==
    CASE Len(s) = 3 -> <<<<>>, s[1], s[2], s[3]>>
      [] Len(s) = 2 -> <<s[1], <<>>, <<>>, s[2]>>
      [] OTHER -> s
NameOf(r) ==
    [ok   |-> r.ok /\ ~r.name.invalid /\ r.name.parts # <<>> /\ Last(r.name.parts) = <<"local">>,
     name |-> FieldsOf(r.name.parts), sub |-> r.name.sub, next |-> r.next]
ParseFqdn(b, p) == NameOf(ReadFqdn(b, p, p, NoName))

(***************************************************************************)
(* Writing.  A writer is [b, i, ret]: the buffer, the index, and what the  *)
(* last append returned.                                                   *)
(***************************************************************************)

Put(w, bytes) ==
    LET from == w.i - MDNS_HEAD_LEN
    IN [b |-> SubSeq(w.b, 1, from) \o bytes
                \o SubSeq(w.b, from + Len(bytes) + 1, Len(w.b)),
        i |-> w.i + Len(bytes), ret |-> Len(bytes)]

Fail(w) == [w EXCEPT !.ret = 0]
Repeat(x, n) == [k \in 1..n |-> x]

\* The bounds checks: room for n more bytes (_mdns_append_u8, _u16 and _u32,
\* and the address of an A record), and for the bytes and one to spare
\* (_mdns_append_type, the strings and the TXT items).
Fits(w, n) == w.i + n - 1 < MaxPacket

FitsWithSpare(w, n) == w.i + n < MaxPacket

AppendBytes(w, bytes) == IF Fits(w, Len(bytes)) THEN Put(w, bytes) ELSE Fail(w)

AppendString(w, l) ==
    IF FitsWithSpare(w, LabelLen(l) + 1)
      THEN Put(w, <<<<"len", LabelLen(l)>>>> \o Repeat(<<"chr", l>>, LabelLen(l)))
      ELSE Fail(w)

\* Mutant of SameName: the first labels are enough.
SameFirst(s, nm) == nm.parts # <<>> /\ nm.parts[1] = <<s[1]>>

SameName(s, nm) ==
    Len(nm.parts) = Len(s) /\ \A k \in 1..Len(s) : nm.parts[k] = <<s[k]>>

ReadAs(r, s) == r.ok /\ SameName(s, r.name)

\* Where the name s is already in the packet.  The search stops at the index,
\* but what it compares may run on into bytes of an earlier packet.
Occurrences(w, s) ==
    {p \in MDNS_HEAD_LEN..(w.i - 1) :
        /\ At(w.b, p) = <<"len", LabelLen(s[1])>>
        /\ LabelAt(w.b, p) = {s[1]}
        /\ ReadAs(ReadFqdn(w.b, p, p, NoName), s)}

\* _mdns_append_fqdn: a pointer to the name, if it was found, or its first
\* label and the rest.
RECURSIVE AppendFqdn(_, _), AppendRest(_, _)
AppendName(w, s, found) ==
    IF found # {} THEN AppendBytes(w, <<<<"ref", Min(found)>>, Opaque>>)
    ELSE AppendRest(AppendString(w, Head(s)), Tail(s))
AppendFqdn(w, s) ==
    IF s = <<>> THEN AppendBytes(w, <<Zero>>) ELSE AppendName(w, s, Occurrences(w, s))
Plus(w, n) == [w EXCEPT !.ret = n + @]
AppendRest(w, s) == IF w.ret = 0 THEN w ELSE Plus(AppendFqdn(w, s), w.ret)

AppendType(w, t) ==
    IF FitsWithSpare(w, 10)
      THEN Put(w, <<Zero, <<"type", t>>>> \o Repeat(Opaque, 6)
                    \o <<<<"rdlen", 0>>, Opaque>>)
      ELSE Fail(w)

\* The data of a record: names, the six numbers before an SRV's target, an
\* address, or the items of a TXT record.
AppendItem(w) ==
    IF w.ret = 0 \/ ~FitsWithSpare(w, TxtLen + 1) THEN Fail(w)
    ELSE Put(w, <<<<"len", TxtLen>>>> \o Repeat(Opaque, TxtLen))
Since(w, from) == [w EXCEPT !.ret = IF @ = 0 THEN 0 ELSE w.i - from]
AppendTxt(w) ==
    Since(IF Txts = 0 THEN Put(w, <<Zero>>)
          ELSE IF Txts = 1 THEN AppendItem(w) ELSE AppendItem(AppendItem(w)), w.i)

AppendU16(w) == AppendBytes(w, <<Opaque, Opaque>>)
AppendTarget(w, from, target) ==
    IF w.i - from # 6 THEN Fail(w) ELSE Since(AppendFqdn(w, target), from)
AppendNumbers(w, target) == AppendTarget(AppendU16(AppendU16(AppendU16(w))), w.i, target)

AppendData(w, t, target) ==
    CASE t = "TXT" -> AppendTxt(w)
      [] t = "SRV" -> AppendNumbers(w, target)
      [] t = "A" -> AppendBytes(w, Repeat(Opaque, 4))
      [] t = "AAAA" -> AppendBytes(w, Repeat(Opaque, 16))
      [] OTHER -> AppendFqdn(w, target)

SetLength(w, at, t, n) == [w EXCEPT !.b[at - MDNS_HEAD_LEN + 1] = <<"rdlen", n>>]

\* One record: its name, its type and its data, and then the data's length.
\* Only the DNS-SD record does not look whether its name was written.
Filled(d, at, t, named) ==
    IF d.ret = 0 THEN d ELSE Plus(SetLength(d, at, t, d.ret), named + 10)
Typed(y, t, target, named) ==
    IF y.ret = 0 THEN y ELSE Filled(AppendData(y, t, target), y.i - 2, t, named)
Named(n, t, target) ==
    IF n.ret = 0 /\ t # "SDPTR" THEN n
    ELSE Typed(AppendType(n, IF t = "SDPTR" THEN "PTR" ELSE t), t, target, n.ret)
AppendRecord(w, t, owner, target) == Named(AppendFqdn(w, owner), t, target)

(***************************************************************************)
(* The answers.  An answer is the sequence of records it may add; it stops *)
(* at the first that fails, or goes on with the next subtype.              *)
(***************************************************************************)

Rec(t, owner, target) == [type |-> t, owner |-> owner, target |-> target]

RecordsOf(a) ==
    CASE a = "ptr"   -> <<Rec("PTR", ServiceName, InstanceName),
                          Rec("PTR", SubtypeName, InstanceName)>>
      [] a = "sdptr" -> <<Rec("SDPTR", SdName, ServiceName)>>
      [] a = "srv"   -> <<Rec("SRV", InstanceName, HostName)>>
      [] a = "txt"   -> <<Rec("TXT", InstanceName, <<>>)>>
      [] a = "a"     -> Repeat(Rec("A", HostName, <<>>), IF Dup THEN 2 ELSE 1)
      [] a = "aaaa"  -> Repeat(Rec("AAAA", HostName, <<>>), IF Dup THEN Ip6Count + 1 ELSE Ip6Count)

\* How many records an answer counts when k of its n are in the packet: an
\* address of the interface itself that does not fit gives 0, whatever is in
\* the packet already; the address of the duplicate may be missing.
Counted(a, k, n) ==
    IF a = "aaaa" /\ k < Ip6Count THEN 0 ELSE k

RECURSIVE AppendRecords(_, _, _), NextRecord(_, _, _)
NextRecord(w, rs, k) ==
    IF w.ret = 0 THEN [w |-> w, done |-> k - 1] ELSE AppendRecords(w, rs, k + 1)
AppendRecords(w, rs, k) ==
    IF k > Len(rs) THEN [w |-> w, done |-> k - 1]
    ELSE NextRecord(AppendRecord(w, rs[k].type, rs[k].owner, rs[k].target), rs, k)

QuestionName(q) ==
    CASE q = "q_service" -> ServiceName [] q = "q_any" -> InstanceName
      [] q = "q_host" -> HostName
Questions == {"q_service", "q_any", "q_host"}

(***************************************************************************)
(* Dispatching a packet.                                                   *)
(***************************************************************************)

Writer == [b |-> buf, i |-> index, ret |-> 0]

\* A question is counted when its name was written; its type and class are
\* not looked at.
Asked(n, q) ==
    LET w == IF n.ret = 0 THEN n ELSE AppendU16(AppendBytes(n, <<Zero, <<"type", "Q">>>>))
    IN /\ buf' = w.b /\ index' = w.i
       /\ log' = IF n.ret = 0 THEN log ELSE Append(log, Rec("Q", QuestionName(q), <<>>))
       /\ whole' = (whole /\ w.ret # 0)

AppendQuestion(q) ==
    /\ section = "questions" /\ items < MaxItems
    /\ Asked(AppendFqdn(Writer, QuestionName(q)), q)
    /\ items' = items + 1
    /\ UNCHANGED <<section, packets>>

Answered(r, a) ==
    /\ buf' = r.w.b /\ index' = r.w.i
    /\ log' = log \o SubSeq(RecordsOf(a), 1, Counted(a, r.done, Len(RecordsOf(a))))
    /\ whole' = (whole /\ r.done = Len(RecordsOf(a)))

\* _mdns_append_answer, whatever list it is on.
AppendAnswer(a) ==
    /\ section \in {"questions", "answers"} /\ items < MaxItems
    /\ section' = "answers"
    /\ Answered(AppendRecords(Writer, RecordsOf(a), 1), a)
    /\ items' = items + 1
    /\ UNCHANGED packets

\* An answer that is left out: its host is no longer delegated, or the
\* interface has no address of that kind.
SkipAnswer ==
    /\ section \in {"questions", "answers"} /\ items < MaxItems
    /\ section' = "answers" /\ items' = items + 1
    /\ UNCHANGED <<buf, index, log, whole, packets>>

Send ==
    /\ section \in {"questions", "answers"} /\ items > 0
    /\ section' = "sent"
    /\ UNCHANGED <<buf, index, log, whole, items, packets>>

\* The next packet starts behind the header; the bytes of the last one stay.
Dispatch ==
    /\ section = "sent" /\ packets < MaxPackets
    /\ section' = "questions" /\ packets' = packets + 1
    /\ index' = MDNS_HEAD_LEN /\ log' = <<>> /\ items' = 0 /\ whole' = TRUE
    /\ UNCHANGED buf

Init ==
    /\ buf = <<>> /\ index = MDNS_HEAD_LEN /\ section = "questions" /\ log = <<>>
    /\ items = 0 /\ packets = 1 /\ whole = TRUE

Next ==
    \/ \E q \in Items \cap Questions : AppendQuestion(q)
    \/ \E a \in Items \ Questions : AppendAnswer(a)
    \/ SkipAnswer
    \/ Send
    \/ Dispatch

Spec == Init /\ [][Next]_vars

(***************************************************************************)
(* Properties                                                              *)
(***************************************************************************)

\* No append writes behind the end of the buffer, also where it does not
\* check: the single zero byte of an empty TXT record goes in unchecked
\* because _mdns_append_type left one byte to spare.
NeverPastEnd == index <= MaxPacket /\ Len(buf) <= MaxPacket - MDNS_HEAD_LEN

\* What _mdns_parse_fqdn makes of the name s when it was written in full.
Parsed(s) ==
    LET t == SelectSeq(s, LAMBDA l : l # "_sub")
        f == [k \in DOMAIN t |-> <<t[k]>>]
    IN CASE Len(t) = 3 -> <<<<>>>> \o f
         [] Len(t) = 2 -> <<f[1], <<>>, <<>>, f[2]>>
         [] OTHER -> f

\* The bytes at p are the name s, and end where the next field starts.
NameAt(p, s) ==
    LET r == ParseFqdn(buf, p)
    IN r.ok /\ r.name = Parsed(s) /\ r.sub = (\E k \in DOMAIN s : s[k] = "_sub")

RECURSIVE ParsesFrom(_, _)
ParsesFrom(k, p) ==
    IF k > Len(log) THEN p = index
    ELSE LET r == log[k]
             t == ParseFqdn(buf, p).next
             skip == IF r.type = "SRV" THEN 6 ELSE 0
             n == At(buf, t + 8)[2]
         IN /\ NameAt(p, r.owner)
            /\ t + 3 < index /\ At(buf, t) = Zero
            /\ At(buf, t + 1) = <<"type", IF r.type = "SDPTR" THEN "PTR" ELSE r.type>>
            /\ IF r.type = "Q" THEN ParsesFrom(k + 1, t + 4)
               ELSE /\ t + 10 + n <= index /\ At(buf, t + 8) = <<"rdlen", n>>
                    /\ r.target # <<>> =>
                         /\ NameAt(t + 10 + skip, r.target)
                         /\ ParseFqdn(buf, t + 10 + skip).next = t + 10 + n
                    /\ ParsesFrom(k + 1, t + 10 + n)

\* A receiver that follows the header's counts finds exactly the questions
\* and records that were meant, with the names they were meant to have, and
\* nothing behind them: compression never points into an unfinished name, at
\* a name of another record that only looks alike, or at bytes of an earlier
\* packet, and every data length covers the data.  Not so in a packet that was
\* full, whose last append stands half written, and for a name with the same
\* label twice in a row, whose second is taken for the first with whatever an
\* earlier packet left behind that (mdns.c:757).
SentParses == section = "sent" /\ whole => ParsesFrom(1, MDNS_HEAD_LEN)

=============================================================================
