----------------------------- MODULE DiagEncode -----------------------------
(***************************************************************************)
(* The way of a diagnostic record to the cloud: the log hook collects log  *)
(* messages with their arguments, metrics and variables are data points,   *)
(* and esp_insights_encoder.c with esp_insights_cbor_encoder.c turns what  *)
(* is read from the two stores into messages.                              *)
(*                                                                         *)
(* A read yields bytes: whole records and perhaps the beginning of one     *)
(* more.  Records carry the index of the boot they were written in (their  *)
(* meta record).  The stores themselves are the matter of RtcStore, the    *)
(* acknowledgements of Insights: here a message is delivered or not.       *)
(***************************************************************************)
EXTENDS Integers, Sequences, FiniteSets, SequencesExt

CONSTANTS
    Formats,     \* formats of messages, sequences of directives
    ArgMax,      \* CONFIG_DIAG_LOG_MSG_ARG_MAX_SIZE
    Ways,        \* how messages are logged: "write" (esp_log_write), "writev"
    Tags,        \* their tags, among them "wifi"
    Points,      \* data points that are written: [pt, str, rom]
    LogSize, HeaderSize, PointSize, StrSize,    \* sizes of the structures
    ReadSize,    \* INSIGHTS_READ_BUF_SIZE
    Images,      \* core dumps found at boot: "none", "valid", "corrupt"
    NoMem,       \* allocations may fail
    MaxRecords, MaxBoots, MaxMessages

EncodeAssumption ==
    /\ {ArgMax, LogSize, HeaderSize, PointSize, StrSize, ReadSize, MaxRecords, MaxBoots, MaxMessages}
         \subseteq Nat \ {0}
    /\ ReadSize > 1 + LogSize /\ ReadSize > 1 + HeaderSize + StrSize /\ PointSize < StrSize
    /\ Ways \subseteq {"write", "writev"} /\ Images \subseteq {"none", "valid", "corrupt"}

VARIABLES
    enabled,       \* enabled_log_type
    critical,      \* the logs in the store
    noncritical,   \* the data points in the store
    meta,          \* index of this boot
    image, booted, \* the core dump; this boot's data has been delivered
    cloud,         \* the messages delivered
    last,          \* records written so far, their number is their identity
    due,           \* those that had to be recorded, with their boot
    gone           \* data points of messages that failed

vars == <<enabled, critical, noncritical, meta, image, booted, cloud, last, due, gone>>

Types == {"ERROR", "WARNING", "EVENT"}
Modifiers == {"none", "hh", "h", "l", "ll", "j", "t", "z", "L"}

(***************************************************************************)
(* get_tlv_from_ap.  A directive [conv, mod, n] is a conversion with its   *)
(* modifier; n is the length of the string or the value of the character   *)
(* that is passed.  Flags, width and precision are skipped; a width of "*" *)
(* is a directive of its own, for the code takes it for one.               *)
(***************************************************************************)

\* What the caller passes, by place in the format.
Passed(fmt) ==
    FlattenSeq([k \in DOMAIN fmt |->
        CASE fmt[k].conv = "%" -> <<>>
          [] fmt[k].conv = "*" -> <<[at |-> 0, n |-> 0], [at |-> k, n |-> fmt[k].n]>>
          [] OTHER -> <<[at |-> k, n |-> fmt[k].n]>>])

\* The type and the size that are taken for d and i, by modifier; for L none is.
SignedArg ==
    [none |-> <<"INT", 4>>, z |-> <<"INT", 4>>, hh |-> <<"CHAR", 1>>, h |-> <<"SHORT", 2>>,
     l |-> <<"L", 4>>, ll |-> <<"LL", 8>>, j |-> <<"INTMAX", 8>>, t |-> <<"PTRDIFF", 4>>,
     L |-> <<"none", 0>>]
\* For o, u, x, X and p.
UnsignedArg ==
    [none |-> <<"UINT", 4>>, t |-> <<"UINT", 4>>, hh |-> <<"UCHAR", 1>>, h |-> <<"USHORT", 2>>,
     l |-> <<"UL", 4>>, ll |-> <<"ULL", 8>>, j |-> <<"UINTMAX", 8>>, z |-> <<"SIZE", 4>>,
     L |-> <<"none", 0>>]
\* For a, e, f and g.
DoubleArg ==
    [m \in Modifiers |-> CASE m \in {"none", "l"} -> <<"DOUBLE", 8>>
                           [] m = "L" -> <<"LDOUBLE", 16>>
                           [] OTHER -> <<"none", 0>>]

\* "skip": an int is taken and not kept, as for %n, %% and anything unknown.
ArgOf(d, arg) ==
    CASE d.conv = "d" -> SignedArg[d.mod]
      [] d.conv = "D" -> <<"L", 4>>
      [] d.conv = "U" -> <<"ULL", 4>>
      [] d.conv = "u" -> UnsignedArg[d.mod]
      [] d.conv = "f" -> DoubleArg[d.mod]
      [] d.conv = "c" -> <<"CHAR", 1>>
      [] d.conv = "s" -> <<"STR", arg.n % 256>>
      [] OTHER -> <<"skip", 0>>

\* append_arg
AppendArg(s, type, len, arg) ==
    IF s.size + 2 + len > ArgMax THEN [s EXCEPT !.err = TRUE]
    ELSE [s EXCEPT !.size = @ + 2 + len,
                   !.out = Append(@, [type |-> type, len |-> len, arg |-> arg])]

\* One conversion; an argument that was not passed is anything.
TakeArg(s, d) ==
    LET arg == IF s.ap = <<>> THEN [at |-> 0, n |-> 0] ELSE Head(s.ap)
        rest == IF s.ap = <<>> THEN <<>> ELSE Tail(s.ap)
        a == ArgOf(d, arg)
    IN IF s.err \/ a[1] = "none" THEN s
       ELSE IF a[1] = "skip" THEN [s EXCEPT !.ap = rest]
       ELSE AppendArg([s EXCEPT !.ap = rest], a[1], a[2], arg)

GetTlv(fmt) ==
    FoldLeft(TakeArg, [ap |-> Passed(fmt), out |-> <<>>, size |-> 0, err |-> FALSE], fmt).out

(***************************************************************************)
(* The log hook.                                                           *)
(***************************************************************************)

\* diag_log_add, with IS_LOG_TYPE_ENABLED
LogAdd(type, fmt) ==
    IF type \notin enabled THEN <<>>
    ELSE <<[id |-> last + 1, meta |-> meta, type |-> type, fmt |-> fmt, args |-> GetTlv(fmt)]>>

\* esp_diag_log: errors and warnings, whatever the level of the tag is.
DiagLog(level, fmt) ==
    CASE level = "E" -> LogAdd("ERROR", fmt)
      [] level = "W" -> LogAdd("WARNING", fmt)
      [] OTHER -> <<>>

DiagLogWritev(level, tag, fmt) == IF tag = "wifi" THEN DiagLog(level, fmt) ELSE <<>>
DiagLogWrite(level, tag, fmt) == IF tag # "wifi" THEN DiagLog(level, fmt) ELSE <<>>

\* __wrap_esp_log_writev and __wrap_esp_log_write, which calls the former.
WrapWritev(level, tag, fmt) == DiagLogWrite(level, tag, fmt)
WrapWrite(level, tag, fmt) == DiagLogWritev(level, tag, fmt) \o WrapWritev(level, tag, fmt)

Log(way, level, tag, fmt) ==
    /\ last < MaxRecords /\ last' = last + 1
    /\ critical' = critical \o (IF way = "write" THEN WrapWrite(level, tag, fmt)
                                                 ELSE WrapWritev(level, tag, fmt))
    /\ due' = IF \/ level = "E" /\ "ERROR" \in enabled
                 \/ level = "W" /\ "WARNING" \in enabled THEN due \cup {<<last', meta>>} ELSE due
    /\ UNCHANGED <<enabled, noncritical, meta, image, booted, cloud, gone>>

\* esp_diag_log_event
LogEvent(fmt) ==
    /\ last < MaxRecords /\ last' = last + 1
    /\ critical' = critical \o LogAdd("EVENT", fmt)
    /\ due' = IF "EVENT" \in enabled THEN due \cup {<<last', meta>>} ELSE due
    /\ UNCHANGED <<enabled, noncritical, meta, image, booted, cloud, gone>>

\* esp_diag_log_hook_enable and _disable
Hook(types) ==
    /\ enabled' = types /\ enabled' # enabled
    /\ UNCHANGED <<critical, noncritical, meta, image, booted, cloud, last, due, gone>>

\* esp_diag_metrics_add and esp_diag_variable_add, with the header the store
\* puts before: a string has a longer structure.
AddPoint(p) ==
    /\ last < MaxRecords /\ last' = last + 1
    /\ noncritical' = Append(noncritical,
           [id |-> last', meta |-> meta, pt |-> p.pt, str |-> p.str, rom |-> p.rom,
            len |-> IF p.str THEN StrSize ELSE PointSize])
    /\ due' = due \cup {<<last', meta>>}
    /\ UNCHANGED <<enabled, critical, meta, image, booted, cloud, gone>>

\* The memory of the stores survives a reset; a crash leaves a core dump.
Reboot(i) ==
    /\ meta < MaxBoots /\ meta' = meta + 1 /\ booted' = FALSE
    /\ image' = IF i = "none" THEN image ELSE i
    /\ UNCHANGED <<enabled, critical, noncritical, cloud, last, due, gone>>

(***************************************************************************)
(* Encoding.                                                               *)
(***************************************************************************)

\* encode_msg_args, and what a receiver makes of it: characters are sent as
\* simple values, and of those 20 to 23 mean something else, and 25 to 31 do
\* not exist.
Item(t) ==
    CASE t.type \in {"CHAR", "UCHAR"} ->
            IF t.arg.n \in 25..31 THEN <<>>
            ELSE <<[kind |-> IF t.arg.n \in 20..23 THEN "special" ELSE "char", at |-> t.arg.at, n |-> t.arg.n]>>
      [] t.type \in {"SHORT", "INT", "L", "LL", "INTMAX", "PTRDIFF"} ->
            <<[kind |-> "int", at |-> t.arg.at, n |-> 0]>>
      [] t.type \in {"USHORT", "UINT", "UL", "ULL", "UINTMAX", "SIZE"} ->
            <<[kind |-> "uint", at |-> t.arg.at, n |-> 0]>>
      [] t.type \in {"DOUBLE", "LDOUBLE"} -> <<[kind |-> "double", at |-> t.arg.at, n |-> 0]>>
      [] OTHER -> <<[kind |-> "text", at |-> t.arg.at, n |-> t.len]>>

EncodeMsgArgs(args) == FlattenSeq([k \in DOMAIN args |-> Item(args[k])])

\* encode_log_element
LogElement(r) == [id |-> r.id, fmt |-> r.fmt, av |-> EncodeMsgArgs(r.args)]

\* The bytes of the first k records.
Bytes(sizes, k) == FoldLeft(LAMBDA a, b : a + b, 0, SubSeq(sizes, 1, k))
Least(a, b) == IF a < b THEN a ELSE b

\* encode_log_list: how far it gets; only records of the first one's boot.
LogsRead(size) ==
    LET whole == size \div (1 + LogSize)
        same(k) == \A j \in 1..k : critical[j].meta = critical[1].meta
    IN CHOOSE k \in 0..whole : same(k) /\ (k = whole \/ ~same(k + 1))

LogList(type, n) ==
    LET of == SelectSeq(SubSeq(critical, 1, n), LAMBDA r : r.type = type)
    IN [k \in DOMAIN of |-> LogElement(of[k])]

\* esp_insights_cbor_encode_diag_logs
DiagLogs(n) ==
    [errors |-> LogList("ERROR", n), warnings |-> LogList("WARNING", n), events |-> LogList("EVENT", n)]

PointSizes == [k \in DOMAIN noncritical |-> 1 + HeaderSize + noncritical[k].len]

\* encode_data_points: it stops at another boot, at a record that was not read
\* to its end, and at one whose group is not a string in the flash.
PointsRead(size) ==
    LET ok(k) == /\ noncritical[k].meta = noncritical[1].meta
                 /\ Bytes(PointSizes, k) <= size /\ noncritical[k].rom
    IN CHOOSE n \in 0..Len(noncritical) :
           /\ \A k \in 1..n : ok(k)
           /\ n = Len(noncritical) \/ ~ok(n + 1)

\* encode_str_data_pt and encode_data_pt, told apart by type and by length.
Encodes(r) == (r.str /\ r.len = StrSize) \/ r.len = PointSize
PointList(pt, n) ==
    LET of == SelectSeq(SubSeq(noncritical, 1, n), LAMBDA r : r.pt = pt /\ Encodes(r))
    IN [k \in DOMAIN of |-> of[k].id]

\* esp_insights_encode_critical_data and _non_critical_data: the boot of the
\* records goes with them; with nothing consumed there is none.
Traces(n) == [logs |-> DiagLogs(n), boot |-> IF n = 0 THEN 0 ELSE critical[1].meta]
DataPoints(n) ==
    [metrics |-> PointList("metrics", n), params |-> PointList("params", n),
     boot |-> IF n = 0 THEN 0 ELSE noncritical[1].meta]

LogBytes == (1 + LogSize) * Len(critical)
PointBytes == Bytes(PointSizes, Len(noncritical))

\* send_insights_data: data points are released before the message is sent,
\* logs after.
SendData(delivered) ==
    LET c == IF critical = <<>> THEN 0 ELSE LogsRead(Least(ReadSize, LogBytes))
        n == IF noncritical = <<>> THEN 0 ELSE PointsRead(Least(ReadSize, PointBytes))
        msg == [type |-> "data", boot |-> meta, traces |-> Traces(c), points |-> DataPoints(n)]
    IN /\ Len(cloud) < MaxMessages
       /\ c > 0 \/ n > 0
       /\ noncritical' = SubSeq(noncritical, n + 1, Len(noncritical))
       /\ IF delivered
            THEN /\ cloud' = Append(cloud, msg)
                 /\ critical' = SubSeq(critical, c + 1, Len(critical)) /\ UNCHANGED gone
            ELSE /\ gone' = gone \cup {noncritical[k].id : k \in 1..n}
                 /\ UNCHANGED <<critical, cloud>>
       /\ UNCHANGED <<enabled, meta, image, booted, last, due>>

\* esp_insights_cbor_encode_diag_crash: the summary of a core dump that is
\* whole, if there is memory for it.
DiagCrash(memory) == image = "valid" /\ memory
\* esp_insights_encode_boottime_data
BootData(memory) == [type |-> "boot", boot |-> meta, crash |-> DiagCrash(memory)]

\* send_boottime_data, which erases the core dump once it is delivered.
SendBoot(delivered, memory) ==
    /\ ~booted /\ Len(cloud) < MaxMessages
    /\ memory \/ NoMem
    /\ IF delivered THEN booted' = TRUE /\ image' = "none" /\ cloud' = Append(cloud, BootData(memory))
       ELSE UNCHANGED <<booted, image, cloud>>
    /\ UNCHANGED <<enabled, critical, noncritical, meta, last, due, gone>>

Init ==
    /\ enabled \in {{"ERROR", "WARNING", "EVENT"}, {"ERROR"}}
    /\ critical = <<>> /\ noncritical = <<>> /\ meta = 1 /\ image \in Images /\ booted = FALSE
    /\ cloud = <<>> /\ last = 0 /\ due = {} /\ gone = {}

Next ==
    \/ \E way \in Ways, level \in {"E", "W", "I"}, tag \in Tags, fmt \in Formats :
         Log(way, level, tag, fmt)
    \/ \E fmt \in Formats : LogEvent(fmt)
    \/ \E types \in {{}, Types} : Hook(types)
    \/ \E p \in Points : AddPoint(p)
    \/ \E i \in Images : Reboot(i)
    \/ \E delivered \in BOOLEAN : SendData(delivered)
    \/ \E delivered, memory \in BOOLEAN : SendBoot(delivered, memory)

Spec == Init /\ [][Next]_vars

(***************************************************************************)
(* Properties                                                              *)
(***************************************************************************)

Ids(s) == [k \in DOMAIN s |-> s[k].id]
DataMessages == SelectSeq(cloud, LAMBDA m : m.type = "data")
LogsOf(m) == Ids(m.traces.logs.errors) \o Ids(m.traces.logs.warnings) \o Ids(m.traces.logs.events)
PointsOf(m) == m.points.metrics \o m.points.params
Arrived == FlattenSeq([k \in DOMAIN DataMessages |-> LogsOf(DataMessages[k]) \o PointsOf(DataMessages[k])])
Stored == Ids(critical) \o Ids(noncritical)

\* log_hook.c, encode_log_list and encode_data_points: everything that was to
\* be recorded is in a store or in one of the messages, once, in whichever
\* list, unless it was a data point of a message that failed.  Not so for
\* messages of the Wi-Fi library by way of esp_log_writev ("writev").
EachOnce ==
    /\ ToSet(Stored \o Arrived) \cup gone = {d[1] : d \in due}
    /\ Cardinality(ToSet(Stored \o Arrived)) = Len(Stored \o Arrived)
    /\ ToSet(Stored \o Arrived) \cap gone = {}

\* Every record that arrived is under the boot that wrote it, records of two
\* boots never share a list, and each list has its records in their order.
UnderTheirBoot ==
    \A k \in DOMAIN DataMessages :
        LET m == DataMessages[k]
            ordered(l) == \A i, j \in DOMAIN l : i < j => l[i] < l[j]
        IN /\ \A i \in ToSet(LogsOf(m)) : <<i, m.traces.boot>> \in due
           /\ \A i \in ToSet(PointsOf(m)) : <<i, m.points.boot>> \in due
           /\ \A l \in {Ids(m.traces.logs.errors), Ids(m.traces.logs.warnings), Ids(m.traces.logs.events),
                        m.points.metrics, m.points.params} : ordered(l)

\* What a receiver expects for a format.
Kind(d) ==
    CASE d.conv \in {"d", "D"} -> IF d.mod = "hh" THEN "char" ELSE "int"
      [] d.conv \in {"u", "U"} -> IF d.mod = "hh" THEN "char" ELSE "uint"
      [] d.conv = "f" -> "double"
      [] d.conv = "c" -> "char"
      [] OTHER -> "text"
Wanted(fmt) ==
    FlattenSeq([k \in DOMAIN fmt |->
        IF fmt[k].conv \in {"n", "%"} THEN <<>>
        ELSE <<[kind |-> Kind(fmt[k]), at |-> k,
                n |-> IF Kind(fmt[k]) \in {"char", "text"} THEN fmt[k].n ELSE 0]>>])

\* get_tlv_from_ap and encode_msg_args: the arguments that arrive are those of
\* the format, in its order and of its types, from the first one on.  Not so
\* after "%%", which takes an argument, and "*", for characters from 20 to 31
\* and for strings of 256 or more.
ArgumentsArrive ==
    \A k \in DOMAIN DataMessages :
        LET logs == DataMessages[k].traces.logs IN
        \A e \in ToSet(logs.errors \o logs.warnings \o logs.events) : IsPrefix(e.av, Wanted(e.fmt))

\* As long as there is something in the stores, there is something to send,
\* whatever the size of the records and the boots they are of.  Not so when the
\* group of a data point is not in the flash: it stays, and what is behind it.
StoreMoves ==
    noncritical # <<>> => PointsRead(Least(ReadSize, PointBytes)) > 0

\* A whole core dump is erased only after its summary has arrived; not so when
\* there was no memory for it.
SummaryArrives ==
    [][image = "valid" /\ image' = "none" => cloud'[Len(cloud')].crash]_vars

=============================================================================
