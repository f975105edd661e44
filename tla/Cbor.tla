-------------------------------- MODULE Cbor --------------------------------
(***************************************************************************)
(* TinyCBOR: the encoder (cborencoder.c), which goes on counting after its *)
(* buffer is full, the parser (cborparser.c), the validation               *)
(* (cborvalidation.c), the walk of the pretty printer (cborpretty.c) and    *)
(* the conversion to JSON (cbortojson.c).                                  *)
(*                                                                         *)
(* A byte is a number.  The widths are scaled down: the head of an item is *)
(* 8 * major + info, where info below Value8Bit is the value itself,       *)
(* Value8Bit says that one byte follows, Value16Bit that two do, and 7     *)
(* stands for the indefinite length; a byte that follows is below Base.    *)
(* Numbers of 32 and 64 bits behave like those of 16.                      *)
(***************************************************************************)
EXTENDS Integers, Sequences

CONSTANTS
    Size,         \* of the buffer given to the encoder
    Ints,         \* integers, negative ones too
    Texts,        \* texts, sequences of bytes
    ByteStrings,  \* byte strings
    Lengths,      \* lengths of containers; Indefinite is one
    Tags,         \* tags
    MaxDepth,     \* bound on the nesting of what is encoded
    MaxItems,     \* bound on the calls of the encoder
    JsonFlags     \* sets of "metadata" (CborConvertAddMetadata),
                  \* "objects" (CborConvertTagsToObjects) and
                  \* "stringify" (CborConvertStringifyMapKeys)

VARIABLES
    encoders,     \* the encoders in use, innermost first
    buf,          \* bytes written to the buffer
    needed,       \* bytes_needed, or Fits while the buffer was large enough
    err,          \* the first error other than OutOfMemory
    wire,         \* ghost: the bytes of an encoder with a large buffer
    doc,          \* ghost: the calls made
    given         \* whether the document was given to its reader

vars == <<encoders, buf, needed, err, wire, doc, given>>

Base == 8
Value8Bit == 4
Value16Bit == 5
IndefiniteInfo == 7
Indefinite == -1
Fits == -1
BreakByte == 8 * 7 + IndefiniteInfo

UnsignedInteger == 0
NegativeInteger == 1
ByteString == 2
TextString == 3
Array == 4
Map == 5
Tag == 6
Simple == 7

(***************************************************************************)
(* The encoder.                                                            *)
(***************************************************************************)

\* encode_number_no_update: the shortest form of a number.
HeadBytes(major, n) ==
    CASE n < Value8Bit -> <<8 * major + n>>
      [] n >= Value8Bit /\ n < Base -> <<8 * major + Value8Bit, n>>
      [] OTHER -> <<8 * major + Value16Bit, n \div Base, n % Base>>

\* An item that does not fit is left out as a whole, and so is everything
\* after it; from then on the encoder counts what is missing.
AppendToBuffer(w, bytes) ==
    IF w.needed # Fits THEN [w EXCEPT !.needed = @ + Len(bytes)]
    ELSE IF Len(w.buf) + Len(bytes) > Size
      THEN [w EXCEPT !.needed = Len(bytes) - (Size - Len(w.buf))]
      ELSE [w EXCEPT !.buf = @ \o bytes]

Writer == [buf |-> buf, needed |-> needed]
Write(w) == buf' = w.buf /\ needed' = w.needed

Inner == encoders[1]
Pred(n) == IF n = 0 THEN 0 ELSE n - 1

\* saturated_decrement: everything but a tag counts towards the length.
Decremented(es, counts) ==
    IF counts THEN [es EXCEPT ![1].remaining = Pred(@)] ELSE es

\* cbor_encode_int, cbor_encode_tag, cbor_encode_text_string and
\* cbor_encode_byte_string.
\* An item of several parts is appended part by part.
Encode(event, parts, counts) ==
    /\ encoders # <<>> /\ Len(doc) < MaxItems
    /\ LET w1 == AppendToBuffer(Writer, parts[1])
           w2 == IF Len(parts) = 2 THEN AppendToBuffer(w1, parts[2]) ELSE w1
       IN Write(w2)
    /\ wire' = wire \o (IF Len(parts) = 2 THEN parts[1] \o parts[2] ELSE parts[1])
    /\ encoders' = Decremented(encoders, counts)
    /\ doc' = Append(doc, event)
    /\ UNCHANGED <<err, given>>

EncodeInt(n) ==
    Encode(<<"int", n>>,
           <<IF n < 0 THEN HeadBytes(NegativeInteger, -n - 1) ELSE HeadBytes(UnsignedInteger, n)>>, TRUE)
EncodeTag(t) == Encode(<<"tag", t>>, <<HeadBytes(Tag, t)>>, FALSE)
EncodeText(s) == Encode(<<"text", s>>, <<HeadBytes(TextString, Len(s)), s>>, TRUE)
EncodeBytes(s) == Encode(<<"bytes", s>>, <<HeadBytes(ByteString, Len(s)), s>>, TRUE)

Container(major, n) ==
    [map |-> major = Map, unknown |-> n = Indefinite,
     remaining |-> IF n = Indefinite THEN 0 ELSE IF major = Map THEN 2 * n + 1 ELSE n + 1]

CreateContainer(major, n) ==
    /\ encoders # <<>> /\ Len(encoders) <= MaxDepth /\ Len(doc) < MaxItems
    /\ LET bytes == IF n = Indefinite THEN <<8 * major + IndefiniteInfo>> ELSE HeadBytes(major, n)
       IN Write(AppendToBuffer(Writer, bytes)) /\ wire' = wire \o bytes
    /\ encoders' = <<Container(major, n)>> \o Decremented(encoders, TRUE)
    /\ doc' = Append(doc, <<IF major = Map THEN "map" ELSE "array", n>>)
    /\ UNCHANGED <<err, given>>

\* The number of items between the last opened container and the end of doc
\* that count; what a client that follows the format keeps track of.
RECURSIVE CountItems(_, _, _)
CountItems(d, k, depth) ==
    IF depth = 0 /\ d[k][1] \in {"array", "map"} THEN 0
    ELSE CountItems(d, k - 1,
                    CASE d[k][1] = "end" -> depth + 1
                      [] d[k][1] \in {"array", "map"} -> depth - 1
                      [] OTHER -> depth)
         + (IF depth = 0 /\ d[k][1] \notin {"tag"} THEN 1 ELSE 0)

\* The client gives every tag an item and every key of a map a value; the
\* encoder checks the length it was told.
CloseContainer ==
    /\ Len(encoders) > 1 /\ err = "no" /\ doc[Len(doc)][1] # "tag"
    /\ Inner.map /\ Inner.unknown => CountItems(doc, Len(doc), 0) % 2 = 0
    /\ IF Inner.unknown
         THEN Write(AppendToBuffer(Writer, <<BreakByte>>)) /\ wire' = Append(wire, BreakByte) /\ UNCHANGED err
         ELSE /\ err' = CASE Inner.remaining = 0 -> "TooManyItems"
                          [] Inner.remaining > 1 -> "TooFewItems" [] OTHER -> "no"
              /\ UNCHANGED <<buf, needed, wire>>
    /\ encoders' = Tail(encoders)
    /\ doc' = Append(doc, <<"end">>)
    /\ UNCHANGED given

(***************************************************************************)
(* The parser.  A CborValue is [p, remaining, type, unknown, map, second,  *)
(* err]: an offset, the items left (Indefinite when not known), the type   *)
(* of the item at p, whether its length is unknown, whether it is in a map *)
(* and there the second of a pair (NextIsMapKey), and the last error.      *)
(***************************************************************************)

CanRead(b, it, n) == Len(b) - it.p >= n
Byte(b, it) == b[it.p + 1]
Info(b, it) == Byte(b, it) % 8
Major(b, it) == Byte(b, it) \div 8
BytesNeeded(info) == CASE info = Value8Bit -> 1 [] info = Value16Bit -> 2 [] OTHER -> 0
Number(b, it) ==
    CASE Info(b, it) = Value8Bit -> b[it.p + 2]
      [] Info(b, it) = Value16Bit -> b[it.p + 2] * Base + b[it.p + 3]
      [] OTHER -> Info(b, it)

TypeOf(major) == <<"int", "int", "bytes", "text", "array", "map", "tag", "simple">>[major + 1]
Fixed(type) == type \notin {"bytes", "text", "array", "map"}
Failed(it, e) == [it EXCEPT !.err = e]
AtEnd(it) == it.remaining = 0

PreparseValue(b, it0) ==
    LET it == [it0 EXCEPT !.type = "invalid", !.unknown = FALSE]
        major == Major(b, it)
        info == Info(b, it)
        typed == [it EXCEPT !.type = TypeOf(major)]
    IN IF ~CanRead(b, it, 1) THEN Failed(it, "UnexpectedEOF")
       ELSE IF info = IndefiniteInfo /\ ~Fixed(TypeOf(major)) THEN [typed EXCEPT !.unknown = TRUE]
       ELSE IF info = IndefiniteInfo
         THEN Failed(typed, IF major = Simple THEN "UnexpectedBreak" ELSE "IllegalNumber")
       ELSE IF info > Value16Bit
         THEN Failed(typed, IF major = Simple THEN "UnknownType" ELSE "IllegalNumber")
       ELSE IF ~CanRead(b, it, 1 + BytesNeeded(info)) THEN Failed(typed, "UnexpectedEOF")
       ELSE typed

\* The item at p, or the Break that ends the container.
PreparseNextNoDecrement(b, it) ==
    IF it.remaining = Indefinite /\ CanRead(b, it, 1) /\ Byte(b, it) = BreakByte
      THEN IF (it.map /\ it.second) \/ it.type = "tag" THEN Failed(it, "UnexpectedBreak")
           ELSE [it EXCEPT !.type = "invalid", !.remaining = 0, !.unknown = TRUE]
      ELSE PreparseValue(b, it)

PreparseNext(b, it) ==
    IF it.type = "tag" THEN PreparseNextNoDecrement(b, it)
    ELSE IF it.remaining = 1
      THEN [it EXCEPT !.remaining = 0, !.type = "invalid", !.unknown = FALSE]
      ELSE PreparseNextNoDecrement(b,
             [it EXCEPT !.remaining = IF @ = Indefinite THEN @ ELSE @ - 1, !.second = ~@])

AdvanceFixed(b, it) ==
    IF AtEnd(it) THEN Failed(it, "AdvancePastEOF")
    ELSE PreparseNext(b, [it EXCEPT !.p = @ + 1 + BytesNeeded(Info(b, it))])

EnterContainer(b, it) ==
    LET len == Number(b, it)
        inside == [it EXCEPT !.p = @ + 1 + BytesNeeded(Info(b, it)), !.second = FALSE,
                             !.map = it.type = "map",
                             !.remaining = IF it.unknown THEN Indefinite
                                           ELSE IF it.type = "map" THEN 2 * len ELSE len]
    IN IF ~it.unknown /\ len = 0 THEN [inside EXCEPT !.type = "invalid"]
       ELSE PreparseNextNoDecrement(b, inside)

\* Mutant of LeaveContainer: the Break is left for the parent.
LeaveKeepsBreak(b, it, inside) == PreparseNext(b, [it EXCEPT !.p = inside.p])

LeaveContainer(b, it, inside) ==
    PreparseNext(b, [it EXCEPT !.p = inside.p + IF inside.unknown THEN 1 ELSE 0])

\* iterate_string_chunks: the bytes of the string at it and the value after
\* it, as [it, str].
RECURSIVE Chunks(_, _, _, _)
Chunks(b, it, first, str) ==
    LET done == [it |-> PreparseNext(b, [it EXCEPT !.p = @ + IF it.unknown THEN 1 ELSE 0]),
                 str |-> str]
        at == it.p + 1 + BytesNeeded(Info(b, it))
        bad(e) == [it |-> Failed(it, e), str |-> str]
    IN IF ~it.unknown /\ ~first THEN done
       ELSE IF ~CanRead(b, it, 1) THEN bad("UnexpectedEOF")
       ELSE IF Byte(b, it) = BreakByte THEN done
       ELSE IF TypeOf(Major(b, it)) # it.type THEN bad("IllegalType")
       ELSE IF Info(b, it) > Value16Bit THEN bad("IllegalNumber")
       ELSE IF ~CanRead(b, it, 1 + BytesNeeded(Info(b, it))) THEN bad("UnexpectedEOF")
       ELSE IF Len(b) - at < Number(b, it) THEN bad("UnexpectedEOF")
       ELSE Chunks(b, [it EXCEPT !.p = at + Number(b, it)], FALSE,
                   str \o SubSeq(b, at + 1, at + Number(b, it)))

String(b, it) ==
    Chunks(b, IF it.unknown THEN [it EXCEPT !.p = @ + 1] ELSE it, TRUE, <<>>)

RECURSIVE AdvanceRecursive(_, _, _), AdvanceAll(_, _, _)
AdvanceRecursive(b, it, left) ==
    IF Fixed(it.type) THEN AdvanceFixed(b, it)
    ELSE IF it.type \in {"bytes", "text"} THEN String(b, it).it
    ELSE IF left = 0 THEN Failed(it, "NestingTooDeep")
    ELSE LET inside == AdvanceAll(b, EnterContainer(b, it), left - 1)
         IN IF inside.err # "no" THEN inside ELSE LeaveContainer(b, it, inside)
AdvanceAll(b, it, left) ==
    IF it.err # "no" \/ AtEnd(it) THEN it
    ELSE AdvanceAll(b, AdvanceRecursive(b, it, left), left)

ParserInit(b) ==
    PreparseValue(b, [p |-> 0, remaining |-> 1, type |-> "invalid", unknown |-> FALSE,
                      map |-> FALSE, second |-> FALSE, err |-> "no"])

\* CBOR_PARSER_MAX_RECURSIONS is 1024, more than any nesting here; tags count
\* as nesting too.
MaxRecursions == MaxItems + 1

\* cbor_value_advance, called from the start of the buffer until there is
\* nothing left: a tag is an item of its own for it.
Advance(b) == AdvanceAll(b, ParserInit(b), MaxRecursions)

RECURSIVE SkipTag(_, _)
SkipTag(b, it) ==
    IF it.err = "no" /\ it.type = "tag" THEN SkipTag(b, AdvanceFixed(b, it)) ELSE it

\* cbor_value_map_find_value: the value whose key is the text s, or an invalid
\* one.
RECURSIVE FindFrom(_, _, _)
FindFrom(b, it0, s) ==
    LET it == SkipTag(b, it0)
        key == String(b, it)
        next == IF it.type = "text" THEN key.it ELSE AdvanceRecursive(b, it, MaxRecursions)
        value == SkipTag(b, next)
    IN IF it.err # "no" \/ AtEnd(it) THEN [it EXCEPT !.type = "invalid"]
       ELSE IF next.err # "no" THEN [next EXCEPT !.type = "invalid"]
       ELSE IF it.type = "text" /\ key.str = s THEN PreparseValue(b, next)
       ELSE IF value.err # "no" THEN [value EXCEPT !.type = "invalid"]
       ELSE FindFrom(b, AdvanceRecursive(b, value, MaxRecursions), s)

MapFindValue(b, it, s) == FindFrom(b, EnterContainer(b, it), s)

(***************************************************************************)
(* cborpretty.c: the walk that prints every item, as the list of what it   *)
(* prints.                                                                 *)
(***************************************************************************)

Step(it, out) == [it |-> it, out |-> out]

RECURSIVE Pretty(_, _), PrettyAll(_, _)
Pretty(b, it) ==
    CASE it.type \in {"array", "map"} ->
           LET inside == PrettyAll(b, EnterContainer(b, it))
           IN IF inside.it.err # "no" THEN inside
              ELSE Step(LeaveContainer(b, it, inside.it),
                        <<<<it.type, IF it.unknown THEN Indefinite ELSE Number(b, it)>>>>
                          \o inside.out \o <<<<"end">>>>)
      [] it.type \in {"bytes", "text"} ->
           LET s == String(b, it) IN Step(s.it, <<<<it.type, s.str>>>>)
      [] it.type = "tag" ->
           LET r == Pretty(b, AdvanceFixed(b, it))
           IN Step(r.it, <<<<"tag", Number(b, it)>>>> \o r.out)
      [] it.type = "invalid" -> Step(Failed(it, "UnknownType"), <<>>)
      [] OTHER ->
           Step(AdvanceFixed(b, it),
                <<<<it.type, IF Major(b, it) = NegativeInteger THEN -Number(b, it) - 1
                             ELSE Number(b, it)>>>>)
PrettyAll(b, it) ==
    IF it.err # "no" \/ AtEnd(it) THEN Step(it, <<>>)
    ELSE LET one == Pretty(b, it)
             rest == PrettyAll(b, one.it)
         IN IF one.it.err # "no" THEN one ELSE Step(rest.it, one.out \o rest.out)

(***************************************************************************)
(* cborvalidation.c, for the flags of the canonical format.                *)
(***************************************************************************)

Shortest(b, it) ==
    LET n == Number(b, it)
    IN BytesNeeded(Info(b, it)) = CASE n < Value8Bit -> 0 [] n < Base /\ n >= Value8Bit -> 1 [] OTHER -> 2

\* memcmp of two encoded keys, the shorter first.
RECURSIVE Compare(_, _)
Compare(s, t) ==
    CASE s = <<>> /\ t = <<>> -> 0
      [] s = <<>> /\ t # <<>> -> -1
      [] s # <<>> /\ t = <<>> -> 1
      [] s[1] < t[1] -> -1
      [] s[1] > t[1] -> 1
      [] OTHER -> Compare(Tail(s), Tail(t))

MisplacedKey(previous, current) ==
    CASE previous = <<>> -> "no"
      [] Compare(previous, current) > 0 -> "MapNotSorted"
      [] Compare(previous, current) = 0 -> "MapKeysNotUnique"
      [] OTHER -> "no"

RECURSIVE ValidateValue(_, _, _), ValidateContainer(_, _, _, _, _)
ValidateValue(b, it, left) ==
    IF it.unknown THEN Failed(it, "UnknownLength")
    ELSE IF ~Shortest(b, it) THEN Failed(it, "OverlongEncoding")
    ELSE CASE it.type \in {"array", "map"} ->
                LET inside == EnterContainer(b, it)
                    end == ValidateContainer(b, inside, it.type, left - 1, <<>>)
                IN IF inside.err # "no" THEN inside
                   ELSE IF end.err # "no" THEN end
                   ELSE LeaveContainer(b, it, end)
           [] it.type \in {"bytes", "text"} -> String(b, it).it
           [] it.type = "tag" ->
                LET next == AdvanceFixed(b, it)
                IN IF next.err # "no" THEN next
                   ELSE IF left = 1 THEN Failed(next, "NestingTooDeep")
                   ELSE ValidateValue(b, next, left - 1)
           [] it.type = "invalid" -> Failed(it, "UnknownType")
           [] OTHER -> AdvanceFixed(b, it)
ValidateContainer(b, it, type, left, previous) ==
    IF left = 0 THEN Failed(it, "NestingTooDeep")
    ELSE IF it.err # "no" \/ AtEnd(it) THEN it
    ELSE LET key == ValidateValue(b, it, left)
             current == SubSeq(b, it.p + 1, key.p)
         IN IF key.err # "no" \/ type = "array" THEN ValidateContainer(b, key, type, left, <<>>)
            ELSE IF MisplacedKey(previous, current) # "no"
              THEN Failed(key, MisplacedKey(previous, current))
            ELSE ValidateContainer(b, ValidateValue(b, key, left), type, left, current)

Validate(b) == ValidateValue(b, ParserInit(b), MaxRecursions).err

-----------------------------------------------------------------------------

Init ==
    /\ encoders = <<[map |-> FALSE, unknown |-> FALSE, remaining |-> 2]>>
    /\ buf = <<>> /\ needed = Fits /\ err = "no" /\ wire = <<>> /\ doc = <<>>
    /\ given = FALSE

\* The whole document is there: one item, with everything closed.
Complete == Len(encoders) = 1 /\ Inner.remaining = 1 /\ err = "no"

\* The reader gets a document without an error.
Give ==
    /\ Complete /\ ~given
    /\ given' = TRUE /\ UNCHANGED <<encoders, buf, needed, err, wire, doc>>

EncodeNext ==
    /\ ~Complete /\ err = "no"
    /\ \/ \E n \in Ints : EncodeInt(n)
       \/ \E s \in Texts : EncodeText(s)
       \/ \E s \in ByteStrings : EncodeBytes(s)
       \/ \E t \in Tags : EncodeTag(t)
       \/ \E n \in Lengths : CreateContainer(Array, n) \/ CreateContainer(Map, n)
       \/ CloseContainer

Next == EncodeNext \/ Give

Spec == Init /\ [][Next]_vars

(***************************************************************************)
(* Properties                                                              *)
(***************************************************************************)

\* cbor_encoder_get_extra_bytes_needed: as long as everything fitted the
\* buffer holds the encoding; afterwards the buffer and the bytes counted are
\* together exactly as long as the encoding.
ExtraBytesAreExact ==
    IF needed = Fits THEN buf = wire ELSE Size + needed = Len(wire)

\* Encoder and parser: what was encoded without an error is what the pretty
\* printer prints, up to the last byte.
ParsesWhatWasEncoded ==
    LET r == Pretty(wire, ParserInit(wire))
    IN r.it.err = "no" /\ r.out = doc /\ r.it.p = Len(wire)

\* cbor_value_advance on a buffer that was cut off: it never takes a part of
\* an item for the whole, and never goes past the end.
CutOffIsNoticed ==
    \A n \in 0..(Len(wire) - 1) :
      LET it == Advance(SubSeq(wire, 1, n)) IN it.err = "UnexpectedEOF" /\ it.p <= n

(***************************************************************************)
(* What the canonical format asks for, of the calls.                       *)
(***************************************************************************)

\* The keys of the map opened by the k-th call, as [bytes] of each key.
RECURSIVE KeysOf(_, _, _)
KeysOf(b, it, second) ==
    IF AtEnd(it) THEN <<>>
    ELSE LET full == AdvanceRecursive(b, SkipTag(b, it), MaxRecursions)
         IN (IF second THEN <<>> ELSE <<SubSeq(b, it.p + 1, full.p)>>)
              \o KeysOf(b, full, ~second)

RECURSIVE LexLess(_, _)
LexLess(s, t) ==
    t # <<>> /\ (s = <<>> \/ s[1] < t[1] \/ (s[1] = t[1] /\ LexLess(Tail(s), Tail(t))))

\* cbor_value_validate: a map of the outermost level is accepted as canonical
\* exactly when the encoded keys are in strictly ascending order.
CanonicalIsSorted ==
    doc[1][1] = "map" /\ (\A k \in DOMAIN doc : doc[k][1] \in {"map", "array"} => k = 1 /\ doc[k][2] # Indefinite)
      => LET keys == KeysOf(wire, EnterContainer(wire, ParserInit(wire)), FALSE)
         IN (Validate(wire) = "no") <=> \A k \in 2..Len(keys) : LexLess(keys[k - 1], keys[k])

\* cbor_value_map_find_value: the value of the first pair whose key, without
\* its tags, is the text.
FindsFirstKey ==
    doc[1][1] = "map" /\ (\A k \in DOMAIN doc : doc[k][1] \in {"map", "array", "tag"} => k = 1)
      => LET items == SelectSeq(Tail(doc), LAMBDA e : e[1] # "end")
             keys == {k \in DOMAIN items : k % 2 = 1}
         IN \A s \in Texts :
              LET at == {k \in keys : items[k] = <<"text", s>>}
                  it == MapFindValue(wire, ParserInit(wire), s)
              IN IF at = {} THEN it.type = "invalid" /\ it.err = "no"
                 ELSE LET k == CHOOSE j \in at : \A i \in at : j <= i
                      IN Pretty(wire, it).out = <<items[k + 1]>>

\* What a reader makes of a document it is given: all of the above.
ReadsBack ==
    [][given' # given =>
         ParsesWhatWasEncoded /\ CutOffIsNoticed /\ CanonicalIsSorted /\ FindsFirstKey]_vars

(***************************************************************************)
(* cbortojson.c: a value as JSON.  The output is a list of tokens; the     *)
(* text of numbers and strings is left out.  Byte strings are turned into  *)
(* Base64 or Base16 inside one buffer, in place.                           *)
(***************************************************************************)

\* What a conversion leaves: the value after it, the tokens, and the status
\* flags, a subset of "native" (TypeWasNotNative) and "tagged".
Json(it, out, status) == [it |-> it, out |-> out, status |-> status]

\* add_value_metadata.
Metadata(key, r) ==
    IF r.status = {} THEN <<>> ELSE <<<<"meta", key, r.status>>>>

RECURSIVE ValueToJson(_, _, _), ArrayToJson(_, _, _, _), MapToJson(_, _, _, _)

\* tagged_value_to_json; SkipTag is find_tagged_type.
TaggedToJson(b, it, flags) ==
    LET tag == Number(b, it)
        next == AdvanceFixed(b, it)
        inner == ValueToJson(b, next, flags)
        value == SkipTag(b, it)
        plain == ValueToJson(b, value, flags)
    IN IF "objects" \in flags
         THEN IF next.err # "no" THEN Json(next, <<>>, {})
              ELSE IF inner.it.err # "no" THEN inner
              ELSE Json(inner.it,
                        <<<<"open", "{">>, <<"key", <<"tag", tag>>>>>> \o inner.out
                          \o (IF "metadata" \in flags THEN Metadata(<<"tag", tag>>, inner) ELSE <<>>)
                          \o <<<<"close", "}">>>>, {"native"})
       ELSE IF value.err # "no" THEN Json(value, <<>>, {})
       ELSE [plain EXCEPT !.status = @ \cup {"tagged"}]

ArrayToJson(b, it, flags, comma) ==
    IF it.err # "no" \/ AtEnd(it) THEN Json(it, <<>>, {})
    ELSE LET one == ValueToJson(b, it, flags)
             rest == ArrayToJson(b, one.it, flags, <<<<"comma">>>>)
         IN IF one.it.err # "no" THEN one ELSE Json(rest.it, comma \o one.out \o rest.out, {})

\* A key is a text, or the pretty form of any other value.
KeyOf(b, it, flags) ==
    CASE it.type = "text" -> [it |-> String(b, it).it, key |-> <<"text", String(b, it).str>>]
      [] it.type # "text" /\ "stringify" \in flags ->
           [it |-> Pretty(b, it).it, key |-> <<"pretty", Pretty(b, it).out>>]
      [] OTHER -> [it |-> Failed(it, "JsonObjectKeyNotString"), key |-> <<>>]

MapToJson(b, it, flags, comma) ==
    IF it.err # "no" \/ AtEnd(it) THEN Json(it, <<>>, {})
    ELSE LET k == KeyOf(b, it, flags)
             v == ValueToJson(b, k.it, flags)
             meta == IF "metadata" \in flags
                       THEN (IF k.key[1] = "pretty" THEN <<<<"keycbordump", k.key>>>> ELSE <<>>)
                              \o Metadata(k.key, v)
                       ELSE <<>>
             rest == MapToJson(b, v.it, flags, <<<<"comma">>>>)
         IN IF k.it.err # "no" THEN Json(k.it, <<>>, {})
            ELSE IF v.it.err # "no" THEN v
            ELSE Json(rest.it, comma \o <<<<"key", k.key>>>> \o v.out \o meta \o rest.out, {})

ValueToJson(b, it, flags) ==
    CASE it.type \in {"array", "map"} ->
           LET brackets == IF it.type = "map" THEN <<"{", "}">> ELSE <<"[", "]">>
               inside == EnterContainer(b, it)
               r == IF it.type = "map" THEN MapToJson(b, inside, flags, <<>>)
                    ELSE ArrayToJson(b, inside, flags, <<>>)
           IN IF r.it.err # "no" THEN r
              ELSE Json(LeaveContainer(b, it, r.it),
                        <<<<"open", brackets[1]>>>> \o r.out \o <<<<"close", brackets[2]>>>>, {})
      [] it.type \in {"bytes", "text"} ->
           Json(String(b, it).it, <<<<"str", String(b, it).str>>>>,
                IF it.type = "bytes" THEN {"native"} ELSE {})
      [] it.type = "tag" -> TaggedToJson(b, it, flags)
      [] it.type = "invalid" -> Json(Failed(it, "UnknownType"), <<>>, {})
      [] OTHER -> Json(AdvanceFixed(b, it),
                       <<<<"num", IF Major(b, it) = NegativeInteger THEN -Number(b, it) - 1
                                  ELSE Number(b, it)>>>>, {})

ToJson(b, flags) == ValueToJson(b, ParserInit(b), flags)

(***************************************************************************)
(* generic_dump_base64 and dump_bytestring_base16: n bytes are copied to   *)
(* the end of a buffer and converted from there to its start.  A cell      *)
(* holds <<"byte", i>>, <<"nul">>, <<"fill">> or <<"char", k, bytes>>, the *)
(* k-th character of the group of those bytes; offsets count from 0.       *)
(***************************************************************************)

Base64Len(n) == ((n + 5) \div 3) * 4

Loaded(size, from, n) ==
    [k \in 0..size |-> IF k >= from /\ k < from + n THEN <<"byte", k - from>>
                       ELSE IF k = from + n THEN <<"nul">> ELSE <<"garbage">>]

Base64Char(k, group) == <<"char", k, group>>

RECURSIVE Base64From(_, _, _, _)
Base64From(mem, n, i, out) ==
    LET in == Base64Len(n) - n
        g == <<mem[in + i], mem[in + i + 1], mem[in + i + 2]>>
        written == [k \in DOMAIN mem |->
                      IF k \in out..(out + 3) THEN Base64Char(k - out, g) ELSE mem[k]]
        last == <<mem[in + i], mem[in + i + 1]>>
    IN IF n - i >= 3 THEN Base64From(written, n, i + 3, out + 4)
       ELSE IF n - i > 0
         THEN [k \in DOMAIN mem |->
                 CASE k = out + 4 -> <<"nul">>
                   [] k = out + 3 -> <<"fill">>
                   [] k = out + 2 -> IF n - i = 2 THEN Base64Char(2, last) ELSE <<"fill">>
                   [] k \in {out, out + 1} -> Base64Char(k - out, last)
                   [] OTHER -> mem[k]]
         ELSE [mem EXCEPT ![out] = <<"nul">>]

Base64(n) == Base64From(Loaded(Base64Len(n), Base64Len(n) - n, n), n, 0, 0)

RECURSIVE Base16From(_, _, _)
Base16From(mem, n, i) ==
    IF i = n THEN mem
    ELSE LET byte == mem[n + i]
         IN Base16From([mem EXCEPT ![2 * i] = Base64Char(0, <<byte>>),
                                   ![2 * i + 1] = Base64Char(1, <<byte>>)], n, i + 1)

Base16(n) == Base16From(Loaded(2 * n, n, n), n, 0)

(***************************************************************************)
(* Properties                                                              *)
(***************************************************************************)

\* The in-place conversions: every character comes from the bytes it stands
\* for, none of which was overwritten before it was read, and the text ends
\* with its NUL.
RECURSIVE Base64Expected(_, _)
Base64Expected(n, i) ==
    LET byte(k) == <<"byte", k>>
    IN CASE n - i >= 3 ->
              [k \in 1..4 |-> Base64Char(k - 1, <<byte(i), byte(i + 1), byte(i + 2)>>)]
                \o Base64Expected(n, i + 3)
         [] n - i = 2 -> [k \in 1..3 |-> Base64Char(k - 1, <<byte(i), byte(i + 1)>>)]
                           \o <<<<"fill">>, <<"nul">>>>
         [] n - i = 1 -> [k \in 1..2 |-> Base64Char(k - 1, <<byte(i), <<"nul">>>>)]
                           \o <<<<"fill">>, <<"fill">>, <<"nul">>>>
         [] OTHER -> <<<<"nul">>>>

InPlaceIsSafe ==
    \A n \in 0..8 :
      /\ LET e == Base64Expected(n, 0)
         IN \A k \in 1..Len(e) : Base64(n)[k - 1] = e[k]
      /\ \A k \in 0..(2 * n - 1) :
            Base16(n)[k] = Base64Char(k % 2, <<<<"byte", k \div 2>>>>)
      /\ Base16(n)[2 * n] = <<"nul">>

\* The JSON of the calls doc[k], doc[k + 1], ..., up to the end of the item at
\* k: [next, out, tagged, native], where out is "error" if a key is no text.
RECURSIVE Render(_, _), RenderAll(_, _, _, _)
Render(d, k) ==
    LET e == d[k] IN
    CASE e[1] = "tag" -> [Render(d, k + 1) EXCEPT !.status = @ \cup {"tagged"}]
      [] e[1] = "int" -> [next |-> k + 1, out |-> <<<<"num", e[2]>>>>, status |-> {}]
      [] e[1] = "text" -> [next |-> k + 1, out |-> <<<<"str", e[2]>>>>, status |-> {}]
      [] e[1] = "bytes" -> [next |-> k + 1, out |-> <<<<"str", e[2]>>>>, status |-> {"native"}]
      [] OTHER -> LET b == IF e[1] = "map" THEN <<"{", "}">> ELSE <<"[", "]">>
                      r == RenderAll(d, k + 1, e[1], <<>>)
                  IN [next |-> r.next, status |-> {},
                      out |-> <<<<"open", b[1]>>>> \o r.out \o <<<<"close", b[2]>>>>]
RenderAll(d, k, kind, comma) ==
    IF d[k][1] = "end" THEN [next |-> k + 1, out |-> <<>>]
    ELSE LET v == Render(d, IF kind = "map" THEN k + 1 ELSE k)
             rest == RenderAll(d, v.next, kind, <<<<"comma">>>>)
             key == IF kind = "array" THEN <<>>
                    ELSE IF d[k][1] = "text" THEN <<<<"key", <<"text", d[k][2]>>>>>>
                    ELSE <<<<"error">>>>
             meta == IF kind = "map" /\ v.status # {}
                       THEN <<<<"meta", <<"text", d[k][2]>>, v.status>>>> ELSE <<>>
         IN [next |-> rest.next, out |-> comma \o key \o v.out \o meta \o rest.out]

\* The keys of the outermost map, and whether they are all plain texts.
SimpleKeys ==
    \A k \in DOMAIN doc : doc[k][1] \in {"map", "array", "tag"} => k = 1

\* cbor_value_to_json with metadata: the JSON is that of the calls without
\* their tags, in one piece and in order; exactly those values of a map that
\* JSON cannot express have metadata behind them; and the conversion fails
\* exactly when a key of a map is not a text.
JsonMatchesDoc ==
    SimpleKeys =>
      LET r == ToJson(wire, {"metadata"})
          e == Render(doc, 1)
      IN IF \E k \in DOMAIN e.out : e.out[k] = <<"error">>
           THEN r.it.err = "JsonObjectKeyNotString"
           ELSE r.it.err = "no" /\ r.out = e.out /\ r.it.p = Len(wire)

\* Whatever the flags, brackets match and the conversion with stringified keys
\* and tags as objects never fails and reads the whole value.
RECURSIVE Depth(_, _)
Depth(out, k) ==
    IF k = 0 THEN 0
    ELSE Depth(out, k - 1) + CASE out[k][1] = "open" -> 1 [] out[k][1] = "close" -> -1 [] OTHER -> 0

JsonIsBalanced ==
    \A f \in JsonFlags :
      LET r == ToJson(wire, f)
      IN r.it.err = "no" => /\ r.it.p = Len(wire)
                            /\ Depth(r.out, Len(r.out)) = 0
                            /\ \A k \in 1..Len(r.out) : Depth(r.out, k) >= 0

AnythingCanBeConverted ==
    ToJson(wire, {"stringify", "objects", "metadata"}).it.err = "no"

\* What the conversion makes of a document it is given: all of the above.
ConvertsBack ==
    [][given' # given =>
         InPlaceIsSafe /\ JsonMatchesDoc /\ JsonIsBalanced /\ AnythingCanBeConverted]_vars

=============================================================================
