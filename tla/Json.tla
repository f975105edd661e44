-------------------------------- MODULE Json --------------------------------
(***************************************************************************)
(* The JSON libraries: json_generator.c writes a text through a small      *)
(* buffer that is flushed when it is full, jsmn.h (strict, with links to   *)
(* the parents) splits a text into tokens, and json_parser.c finds values  *)
(* by name and by index among them.                                        *)
(*                                                                         *)
(* A text is a sequence of characters; Quote is the quotation mark.        *)
(* Escapes are not modelled (the generator writes none), and a token's     *)
(* text is compared instead of being converted to a number.                *)
(***************************************************************************)
EXTENDS Integers, Sequences, FiniteSets, SequencesExt

CONSTANTS
    BufSize,      \* size of the generator's buffer, with the final NUL
    FlushCb,      \* a flush callback is registered
    Names,        \* names of members
    Strings,      \* values of strings
    Prims,        \* numbers, booleans and null, as they are written
    MaxCalls,     \* bound on the calls of the generator
    MaxDepth      \* bound on the nesting

JsonAssumption == BufSize \in Nat \ {0, 1} /\ FlushCb \in BOOLEAN

VARIABLES
    gen,        \* the generator: [buf, flushed, total, comma, ret]
    nodes,      \* what was written: [kind, name, text, parent], in order
    open,       \* the containers that are not closed, the innermost last
    calls,      \* number of calls
    phase,      \* "write", "long" inside a long string, "ended", "read"
    size,       \* what json_gen_str_end returned
    given,      \* the text that was given to json_parse_start
    toks        \* the tokens it made of it, Refused if it failed

vars == <<gen, nodes, open, calls, phase, size, given, toks>>

Quote == "Q"
NoName == <<"noname">>
Opening(k) == IF k = "OBJECT" THEN "{" ELSE "["
Closing(k) == IF k = "OBJECT" THEN "}" ELSE "]"

(***************************************************************************)
(* The generator.                                                          *)
(***************************************************************************)

\* json_gen_add_to_str: fill the buffer, and flush it when there is more.
RECURSIVE AddToStr(_, _)
AddToStr(g, str) ==
    LET space == BufSize - Len(g.buf) - 1
        n == IF space > Len(str) THEN Len(str) ELSE space
        filled == g.buf \o SubSeq(str, 1, n)
    IN IF n = Len(str) THEN [g EXCEPT !.buf = filled, !.ret = 0]
       ELSE IF ~FlushCb THEN [g EXCEPT !.buf = filled, !.ret = -1]
       ELSE AddToStr([g EXCEPT !.buf = <<>>, !.flushed = Append(@, filled)],
                     SubSeq(str, n + 1, Len(str)))

Add(g, str) == AddToStr([g EXCEPT !.total = @ + Len(str)], str)

HandleComma(g) == IF g.comma THEN Add(g, <<",">>) ELSE g
HandleName(g, name) ==
    IF name = NoName THEN g ELSE Add(Add(Add(g, <<Quote>>), name), <<Quote, ":">>)

\* Every call that writes a member or an element: comma, name, value.  A
\* value needs a comma behind it, a container that was opened does not.
Write(name, comma, parts) ==
    LET named == HandleName(HandleComma(gen), name)
        g == [named EXCEPT !.comma = comma]
    IN gen' = CASE Len(parts) = 1 -> Add(g, parts[1])
                [] Len(parts) = 2 -> Add(Add(g, parts[1]), parts[2])
                [] OTHER -> Add(Add(Add(g, parts[1]), parts[2]), parts[3])

Inside == IF open = <<>> THEN "NOTHING" ELSE nodes[Last(open)].kind

\* The caller names what it puts into an object and nothing else, and writes
\* one value.
MayWrite(name) ==
    /\ phase = "write" /\ calls < MaxCalls
    /\ CASE Inside = "OBJECT" -> name \in Names
         [] Inside = "ARRAY" -> name = NoName
         [] OTHER -> name = NoName /\ nodes = <<>>

Record(kind, name, text) ==
    nodes' = Append(nodes, [kind |-> kind, name |-> name, text |-> text,
                            parent |-> IF open = <<>> THEN 0 ELSE Last(open)])

Rest == UNCHANGED <<size, given, toks>>

\* json_gen_start_object and _array, json_gen_push_object and _array.
Open(kind, name) ==
    /\ MayWrite(name) /\ Len(open) < MaxDepth
    /\ Write(name, FALSE, <<<<Opening(kind)>>>>)
    /\ Record(kind, name, <<>>) /\ open' = Append(open, Len(nodes) + 1)
    /\ calls' = calls + 1 /\ UNCHANGED phase /\ Rest

\* json_gen_end_object and _array, json_gen_pop_object and _array.
Close ==
    /\ phase = "write" /\ open # <<>>
    /\ gen' = Add([gen EXCEPT !.comma = TRUE], <<Closing(Inside)>>)
    /\ open' = Front(open)
    /\ UNCHANGED <<nodes, calls, phase>> /\ Rest

\* json_gen_obj_set_int and its kind, and the ones for arrays.
SetPrim(name, text) ==
    /\ MayWrite(name) /\ open # <<>>
    /\ Write(name, TRUE, <<text>>) /\ Record("PRIMITIVE", name, text)
    /\ calls' = calls + 1 /\ UNCHANGED <<open, phase>> /\ Rest

SetString(name, text) ==
    /\ MayWrite(name) /\ open # <<>>
    /\ Write(name, TRUE, <<<<Quote>>, text, <<Quote>>>>) /\ Record("STRING", name, text)
    /\ calls' = calls + 1 /\ UNCHANGED <<open, phase>> /\ Rest

\* json_gen_push_object_str and _array_str, with an empty one.
PushStr(kind, name) ==
    /\ MayWrite(name) /\ Inside = "OBJECT"
    /\ Write(name, TRUE, <<<<Opening(kind), Closing(kind)>>>>) /\ Record(kind, name, <<>>)
    /\ calls' = calls + 1 /\ UNCHANGED <<open, phase>> /\ Rest

\* A long string: started, added to, ended.
StartLongString(name, text) ==
    /\ MayWrite(name) /\ open # <<>>
    /\ Write(name, TRUE, <<<<Quote>>, text>>) /\ Record("STRING", name, text)
    /\ calls' = calls + 1 /\ phase' = "long" /\ UNCHANGED open /\ Rest

AddToLongString(text) ==
    /\ phase = "long" /\ calls < MaxCalls
    /\ gen' = Add(gen, text)
    /\ nodes' = [nodes EXCEPT ![Len(nodes)].text = @ \o text]
    /\ calls' = calls + 1 /\ UNCHANGED <<open, phase>> /\ Rest

EndLongString ==
    /\ phase = "long" /\ phase' = "write"
    /\ gen' = Add(gen, <<Quote>>)
    /\ UNCHANGED <<nodes, open, calls>> /\ Rest

\* json_gen_str_end: the last chunk is flushed too.
StrEnd ==
    /\ phase = "write" /\ open = <<>> /\ nodes # <<>> /\ phase' = "ended"
    /\ gen' = IF FlushCb THEN [gen EXCEPT !.flushed = Append(@, gen.buf)] ELSE gen
    /\ size' = gen.total + 1
    /\ UNCHANGED <<nodes, open, calls, given, toks>>

Text == IF FlushCb THEN FlattenSeq(gen.flushed) ELSE gen.buf

(***************************************************************************)
(* jsmn_parse.  p is [toks, super, err]; a token is [type, start, end,     *)
(* size, parent], with 0 for "not yet" and "none".                         *)
(***************************************************************************)

PrimStart == {"-", "0", "1", "2", "3", "4", "5", "6", "7", "8", "9", "t", "f", "n"}
PrimEnd == {",", "]", "}"}

NewToken(type, start, end, parent) ==
    [type |-> type, start |-> start, end |-> end, size |-> 0, parent |-> parent]
Wrong(p) == [p EXCEPT !.err = TRUE]

\* The first position from i on with one of the characters, 0 if there is none.
RECURSIVE Find(_, _, _)
Find(js, i, cs) == IF i > Len(js) THEN 0 ELSE IF js[i] \in cs THEN i ELSE Find(js, i + 1, cs)

\* The new token counts as a child of the superior one.
Child(p, t) ==
    LET toks2 == Append(p.toks, t)
    IN [p EXCEPT !.toks = IF p.super = 0 THEN toks2 ELSE [toks2 EXCEPT ![p.super].size = @ + 1]]

Begin(p, c, i) ==
    IF p.super # 0 /\ p.toks[p.super].type = "OBJECT" THEN Wrong(p)
    ELSE [Child(p, NewToken(IF c = "{" THEN "OBJECT" ELSE "ARRAY", i, 0, p.super))
            EXCEPT !.super = Len(p.toks) + 1]

\* Up the parents to the container that is open.
RECURSIVE Finish(_, _, _, _)
Finish(p, type, i, t) ==
    IF p.toks[t].end = 0
      THEN IF p.toks[t].type # type THEN Wrong(p)
           ELSE [p EXCEPT !.toks[t].end = i + 1, !.super = p.toks[t].parent]
      ELSE IF p.toks[t].parent = 0
        THEN IF p.toks[t].type # type \/ p.super = 0 THEN Wrong(p) ELSE p
      ELSE Finish(p, type, i, p.toks[t].parent)

ContainerOf(p) ==
    IF p.super # 0 /\ p.toks[p.super].type \notin {"ARRAY", "OBJECT"}
      THEN p.toks[p.super].parent ELSE p.super

\* In strict mode a primitive is no key.
PrimAllowed(p) ==
    p.super = 0 \/ ~( \/ p.toks[p.super].type = "OBJECT"
                      \/ p.toks[p.super].type = "STRING" /\ p.toks[p.super].size # 0 )

RECURSIVE Parse(_, _, _)
Parse(js, i, p) ==
    IF p.err \/ i > Len(js) THEN p
    ELSE LET c == js[i] IN
    CASE c \in {"{", "["} -> Parse(js, i + 1, Begin(p, c, i))
      [] c \in {"}", "]"} ->
           IF p.toks = <<>> THEN Wrong(p)
           ELSE Parse(js, i + 1, Finish(p, IF c = "}" THEN "OBJECT" ELSE "ARRAY", i, Len(p.toks)))
      [] c = ":" -> Parse(js, i + 1, [p EXCEPT !.super = Len(p.toks)])
      [] c = "," -> Parse(js, i + 1, [p EXCEPT !.super = ContainerOf(p)])
      [] c = Quote ->
           LET q == Find(js, i + 1, {Quote}) IN
           IF q = 0 THEN Wrong(p)
           ELSE Parse(js, q + 1, Child(p, NewToken("STRING", i + 1, q, p.super)))
      [] c \in PrimStart ->
           LET q == Find(js, i + 1, PrimEnd) IN
           IF ~PrimAllowed(p) \/ q = 0 THEN Wrong(p)
           ELSE Parse(js, q, Child(p, NewToken("PRIMITIVE", i, q, p.super)))
      [] OTHER -> Wrong(p)

Refused == <<>>

\* json_parse_start: a text without tokens, or with a container that is still
\* open, is refused.  The pass that only counts finds as many tokens.
ParseStart(js) ==
    LET p == Parse(js, 1, [toks |-> <<>>, super |-> 0, err |-> FALSE])
    IN IF p.err \/ \E t \in DOMAIN p.toks : p.toks[t].end = 0 THEN Refused ELSE p.toks

\* A receiver parses the text, or what arrived of it.
Receive(k) ==
    /\ phase = "ended" /\ phase' = "read"
    /\ given' = SubSeq(Text, 1, k) /\ toks' = ParseStart(given')
    /\ UNCHANGED <<gen, nodes, open, calls, size>>

(***************************************************************************)
(* json_parser.c: a token is given by its number, and 0 is NULL.           *)
(***************************************************************************)

TextOf(t) == SubSeq(given, toks[t].start, toks[t].end - 1)
MatchesStr(t, str) == TextOf(t) = str

RECURSIVE SkipElem(_), SkipMore(_, _)
SkipMore(t, n) == IF n = 0 THEN t ELSE SkipMore(SkipElem(t + 1), n - 1)
SkipElem(t) == SkipMore(t, toks[t].size)

RECURSIVE SearchFrom(_, _, _)
SearchFrom(t, key, n) ==
    IF n = 0 THEN 0
    ELSE IF MatchesStr(t + 1, key) THEN t + 1
    ELSE SearchFrom(SkipElem(t + 1), key, n - 1)

ObjSearch(cur, key) ==
    IF toks[cur].size <= 0 \/ toks[cur].type # "OBJECT" THEN 0
    ELSE SearchFrom(cur, key, toks[cur].size)

OfType(t, type) == IF t # 0 /\ toks[t].type = type THEN t ELSE 0
ObjGetValTok(cur, name) ==
    LET key == ObjSearch(cur, name) IN IF key = 0 THEN 0 ELSE key + 1
ObjGet(cur, name, type) == OfType(ObjGetValTok(cur, name), type)

ArrGet(cur, index, type) ==
    IF toks[cur].type # "ARRAY" \/ index >= toks[cur].size THEN 0
    ELSE OfType(SkipMore(cur, index) + 1, type)

\* json_obj_leave_object and _array, json_arr_leave_object and _array.
ObjLeave(t) == LET key == toks[t].parent IN IF key = 0 THEN 0 ELSE toks[key].parent
ArrLeave(t) == toks[t].parent

Init ==
    /\ gen = [buf |-> <<>>, flushed |-> <<>>, total |-> 0, comma |-> FALSE, ret |-> 0]
    /\ nodes = <<>> /\ open = <<>> /\ calls = 0 /\ phase = "write" /\ size = 0
    /\ given = <<>> /\ toks = Refused

Next ==
    \/ \E k \in {"OBJECT", "ARRAY"}, n \in Names \cup {NoName} : Open(k, n) \/ PushStr(k, n)
    \/ Close
    \/ \E n \in Names \cup {NoName} :
         \/ \E v \in Prims : SetPrim(n, v)
         \/ \E v \in Strings : SetString(n, v) \/ StartLongString(n, v)
    \/ \E v \in Strings : AddToLongString(v)
    \/ EndLongString
    \/ StrEnd
    \/ \E k \in 0..Len(Text) : Receive(k)

Spec == Init /\ [][Next]_vars

(***************************************************************************)
(* Properties                                                              *)
(***************************************************************************)

Children(n) == SelectSeq([i \in DOMAIN nodes |-> i], LAMBDA i : nodes[i].parent = n)
NamesDiffer ==
    \A m, n \in DOMAIN nodes :
        m # n /\ nodes[m].name # NoName /\ nodes[m].parent = nodes[n].parent
          => nodes[m].name # nodes[n].name

\* The token one finds by asking for node n the way it was nested.
RECURSIVE Found(_)
Found(n) ==
    LET up == nodes[n].parent IN
    IF up = 0 THEN 1
    ELSE IF Found(up) = 0 THEN 0
    ELSE IF nodes[n].name # NoName THEN ObjGet(Found(up), nodes[n].name, nodes[n].kind)
    ELSE ArrGet(Found(up), Cardinality({m \in 1..(n - 1) : nodes[m].parent = up}), nodes[n].kind)

\* Wherever the flushes fell, the text the chunks make up gives every value
\* that was written when it is asked for by the names and indices under which
\* it was written, nothing under names that were not, and the way back to the
\* container it came from.
GivesBackWhatWasWritten ==
    phase = "read" /\ given = Text /\ (FlushCb \/ gen.ret = 0) /\ NamesDiffer =>
        \A n \in DOMAIN nodes :
            LET t == Found(n) IN
            /\ t # 0
            /\ nodes[n].kind \in {"STRING", "PRIMITIVE"} => TextOf(t) = nodes[n].text
            /\ nodes[n].kind \in {"OBJECT", "ARRAY"} => toks[t].size = Len(Children(n))
            /\ nodes[n].kind = "OBJECT" =>
                 \A s \in Names : ObjSearch(t, s) # 0 <=>
                     \E i \in DOMAIN nodes : nodes[i].parent = n /\ nodes[i].name = s
            /\ nodes[n].parent # 0 =>
                 (IF nodes[n].name = NoName THEN ArrLeave(t) ELSE ObjLeave(t)) = Found(nodes[n].parent)

\* A text that was cut off anywhere is refused.
CutIsRefused == phase = "read" /\ Len(given) < Len(Text) => toks = Refused

\* Every chunk but the last is as long as the buffer allows, and the size
\* json_gen_str_end returns is the room the whole text needs, also when some
\* of it did not fit; without a callback the last call tells whether it did.
SizesAreRight ==
    /\ \A i \in 1..(Len(gen.flushed) - 1) : Len(gen.flushed[i]) = BufSize - 1
    /\ phase \in {"ended", "read"} =>
         /\ FlushCb \/ gen.ret = 0 => size = Len(Text) + 1
         /\ ~FlushCb => (gen.ret = 0 <=> size <= BufSize)

=============================================================================
