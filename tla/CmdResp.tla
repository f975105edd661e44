------------------------------ MODULE CmdResp ------------------------------
(***************************************************************************)
(* Commands of the cloud and their responses (rmaker_common, cmd_resp.c).  *)
(* A request is a list of TLVs; esp_rmaker_cmd_response_handler finds the  *)
(* registered command, checks the role of the user, calls the handler with *)
(* the data and packs its answer.  A value longer than ChunkMax is split   *)
(* into several TLVs of its type.                                          *)
(*                                                                         *)
(* Values are sequences of numbers; a string's characters are not 0.  A    *)
(* request may arrive cut off; the byte behind its end is arbitrary.       *)
(***************************************************************************)
EXTENDS Integers, Sequences, SequencesExt

CONSTANTS
    RMAKER_MAX_CMD,   \* slots for registered commands
    ChunkMax,         \* longest value of one TLV (255)
    REQ_ID_LEN,       \* size of the buffer of a request's identifier (32)
    Slack,            \* bytes a response's buffer has on top of the data (100)
    Cmds,             \* command numbers, without 0
    Accesses,         \* sets of roles a command may be registered for
    ReqIds,           \* identifiers of requests
    Datas,            \* data of requests
    Responses,        \* what handlers answer
    Beyond            \* what the byte behind the end of a request may be

VARIABLES
    list,      \* esp_rmaker_cmd_list
    request,   \* the request that is being answered, and how it was sent
    output,    \* the response to it
    got        \* what the handler was called with

vars == <<list, request, output, got>>

Types == [REQ_ID |-> 1, USER_ROLE |-> 2, STATUS |-> 3, CMD |-> 5, DATA |-> 6]
SUCCESS == 0
FAILED == 1
CMD_INVALID == 2
AUTH_FAIL == 3
NOT_FOUND == 4

NoCmd == [cmd |-> 0, access |-> {}]
Idle == [sent |-> FALSE]
Nothing == <<"nothing">>

(***************************************************************************)
(* TLVs.                                                                   *)
(***************************************************************************)

\* get_u16_le and put_u16_le.
GetU16(b) == b[1] + 256 * b[2]
PutU16(n) == <<n % 256, n \div 256>>

RECURSIVE Chunks(_, _)
Chunks(type, val) ==
    IF Len(val) <= ChunkMax THEN <<type, Len(val)>> \o val
    ELSE <<type, ChunkMax>> \o SubSeq(val, 1, ChunkMax)
           \o Chunks(type, SubSeq(val, ChunkMax + 1, Len(val)))

\* The check looks at one header only, also where several are needed.
AddTlv(buf, size, type, val) ==
    IF Len(val) + 2 > size - Len(buf) THEN buf ELSE buf \o Chunks(type, val)

ByteAt(buf, beyond, i) == IF i <= Len(buf) THEN buf[i] ELSE beyond

\* esp_rmaker_get_value_from_tlv: [val, len], the bytes copied and the result.
RECURSIVE GetValue(_, _, _, _, _, _)
GetValue(buf, beyond, type, size, at, acc) ==
    IF at > Len(buf) THEN [val |-> acc.val, len |-> IF acc.found THEN Len(acc.val) ELSE -1]
    ELSE LET n == ByteAt(buf, beyond, at + 1)
             left == Len(buf) - at + 1
             now == [val |-> acc.val \o SubSeq(buf, at + 2, at + 1 + n), found |-> TRUE]
         IN IF buf[at] # type
              THEN IF acc.found THEN [val |-> acc.val, len |-> Len(acc.val)]
                   ELSE GetValue(buf, beyond, type, size, at + 2 + n, acc)
            ELSE IF size - Len(acc.val) < n \/ left - n < 2 THEN [val |-> acc.val, len |-> -1]
            ELSE IF n < ChunkMax THEN [val |-> now.val, len |-> Len(now.val)]
            ELSE GetValue(buf, beyond, type, size, at + 2 + n, now)

ValueFromTlv(buf, beyond, type, size) ==
    GetValue(buf, beyond, type, size, 1, [val |-> <<>>, found |-> FALSE])

\* esp_rmaker_get_tlv_length: as if the value had room.
TlvLength(buf, beyond, type) == ValueFromTlv(buf, beyond, type, Len(buf)).len

(***************************************************************************)
(* Requests and responses.                                                 *)
(***************************************************************************)

\* esp_rmaker_cmd_resp_test_send, and what the cloud sends: an identifier, a
\* role and data that are empty or 0 are left out.
Present(type, val) == IF val = <<>> THEN <<>> ELSE Chunks(type, val)
RequestOf(r) ==
    Present(Types.REQ_ID, r.id) \o Chunks(Types.USER_ROLE, <<r.role>>)
      \o Chunks(Types.CMD, PutU16(r.cmd)) \o Present(Types.DATA, r.data)

\* The fields of the context, all zero before they are read.
Padded(v, n) == [i \in 1..n |-> IF i <= Len(v) THEN v[i] ELSE 0]
Field(in, type, size) == Padded(ValueFromTlv(in.bytes, in.beyond, type, size).val, size)
Context(in) ==
    [id |-> Field(in, Types.REQ_ID, REQ_ID_LEN), role |-> Field(in, Types.USER_ROLE, 1)[1],
     cmd |-> GetU16(Field(in, Types.CMD, 2))]

\* The identifier as a C string: one that fills its buffer runs on into the
\* role that is stored behind it.
ReqId(ctx) ==
    LET b == ctx.id \o <<ctx.role, 0>>
        zero == CHOOSE i \in DOMAIN b : b[i] = 0 /\ \A j \in 1..(i - 1) : b[j] # 0
    IN SubSeq(b, 1, zero - 1)

\* esp_rmaker_cmd_prepare_response.
PrepareResponse(ctx, status, response) ==
    LET size == Len(response) + Slack
        id == IF ReqId(ctx) = <<>> THEN <<>> ELSE AddTlv(<<>>, size, Types.REQ_ID, ReqId(ctx))
        st == AddTlv(id, size, Types.STATUS, <<status>>)
        cmd == AddTlv(st, size, Types.CMD, PutU16(ctx.cmd))
    IN IF response = <<>> THEN cmd ELSE AddTlv(cmd, size, Types.DATA, response)

Init ==
    /\ list = [i \in 1..RMAKER_MAX_CMD |-> NoCmd] /\ request = Idle
    /\ output = <<>> /\ got = Nothing

FirstSlot(P) == CHOOSE i \in DOMAIN list : P[i] /\ \A j \in 1..(i - 1) : ~P[j]

CmdRegister(c, access) ==
    LET free == [i \in DOMAIN list |-> list[i] = NoCmd] IN
    /\ ~request.sent
    /\ \A i \in DOMAIN list : list[i].cmd # c
    /\ \E i \in DOMAIN list : free[i]
    /\ list' = [list EXCEPT ![FirstSlot(free)] = [cmd |-> c, access |-> access]]
    /\ UNCHANGED <<request, output, got>>

CmdDeregister(c) ==
    LET mine == [i \in DOMAIN list |-> list[i].cmd = c] IN
    /\ ~request.sent
    /\ \E i \in DOMAIN list : mine[i]
    /\ list' = [list EXCEPT ![FirstSlot(mine)] = NoCmd]
    /\ UNCHANGED <<request, output, got>>

\* A request comes in, all of it or what the transport brought.
Receive(r, cut, beyond) ==
    LET whole == RequestOf(r)
        in == [bytes |-> SubSeq(whole, 1, cut), beyond |-> beyond]
    IN
    /\ ~request.sent
    /\ request' = [sent |-> TRUE, wanted |-> r, whole |-> cut = Len(whole),
                   in |-> in, ctx |-> Context(in)]
    /\ output' = <<>> /\ got' = Nothing
    /\ UNCHANGED list

Ctx == request.ctx
InfoOf(c) == {i \in DOMAIN list : list[i] # NoCmd /\ list[i].cmd = c}

Respond(status, response) == output' = PrepareResponse(Ctx, status, response)

\* The request lacks an identifier, a role or a command.
RefuseInvalid ==
    /\ request.sent /\ output = <<>>
    /\ ReqId(Ctx) = <<>> \/ Ctx.role = 0 \/ Ctx.cmd = 0
    /\ Respond(CMD_INVALID, <<>>)
    /\ UNCHANGED <<list, request, got>>

Valid == request.sent /\ output = <<>> /\ ReqId(Ctx) # <<>> /\ Ctx.role # 0 /\ Ctx.cmd # 0

RefuseUnknown ==
    /\ Valid /\ InfoOf(Ctx.cmd) = {} /\ Respond(NOT_FOUND, <<>>)
    /\ UNCHANGED <<list, request, got>>

RefuseAccess ==
    /\ Valid
    /\ \E i \in InfoOf(Ctx.cmd) : Ctx.role \notin list[i].access
    /\ Respond(AUTH_FAIL, <<>>)
    /\ UNCHANGED <<list, request, got>>

\* The handler is called with the data, or with none; it may fail.
Handle(response) ==
    LET n == TlvLength(request.in.bytes, request.in.beyond, Types.DATA)
        data == IF n > 0 THEN ValueFromTlv(request.in.bytes, request.in.beyond, Types.DATA, n).val ELSE <<>>
    IN /\ Valid
       /\ \E i \in InfoOf(Ctx.cmd) : Ctx.role \in list[i].access
       /\ got' = data
       /\ IF response = Nothing THEN Respond(FAILED, <<>>) ELSE Respond(SUCCESS, response)
       /\ UNCHANGED <<list, request>>

\* The response was published.
Done ==
    /\ request.sent /\ output # <<>>
    /\ request' = Idle /\ output' = <<>> /\ got' = Nothing
    /\ UNCHANGED list

Next ==
    \/ \E c \in Cmds, a \in Accesses : CmdRegister(c, a)
    \/ \E c \in Cmds : CmdDeregister(c)
    \/ \E id \in ReqIds, role \in 0..2, c \in Cmds \cup {0}, d \in Datas, b \in Beyond :
         LET r == [id |-> id, role |-> role, cmd |-> c, data |-> d]
         IN \E cut \in 1..Len(RequestOf(r)) : Receive(r, cut, b)
    \/ RefuseInvalid
    \/ RefuseUnknown
    \/ RefuseAccess
    \/ \E s \in Responses \cup {Nothing} : Handle(s)
    \/ Done

Spec == Init /\ [][Next]_vars

(***************************************************************************)
(* Properties                                                              *)
(***************************************************************************)

\* What a parser of the response finds of one type.
Parsed(type) == ValueFromTlv(output, 0, type, Len(output)).val

Expected(r) ==
    IF r.id = <<>> \/ r.role = 0 \/ r.cmd = 0 THEN {CMD_INVALID}
    ELSE IF InfoOf(r.cmd) = {} THEN {NOT_FOUND}
    ELSE IF \E i \in InfoOf(r.cmd) : r.role \in list[i].access THEN {SUCCESS, FAILED}
    ELSE {AUTH_FAIL}

\* The longest answer whose headers are sure to have room next to the longest
\* identifier, the status and the command: 7395 bytes.
Longest == ChunkMax * ((Slack - (REQ_ID_LEN + 1 + 2 + 3 + 4)) \div 2)
Fits == Len(output) <= Len(Parsed(Types.DATA)) + Slack

\* Whoever asked finds in the response the identifier and the command of the
\* request, the status the registered commands and the roles call for, and,
\* in the order in which it was given, all the data; and the handler got all
\* the data of the request, however many TLVs either took, if they fit.
AnswersTheRequest ==
    request.sent /\ request.whole /\ output # <<>> /\ Fits /\ Len(request.wanted.id) < REQ_ID_LEN =>
        /\ Parsed(Types.REQ_ID) = request.wanted.id
        /\ Parsed(Types.CMD) = PutU16(request.wanted.cmd)
        /\ Parsed(Types.STATUS)[1] \in Expected(request.wanted)
        /\ got # Nothing => got = request.wanted.data
        /\ Parsed(Types.DATA) # <<>> => Parsed(Types.DATA) \in Responses /\ got # Nothing

\* A request that was cut off never runs another command than the one that
\* was asked for, nor for another user, nor with data that was not sent.
CutRunsNothingElse ==
    request.sent /\ got # Nothing =>
        /\ Ctx.cmd = request.wanted.cmd /\ Ctx.role = request.wanted.role
        /\ IsPrefix(got, request.wanted.data)

\* No response outgrows its buffer, with an answer up to that length; a longer one
\* may, because the room is checked for one header only (cmd_resp.c:146).
ResponseFits ==
    output # <<>> /\ Len(Parsed(Types.DATA)) <= Longest => Fits

\* The identifier is echoed up to the 32 characters the header file allows;
\* not so with all of them.
LongestIdIsEchoed ==
    request.sent /\ request.whole /\ output # <<>> => Parsed(Types.REQ_ID) = request.wanted.id

=============================================================================
