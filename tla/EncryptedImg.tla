---------------------------- MODULE EncryptedImg ----------------------------
(***************************************************************************)
(* Decrypting a pre-encrypted firmware image (esp_encrypted_img.c).  The   *)
(* image comes in chunks of any length, cut anywhere: each call takes one  *)
(* chunk through as many states of the header as it holds, keeps what is   *)
(* not yet a whole field or cipher block, and hands back what it could     *)
(* decrypt.                                                                *)
(*                                                                         *)
(* A byte of the image is its position, so that a byte that is lost,       *)
(* repeated or swapped shows.  The ciphers are external: deciphering the   *)
(* key works unless the image was made for another one, and decrypting     *)
(* byte b gives byte b, in the order in which the cipher was fed.          *)
(***************************************************************************)
EXTENDS Integers, Sequences

CONSTANTS
    MAGIC_SIZE, ENC_GCM_KEY_SIZE, IV_SIZE, BIN_SIZE_DATA, AUTH_SIZE,
    RESERVED_HEADER,  \* lengths of the fields of the header
    BLOCK,            \* length of a cipher block (16)
    BinLens,          \* lengths of the encrypted binary
    Surplus,          \* bytes that may follow it
    MaxChunk          \* bound on the length of a chunk

EncryptedImgAssumption ==
    /\ {MAGIC_SIZE, ENC_GCM_KEY_SIZE, IV_SIZE, BIN_SIZE_DATA, AUTH_SIZE,
        RESERVED_HEADER, BLOCK, MaxChunk} \subseteq Nat \ {0}
    /\ BinLens \cup Surplus \subseteq Nat
    /\ MAGIC_SIZE <= ENC_GCM_KEY_SIZE /\ BIN_SIZE_DATA <= BLOCK

VARIABLES
    image,     \* what arrives: [len, surplus, spoiled]
    taken,     \* bytes of it that were given to decrypt_data
    handle,    \* the decryption handle
    out,       \* what the caller was given in data_out, all calls together
    fed,       \* what the GCM context was fed
    ret,       \* what the last call returned
    end        \* what decrypt_end or decrypt_abort returned, "none" before

vars == <<image, taken, handle, out, fed, ret, end>>

Smaller(a, b) == IF a < b THEN a ELSE b

\* The bytes n, n + 1, ... of the image, k of them.
Bytes(n, k) == [i \in 1..k |-> n + i - 1]

KeyAt == MAGIC_SIZE
IvAt == KeyAt + ENC_GCM_KEY_SIZE
LenAt == IvAt + IV_SIZE
AuthAt == LenAt + BIN_SIZE_DATA
ExtraAt == AuthAt + AUTH_SIZE
BinAt == ExtraAt + RESERVED_HEADER
Binary == Bytes(BinAt, image.len)

\* What a field's bytes mean: the length of the binary if they are the bytes
\* of that field.
LengthIn(bytes) == IF bytes = Bytes(LenAt, BIN_SIZE_DATA) THEN image.len ELSE -1
MagicIn(bytes) == bytes = Bytes(0, MAGIC_SIZE) /\ image.spoiled # "magic"
KeyIn(bytes) == bytes = Bytes(KeyAt, ENC_GCM_KEY_SIZE) /\ image.spoiled # "key"

\* memcpy of bytes to a buffer at offset at.
Copy(to, at, bytes) == SubSeq(to, 1, at) \o bytes \o SubSeq(to, at + Len(bytes) + 1, Len(to))

(***************************************************************************)
(* One call.  A call is a record of the handle h, the chunk's data, how    *)
(* much of it is used up (cur), and what it returns; a stage that finds    *)
(* the chunk too short returns, and the others fall through to the next.   *)
(***************************************************************************)

Rest(c) == SubSeq(c.data, c.cur + 1, Len(c.data))
Return(c, r) == [c EXCEPT !.ret = r]
Enter(c, s) == [c EXCEPT !.h.state = s, !.h.read = 0, !.h.cached = 0]

\* The field is in the chunk as a whole and nothing of it came before.
Whole(c, size) == c.h.cached = 0 /\ Len(c.data) - c.cur >= size
Skip(c, size) == [c EXCEPT !.cur = @ + size]

ReadAndCache(c, size, to) ==
    LET n == Smaller(Len(c.data) - c.cur, size - c.h.read) IN
    [c EXCEPT !.h[to] = Copy(@, c.h.cached, SubSeq(Rest(c), 1, n)),
              !.h.cached = @ + n, !.cur = @ + n, !.h.read = @ + n]

MagicRead(c, bytes) ==
    IF MagicIn(bytes) THEN [c EXCEPT !.h.state = "GCM"] ELSE Return([c EXCEPT !.h.pem = FALSE], "fail")

ReadMagic(c) ==
    IF Whole(c, MAGIC_SIZE) THEN MagicRead(Skip(c, MAGIC_SIZE), SubSeq(Rest(c), 1, MAGIC_SIZE))
    ELSE LET d == ReadAndCache(c, MAGIC_SIZE, "cache") IN
         IF d.h.read # MAGIC_SIZE THEN Return(d, "not_finished")
         ELSE MagicRead(Enter(d, "MAGIC"), SubSeq(d.h.cache, 1, MAGIC_SIZE))

\* decipher_gcm_key: the private key is given up, whatever comes of it.
DecipherGcmKey(c, bytes) ==
    LET d == [c EXCEPT !.h.pem = FALSE] IN
    IF c.h.pem /\ KeyIn(bytes) THEN [Enter(d, "IV") EXCEPT !.h.cache = <<>>]
    ELSE Return(d, "fail")

ReadGcm(c) ==
    IF Whole(c, ENC_GCM_KEY_SIZE)
      THEN DecipherGcmKey(Skip(c, ENC_GCM_KEY_SIZE), SubSeq(Rest(c), 1, ENC_GCM_KEY_SIZE))
      ELSE LET d == ReadAndCache(c, ENC_GCM_KEY_SIZE, "cache") IN
           IF d.h.cached # ENC_GCM_KEY_SIZE THEN Return(d, "not_finished")
           ELSE DecipherGcmKey(d, SubSeq(d.h.cache, 1, ENC_GCM_KEY_SIZE))

\* The vector and the tag go to buffers of their own.
ReadField(c, size, to, next) ==
    LET d == IF Whole(c, size)
               THEN [Skip(c, size) EXCEPT !.h[to] = SubSeq(Rest(c), 1, size), !.h.read = size]
               ELSE ReadAndCache(c, size, to)
    IN IF d.h.read = size THEN Enter(d, next) ELSE Return(d, "not_finished")

ReadIv(c) == ReadField(c, IV_SIZE, "iv", "BINSIZE")
ReadAuth(c) == ReadField(c, AUTH_SIZE, "auth", "EXTRA")

ReadBinSize(c) ==
    IF Whole(c, BIN_SIZE_DATA)
      THEN Enter([Skip(c, BIN_SIZE_DATA) EXCEPT
                    !.h.len = LengthIn(SubSeq(Rest(c), 1, BIN_SIZE_DATA))], "AUTH")
      ELSE LET d == ReadAndCache(c, BIN_SIZE_DATA, "cache") IN
           IF d.h.read # BIN_SIZE_DATA THEN Return(d, "not_finished")
           ELSE Enter([d EXCEPT !.h.len = LengthIn(SubSeq(d.h.cache, 1, BIN_SIZE_DATA))], "AUTH")

ReadExtraHeader(c) ==
    LET n == Smaller(Len(c.data) - c.cur, RESERVED_HEADER - c.h.read)
        d == [c EXCEPT !.cur = @ + n, !.h.read = @ + n]
    IN IF d.h.read = RESERVED_HEADER THEN Enter(d, "DECODE") ELSE Return(d, "not_finished")

\* mbedtls_gcm_update of bytes, with the result at offset at of data_out.
Update(c, bytes, at) == [c EXCEPT !.gcm = @ \o bytes, !.out = Copy(@, at, bytes)]

\* process_bin, when the binary does not end in this chunk: what was kept is
\* made a block first, and what is left over at the end is kept.
ProcessMiddle(c) ==
    LET new == Rest(c)
        copied == IF c.h.cached = 0 THEN 0 ELSE Smaller(BLOCK - c.h.cached, Len(new))
        filled == IF copied = 0 THEN c
                  ELSE [c EXCEPT !.h.cache = Copy(@, c.h.cached, SubSeq(new, 1, copied)),
                                 !.h.cached = @ + copied]
        first == IF c.h.cached = 0 THEN filled ELSE Update(filled, SubSeq(filled.h.cache, 1, BLOCK), 0)
        kept == (Len(new) - copied) % BLOCK
        middle == SubSeq(new, copied + 1, Len(new) - kept)
        second == IF middle = <<>> THEN first
                  ELSE Update(first, middle, IF c.h.cached = 0 THEN 0 ELSE BLOCK)
    IN IF c.h.cached # 0 /\ filled.h.cached # BLOCK THEN Return(filled, "not_finished")
       ELSE Return([second EXCEPT !.h.cached = kept,
                      !.h.cache = Copy(@, 0, SubSeq(new, Len(new) - kept + 1, Len(new)))],
                   "not_finished")

\* process_bin, with the last chunk.
ProcessLast(c) ==
    LET new == Rest(c)
        copied == Smaller(BLOCK - c.h.cached, Len(new))
        filled == Copy(c.h.cache, c.h.cached, SubSeq(new, 1, copied))
        first == Update(c, SubSeq(filled, 1, c.h.cached + copied), 0)
        second == IF Len(new) = copied THEN first
                  ELSE Update(first, SubSeq(new, copied + 1, Len(new)), BLOCK)
    IN Return([second EXCEPT !.h.cached = 0, !.h.cache = filled], "ok")

ProcessBin(c) ==
    LET d == [c EXCEPT !.h.read = @ + Len(c.data) - c.cur]
    IN IF d.h.read # d.h.len THEN ProcessMiddle(d) ELSE ProcessLast(d)

\* The switch of esp_encrypted_img_decrypt_data, falling through.
Stage(c, s, done) == IF c.ret = "" /\ c.h.state = s THEN done ELSE c
Decrypted(c0) ==
    LET c1 == Stage(c0, "MAGIC", ReadMagic(c0))
        c2 == Stage(c1, "GCM", ReadGcm(c1))
        c3 == Stage(c2, "IV", ReadIv(c2))
        c4 == Stage(c3, "BINSIZE", ReadBinSize(c3))
        c5 == Stage(c4, "AUTH", ReadAuth(c4))
        c6 == Stage(c5, "EXTRA", ReadExtraHeader(c5))
    IN Stage(c6, "DECODE", ProcessBin(c6))

(***************************************************************************)
(* The caller.                                                             *)
(***************************************************************************)

NewHandle ==
    [state |-> "MAGIC", cached |-> 0, cache |-> <<>>, read |-> 0, len |-> 0,
     iv |-> <<>>, auth |-> <<>>, pem |-> TRUE]

Init ==
    /\ image \in [len : BinLens, surplus : Surplus, spoiled : {"no", "magic", "key", "tag"}]
    /\ taken = 0 /\ handle = NewHandle /\ out = <<>> /\ fed = <<>>
    /\ ret = "not_finished" /\ end = "none"

\* One chunk, as long as decrypt_data asks for more.
DecryptData(n) ==
    LET c == Decrypted([h |-> handle, data |-> Bytes(taken, n), cur |-> 0, ret |-> "",
                        out |-> <<>>, gcm |-> fed])
    IN /\ end = "none" /\ ret = "not_finished"
       /\ taken + n <= BinAt + image.len + image.surplus
       /\ taken' = taken + n /\ handle' = c.h /\ ret' = c.ret
       /\ out' = out \o c.out /\ fed' = c.gcm
       /\ UNCHANGED <<image, end>>

TagMatches ==
    fed = Binary /\ handle.iv = Bytes(IvAt, IV_SIZE) /\ handle.auth = Bytes(AuthAt, AUTH_SIZE)
      /\ image.spoiled # "tag"

\* decrypt_end looks at the tag only once the header is complete.
DecryptEnd ==
    /\ end = "none"
    /\ end' = IF /\ handle.state = "DECODE"
                 /\ handle.cached # 0 \/ handle.read # handle.len \/ ~TagMatches
                THEN "fail" ELSE "ok"
    /\ UNCHANGED <<image, taken, handle, out, fed, ret>>

DecryptAbort ==
    /\ end = "none" /\ end' = "aborted"
    /\ UNCHANGED <<image, taken, handle, out, fed, ret>>

IsCompleteDataReceived == handle.len = handle.read

Next ==
    \/ \E n \in 0..MaxChunk : DecryptData(n)
    \/ DecryptEnd
    \/ DecryptAbort

Spec == Init /\ [][Next]_vars

(***************************************************************************)
(* Properties                                                              *)
(***************************************************************************)

\* Where the image was cut does not matter: what the caller has and what the
\* handle keeps are together the bytes of the binary that arrived, in order;
\* the cipher was fed exactly what the caller has, in whole blocks until the
\* last chunk; the header's fields are the image's; and the last byte of a good
\* image ends it.
CutsDoNotMatter ==
    LET arrived == taken - BinAt IN
    /\ fed = out
    /\ handle.state = "DECODE" /\ arrived <= image.len =>
         /\ out \o SubSeq(handle.cache, 1, handle.cached) = Bytes(BinAt, arrived)
         /\ handle.iv = Bytes(IvAt, IV_SIZE) /\ handle.auth = Bytes(AuthAt, AUTH_SIZE)
         /\ handle.len = image.len
    /\ ret # "ok" => Len(fed) % BLOCK = 0
    /\ ret = "ok" => out = Binary
    /\ ret = "fail" => image.spoiled \in {"magic", "key"}
    /\ arrived = image.len => ret \in {"ok", "fail"}

\* decrypt_end accepts an image whose header it has read only if all of the
\* binary, and nothing else, was handed to the caller and the tag is right.
EndAcceptsOnlyWhole ==
    end = "ok" /\ handle.state = "DECODE" =>
        out = Binary /\ taken = BinAt + image.len /\ image.spoiled = "no"

\* What the header file says of decrypt_end and of
\* esp_encrypted_img_is_complete_data_received; not so while the header is
\* still incomplete.
EndRefusesIncomplete == end = "ok" => taken >= BinAt + image.len
CompleteMeansComplete == IsCompleteDataReceived => taken >= BinAt + image.len

=============================================================================
