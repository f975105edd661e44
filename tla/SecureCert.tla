----------------------------- MODULE SecureCert -----------------------------
(***************************************************************************)
(* esp_secure_cert_tlv_read.c: a partition of type-length-value entries,   *)
(* the search for one of them, the iterator over all of them, and the      *)
(* buffers that are allocated when an entry is encrypted or its key is     *)
(* derived.  The entries follow each other, each padded to a multiple of   *)
(* Align and closed by a checksum; what follows the last has no magic.     *)
(***************************************************************************)
EXTENDS Integers, Sequences, SequencesExt

CONSTANTS
    Entries,           \* entries that may be in the partition:
                       \* [type, sub, len, flags, crc]
    Width,             \* tlv_offset is a number below Width (2^16 in the code)
    Align,             \* MIN_ALIGNMENT_REQUIRED
    HeaderLen, FooterLen,
    MaxEntries,        \* bound on the entries of the partition
    MaxBuffers         \* bound on the buffers handed out

SecureCertAssumption ==
    /\ {Width, Align} \subseteq Nat \ {0}
    /\ \A e \in Entries : e.len \in Nat
    /\ \A e \in Entries : (MaxEntries + 1) * (HeaderLen + FooterLen + e.len + Align) < Width

VARIABLES
    part,       \* the entries of the partition, in order
    found,      \* the result of the last search: [ok, at], at an offset
    asked,      \* what it was asked for: <<type, sub>>, or <<>>
    iter,       \* the iterator: an offset, or NoEntry
    visited,    \* ghost: the offsets the iterator went through
    buffers     \* the buffers allocated: "live", "free" or "twice" (freed twice)

vars == <<part, found, asked, iter, visited, buffers>>

NoEntry == -1
SubtypeMax == 254
End == "end"

(***************************************************************************)
(* The layout.                                                             *)
(***************************************************************************)

\* esp_secure_cert_get_padding_length.
Padding(len) == (Align - (len % Align)) % Align

TotalLength(e) == HeaderLen + e.len + Padding(e.len) + FooterLen

\* Where the k-th entry was written to.
RECURSIVE Placed(_)
Placed(k) ==
    IF k = 1 THEN 0
    ELSE Placed(k - 1) + HeaderLen + part[k - 1].len + FooterLen
           + ((Align - (part[k - 1].len % Align)) % Align)

\* The entry whose magic is at an offset, as a set.
EntriesAt(at) == {k \in DOMAIN part : Placed(k) = at}
HasMagic(at) == EntriesAt(at) # {}
EntryAt(at) == part[CHOOSE k \in EntriesAt(at) : TRUE]

\* esp_secure_cert_verify_tlv_integrity.
Verified(at) == HasMagic(at) /\ EntryAt(at).crc
NextOffset(at) == (at + TotalLength(EntryAt(at))) % Width

Result(ok, at) == [ok |-> ok, at |-> at]

\* esp_secure_cert_find_tlv, from the offset at.
RECURSIVE FindFrom(_, _, _, _)
FindFrom(at, type, sub, latest) ==
    IF ~HasMagic(at)
      THEN IF latest # NoEntry THEN Result(Verified(latest), latest)
           ELSE Result(type = End, IF type = End THEN at ELSE NoEntry)
      ELSE IF EntryAt(at).type = type /\ sub = SubtypeMax
        THEN FindFrom(NextOffset(at), type, sub, at)
      ELSE IF EntryAt(at).type = type /\ EntryAt(at).sub = sub
        THEN Result(Verified(at), at)
      ELSE FindFrom(NextOffset(at), type, sub, latest)

FindTlv(type, sub) == FindFrom(0, type, sub, NoEntry)

(***************************************************************************)
(* The operations.                                                         *)
(***************************************************************************)

\* esp_secure_cert_tlv_get_header.
Find(type, sub) ==
    /\ found' = FindTlv(type, sub) /\ asked' = <<type, sub>>
    /\ UNCHANGED <<part, iter, visited, buffers>>

\* esp_secure_cert_tlv_get_addr of an entry that was found: plain data stay in
\* the flash; the others need a buffer, which is given back when the
\* decryption or the derivation of the key fails.  When the conversion of the
\* derived key fails, both it and its caller give the buffer back.
GetAddr ==
    /\ found.ok /\ HasMagic(found.at) /\ Len(buffers) < MaxBuffers
    /\ LET flags == EntryAt(found.at).flags
       IN \/ flags = "plain" /\ UNCHANGED buffers
          \/ flags # "plain" /\ buffers' \in {buffers, Append(buffers, "live"), Append(buffers, "free")}
          \/ flags = "derived" /\ buffers' = Append(buffers, "twice")
    /\ UNCHANGED <<part, found, asked, iter, visited>>

\* esp_secure_cert_free_tlv_info, esp_secure_cert_free_priv_key: a pointer into
\* the flash is left alone.
FreeTlvInfo(k) ==
    /\ k \in DOMAIN buffers /\ buffers[k] = "live"
    /\ buffers' = [buffers EXCEPT ![k] = "free"]
    /\ UNCHANGED <<part, found, asked, iter, visited>>

\* esp_secure_cert_iterate_to_next_tlv.
IterateToNextTlv ==
    LET next == IF iter = NoEntry THEN 0 ELSE NextOffset(iter)
    IN /\ iter # NoEntry => Verified(iter)
       /\ Verified(next)
       /\ iter' = next /\ visited' = Append(visited, next)
       /\ UNCHANGED <<part, found, asked, buffers>>

\* Its caller, esp_secure_cert_list_tlv_entries, asks for the entry by its
\* type and subtype.
ListEntry ==
    /\ iter # NoEntry
    /\ Find(EntryAt(iter).type, EntryAt(iter).sub)

\* The partition is written before the device is first used.
WriteEntry(e) ==
    /\ asked = <<>> /\ iter = NoEntry /\ Len(part) < MaxEntries
    /\ part' = Append(part, e)
    /\ UNCHANGED <<found, asked, iter, visited, buffers>>

Init ==
    /\ part = <<>> /\ found = Result(FALSE, NoEntry) /\ asked = <<>>
    /\ iter = NoEntry /\ visited = <<>>
    /\ buffers = <<>>

Next ==
    \/ \E e \in Entries : WriteEntry(e)
    \/ \E t \in {e.type : e \in Entries} \cup {End}, s \in {e.sub : e \in Entries} \cup {SubtypeMax} :
          Find(t, s)
    \/ GetAddr
    \/ \E k \in 1..MaxBuffers : FreeTlvInfo(k)
    \/ IterateToNextTlv
    \/ ListEntry

Spec == Init /\ [][Next]_vars

(***************************************************************************)
(* Properties                                                              *)
(***************************************************************************)

\* esp_secure_cert_find_tlv: the first entry of that type and subtype, or the
\* last one of the type when the subtype is SUBTYPE_MAX, whatever the order of
\* the entries and their lengths; it is refused when its checksum is wrong,
\* even if another entry would do.  The end is where the next entry goes.
FindsTheEntry ==
    asked # <<>> =>
      LET fits == {k \in DOMAIN part : part[k].type = asked[1]
                                         /\ asked[2] \in {part[k].sub, SubtypeMax}}
          k == IF asked[2] = SubtypeMax THEN CHOOSE i \in fits : \A j \in fits : i >= j
               ELSE CHOOSE i \in fits : \A j \in fits : i <= j
      IN IF asked[1] = End THEN found = Result(TRUE, Placed(Len(part) + 1))
         ELSE IF fits = {} THEN ~found.ok
         ELSE found = Result(part[k].crc, Placed(k))

\* esp_secure_cert_iterate_to_next_tlv: the entries up to the first whose
\* checksum is wrong, in order, none of them left out.
IteratesInOrder == \A k \in DOMAIN visited : visited[k] = Placed(k) /\ part[k].crc

=============================================================================
