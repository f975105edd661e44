------------------------------ MODULE RtcStore ------------------------------
(***************************************************************************)
(* The diagnostics data store in RTC memory (rtc_store.c): one of its two  *)
(* ring buffers, which survives soft resets, the meta headers of the boots *)
(* the records come from, and its client esp_insights, which reads a       *)
(* batch, sends it and releases it when it is acknowledged.                *)
(*                                                                         *)
(* A record is a byte with the index of the meta header, then (in the      *)
(* buffer of non critical data) a header, then the data; records have one  *)
(* size here.  Writers and the reader exclude each other by the buffer's   *)
(* mutex; a reset can come between any two stores.                         *)
(***************************************************************************)
EXTENDS Integers, Sequences, SequencesExt

CONSTANTS
  HdrLen,      \* bytes of the header: 0 for critical data
  DataLen,     \* bytes of the data
  Size,        \* DIAG_CRITICAL_BUF_SIZE or DIAG_NON_CRITICAL_BUF_SIZE
  ReadSize,    \* INSIGHTS_READ_BUF_SIZE
  MaxMeta,     \* RTC_STORE_MAX_META_RECORDS
  Payloads,    \* contents of log records
  MaxBoots     \* bound on the number of boots

RecLen == 1 + HdrLen + DataLen

StoreAssumption ==
  /\ {HdrLen, Size, ReadSize, MaxBoots} \subseteq Nat /\ DataLen \in Nat \ {0}
  /\ Size >= RecLen /\ ReadSize >= RecLen
  /\ MaxMeta \in 1 .. 255

VARIABLES
  \* RTC memory, kept over soft resets
  buf, read_offset, filled, meta_hdr_idx, meta,
  \* RAM: is the store initialised; the critical write in progress
  init, pc, record,
  batch,       \* the bytes the client has read and not yet released
  boots        \* history: number of the current boot

vars == <<buf, read_offset, filled, meta_hdr_idx, meta, init, pc, record, batch, boots>>

\* A byte: the index of a meta header, or a byte of the log written in a boot.
MetaByte(idx) == <<idx>>
RecordOf(idx, data, boot) ==
  <<MetaByte(idx)>> \o [k \in 1 .. RecLen - 1 |-> <<data, k, boot>>]

\* data_store_get_free, data_store_get_free_at_end
Free == Size - filled
FreeAtEnd == IF read_offset + filled < Size THEN Size - (filled + read_offset) ELSE 0

\* The unread bytes, oldest first: rtc_store_data_read_unsafe copies the part up
\* to the end of the buffer and then the part from its start.
Unread(n) ==
  LET size == IF filled < n THEN filled ELSE n
      at_end == Size - read_offset
  IN  [k \in 1 .. size |-> IF k <= at_end THEN buf[read_offset + k - 1] ELSE buf[k - at_end - 1]]

\* memcpy
Copy(b, at, bytes) == [i \in 0 .. Size - 1 |-> IF i - at + 1 \in 1 .. Len(bytes) THEN bytes[i - at + 1] ELSE b[i]]

\* Mutant of WriteAtOffset: the part that goes beyond the end is not wrapped.
WriteUnwrapped(bytes, offset) ==
  Copy(buf, ((filled + read_offset) % Size) + offset, bytes)

\* rtc_store_write_at_offset
WriteAtOffset(bytes, offset) ==
  LET sum == filled + read_offset
      write_offset == IF sum >= Size THEN sum - Size ELSE sum
      head == FreeAtEnd - offset
  IN  CASE FreeAtEnd > 0 /\ FreeAtEnd < offset -> Copy(buf, offset - FreeAtEnd, bytes)
        [] FreeAtEnd > 0 /\ FreeAtEnd >= offset /\ FreeAtEnd < offset + Len(bytes) ->
             Copy(Copy(buf, write_offset + offset, SubSeq(bytes, 1, head)),
                  0, SubSeq(bytes, head + 1, Len(bytes)))
        [] OTHER -> Copy(buf, write_offset + offset, bytes)

-----------------------------------------------------------------------------
Init ==
  /\ buf = [i \in 0 .. Size - 1 |-> MetaByte(0)]
  /\ read_offset = 0 /\ filled = 0 /\ meta_hdr_idx = 0 /\ meta = [i \in 0 .. MaxMeta - 1 |-> 0]
  /\ init = FALSE /\ pc = "idle" /\ record = <<>> /\ batch = <<>> /\ boots = 0

\* Mutant of DataWrite: the byte of the meta index is not counted.
DataWriteNoMeta(data) ==
  /\ init /\ pc = "idle"
  /\ Free >= RecLen - 1
  /\ record' = RecordOf(meta_hdr_idx, data, boots)
  /\ buf' = WriteAtOffset(<<record'[1]>>, 0)
  /\ pc' = IF HdrLen = 0 THEN "data" ELSE "header"
  /\ UNCHANGED <<read_offset, filled, meta_hdr_idx, meta, init, batch, boots>>

\* rtc_store_critical_data_write, rtc_store_non_critical_data_write: a record that
\* does not fit is refused; the meta index is written first.
DataWrite(data) ==
  /\ init /\ pc = "idle"
  /\ Free >= RecLen
  /\ record' = RecordOf(meta_hdr_idx, data, boots)
  /\ buf' = WriteAtOffset(<<record'[1]>>, 0)
  /\ pc' = IF HdrLen = 0 THEN "data" ELSE "header"
  /\ UNCHANGED <<read_offset, filled, meta_hdr_idx, meta, init, batch, boots>>

WriteHeader ==
  /\ pc = "header"
  /\ buf' = WriteAtOffset(SubSeq(record, 2, 1 + HdrLen), 1)
  /\ pc' = "data"
  /\ UNCHANGED <<read_offset, filled, meta_hdr_idx, meta, init, record, batch, boots>>

WriteData ==
  /\ pc = "data"
  /\ buf' = WriteAtOffset(SubSeq(record, 2 + HdrLen, RecLen), 1 + HdrLen)
  /\ pc' = "complete"
  /\ UNCHANGED <<read_offset, filled, meta_hdr_idx, meta, init, record, batch, boots>>

\* rtc_store_write_complete, and the mutex is given back.
WriteComplete ==
  /\ pc = "complete"
  /\ filled' = filled + RecLen
  /\ pc' = "idle" /\ record' = <<>>
  /\ UNCHANGED <<buf, read_offset, meta_hdr_idx, meta, init, batch, boots>>

\* encode_log_list: whole records of the boot of the first one.
Encoded(bytes) ==
  LET Same(k) == bytes[(k - 1) * RecLen + 1] = bytes[1]
      n == CHOOSE m \in 0 .. Len(bytes) \div RecLen :
             /\ \A k \in 1 .. m : Same(k)
             /\ m = Len(bytes) \div RecLen \/ ~Same(m + 1)
  IN  SubSeq(bytes, 1, n * RecLen)

\* rtc_store_data_read_unsafe for send_insights_data; an unacknowledged batch
\* is simply read again.
ReadBatch ==
  /\ init /\ pc = "idle" /\ filled > 0
  /\ batch' = Encoded(Unread(ReadSize))
  /\ UNCHANGED <<buf, read_offset, filled, meta_hdr_idx, meta, init, pc, record, boots>>

\* rtc_store_read_complete: one 32-bit store.  The offset may become Size.
ReadComplete(len) ==
  /\ filled' = filled - len
  /\ read_offset' = IF read_offset + len > Size THEN read_offset + len - Size
                    ELSE read_offset + len

\* rtc_store_data_release
Release ==
  /\ init /\ pc = "idle" /\ batch # <<>>
  /\ IF filled < Len(batch) THEN UNCHANGED <<filled, read_offset>> ELSE ReadComplete(Len(batch))
  /\ batch' = <<>>
  /\ UNCHANGED <<buf, meta_hdr_idx, meta, init, pc, record, boots>>

\* A reset, soft or not: RAM is lost.  After a power-on reset RTC memory is too.
Reset ==
  /\ init' = FALSE /\ pc' = "idle" /\ record' = <<>> /\ batch' = <<>>
  /\ UNCHANGED <<buf, read_offset, filled, meta_hdr_idx, meta, boots>>

\* rtc_store_rbuf_init: stale data is discarded after a power-on reset, and when
\* the bounds do not fit the buffer.
Keep(powerOn) == ~powerOn /\ filled <= Size /\ read_offset <= Size

\* rtc_store_init with rtc_store_meta_hdr_init; then esp_insights_enable discards
\* the data if the build has changed.
InitStore(powerOn, changed) ==
  /\ ~init /\ boots < MaxBoots
  /\ init' = TRUE /\ boots' = boots + 1
  /\ IF Keep(powerOn) /\ ~changed THEN UNCHANGED <<read_offset, filled>>
                                  ELSE read_offset' = 0 /\ filled' = 0
  /\ meta_hdr_idx' = ((IF powerOn THEN 255 ELSE meta_hdr_idx) + 1) % MaxMeta
  /\ meta' = [meta EXCEPT ![meta_hdr_idx'] = boots']
  /\ UNCHANGED <<buf, pc, record, batch>>

Next ==
  \/ \E data \in Payloads : DataWrite(data)
  \/ WriteHeader \/ WriteData \/ WriteComplete \/ ReadBatch \/ Release \/ Reset
  \/ \E powerOn, changed \in BOOLEAN : InitStore(powerOn, changed)

Spec == Init /\ [][Next]_vars

-----------------------------------------------------------------------------
\* The unread records.
Records == LET bytes == Unread(Size)
           IN  [j \in 1 .. filled \div RecLen |-> SubSeq(bytes, (j - 1) * RecLen + 1, j * RecLen)]

\* The records there can be, and how many the buffer holds.
Record == {RecordOf(i, d, b) : i \in 0 .. MaxMeta - 1, d \in Payloads, b \in 1 .. MaxBoots}
Capacity == Size \div RecLen

Queue == INSTANCE DiagQueue WITH queue <- Records

\* rtc_store.c implements a queue of whole records: whatever the offsets, the
\* splitting of a copy at the end of the buffer and the point of a reset, a record
\* becomes readable in one piece or not at all, and only the oldest are given up.
ImplementsQueue == Queue!Spec

\* rtc_store_integrity_check: soft resets never find bounds that would make the
\* store discard its data, so what was written before a crash is still there.
BoundsFit == filled <= Size /\ read_offset <= Size /\ filled % RecLen = 0

\* rtc_store_critical_data_release after rtc_store_critical_data_read: what a batch
\* releases are the very bytes it sent, whatever was written in the meantime.
ReleasesWhatWasSent == batch # <<>> => batch = Unread(Len(batch))

\* "each data record must have an identifier to point a meta" (rtc_store.c): the
\* header a batch points to is the one of the boot that wrote it.
BatchPointsToItsBoot == batch # <<>> => meta[batch[1][1]] = batch[2][3]

-----------------------------------------------------------------------------
(* Inductive strengthening of the properties above.                        *)

\* Where the byte is that is q bytes behind the oldest one; the n oldest bytes.
Place(q) == IF read_offset + q < Size THEN read_offset + q ELSE read_offset + q - Size
At(q) == buf[Place(q)]
Oldest(n) == [k \in 1 .. n |-> At(k - 1)]

StoreType ==
  /\ DOMAIN buf = 0 .. Size - 1 /\ read_offset \in 0 .. Size /\ filled \in 0 .. Size
  /\ filled % RecLen = 0
  /\ meta_hdr_idx \in 0 .. MaxMeta - 1 /\ boots \in 0 .. MaxBoots
  /\ init \in BOOLEAN /\ (init => boots > 0)
  /\ pc \in {"idle", "header", "data", "complete"}

\* What of the record in progress is in the buffer, behind the unread bytes; a
\* record is only begun when all of it fits.
Written == CASE pc = "header" -> 1 [] pc = "data" -> 1 + HdrLen [] OTHER -> RecLen
RecordIsBehind ==
  pc # "idle" =>
    /\ init /\ filled + RecLen <= Size /\ record \in Record
    /\ \A k \in 1 .. Written : At(filled + k - 1) = record[k]

BatchIsOldest ==
  \E n \in 0 .. filled : n % RecLen = 0 /\ batch = Oldest(n) /\ (n > 0 => init)

StoreInv == StoreType /\ RecordIsBehind /\ BatchIsOldest
=============================================================================
