--------------------------- MODULE RtcStoreProofs ---------------------------
(***************************************************************************)
(* The theorems of RtcStore, for every size of the buffer and its records. *)
(* The bytes of the buffer are addressed by their place behind the oldest, *)
(* so that the wrap at the end of the buffer is met in one lemma only.     *)
(***************************************************************************)
EXTENDS RtcStore, WellFoundedInduction, TLAPS

\* The constants are what their names say.
LEMMA RecLenNat ==
  ASSUME StoreAssumption
  PROVE  /\ RecLen \in Nat /\ RecLen >= 2 + HdrLen
         /\ HdrLen \in Nat /\ DataLen \in Nat \ {0} /\ Size \in Nat /\ ReadSize \in Nat
         /\ Size >= RecLen /\ ReadSize >= RecLen
BY DEF StoreAssumption, RecLen

\* A multiple has a quotient.
LEMMA Multiples ==
  ASSUME NEW L \in Nat \ {0}
  PROVE  /\ \A m, n \in Nat : m <= n => m * L <= n * L
         /\ \A m, n \in Nat : m < n => m * L + L <= n * L
         /\ \A n \in Nat : (n * L) \div L = n /\ (n * L) % L = 0
         /\ \A k \in Nat : k % L = 0 => \E n \in Nat : k = n * L /\ n = k \div L
         /\ \A k \in Nat : k \div L \in Nat /\ (k \div L) * L <= k
         /\ \A m, n \in Nat : (m + n) * L = m * L + n * L
         /\ \A m, n \in Nat : m * L <= n => m <= n \div L
OBVIOUS

\* RecordOf: a record is the byte of its meta header and RecLen - 1 bytes more.
LEMMA RecordShape ==
  ASSUME StoreAssumption, NEW r \in Record
  PROVE  /\ DOMAIN r = 1 .. RecLen /\ Len(r) = RecLen
         /\ r = [k \in 1 .. RecLen |-> r[k]]
         /\ r \in Seq({r[k] : k \in 1 .. RecLen})
<1>1. PICK i, d, b : r = RecordOf(i, d, b)
  BY DEF Record
<1> DEFINE rest == [k \in 1 .. RecLen - 1 |-> <<d, k, b>>]
           B == {<<i>>} \cup {<<d, k, b>> : k \in 1 .. RecLen - 1}
<1>2. <<MetaByte(i)>> \in Seq(B) /\ Len(<<MetaByte(i)>>) = 1
  BY DEF MetaByte
<1>3. rest \in Seq(B) /\ Len(rest) = RecLen - 1
  BY RecLenNat
<1>4. r = <<MetaByte(i)>> \o rest
  BY <1>1 DEF RecordOf
<1> HIDE DEF rest, B
<1>5. r \in Seq(B) /\ Len(r) = RecLen
  BY <1>2, <1>3, <1>4, RecLenNat
<1> QED BY <1>5, RecLenNat

\* bytes are at at in c, and all else in c is as in b.
Lands(b, c, at, bytes, n) ==
  /\ DOMAIN c = 0 .. Size - 1
  /\ \A k \in 1 .. n : c[at + k - 1] = bytes[k]
  /\ \A i \in 0 .. Size - 1 : i < at \/ i >= at + n => c[i] = b[i]

\* The same with the place of each byte.
LandsIn(b, c, place, bytes, n) ==
  /\ DOMAIN c = 0 .. Size - 1
  /\ \A k \in 1 .. n : c[place[k]] = bytes[k]
  /\ \A i \in 0 .. Size - 1 : (\A k \in 1 .. n : i # place[k]) => c[i] = b[i]

\* memcpy of bytes that fit.
LEMMA CopyFits ==
  ASSUME NEW b, DOMAIN b = 0 .. Size - 1, Size \in Nat, NEW T, NEW bytes \in Seq(T), NEW at \in Nat,
         at + Len(bytes) <= Size
  PROVE  Lands(b, Copy(b, at, bytes), at, bytes, Len(bytes))
BY DEF Copy, Lands

\* Bytes that land in place are read back as they were written.
LEMMA LandsInPlace ==
  ASSUME Size \in Nat, NEW b, NEW c, NEW n \in Nat, NEW at \in Nat, at + n <= Size, NEW bytes, NEW place,
         Lands(b, c, at, bytes, n), \A k \in 1 .. n : place[k] = at + k - 1
  PROVE  LandsIn(b, c, place, bytes, n)
<1>1. ASSUME NEW i \in 0 .. Size - 1, \A k \in 1 .. n : i # place[k]
      PROVE  c[i] = b[i]
  <2> SUFFICES ASSUME at <= i, i < at + n PROVE FALSE
    BY DEF Lands
  <2>1. i - at + 1 \in 1 .. n /\ i = at + (i - at + 1) - 1
    OBVIOUS
  <2> QED BY <1>1, <2>1
<1>2. \A k \in 1 .. n : c[place[k]] = bytes[k]
  BY DEF Lands
<1> QED BY <1>1, <1>2 DEF Lands, LandsIn

\* The two parts of bytes that are cut at the end of the buffer.
LEMMA Halves ==
  ASSUME NEW T, NEW bytes \in Seq(T), NEW head \in 0 .. Len(bytes)
  PROVE  /\ Len(SubSeq(bytes, 1, head)) = head
         /\ \A k \in 1 .. head : SubSeq(bytes, 1, head)[k] = bytes[k]
         /\ Len(SubSeq(bytes, head + 1, Len(bytes))) = Len(bytes) - head
         /\ \A k \in 1 .. Len(bytes) - head : SubSeq(bytes, head + 1, Len(bytes))[k] = bytes[head + k]
OBVIOUS

\* rtc_store_write_at_offset puts the bytes, wrapped at the end of the buffer,
\* behind the unread ones, and changes nothing else.
LEMMA WriteLands ==
  ASSUME StoreAssumption, StoreType, NEW T, NEW bytes \in Seq(T), NEW offset \in Nat,
         filled + offset + Len(bytes) <= Size, NEW c, c = WriteAtOffset(bytes, offset)
  PROVE  /\ DOMAIN c = 0 .. Size - 1
         /\ \A k \in 1 .. Len(bytes) : c[Place(filled + offset + k - 1)] = bytes[k]
         /\ \A q \in 0 .. filled + offset - 1 : c[Place(q)] = buf[Place(q)]
<1> DEFINE n == Len(bytes)
<1>1. PICK F, R, b : F \in Nat /\ R \in Nat /\ F = filled /\ R = read_offset /\ b = buf
  BY DEF StoreType
<1> F \in Nat /\ R \in Nat
  BY <1>1
<1>2. PICK free : free = FreeAtEnd
  OBVIOUS
<1> DEFINE sum == F + R
           start == IF sum >= Size THEN sum - Size ELSE sum
           at(q) == IF R + q < Size THEN R + q ELSE R + q - Size
           place == [k \in 1 .. n |-> at(F + offset + k - 1)]
<1>3. /\ n \in Nat /\ Size \in Nat /\ DOMAIN b = 0 .. Size - 1 /\ R <= Size
  BY RecLenNat, <1>1 DEF StoreType
<1>4. F + offset + n <= Size
  BY <1>1
<1>5. free = (IF sum < Size THEN Size - sum ELSE 0) /\ free \in Nat
  BY <1>1, <1>2, <1>3 DEF FreeAtEnd
<1>6. \A q \in Int : Place(q) = at(q)
  BY <1>1 DEF Place
<1>7. c = CASE free > 0 /\ free < offset -> Copy(b, offset - free, bytes)
            [] free > 0 /\ free >= offset /\ free < offset + n ->
                 Copy(Copy(b, start + offset, SubSeq(bytes, 1, free - offset)),
                      0, SubSeq(bytes, free - offset + 1, n))
            [] OTHER -> Copy(b, start + offset, bytes)
  BY <1>1, <1>2 DEF WriteAtOffset
<1> SUFFICES LandsIn(b, c, place, bytes, n)
  <2>1. \A q \in 0 .. F + offset - 1 : at(q) \in 0 .. Size - 1 /\ \A k \in 1 .. n : at(q) # place[k]
    BY <1>3, <1>4
  <2>2. \A k \in 1 .. n : place[k] = Place(F + offset + k - 1)
    BY <1>3, <1>6
  <2>3. \A q \in 0 .. F + offset - 1 : at(q) = Place(q)
    BY <1>1 DEF Place
  <2> HIDE DEF at, place
  <2>4. \A q \in 0 .. F + offset - 1 : c[at(q)] = b[at(q)]
    BY <2>1 DEF LandsIn
  <2> QED BY <1>1, <2>2, <2>3, <2>4 DEF LandsIn
<1> HIDE DEF place, start, n
<1>8. CASE free > 0 /\ free < offset
  <2>1. PICK x \in Nat : x = offset - free
    BY <1>5, <1>8
  <2>2. x + n <= Size /\ \A k \in 1 .. n : place[k] = x + k - 1
    BY <1>3, <1>4, <1>5, <1>8, <2>1 DEF place
  <2>3. c = Copy(b, x, bytes)
    BY <1>5, <1>7, <1>8, <2>1
  <2>4. Lands(b, c, x, bytes, n)
    BY <1>3, <2>2, <2>3, CopyFits DEF n
  <2> QED BY <1>3, <2>2, <2>4, LandsInPlace
<1>9. CASE free > 0 /\ free >= offset /\ free < offset + n
  <2>1. PICK head \in 0 .. n : head = free - offset
    BY <1>3, <1>5, <1>9
  <2>2. SubSeq(bytes, 1, head) \in Seq(T) /\ SubSeq(bytes, head + 1, n) \in Seq(T)
    BY <1>3, <2>1 DEF n
  <2>3. PICK one \in Seq(T), two \in Seq(T) :
          one = SubSeq(bytes, 1, head) /\ two = SubSeq(bytes, head + 1, n)
    BY <2>2
  <2>4. /\ Len(one) = head /\ Len(two) = n - head
        /\ \A k \in 1 .. head : one[k] = bytes[k]
        /\ \A k \in 1 .. n - head : two[k] = bytes[head + k]
    BY <2>1, <2>3, Halves DEF n
  <2>5. PICK x \in Nat : x = start + offset
    BY <1>3, <1>5, <1>9 DEF start
  <2>6. x + head = Size /\ n - head <= x
    BY <1>3, <1>4, <1>5, <1>9, <2>1, <2>5 DEF start
  <2>7. /\ \A k \in 1 .. n : k <= head => place[k] = x + k - 1
        /\ \A k \in 1 .. n : k > head => place[k] = k - head - 1
    BY <1>3, <1>4, <1>5, <1>9, <2>1, <2>5 DEF place, start
  <2>8. PICK mid : mid = Copy(b, x, one)
    OBVIOUS
  <2>9. c = Copy(mid, 0, two)
    BY <1>5, <1>7, <1>9, <2>1, <2>3, <2>5, <2>8
  <2>10. Lands(b, mid, x, one, head)
    BY <1>3, <2>4, <2>6, <2>8, CopyFits
  <2>11. Lands(mid, c, 0, two, n - head)
    <3>1. DOMAIN mid = 0 .. Size - 1 /\ 0 + Len(two) <= Size
      BY <1>3, <2>1, <2>4, <2>6, <2>10 DEF Lands
    <3> QED BY <1>3, <2>4, <2>9, <3>1, CopyFits
  <2>12. ASSUME NEW k \in 1 .. n PROVE c[place[k]] = bytes[k]
    <3>1. CASE k <= head
      <4>1. /\ k \in 1 .. head /\ place[k] = x + k - 1 /\ x + k - 1 \in 0 .. Size - 1
            /\ x + k - 1 >= 0 + (n - head)
        BY <1>3, <2>1, <2>6, <2>7, <3>1
      <4> QED BY <2>4, <2>10, <2>11, <4>1 DEF Lands
    <3>2. CASE k > head
      <4>1. PICK m \in 1 .. n - head : m = k - head
        BY <1>3, <2>1, <3>2
      <4>2. place[k] = k - head - 1
        BY <2>7, <3>2
      <4>3. k - head - 1 = 0 + m - 1 /\ head + m = k
        BY <1>3, <2>1, <4>1
      <4>4. c[0 + m - 1] = two[m]
        BY <2>11 DEF Lands
      <4> QED BY <2>4, <4>2, <4>3, <4>4
    <3> QED BY <1>3, <2>1, <3>1, <3>2
  <2>13. ASSUME NEW i \in 0 .. Size - 1, \A k \in 1 .. n : i # place[k]
         PROVE  c[i] = b[i]
    <3>1. i < x
      <4> SUFFICES ASSUME i >= x PROVE FALSE
        BY <1>3, <2>5
      <4>1. PICK k \in 1 .. n : k = i - x + 1 /\ k <= head
        BY <1>3, <2>1, <2>6
      <4>2. place[k] = x + k - 1
        BY <2>7, <4>1
      <4>3. x + k - 1 = i
        BY <4>1
      <4> QED BY <2>13, <4>2, <4>3
    <3>2. i >= 0 + (n - head)
      <4> SUFFICES ASSUME i < n - head PROVE FALSE
        BY <1>3, <2>1
      <4>0. head + i + 1 \in 1 .. n /\ head + i + 1 > head
        BY <1>3, <2>1
      <4>1. PICK k \in 1 .. n : k = head + i + 1 /\ k > head
        BY <4>0
      <4>2. place[k] = k - head - 1
        BY <2>7, <4>1
      <4>3. k - head - 1 = i
        BY <2>1, <4>1
      <4> QED BY <2>13, <4>2, <4>3
    <3> QED BY <2>10, <2>11, <3>1, <3>2 DEF Lands
  <2> QED BY <2>11, <2>12, <2>13 DEF Lands, LandsIn
<1>10. CASE ~(free > 0 /\ free < offset) /\ ~(free > 0 /\ free >= offset /\ free < offset + n)
  <2>0. start \in Nat /\ start + offset \in Nat
    BY <1>3 DEF start
  <2>1. PICK x \in Nat : x = start + offset
    BY <2>0
  <2>2. x + n <= Size /\ \A k \in 1 .. n : place[k] = x + k - 1
    BY <1>3, <1>4, <1>5, <1>10, <2>1 DEF place, start
  <2>3. c = Copy(b, x, bytes)
    BY <1>7, <1>10, <2>1
  <2>4. Lands(b, c, x, bytes, n)
    BY <1>3, <2>2, <2>3, CopyFits DEF n
  <2> QED BY <1>3, <2>2, <2>4, LandsInPlace
<1> QED BY <1>8, <1>9, <1>10

\* One copy of a record in progress: what is unread stays, and so does the batch.
LEMMA WriteStep ==
  ASSUME StoreAssumption, StoreInv, NEW T, NEW bytes \in Seq(T), NEW offset \in Nat,
         filled + offset + Len(bytes) <= Size, buf' = WriteAtOffset(bytes, offset),
         UNCHANGED <<read_offset, filled, meta_hdr_idx, meta, init, batch, boots>>
  PROVE  /\ DOMAIN buf' = 0 .. Size - 1
         /\ BatchIsOldest'
         /\ \A k \in 1 .. Len(bytes) : At(filled + offset + k - 1)' = bytes[k]
         /\ \A q \in 0 .. filled + offset - 1 : At(q)' = At(q)
<1>1. \A q : Place(q)' = Place(q)
  BY DEF Place
<1>2. PICK c : c = buf'
  OBVIOUS
<1>3. /\ DOMAIN c = 0 .. Size - 1
      /\ \A k \in 1 .. Len(bytes) : c[Place(filled + offset + k - 1)] = bytes[k]
      /\ \A q \in 0 .. filled + offset - 1 : c[Place(q)] = buf[Place(q)]
  BY <1>2, WriteLands DEF StoreInv
<1>4. \A q \in 0 .. filled + offset - 1 : At(q)' = At(q)
  BY <1>1, <1>2, <1>3 DEF At
<1>5. \A k \in 1 .. Len(bytes) : At(filled + offset + k - 1)' = bytes[k]
  BY <1>1, <1>2, <1>3 DEF At
<1>6. BatchIsOldest'
  <2>1. PICK n \in 0 .. filled : n % RecLen = 0 /\ batch = Oldest(n) /\ (n > 0 => init)
    BY DEF StoreInv, BatchIsOldest
  <2>2. \A k \in 1 .. n : At(k - 1)' = At(k - 1)
    BY <1>4, RecLenNat DEF StoreInv, StoreType
  <2>3. Oldest(n)' = Oldest(n)
    BY <2>2 DEF Oldest
  <2> QED BY <2>1, <2>3 DEF BatchIsOldest
<1> QED BY <1>2, <1>3, <1>4, <1>5, <1>6

\* Beginning a record, only if all of it fits.
LEMMA DataWriteKeeps ==
  ASSUME StoreAssumption, StoreInv, NEW data \in Payloads, DataWrite(data)
  PROVE  StoreInv' /\ \A q \in 0 .. filled - 1 : At(q)' = At(q)
<1>1. record' \in Record
  BY DEF StoreInv, StoreType, DataWrite, Record, StoreAssumption
<1>2. PICK r \in Record : r = record'
  BY <1>1
<1>3. PICK bytes : bytes = <<r[1]>>
  OBVIOUS
<1>4. bytes \in Seq({r[1]}) /\ Len(bytes) = 1 /\ bytes[1] = r[1]
  BY <1>3
<1>5. buf' = WriteAtOffset(bytes, 0) /\ filled + RecLen <= Size /\ init
  BY <1>2, <1>3, RecLenNat DEF DataWrite, Free, StoreInv, StoreType
<1>6. UNCHANGED <<read_offset, filled, meta_hdr_idx, meta, init, batch, boots>>
  BY DEF DataWrite
<1>7. /\ DOMAIN buf' = 0 .. Size - 1
      /\ BatchIsOldest'
      /\ \A k \in 1 .. Len(bytes) : At(filled + 0 + k - 1)' = bytes[k]
      /\ \A q \in 0 .. filled + 0 - 1 : At(q)' = At(q)
  <2>1. filled + 0 + Len(bytes) <= Size
    BY <1>4, <1>5, RecLenNat DEF StoreInv, StoreType
  <2> QED BY <1>4, <1>5, <1>6, <2>1, WriteStep
<1>8. filled \in Nat /\ filled + 0 = filled
  BY RecLenNat DEF StoreInv, StoreType
<1>9. At(filled + 1 - 1)' = r[1]
  <2>1. 1 \in 1 .. Len(bytes)
    BY <1>4
  <2>2. At(filled + 0 + 1 - 1)' = r[1]
    BY <1>4, <1>7, <2>1
  <2> QED BY <1>6, <1>8, <2>2
<1>10. Written' = 1 /\ pc' # "idle"
  BY RecLenNat DEF DataWrite, Written
<1>11. RecordIsBehind'
  <2>1. \A k \in 1 .. 1 : k = 1
    OBVIOUS
  <2>2. \A k \in 1 .. Written' : At(filled + k - 1)' = record'[k]
    BY <1>2, <1>9, <1>10, <2>1
  <2> QED BY <1>1, <1>5, <1>6, <2>2 DEF RecordIsBehind
<1>12. StoreType'
  BY <1>6, <1>7 DEF StoreInv, StoreType, DataWrite
<1> QED BY <1>7, <1>8, <1>11, <1>12 DEF StoreInv

\* Its header, behind the unread bytes.
LEMMA WriteHeaderKeeps ==
  ASSUME StoreAssumption, StoreInv, WriteHeader
  PROVE  StoreInv' /\ \A q \in 0 .. filled - 1 : At(q)' = At(q)
<1>0. /\ init /\ filled + RecLen <= Size /\ record \in Record /\ filled \in Nat
      /\ Written = 1 /\ \A k \in 1 .. 1 : At(filled + k - 1) = record[k]
  BY RecLenNat DEF WriteHeader, StoreInv, StoreType, RecordIsBehind, Written
<1>2. PICK r \in Record : r = record
  BY <1>0
<1> DEFINE B == {r[k] : k \in 1 .. RecLen}
<1>3. r \in Seq(B) /\ Len(r) = RecLen
  BY <1>2, RecordShape
<1>4. PICK bytes : bytes = SubSeq(r, 2, 1 + HdrLen)
  OBVIOUS
<1> HIDE DEF B
<1>5. /\ bytes \in Seq(B) /\ Len(bytes) = HdrLen /\ \A k \in 1 .. HdrLen : bytes[k] = r[1 + k]
  BY <1>3, <1>4, RecLenNat
<1>6. UNCHANGED <<read_offset, filled, meta_hdr_idx, meta, init, record, batch, boots>>
  BY DEF WriteHeader
<1>7. /\ DOMAIN buf' = 0 .. Size - 1
      /\ BatchIsOldest'
      /\ \A k \in 1 .. HdrLen : At(filled + 1 + k - 1)' = bytes[k]
      /\ \A q \in 0 .. filled + 1 - 1 : At(q)' = At(q)
  <2>1. filled + 1 + Len(bytes) <= Size
    BY <1>0, <1>5, RecLenNat
  <2>2. buf' = WriteAtOffset(bytes, 1)
    BY <1>2, <1>4 DEF WriteHeader
  <2> QED BY <1>5, <1>6, <2>1, <2>2, WriteStep
<1>8. Written' = 1 + HdrLen /\ pc' = "data"
  BY DEF WriteHeader, Written
<1>9. ASSUME NEW k \in 1 .. 1 + HdrLen
      PROVE  At(filled + k - 1)' = r[k]
  <2>1. CASE k = 1
    <3>1. filled + k - 1 \in 0 .. filled + 1 - 1 /\ k \in 1 .. 1
      BY <1>0, <2>1
    <3> QED BY <1>0, <1>2, <1>6, <1>7, <3>1
  <2>2. CASE k # 1
    <3>1. k - 1 \in 1 .. HdrLen /\ filled + 1 + (k - 1) - 1 = filled + k - 1 /\ 1 + (k - 1) = k
      BY <1>0, <2>2, RecLenNat
    <3>2. At(filled + 1 + (k - 1) - 1)' = bytes[k - 1]
      BY <1>7, <3>1
    <3>3. bytes[k - 1] = r[1 + (k - 1)]
      BY <1>5, <3>1
    <3> QED BY <1>6, <3>1, <3>2, <3>3
  <2> QED BY <2>1, <2>2
<1>10. RecordIsBehind'
  <2>1. \A k \in 1 .. Written' : At(filled + k - 1)' = record'[k]
    BY <1>2, <1>6, <1>8, <1>9
  <2> QED BY <1>0, <1>6, <2>1 DEF RecordIsBehind
<1>11. StoreType'
  BY <1>6, <1>7, <1>8 DEF StoreInv, StoreType
<1> QED BY <1>0, <1>7, <1>10, <1>11 DEF StoreInv

\* Its data, behind the header.
LEMMA WriteDataKeeps ==
  ASSUME StoreAssumption, StoreInv, WriteData
  PROVE  StoreInv' /\ \A q \in 0 .. filled - 1 : At(q)' = At(q)
<1> DEFINE h == 1 + HdrLen
<1>0. /\ init /\ filled + RecLen <= Size /\ record \in Record /\ filled \in Nat
      /\ h \in Nat /\ h < RecLen
      /\ \A k \in 1 .. h : At(filled + k - 1) = record[k]
  BY RecLenNat DEF WriteData, StoreInv, StoreType, RecordIsBehind, Written
<1>2. PICK r \in Record : r = record
  BY <1>0
<1> DEFINE B == {r[k] : k \in 1 .. RecLen}
<1>3. r \in Seq(B) /\ Len(r) = RecLen
  BY <1>2, RecordShape
<1>4. PICK bytes : bytes = SubSeq(r, h + 1, RecLen)
  OBVIOUS
<1>4a. bytes = SubSeq(record, 2 + HdrLen, RecLen)
  BY <1>2, <1>4, RecLenNat
<1> HIDE DEF B, h
<1>5. /\ bytes \in Seq(B) /\ Len(bytes) = RecLen - h
      /\ \A k \in 1 .. RecLen - h : bytes[k] = r[h + k]
  BY <1>0, <1>3, <1>4, RecLenNat
<1>6. UNCHANGED <<read_offset, filled, meta_hdr_idx, meta, init, record, batch, boots>>
  BY DEF WriteData
<1>7. /\ DOMAIN buf' = 0 .. Size - 1
      /\ BatchIsOldest'
      /\ \A k \in 1 .. RecLen - h : At(filled + h + k - 1)' = bytes[k]
      /\ \A q \in 0 .. filled + h - 1 : At(q)' = At(q)
  <2>1. filled + h + Len(bytes) <= Size
    BY <1>0, <1>5, RecLenNat
  <2>2. buf' = WriteAtOffset(bytes, h)
    BY <1>4a DEF WriteData, h
  <2> QED BY <1>0, <1>5, <1>6, <2>1, <2>2, WriteStep
<1>8. Written' = RecLen /\ pc' = "complete"
  BY DEF WriteData, Written
<1>9. ASSUME NEW k \in 1 .. RecLen
      PROVE  At(filled + k - 1)' = r[k]
  <2>1. CASE k <= h
    <3>1. filled + k - 1 \in 0 .. filled + h - 1 /\ k \in 1 .. h
      BY <1>0, <2>1
    <3> QED BY <1>0, <1>2, <1>6, <1>7, <3>1
  <2>2. CASE k > h
    <3>1. k - h \in 1 .. RecLen - h /\ filled + h + (k - h) - 1 = filled + k - 1 /\ h + (k - h) = k
      BY <1>0, <2>2, RecLenNat
    <3>2. At(filled + h + (k - h) - 1)' = bytes[k - h]
      BY <1>7, <3>1
    <3>3. bytes[k - h] = r[h + (k - h)]
      BY <1>5, <3>1
    <3> QED BY <1>6, <3>1, <3>2, <3>3
  <2> QED BY <1>0, <2>1, <2>2
<1>10. RecordIsBehind'
  <2>1. \A k \in 1 .. Written' : At(filled + k - 1)' = record'[k]
    BY <1>2, <1>6, <1>8, <1>9
  <2> QED BY <1>0, <1>6, <2>1 DEF RecordIsBehind
<1>11. StoreType'
  BY <1>6, <1>7, <1>8 DEF StoreInv, StoreType
<1>12. \A q \in 0 .. filled - 1 : At(q)' = At(q)
  BY <1>0, <1>7
<1> QED BY <1>7, <1>10, <1>11, <1>12 DEF StoreInv

\* The record at the places from (j - 1) * RecLen on; the unread records are these.
Rec(j) == [k \in 1 .. RecLen |-> At((j - 1) * RecLen + k - 1)]

\* Reading is reading the oldest bytes, split at the end or not.
LEMMA UnreadIsOldest ==
  ASSUME StoreAssumption, StoreType, NEW n \in Nat
  PROVE  n <= filled => Unread(n) = Oldest(n)
<1> SUFFICES ASSUME n <= filled PROVE Unread(n) = Oldest(n)
  OBVIOUS
<1>1. PICK F, R, b : F \in Nat /\ R \in Nat /\ F = filled /\ R = read_offset /\ b = buf
  BY RecLenNat DEF StoreType
<1> F \in Nat /\ R \in Nat
  BY <1>1
<1>2. PICK m \in Nat : m = (IF F < n THEN F ELSE n) /\ m = n
  BY <1>1
<1>3. Unread(n) = [k \in 1 .. m |-> IF k <= Size - R THEN b[R + k - 1] ELSE b[k - (Size - R) - 1]]
  BY <1>1, <1>2 DEF Unread
<1>4. Oldest(n) = [k \in 1 .. m |-> b[IF R + (k - 1) < Size THEN R + (k - 1) ELSE R + (k - 1) - Size]]
  BY <1>1, <1>2 DEF Oldest, At, Place
<1>5. ASSUME NEW k \in 1 .. m
      PROVE  (IF k <= Size - R THEN b[R + k - 1] ELSE b[k - (Size - R) - 1])
               = b[IF R + (k - 1) < Size THEN R + (k - 1) ELSE R + (k - 1) - Size]
  <2>1. Size \in Nat /\ k \in Int
    BY RecLenNat
  <2>2. CASE k <= Size - R
    <3>1. R + (k - 1) < Size /\ R + k - 1 = R + (k - 1)
      BY <2>1, <2>2
    <3> QED BY <2>2, <3>1
  <2>3. CASE ~(k <= Size - R)
    <3>1. ~(R + (k - 1) < Size) /\ k - (Size - R) - 1 = R + (k - 1) - Size
      BY <2>1, <2>3
    <3> QED BY <2>3, <3>1
  <2> QED BY <2>2, <2>3
<1> QED BY <1>3, <1>4, <1>5

\* A function on 1 .. F is a sequence.
LEMMA FunIsSeq ==
  ASSUME NEW F \in Nat, NEW u, DOMAIN u = 1 .. F, u = [k \in 1 .. F |-> u[k]]
  PROVE  u \in Seq({u[k] : k \in 1 .. F}) /\ Len(u) = F
OBVIOUS

\* A part of a sequence.
LEMMA SubSeqIs ==
  ASSUME NEW T, NEW u \in Seq(T), NEW a \in Nat, NEW n \in Nat, a + n <= Len(u)
  PROVE  SubSeq(u, a + 1, a + n) = [k \in 1 .. n |-> u[a + k]]
<1>1. PICK p \in Nat, q \in Nat :
        p = a + 1 /\ q = a + n /\ p >= 1 /\ p <= q + 1 /\ q <= Len(u)
  OBVIOUS
<1>2. q - p + 1 = n /\ \A k \in 1 .. n : p + k - 1 = a + k
  BY <1>1
<1>3. PICK s : s = SubSeq(u, p, q)
  OBVIOUS
<1>4. s \in Seq(T) /\ Len(s) = n /\ \A k \in 1 .. n : s[k] = u[p + k - 1]
  <2>1. SubSeq(u, p, q) \in Seq(T)
    BY <1>1
  <2>2. Len(SubSeq(u, p, q)) = q - p + 1
    BY <1>1
  <2>3. \A k \in 1 .. q - p + 1 : SubSeq(u, p, q)[k] = u[p + k - 1]
    BY <1>1
  <2> QED BY <1>2, <1>3, <2>1, <2>2, <2>3
<1>5. s = [k \in 1 .. n |-> s[k]]
  BY <1>4
<1> QED BY <1>1, <1>2, <1>3, <1>4, <1>5

\* What is filled is a number of records.
LEMMA FilledIs ==
  ASSUME StoreAssumption, StoreType
  PROVE  \E F \in Nat, N \in Nat : F = filled /\ N = F \div RecLen /\ F = N * RecLen /\ F <= Size
<1>1. PICK L \in Nat \ {0}, F \in Nat : L = RecLen /\ F = filled
  BY RecLenNat DEF StoreType
<1>2. F % L = 0 /\ F <= Size
  BY <1>1, RecLenNat DEF StoreType
<1>3. PICK N \in Nat : F = N * L /\ N = F \div L
  BY <1>2, Multiples
<1> QED BY <1>1, <1>2, <1>3

\* The records, one by one.
LEMMA RecordsAre ==
  StoreAssumption /\ StoreType => Records = [j \in 1 .. filled \div RecLen |-> Rec(j)]
<1> SUFFICES ASSUME StoreAssumption, StoreType
             PROVE  Records = [j \in 1 .. filled \div RecLen |-> Rec(j)]
  OBVIOUS
<1>1. PICK F \in Nat, N \in Nat : F = filled /\ N = F \div RecLen /\ F = N * RecLen /\ F <= Size
  BY FilledIs
<1>2. PICK u : u = Unread(Size)
  OBVIOUS
<1>3. u = Oldest(F)
  <2>1. Unread(Size) = Unread(F)
    <3>1. (IF F < Size THEN F ELSE Size) = F /\ (IF F < F THEN F ELSE F) = F
      BY <1>1, RecLenNat
    <3> QED BY <1>1, <3>1 DEF Unread
  <2> QED BY <1>1, <1>2, <2>1, UnreadIsOldest
<1>4. Records = [j \in 1 .. N |-> SubSeq(u, (j - 1) * RecLen + 1, j * RecLen)]
  BY <1>1, <1>2 DEF Records
<1>5. ASSUME NEW j \in 1 .. N
      PROVE  SubSeq(u, (j - 1) * RecLen + 1, j * RecLen) = Rec(j)
  <2>1. PICK a \in Nat : a = (j - 1) * RecLen /\ j * RecLen = a + RecLen /\ a + RecLen <= F
    <3>1. j - 1 \in Nat /\ j - 1 < N /\ (j - 1) + 1 = j
      OBVIOUS
    <3>2. (j - 1) * RecLen \in Nat /\ (j - 1) * RecLen + RecLen <= F
      <4>1. PICK L \in Nat \ {0}, p \in Nat : L = RecLen /\ p = j - 1
        BY <3>1, RecLenNat
      <4>2. p * L + L <= N * L /\ p * L \in Nat
        BY <3>1, <4>1, Multiples
      <4> QED BY <1>1, <4>1, <4>2
    <3>3. j * RecLen = (j - 1) * RecLen + RecLen
      BY RecLenNat
    <3> QED BY <3>2, <3>3
  <2>2. u = [k \in 1 .. F |-> At(k - 1)]
    BY <1>3 DEF Oldest
  <2>3. SubSeq(u, a + 1, a + RecLen) = [k \in 1 .. RecLen |-> At(a + k - 1)]
    <3>1. SubSeq(u, a + 1, a + RecLen) = [k \in 1 .. RecLen |-> u[a + k]]
      <4> DEFINE T == {u[k] : k \in 1 .. F}
      <4>1. u \in Seq(T) /\ Len(u) = F
        <5>1. DOMAIN u = 1 .. F /\ u = [k \in 1 .. F |-> u[k]]
          BY <2>2
        <5> QED BY <5>1, FunIsSeq
      <4> HIDE DEF T
      <4>2. a + RecLen <= Len(u) /\ RecLen \in Nat
        BY <2>1, <4>1, RecLenNat
      <4> QED BY <4>1, <4>2, SubSeqIs
    <3>2. ASSUME NEW k \in 1 .. RecLen PROVE u[a + k] = At(a + k - 1)
      <4>1. a + k \in 1 .. F
        BY <2>1, RecLenNat
      <4> QED BY <2>2, <4>1
    <3> QED BY <3>1, <3>2
  <2> QED BY <2>1, <2>3 DEF Rec
<1> QED BY <1>1, <1>3, <1>4, <1>5

\* The records after a step, one by one.
LEMMA RecordsNext ==
  ASSUME StoreAssumption, StoreType'
  PROVE  Records' = [j \in 1 .. filled' \div RecLen |-> Rec(j)']
<1>1. (StoreAssumption /\ StoreType => Records = [j \in 1 .. filled \div RecLen |-> Rec(j)])'
  BY RecordsAre, PTL
<1> QED BY <1>1

\* What is unread does not change when neither the bounds nor its bytes do.
LEMMA SameRecords ==
  ASSUME StoreAssumption, StoreType, StoreType', filled' = filled,
         \A q \in 0 .. filled - 1 : At(q)' = At(q)
  PROVE  Records' = Records
<1>0. PICK F \in Nat, N \in Nat : F = filled /\ N = F \div RecLen /\ F = N * RecLen /\ F <= Size
  BY FilledIs
<1>1. PICK L \in Nat \ {0} : L = RecLen /\ F = filled /\ N = F \div L /\ F = N * L
  BY <1>0, RecLenNat
<1>2. ASSUME NEW j \in 1 .. N PROVE Rec(j)' = Rec(j)
  <2>1. ASSUME NEW k \in 1 .. L PROVE At((j - 1) * L + k - 1)' = At((j - 1) * L + k - 1)
    <3>1. PICK p \in Nat : p = j - 1 /\ p < N
      OBVIOUS
    <3>2. p * L + L <= F /\ p * L \in Nat
      <4>1. p * L + L <= N * L
        BY <3>1, Multiples
      <4>2. p * L \in Nat
        OBVIOUS
      <4> QED BY <1>1, <4>1, <4>2
    <3>3. PICK a \in Nat : a = p * L
      BY <3>2
    <3>4. a + k - 1 \in 0 .. filled - 1
      BY <1>1, <3>2, <3>3
    <3>5. At(a + k - 1)' = At(a + k - 1)
      BY <3>4
    <3> QED BY <3>1, <3>3, <3>5
  <2> QED BY <1>1, <2>1 DEF Rec
<1>3. Records = [j \in 1 .. N |-> Rec(j)]
  BY <1>1, RecordsAre
<1>4. Records' = [j \in 1 .. N |-> Rec(j)']
  BY <1>1, RecordsNext
<1> QED BY <1>2, <1>3, <1>4

\* Append.
LEMMA AppendIs ==
  ASSUME NEW T, NEW s \in Seq(T), NEW r
  PROVE  Append(s, r) = [j \in 1 .. Len(s) + 1 |-> IF j <= Len(s) THEN s[j] ELSE r]
<1>0. Len(s) \in Nat
  OBVIOUS
<1>1. PICK N, a : N \in Nat /\ a = Append(s, r) /\ N = Len(s)
  BY <1>0
<1> N \in Nat
  BY <1>1
<1>2. a \in Seq(T \cup {r}) /\ Len(a) = N + 1
  BY <1>1
<1>3. \A j \in 1 .. N : a[j] = s[j]
  BY <1>1
<1>4. a[N + 1] = r
  BY <1>1
<1>5. \A j \in 1 .. N + 1 : a[j] = IF j <= N THEN s[j] ELSE r
  <2>1. \A j \in 1 .. N + 1 : (j \in 1 .. N /\ j <= N) \/ (j = N + 1 /\ ~(j <= N))
    OBVIOUS
  <2> QED BY <1>3, <1>4, <2>1
<1>6. a = [j \in 1 .. N + 1 |-> a[j]]
  BY <1>2
<1> QED BY <1>1, <1>5, <1>6

\* Completing a write appends the record.
LEMMA WriteCompleteKeeps ==
  ASSUME StoreAssumption, StoreInv, WriteComplete
  PROVE  /\ StoreInv'
         /\ record \in Record /\ Len(Records) < Capacity /\ Records' = Append(Records, record)
<1>0. PICK F \in Nat, N \in Nat : F = filled /\ N = F \div RecLen /\ F = N * RecLen /\ F <= Size
  BY FilledIs DEF StoreInv
<1>1. PICK L \in Nat \ {0} : L = RecLen /\ F = filled /\ N = F \div L /\ F = N * L
  BY <1>0, RecLenNat
<1>2. /\ init /\ F + L <= Size /\ record \in Record
      /\ \A k \in 1 .. L : At(filled + k - 1) = record[k]
  BY <1>1 DEF StoreInv, RecordIsBehind, Written, WriteComplete
<1>3. PICK r \in Record : r = record
  BY <1>2
<1>4. F + L = (N + 1) * L /\ (F + L) % L = 0 /\ (F + L) \div L = N + 1
  <2>1. (N + 1) * L = N * L + L
    OBVIOUS
  <2>2. ((N + 1) * L) % L = 0 /\ ((N + 1) * L) \div L = N + 1
    BY Multiples
  <2> QED BY <1>1, <2>1, <2>2
<1>5. UNCHANGED <<buf, read_offset, meta_hdr_idx, meta, init, batch, boots>> /\ pc' = "idle" /\ filled' = F + L
  BY <1>1 DEF WriteComplete
<1>6. \A q : At(q)' = At(q)
  BY <1>5 DEF At, Place
<1>7. StoreType'
  <2>1. F + L \in 0 .. Size
    BY <1>2, RecLenNat
  <2>2. filled' % RecLen = 0
    BY <1>1, <1>4, <1>5
  <2> QED BY <1>5, <2>1, <2>2 DEF StoreInv, StoreType
<1>8. BatchIsOldest'
  <2>1. PICK n \in 0 .. filled : n % RecLen = 0 /\ batch = Oldest(n) /\ (n > 0 => init)
    BY DEF StoreInv, BatchIsOldest
  <2>2. n \in 0 .. filled'
    BY <1>1, <1>5, <2>1
  <2>3. Oldest(n)' = Oldest(n)
    BY <1>6 DEF Oldest
  <2> QED BY <1>5, <2>1, <2>2, <2>3 DEF BatchIsOldest
<1>9. StoreInv'
  BY <1>5, <1>7, <1>8 DEF StoreInv, RecordIsBehind
<1>10. Records = [j \in 1 .. N |-> Rec(j)]
  BY <1>1, RecordsAre DEF StoreInv
<1>11. Records' = [j \in 1 .. N + 1 |-> Rec(j)]
  <2>1. \A j : Rec(j)' = Rec(j)
    BY <1>6 DEF Rec
  <2>2. Records' = [j \in 1 .. filled' \div RecLen |-> Rec(j)']
    BY <1>7, RecordsNext
  <2>3. filled' \div RecLen = N + 1
    BY <1>1, <1>4, <1>5
  <2> QED BY <2>1, <2>2, <2>3
<1>12. Rec(N + 1) = r
  <2>1. r = [k \in 1 .. L |-> r[k]]
    BY <1>1, RecordShape
  <2>2. \A k \in 1 .. L : At((N + 1 - 1) * L + k - 1) = r[k]
    <3>1. (N + 1 - 1) * L = F
      BY <1>1
    <3> QED BY <1>1, <1>2, <1>3, <3>1
  <2>3. Rec(N + 1) = [k \in 1 .. L |-> At((N + 1 - 1) * L + k - 1)]
    BY <1>1 DEF Rec
  <2> QED BY <2>1, <2>2, <2>3
<1>13. PICK s, t : s = Records /\ t = Records'
  OBVIOUS
<1>14. s \in Seq({s[j] : j \in 1 .. N}) /\ Len(s) = N
  <2>1. DOMAIN s = 1 .. N /\ s = [j \in 1 .. N |-> s[j]]
    BY <1>10, <1>13
  <2> QED BY <2>1, FunIsSeq
<1>15. t = Append(s, r)
  <2>1. Append(s, r) = [j \in 1 .. N + 1 |-> IF j <= N THEN s[j] ELSE r]
    BY <1>14, AppendIs
  <2>2. \A j \in 1 .. N + 1 : Rec(j) = IF j <= N THEN s[j] ELSE r
    <3>1. \A j \in 1 .. N + 1 : (j \in 1 .. N /\ j <= N) \/ (j = N + 1 /\ ~(j <= N))
      OBVIOUS
    <3> QED BY <1>10, <1>12, <1>13, <3>1
  <2> QED BY <1>11, <1>13, <2>1, <2>2
<1>16. N < Capacity
  <2>1. (N + 1) * L <= Size
    BY <1>2, <1>4
  <2>2. N + 1 <= Size \div L
    BY <2>1, RecLenNat, Multiples
  <2>3. Size \div L \in Nat
    BY RecLenNat, Multiples
  <2> QED BY <1>1, <2>2, <2>3 DEF Capacity
<1> QED BY <1>2, <1>3, <1>9, <1>13, <1>14, <1>15, <1>16

\* encode_log_list cuts at the end of a record.
LEMMA EncodedIs ==
  ASSUME StoreAssumption, NEW T, NEW bytes \in Seq(T)
  PROVE  \E n \in Nat : n * RecLen <= Len(bytes) /\ Encoded(bytes) = SubSeq(bytes, 1, n * RecLen)
<1> DEFINE Same(k) == bytes[(k - 1) * RecLen + 1] = bytes[1]
           D == Len(bytes) \div RecLen
           Good(m) == (\A k \in 1 .. m : Same(k)) /\ (m = D \/ ~Same(m + 1))
           Ends == {m \in 0 .. D : m = D \/ ~Same(m + 1)}
<1>1. D \in Nat /\ D * RecLen <= Len(bytes)
  <2>1. PICK L \in Nat \ {0}, n \in Nat : L = RecLen /\ n = Len(bytes)
    BY RecLenNat
  <2>2. n \div L \in Nat /\ (n \div L) * L <= n
    BY Multiples
  <2> QED BY <2>1, <2>2
<1> HIDE DEF Same
<1>2. \E m \in 0 .. D : Good(m)
  <2>1. D \in Ends
    BY <1>1
  <2>2. Ends \subseteq Nat /\ Ends # {}
    BY <2>1
  <2> DEFINE R == OpToRel(<, Nat)
  <2> HIDE DEF R, Ends
  <2>3. PICK m \in Ends : \A k \in Ends : ~(<<k, m>> \in R)
    <3>1. IsWellFoundedOn(R, Nat)
      BY NatLessThanWellFounded, Zenon DEF R
    <3> QED BY <2>2, <3>1, WFMin
  <2>4. \A k \in Ends : ~(k < m)
    <3>1. R = {x \in Nat \X Nat : x[1] < x[2]}
      BY Zenon DEF R, OpToRel
    <3> QED BY <2>2, <2>3, <3>1
  <2>5. ASSUME NEW k \in 1 .. m PROVE Same(k)
    <3>1. k - 1 \in 0 .. D /\ k - 1 < m /\ (k - 1) + 1 = k
      BY <1>1 DEF Ends
    <3>2. k - 1 \notin Ends
      BY <2>4, <3>1
    <3>3. Same((k - 1) + 1)
      BY <3>1, <3>2 DEF Ends
    <3> QED BY <3>1, <3>3
  <2>6. m \in 0 .. D /\ (m = D \/ ~Same(m + 1))
    BY DEF Ends
  <2> QED BY <2>5, <2>6
<1>3. PICK n \in 0 .. D : n = CHOOSE m \in 0 .. D : Good(m)
  BY <1>2
<1>4. Encoded(bytes) = SubSeq(bytes, 1, n * RecLen)
  BY <1>3 DEF Encoded, Same
<1>5. n * RecLen <= Len(bytes)
  <2>1. PICK L \in Nat \ {0}, d \in Nat : L = RecLen /\ d = D
    BY <1>1, RecLenNat
  <2>2. n * L <= d * L
    <3>1. n \in Nat /\ n <= d
      BY <2>1
    <3> QED BY <3>1, Multiples
  <2>3. n * L \in Nat /\ d * L \in Nat
    BY <2>1
  <2> QED BY <1>1, <2>1, <2>2, <2>3
<1>6. n \in Nat
  BY <1>1
<1> QED BY <1>4, <1>5, <1>6

\* Reading changes no record.
LEMMA ReadBatchKeeps ==
  ASSUME StoreAssumption, StoreInv, ReadBatch
  PROVE  StoreInv' /\ Records' = Records
<1>1. UNCHANGED <<buf, read_offset, filled, meta_hdr_idx, meta, init, pc, record, boots>> /\ init /\ pc = "idle"
  BY DEF ReadBatch
<1>2. PICK F \in Nat, M \in Nat : F = filled /\ M = (IF F < ReadSize THEN F ELSE ReadSize) /\ M <= F
  BY RecLenNat DEF StoreInv, StoreType
<1>3. PICK bytes : bytes = Unread(ReadSize)
  OBVIOUS
<1>4. bytes = Oldest(M)
  <2>1. (IF F < M THEN F ELSE M) = (IF F < ReadSize THEN F ELSE ReadSize)
    BY <1>2
  <2>2. Unread(ReadSize) = Unread(M)
    BY <1>2, <2>1 DEF Unread
  <2> QED BY <1>2, <1>3, <2>2, UnreadIsOldest DEF StoreInv
<1>5. PICK T : T = {bytes[k] : k \in 1 .. M}
  OBVIOUS
<1>6. bytes \in Seq(T) /\ Len(bytes) = M
  <2>1. DOMAIN bytes = 1 .. M /\ bytes = [k \in 1 .. M |-> bytes[k]]
    BY <1>4 DEF Oldest
  <2> QED BY <1>5, <2>1, FunIsSeq
<1>7. PICK n \in Nat : n * RecLen <= M /\ Encoded(bytes) = SubSeq(bytes, 1, n * RecLen)
  BY <1>6, EncodedIs
<1>8. PICK p \in Nat : p = n * RecLen /\ p <= M /\ p % RecLen = 0
  <2>1. PICK L \in Nat \ {0} : L = RecLen
    BY RecLenNat
  <2>2. n * L \in Nat /\ (n * L) % L = 0
    BY Multiples
  <2> QED BY <1>7, <2>1, <2>2
<1>9. batch' = Oldest(p)
  <2>1. SubSeq(bytes, 0 + 1, 0 + p) = [k \in 1 .. p |-> bytes[0 + k]]
    BY <1>6, <1>8, SubSeqIs
  <2>2. \A k \in 1 .. p : bytes[0 + k] = At(k - 1)
    BY <1>4, <1>8 DEF Oldest
  <2>3. batch' = SubSeq(bytes, 1, p)
    BY <1>3, <1>7, <1>8 DEF ReadBatch
  <2> QED BY <2>1, <2>2, <2>3 DEF Oldest
<1>10. \A q : At(q)' = At(q)
  BY <1>1 DEF At, Place
<1>11. BatchIsOldest'
  <2>1. Oldest(p)' = Oldest(p)
    BY <1>10 DEF Oldest
  <2>2. p \in 0 .. filled'
    BY <1>1, <1>2, <1>8
  <2> QED BY <1>1, <1>8, <1>9, <2>1, <2>2 DEF BatchIsOldest
<1>12. StoreInv'
  BY <1>1, <1>11 DEF StoreInv, StoreType, RecordIsBehind
<1> QED BY <1>1, <1>10, <1>12, SameRecords DEF StoreInv

\* A release gives up the oldest records, those that were read.
LEMMA ReleaseKeeps ==
  ASSUME StoreAssumption, StoreInv, Release
  PROVE  /\ StoreInv'
         /\ \E m \in 1 .. Len(Records) : Records' = SubSeq(Records, m + 1, Len(Records))
<1>0. PICK F \in Nat, N \in Nat : F = filled /\ N = F \div RecLen /\ F = N * RecLen /\ F <= Size
  BY FilledIs DEF StoreInv
<1>1. PICK L \in Nat \ {0} : L = RecLen /\ F = filled /\ N = F \div L /\ F = N * L
  BY <1>0, RecLenNat
<1>2. PICK R \in Nat : R = read_offset /\ R <= Size
  BY RecLenNat DEF StoreInv, StoreType
<1>3. PICK n \in 0 .. F : n % L = 0 /\ batch = Oldest(n)
  BY <1>1 DEF StoreInv, BatchIsOldest
<1>4. Len(batch) = n /\ n > 0
  <2>1. DOMAIN batch = 1 .. n /\ batch = [k \in 1 .. n |-> batch[k]]
    BY <1>3 DEF Oldest
  <2>2. Len(batch) = n
    BY <2>1, FunIsSeq
  <2>3. n # 0
    <3>1. batch # <<>>
      BY DEF Release
    <3> QED BY <2>1, <3>1
  <2> QED BY <2>2, <2>3
<1>5. PICK m \in Nat : n = m * L /\ m \in 1 .. N
  <2>1. PICK m \in Nat : n = m * L
    BY <1>3, Multiples
  <2>2. m # 0
    BY <1>4, <2>1
  <2>3. m <= N
    <3>1. m * L <= F
      BY <1>3, <2>1
    <3> QED BY <1>1, <3>1, Multiples
  <2> QED BY <2>1, <2>2, <2>3
<1>6. /\ filled' = F - n
      /\ read_offset' = (IF R + n > Size THEN R + n - Size ELSE R + n)
      /\ UNCHANGED <<buf, meta_hdr_idx, meta, init, pc, record, boots>> /\ batch' = <<>>
      /\ init /\ pc = "idle"
  <2>1. ~(F < n)
    BY <1>3
  <2> QED BY <1>1, <1>2, <1>4, <2>1 DEF Release, ReadComplete
<1>6a. F <= Size /\ Size \in Nat
  BY <1>0, RecLenNat
<1>6b. PICK r2 \in 0 .. Size : r2 = read_offset' /\ r2 = (IF R + n > Size THEN R + n - Size ELSE R + n)
  <2>1. (IF R + n > Size THEN R + n - Size ELSE R + n) \in 0 .. Size
    BY <1>2, <1>6a
  <2> QED BY <1>6, <2>1
<1>7. F - n = (N - m) * L /\ N - m \in Nat /\ (F - n) % L = 0 /\ (F - n) \div L = N - m
  <2>1. PICK d \in Nat : d = N - m /\ N = d + m
    BY <1>5
  <2>2. N * L = d * L + m * L
    BY <2>1
  <2>3. PICK p \in Nat : p = d * L /\ p % L = 0 /\ p \div L = d
    BY Multiples
  <2>4. F - n = p
    BY <1>1, <1>5, <2>2, <2>3
  <2> QED BY <1>5, <2>1, <2>3, <2>4
<1>8. ASSUME NEW q \in 0 .. F - n - 1 PROVE At(q)' = At(n + q)
  <2>1. (IF r2 + q < Size THEN r2 + q ELSE r2 + q - Size)
          = (IF R + (n + q) < Size THEN R + (n + q) ELSE R + (n + q) - Size)
    <3>1. q \in Nat /\ n \in Nat /\ n + q < Size
      BY <1>6a
    <3>2. CASE R + n > Size
      <4>1. r2 = R + n - Size /\ r2 + q < Size /\ ~(R + (n + q) < Size)
        BY <1>2, <1>6a, <1>6b, <3>1, <3>2
      <4>2. r2 + q = R + (n + q) - Size
        BY <1>2, <1>6a, <3>1, <4>1
      <4> QED BY <4>1, <4>2
    <3>3. CASE ~(R + n > Size)
      <4>1. r2 = R + n
        BY <1>6b, <3>3
      <4>2. r2 + q = R + (n + q)
        BY <1>2, <3>1, <4>1
      <4>3. r2 + q \in Int /\ R + (n + q) \in Int
        BY <1>2, <3>1, <4>1
      <4> QED BY <1>6a, <4>2, <4>3
    <3> QED BY <3>2, <3>3
  <2>2. Place(q)' = Place(n + q)
    BY <1>2, <1>6b, <2>1 DEF Place
  <2> QED BY <1>6, <2>2 DEF At
<1>9. StoreType'
  <2>1. read_offset' \in 0 .. Size /\ filled' \in 0 .. Size
    BY <1>2, <1>6, <1>6a, <1>6b
  <2>2. filled' % RecLen = 0
    BY <1>1, <1>6, <1>7
  <2> QED BY <1>6, <2>1, <2>2 DEF StoreInv, StoreType
<1>10. BatchIsOldest'
  <2>1. batch' = [k \in 1 .. 0 |-> At(k - 1)']
    BY <1>6
  <2>2. batch' = Oldest(0)'
    BY <2>1 DEF Oldest
  <2>3. 0 \in 0 .. filled' /\ 0 % RecLen = 0
    BY <1>6, RecLenNat
  <2> QED BY <2>2, <2>3 DEF BatchIsOldest
<1>11. StoreInv'
  BY <1>6, <1>9, <1>10 DEF StoreInv, RecordIsBehind
<1>12. Records = [j \in 1 .. N |-> Rec(j)]
  BY <1>1, RecordsAre DEF StoreInv
<1>13. Records' = [j \in 1 .. N - m |-> Rec(m + j)]
  <2>1. Records' = [j \in 1 .. N - m |-> Rec(j)']
    BY <1>1, <1>6, <1>7, <1>9, RecordsNext
  <2>2. ASSUME NEW j \in 1 .. N - m PROVE Rec(j)' = Rec(m + j)
    <3>1. PICK p \in Nat : p = j - 1 /\ p < N - m
      BY <1>7
    <3>2. PICK a \in Nat : a = p * L
      OBVIOUS
    <3>3. a + L <= F - n
      <4>1. p * L + L <= (N - m) * L
        BY <1>7, <3>1, Multiples
      <4> QED BY <1>7, <3>2, <4>1
    <3>4. (m + j - 1) * L = n + a
      <4>1. m + j - 1 = m + p
        BY <1>5, <3>1
      <4>2. (m + p) * L = m * L + p * L
        BY Multiples
      <4> QED BY <1>5, <3>2, <4>1, <4>2
    <3>5. ASSUME NEW k \in 1 .. L PROVE At(a + k - 1)' = At((m + j - 1) * L + k - 1)
      <4>1. PICK q \in 0 .. F - n - 1 : q = a + k - 1
        BY <3>3
      <4>2. At(q)' = At(n + q)
        BY <1>8
      <4>3. n + q = n + a + k - 1
        BY <1>3, <4>1
      <4> QED BY <3>4, <4>1, <4>2, <4>3
    <3>6. Rec(j)' = [k \in 1 .. L |-> At(a + k - 1)']
      BY <1>1, <3>1, <3>2 DEF Rec
    <3>7. Rec(m + j) = [k \in 1 .. L |-> At((m + j - 1) * L + k - 1)]
      BY <1>1 DEF Rec
    <3> QED BY <3>5, <3>6, <3>7
  <2> QED BY <2>1, <2>2
<1>14. Len(Records) = N /\ Records' = SubSeq(Records, m + 1, N)
  <2>1. PICK s, T : s = Records /\ T = {s[j] : j \in 1 .. N}
    OBVIOUS
  <2>2. s \in Seq(T) /\ Len(s) = N
    <3>1. DOMAIN s = 1 .. N /\ s = [j \in 1 .. N |-> s[j]]
      BY <1>12, <2>1
    <3> QED BY <2>1, <3>1, FunIsSeq
  <2>3. PICK d \in Nat : d = N - m /\ m + d = N
    BY <1>7
  <2>4. SubSeq(s, m + 1, m + d) = [j \in 1 .. d |-> s[m + j]]
    BY <2>2, <2>3, SubSeqIs
  <2>5. \A j \in 1 .. d : s[m + j] = Rec(m + j)
    BY <1>12, <2>1, <2>3
  <2> QED BY <1>13, <2>1, <2>2, <2>3, <2>4, <2>5
<1> QED BY <1>5, <1>11, <1>14

\* A reset in the middle of a write loses that record only.
LEMMA ResetKeeps ==
  ASSUME StoreAssumption, StoreInv, Reset
  PROVE  StoreInv' /\ Records' = Records
<1>1. /\ UNCHANGED <<buf, read_offset, filled, meta_hdr_idx, meta, boots>>
      /\ init' = FALSE /\ pc' = "idle" /\ batch' = <<>>
  BY DEF Reset
<1>2. StoreType'
  BY <1>1 DEF StoreInv, StoreType
<1>3. BatchIsOldest'
  <2>1. batch' = [k \in 1 .. 0 |-> At(k - 1)']
    BY <1>1
  <2>2. batch' = Oldest(0)'
    BY <2>1 DEF Oldest
  <2>3. 0 \in 0 .. filled' /\ 0 % RecLen = 0
    BY <1>1, RecLenNat DEF StoreInv, StoreType
  <2> QED BY <2>2, <2>3 DEF BatchIsOldest
<1>4. StoreInv'
  BY <1>1, <1>2, <1>3 DEF StoreInv, RecordIsBehind
<1>5. \A q : At(q)' = At(q)
  BY <1>1 DEF At, Place
<1> QED BY <1>1, <1>2, <1>4, <1>5, SameRecords DEF StoreInv

\* The next boot finds the records, or an empty store after a power-on.
LEMMA InitStoreKeeps ==
  ASSUME StoreAssumption, StoreInv, NEW powerOn \in BOOLEAN, NEW changed \in BOOLEAN,
         InitStore(powerOn, changed)
  PROVE  /\ StoreInv'
         /\ \/ Records' = Records
            \/ \E m \in 1 .. Len(Records) : Records' = SubSeq(Records, m + 1, Len(Records))
<1>1. /\ UNCHANGED <<buf, pc, record, batch>> /\ init' = TRUE /\ ~init
      /\ boots' = boots + 1 /\ boots < MaxBoots
      /\ \/ read_offset' = read_offset /\ filled' = filled
         \/ read_offset' = 0 /\ filled' = 0
  BY DEF InitStore
<1>2. meta_hdr_idx' \in 0 .. MaxMeta - 1
  <2>1. PICK a \in Nat : a = (IF powerOn THEN 255 ELSE meta_hdr_idx) + 1
    BY DEF StoreInv, StoreType
  <2>2. a % MaxMeta \in 0 .. MaxMeta - 1
    BY <2>1 DEF StoreAssumption
  <2> QED BY <2>1, <2>2 DEF InitStore
<1>3. pc = "idle" /\ batch = <<>>
  <2>1. PICK n \in 0 .. filled : batch = Oldest(n) /\ (n > 0 => init)
    BY DEF StoreInv, BatchIsOldest
  <2>2. n = 0
    BY <1>1, <2>1
  <2>3. batch = [k \in 1 .. 0 |-> At(k - 1)]
    BY <2>1, <2>2 DEF Oldest
  <2> QED BY <1>1, <2>3 DEF StoreInv, RecordIsBehind
<1>4. StoreType'
  <2>1. 0 % RecLen = 0
    BY RecLenNat
  <2>2. boots' \in 0 .. MaxBoots /\ boots' > 0
    BY <1>1 DEF StoreInv, StoreType, StoreAssumption
  <2>3. read_offset' \in 0 .. Size /\ filled' \in 0 .. Size /\ filled' % RecLen = 0
    BY <1>1, <2>1, RecLenNat DEF StoreInv, StoreType
  <2> QED BY <1>1, <1>2, <2>2, <2>3 DEF StoreInv, StoreType
<1>5. BatchIsOldest'
  <2>1. batch' = [k \in 1 .. 0 |-> At(k - 1)']
    BY <1>1, <1>3
  <2>2. batch' = Oldest(0)'
    BY <2>1 DEF Oldest
  <2>3. 0 \in 0 .. filled' /\ 0 % RecLen = 0
    BY <1>4, RecLenNat DEF StoreType
  <2> QED BY <2>2, <2>3 DEF BatchIsOldest
<1>6. StoreInv'
  BY <1>1, <1>3, <1>4, <1>5 DEF StoreInv, RecordIsBehind
<1>7. CASE read_offset' = read_offset /\ filled' = filled
  <2>1. \A q : At(q)' = At(q)
    BY <1>1, <1>7 DEF At, Place
  <2> QED BY <1>4, <1>6, <1>7, <2>1, SameRecords DEF StoreInv
<1>8. CASE filled' = 0
  <2>1. PICK F \in Nat, N \in Nat : F = filled /\ N = F \div RecLen /\ F = N * RecLen /\ F <= Size
    BY FilledIs DEF StoreInv
  <2>2. PICK s, T : s = Records /\ T = {s[j] : j \in 1 .. N}
    OBVIOUS
  <2>3. s = [j \in 1 .. N |-> Rec(j)]
    BY <2>1, <2>2, RecordsAre DEF StoreInv
  <2>4. s \in Seq(T) /\ Len(s) = N
    <3>1. DOMAIN s = 1 .. N /\ s = [j \in 1 .. N |-> s[j]]
      BY <2>3
    <3> QED BY <2>2, <3>1, FunIsSeq
  <2>5. Records' = [j \in 1 .. 0 |-> Rec(j)']
    <3>1. Records' = [j \in 1 .. filled' \div RecLen |-> Rec(j)']
      BY <1>4, RecordsNext
    <3>2. 0 \div RecLen = 0
      BY RecLenNat
    <3> QED BY <1>8, <3>1, <3>2
  <2>6. CASE N = 0
    <3>1. s = <<>> /\ Records' = <<>>
      BY <2>3, <2>5, <2>6
    <3> QED BY <1>6, <2>2, <3>1
  <2>7. CASE N # 0
    <3>1. N \in 1 .. Len(s)
      BY <2>4, <2>7
    <3>2. SubSeq(s, N + 1, N + 0) = [j \in 1 .. 0 |-> s[N + j]]
      BY <2>4, SubSeqIs
    <3>3. Records' = SubSeq(s, N + 1, Len(s))
      BY <2>4, <2>5, <3>2
    <3> QED BY <1>6, <2>2, <3>1, <3>3
  <2> QED BY <2>6, <2>7
<1> QED BY <1>1, <1>7, <1>8

\* Every step keeps the invariant, and is a step of the queue or none.
LEMMA StoreStep ==
  ASSUME StoreAssumption, StoreInv, [Next]_vars
  PROVE  /\ StoreInv'
         /\ \/ Records' = Records
            \/ \E r \in Record : Len(Records) < Capacity /\ Records' = Append(Records, r)
            \/ \E m \in 1 .. Len(Records) : Records' = SubSeq(Records, m + 1, Len(Records))
<1>1. CASE \E data \in Payloads : DataWrite(data)
  <2>1. PICK data \in Payloads : DataWrite(data)
    BY <1>1
  <2>2. filled' = filled
    BY <2>1 DEF DataWrite
  <2> QED BY <2>1, <2>2, DataWriteKeeps, SameRecords DEF StoreInv
<1>2. CASE WriteHeader
  <2>1. filled' = filled
    BY <1>2 DEF WriteHeader
  <2> QED BY <1>2, <2>1, WriteHeaderKeeps, SameRecords DEF StoreInv
<1>3. CASE WriteData
  <2>1. filled' = filled
    BY <1>3 DEF WriteData
  <2> QED BY <1>3, <2>1, WriteDataKeeps, SameRecords DEF StoreInv
<1>4. CASE WriteComplete
  BY <1>4, WriteCompleteKeeps
<1>5. CASE ReadBatch
  BY <1>5, ReadBatchKeeps
<1>6. CASE Release
  BY <1>6, ReleaseKeeps
<1>7. CASE Reset
  BY <1>7, ResetKeeps
<1>8. CASE \E powerOn, changed \in BOOLEAN : InitStore(powerOn, changed)
  BY <1>8, InitStoreKeeps
<1>9. CASE UNCHANGED vars
  <2>1. \A q : At(q)' = At(q)
    BY <1>9 DEF vars, At, Place
  <2>2. StoreType' /\ RecordIsBehind'
    BY <1>9, <2>1 DEF vars, StoreInv, StoreType, RecordIsBehind, Written
  <2>3. BatchIsOldest'
    <3>1. \A n : Oldest(n)' = Oldest(n)
      BY <2>1 DEF Oldest
    <3> QED BY <1>9, <3>1 DEF vars, StoreInv, BatchIsOldest
  <2> QED BY <1>9, <2>1, <2>2, <2>3, SameRecords DEF vars, StoreInv
<1> QED BY <1>1, <1>2, <1>3, <1>4, <1>5, <1>6, <1>7, <1>8, <1>9 DEF Next

\* The store starts empty.
LEMMA StoreStarts ==
  ASSUME StoreAssumption, Init
  PROVE  StoreInv /\ Records = <<>>
<1>1. StoreType
  <2>1. 0 % RecLen = 0
    BY RecLenNat
  <2>2. DOMAIN buf = 0 .. Size - 1
    BY DEF Init
  <2>3. 0 \in 0 .. Size /\ 0 \in 0 .. MaxMeta - 1 /\ 0 \in 0 .. MaxBoots
    BY RecLenNat DEF StoreAssumption
  <2> QED BY <2>1, <2>2, <2>3 DEF Init, StoreType
<1>2. BatchIsOldest
  <2>1. batch = [k \in 1 .. 0 |-> At(k - 1)]
    BY DEF Init
  <2>2. 0 \in 0 .. filled /\ 0 % RecLen = 0
    BY RecLenNat DEF Init
  <2> QED BY <2>1, <2>2 DEF BatchIsOldest, Oldest
<1>3. StoreInv
  BY <1>1, <1>2 DEF StoreInv, RecordIsBehind, Init
<1>4. Records = [j \in 1 .. 0 |-> Rec(j)]
  <2>1. filled \div RecLen = 0
    BY RecLenNat DEF Init
  <2> QED BY <1>1, <2>1, RecordsAre
<1> QED BY <1>3, <1>4

\* The invariant: what is filled is whole records, the record in progress is behind
\* them, and the batch last read is the oldest of them.
THEOREM StoreIsInductive ==
  ASSUME StoreAssumption
  PROVE  Spec => []StoreInv
<1>1. Init => StoreInv
  BY StoreStarts
<1>2. StoreInv /\ [Next]_vars => StoreInv'
  BY StoreStep
<1> QED BY <1>1, <1>2, PTL DEF Spec

\* The invariant gives the properties.
LEMMA StoreInvImplies ==
  ASSUME StoreAssumption
  PROVE  StoreInv => ReleasesWhatWasSent /\ BoundsFit
<1> SUFFICES ASSUME StoreInv PROVE ReleasesWhatWasSent /\ BoundsFit
  OBVIOUS
<1>1. PICK n \in 0 .. filled : batch = Oldest(n)
  BY DEF StoreInv, BatchIsOldest
<1>2. n \in Nat /\ n <= filled
  BY RecLenNat DEF StoreInv, StoreType
<1>3. DOMAIN batch = 1 .. n /\ batch = [k \in 1 .. n |-> batch[k]]
  BY <1>1 DEF Oldest
<1>4. Len(batch) = n
  BY <1>2, <1>3, FunIsSeq
<1>5. batch = Unread(Len(batch))
  BY <1>1, <1>2, <1>4, UnreadIsOldest DEF StoreInv
<1>6. BoundsFit
  BY RecLenNat DEF StoreInv, StoreType, BoundsFit
<1> QED BY <1>5, <1>6 DEF ReleasesWhatWasSent

\* rtc_store_critical_data_release gives up the bytes that were sent, and the bounds
\* always pass the integrity check of the next boot.
THEOREM StoreSafe ==
  ASSUME StoreAssumption
  PROVE  Spec => [](ReleasesWhatWasSent /\ BoundsFit)
BY StoreIsInductive, StoreInvImplies, PTL

\* rtc_store.c implements a bounded queue of whole records: each step appends one,
\* gives up some of the oldest, or changes none.
THEOREM StoreIsAQueue ==
  ASSUME StoreAssumption
  PROVE  Spec => Queue!Spec
<1>1. Init => Queue!Init
  BY StoreStarts DEF Queue!Init
<1>2. StoreInv /\ [Next]_vars => [Queue!Next]_Records
  BY StoreStep DEF Queue!Next, Queue!Put, Queue!GiveUpOldest
<1> QED BY <1>1, <1>2, StoreIsInductive, PTL DEF Spec, Queue!Spec
=============================================================================
