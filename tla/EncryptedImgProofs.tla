-------------------------- MODULE EncryptedImgProofs -------------------------
(***************************************************************************)
(* The theorems of EncryptedImg, for every size of the image's fields, every *)
(* image and every way of cutting it.  A handle that has taken p bytes of the *)
(* image is described state by state (AtMagic ... AtDecode); each stage of a *)
(* call takes the description of its state to that of the next, or is done. *)
(***************************************************************************)
EXTENDS EncryptedImg, SequenceTheorems, TLAPS

-----------------------------------------------------------------------------
(* Consecutive bytes, and memcpy of them.                                  *)

\* What Bytes returns, and when two sequences are the same bytes.
LEMMA BytesAre ==
  ASSUME NEW a \in Int, NEW n \in Nat
  PROVE  /\ Bytes(a, n) \in Seq(Int) /\ Len(Bytes(a, n)) = n
         /\ \A i \in 1 .. n : Bytes(a, n)[i] = a + i - 1
         /\ n = 0 => Bytes(a, n) = <<>>
BY DEF Bytes

\* A sequence that counts up is Bytes.
LEMMA IsBytes ==
  ASSUME NEW s \in Seq(Int), NEW a \in Int, NEW n \in Nat, Len(s) = n, \A i \in 1 .. n : s[i] = a + i - 1
  PROVE  s = Bytes(a, n)
<1>1. s = [i \in 1 .. n |-> s[i]]
  OBVIOUS
<1> QED BY <1>1 DEF Bytes

\* What SubSeq returns of a part that is there.
LEMMA PartIs ==
  ASSUME NEW T, NEW u \in Seq(T), NEW p \in Nat, NEW q \in Nat, p >= 1, p <= q + 1, q <= Len(u)
  PROVE  /\ SubSeq(u, p, q) \in Seq(T)
         /\ Len(SubSeq(u, p, q)) = q - p + 1
         /\ \A k \in 1 .. q - p + 1 : SubSeq(u, p, q)[k] = u[p + k - 1]
<1>1. SubSeq(u, p, q) \in Seq(T)
  OBVIOUS
<1>2. Len(SubSeq(u, p, q)) = q - p + 1
  OBVIOUS
<1>3. \A k \in 1 .. q - p + 1 : SubSeq(u, p, q)[k] = u[p + k - 1]
  OBVIOUS
<1> QED BY <1>1, <1>2, <1>3

\* The end of a sequence may be empty.
LEMMA TailIs ==
  ASSUME NEW T, NEW u \in Seq(T), NEW p \in Nat, p >= 1
  PROVE  SubSeq(u, p, Len(u)) \in Seq(T) /\ (p > Len(u) => SubSeq(u, p, Len(u)) = <<>>)
<1>1. CASE p > Len(u)
  BY <1>1, SubSeqEmpty
<1>2. CASE p <= Len(u)
  BY <1>2, PartIs
<1> QED BY <1>1, <1>2

\* A part of consecutive bytes.
LEMMA BytesPart ==
  ASSUME NEW a \in Int, NEW n \in Nat, NEW p \in Nat, NEW q \in Nat, p >= 1, p <= q + 1, q <= n
  PROVE  SubSeq(Bytes(a, n), p, q) = Bytes(a + p - 1, q - p + 1)
<1>1. PICK s : s = Bytes(a, n)
  OBVIOUS
<1>2. s \in Seq(Int) /\ Len(s) = n /\ \A i \in 1 .. n : s[i] = a + i - 1
  BY <1>1, BytesAre
<1>3. PICK t : t = SubSeq(s, p, q)
  OBVIOUS
<1>4. t \in Seq(Int) /\ Len(t) = q - p + 1 /\ \A k \in 1 .. q - p + 1 : t[k] = s[p + k - 1]
  BY <1>2, <1>3, PartIs
<1>5. PICK b \in Int, m \in Nat : b = a + p - 1 /\ m = q - p + 1
  OBVIOUS
<1>6. \A k \in 1 .. m : t[k] = b + k - 1
  <2>1. \A k \in 1 .. m : p + k - 1 \in 1 .. n /\ a + (p + k - 1) - 1 = b + k - 1
    BY <1>5
  <2> QED BY <1>2, <1>4, <1>5, <2>1
<1>7. t = Bytes(b, m)
  BY <1>4, <1>5, <1>6, IsBytes
<1> QED BY <1>1, <1>3, <1>5, <1>7

\* Two pieces that follow each other.
LEMMA BytesJoin ==
  ASSUME NEW a \in Int, NEW n \in Nat, NEW k \in Nat
  PROVE  Bytes(a, n) \o Bytes(a + n, k) = Bytes(a, n + k)
<1>1. PICK s, t : s = Bytes(a, n) /\ t = Bytes(a + n, k)
  OBVIOUS
<1>2. s \in Seq(Int) /\ Len(s) = n /\ \A i \in 1 .. n : s[i] = a + i - 1
  BY <1>1, BytesAre
<1>3. t \in Seq(Int) /\ Len(t) = k /\ \A i \in 1 .. k : t[i] = a + n + i - 1
  <2>1. PICK b \in Int : b = a + n
    OBVIOUS
  <2> QED BY <1>1, <2>1, BytesAre
<1>4. PICK u : u = s \o t
  OBVIOUS
<1>5. u \in Seq(Int) /\ Len(u) = n + k
  BY <1>2, <1>3, <1>4
<1>6. ASSUME NEW i \in 1 .. n + k PROVE u[i] = a + i - 1
  <2>1. CASE i <= n
    BY <1>2, <1>3, <1>4, <2>1
  <2>2. CASE i > n
    <3>1. i - n \in 1 .. k /\ u[i] = t[i - n]
      BY <1>2, <1>3, <1>4, <2>2
    <3>2. t[i - n] = a + n + (i - n) - 1
      BY <1>3, <3>1
    <3> QED BY <3>1, <3>2
  <2> QED BY <2>1, <2>2
<1>7. u = Bytes(a, n + k)
  BY <1>5, <1>6, IsBytes
<1> QED BY <1>1, <1>4, <1>7

\* s begins with the bytes a, a + 1, ..., k of them.
Begins(s, a, k) == s \in Seq(Int) /\ Len(s) >= k /\ SubSeq(s, 1, k) = Bytes(a, k)

\* The beginning of a concatenation.
LEMMA Prefix ==
  ASSUME NEW s \in Seq(Int), NEW t \in Seq(Int)
  PROVE  SubSeq(s \o t, 1, Len(s)) = s
<1>0. Len(s) \in Nat
  OBVIOUS
<1>1. PICK n, u : n \in Nat /\ u = s \o t /\ n = Len(s)
  BY <1>0
<1> n \in Nat
  BY <1>1
<1>2. u \in Seq(Int) /\ Len(u) >= n /\ \A i \in 1 .. n : u[i] = s[i]
  BY <1>1
<1>3. PICK v : v = SubSeq(u, 1, n)
  OBVIOUS
<1>4. v \in Seq(Int) /\ Len(v) = n /\ \A i \in 1 .. n : v[i] = u[i]
  BY <1>2, <1>3, PartIs
<1> QED BY <1>1, <1>2, <1>3, <1>4

\* A copy behind what is there.
LEMMA CopyBegins ==
  ASSUME NEW s, NEW a \in Int, NEW k \in Nat, NEW j \in Nat, Begins(s, a, k)
  PROVE  Begins(Copy(s, k, Bytes(a + k, j)), a, k + j)
<1>1. PICK b, rest : b = Bytes(a, k + j) /\ rest = SubSeq(s, k + j + 1, Len(s))
  OBVIOUS
<1>2. b \in Seq(Int) /\ Len(b) = k + j /\ Len(Bytes(a + k, j)) = j
  BY <1>1, BytesAre
<1>3. rest \in Seq(Int)
  BY <1>1, TailIs DEF Begins
<1>4. Copy(s, k, Bytes(a + k, j)) = b \o rest
  <2>1. SubSeq(s, 1, k) \o Bytes(a + k, j) = b
    BY <1>1, BytesJoin DEF Begins
  <2> QED BY <1>1, <1>2, <2>1 DEF Copy
<1>5. b \o rest \in Seq(Int) /\ Len(b \o rest) >= k + j
  BY <1>2, <1>3
<1>6. SubSeq(b \o rest, 1, k + j) = b
  BY <1>2, <1>3, Prefix
<1> QED BY <1>1, <1>4, <1>5, <1>6 DEF Begins

\* memcpy to the end of what was gathered, in a buffer that ends there.
LEMMA CopyExact ==
  ASSUME NEW a \in Int, NEW k \in Nat, NEW j \in Nat
  PROVE  Copy(Bytes(a, k), k, Bytes(a + k, j)) = Bytes(a, k + j)
<1>1. PICK s, b, rest : s = Bytes(a, k) /\ b = Bytes(a, k + j) /\ rest = SubSeq(s, k + j + 1, Len(s))
  OBVIOUS
<1>2. s \in Seq(Int) /\ Len(s) = k /\ b \in Seq(Int) /\ Len(Bytes(a + k, j)) = j
  BY <1>1, BytesAre
<1>3. rest = <<>>
  BY <1>1, <1>2, TailIs
<1>4. SubSeq(s, 1, k) = s
  <2>1. SubSeq(Bytes(a, k), 1, k) = Bytes(a + 1 - 1, k - 1 + 1)
    <3>1. PICK p \in Nat : p = 1 /\ p >= 1 /\ p <= k + 1 /\ k <= k
      OBVIOUS
    <3> QED BY <3>1, BytesPart
  <2>2. a + 1 - 1 = a /\ k - 1 + 1 = k
    OBVIOUS
  <2> QED BY <1>1, <2>1, <2>2
<1>5. Copy(s, k, Bytes(a + k, j)) = b \o rest
  BY <1>1, <1>2, <1>4, BytesJoin DEF Copy
<1>6. b \o <<>> = b
  BY <1>2
<1> QED BY <1>1, <1>3, <1>5, <1>6

\* A handle and a call with these fields.
H(st, cached, cache, read, len, iv, auth, pem) ==
  [state |-> st, cached |-> cached, cache |-> cache, read |-> read, len |-> len,
   iv |-> iv, auth |-> auth, pem |-> pem]
C(h, data, cur, r, o, g) == [h |-> h, data |-> data, cur |-> cur, ret |-> r, out |-> o, gcm |-> g]

-----------------------------------------------------------------------------
(* Calls and handles written out.                                          *)

\* The fields of a handle.
LEMMA HandleFields ==
  ASSUME NEW st, NEW cached, NEW cache, NEW read, NEW len, NEW iv, NEW auth, NEW pem
  PROVE  LET h == H(st, cached, cache, read, len, iv, auth, pem)
         IN  /\ h.state = st /\ h.cached = cached /\ h.cache = cache /\ h.read = read
             /\ h.len = len /\ h.iv = iv /\ h.auth = auth /\ h.pem = pem
BY DEF H

\* The fields of a call.
LEMMA CallFields ==
  ASSUME NEW h, NEW data, NEW cur, NEW r, NEW o, NEW g
  PROVE  LET c == C(h, data, cur, r, o, g)
         IN  c.h = h /\ c.data = data /\ c.cur = cur /\ c.ret = r /\ c.out = o /\ c.gcm = g
BY DEF C

\* Returning and skipping bytes, on a call written out.
LEMMA ReturnIs ==
  ASSUME NEW h, NEW data, NEW cur, NEW r, NEW o, NEW g, NEW x
  PROVE  /\ Return(C(h, data, cur, r, o, g), x) = C(h, data, cur, x, o, g)
         /\ Skip(C(h, data, cur, r, o, g), x) = C(h, data, cur + x, r, o, g)
BY DEF C, Return, Skip

\* One field of the handle is set, the others stay.
LEMMA StateIs ==
  ASSUME NEW st, NEW cached, NEW cache, NEW read, NEW len, NEW iv, NEW auth, NEW pem,
         NEW data, NEW cur, NEW r, NEW o, NEW g, NEW x
  PROVE  [C(H(st, cached, cache, read, len, iv, auth, pem), data, cur, r, o, g) EXCEPT !.h.state = x]
           = C(H(x, cached, cache, read, len, iv, auth, pem), data, cur, r, o, g)
<1>1. PICK h : h = H(st, cached, cache, read, len, iv, auth, pem)
  OBVIOUS
<1>2. PICK h1 : h1 = [h EXCEPT !.state = x]
  OBVIOUS
<1>3. h1 = H(x, cached, cache, read, len, iv, auth, pem)
  BY <1>1, <1>2 DEF H
<1>4. [C(h, data, cur, r, o, g) EXCEPT !.h.state = x] = C(h1, data, cur, r, o, g)
  BY <1>2 DEF C
<1> QED BY <1>1, <1>3, <1>4

\* The same for cached.
LEMMA CachedIs ==
  ASSUME NEW st, NEW cached, NEW cache, NEW read, NEW len, NEW iv, NEW auth, NEW pem,
         NEW data, NEW cur, NEW r, NEW o, NEW g, NEW x
  PROVE  [C(H(st, cached, cache, read, len, iv, auth, pem), data, cur, r, o, g) EXCEPT !.h.cached = x]
           = C(H(st, x, cache, read, len, iv, auth, pem), data, cur, r, o, g)
<1>1. PICK h : h = H(st, cached, cache, read, len, iv, auth, pem)
  OBVIOUS
<1>2. PICK h1 : h1 = [h EXCEPT !.cached = x]
  OBVIOUS
<1>3. h1 = H(st, x, cache, read, len, iv, auth, pem)
  BY <1>1, <1>2 DEF H
<1>4. [C(h, data, cur, r, o, g) EXCEPT !.h.cached = x] = C(h1, data, cur, r, o, g)
  BY <1>2 DEF C
<1> QED BY <1>1, <1>3, <1>4

\* The same for the private key.
LEMMA PemIs ==
  ASSUME NEW st, NEW cached, NEW cache, NEW read, NEW len, NEW iv, NEW auth, NEW pem,
         NEW data, NEW cur, NEW r, NEW o, NEW g, NEW x
  PROVE  [C(H(st, cached, cache, read, len, iv, auth, pem), data, cur, r, o, g) EXCEPT !.h.pem = x]
           = C(H(st, cached, cache, read, len, iv, auth, x), data, cur, r, o, g)
<1>1. PICK h : h = H(st, cached, cache, read, len, iv, auth, pem)
  OBVIOUS
<1>2. PICK h1 : h1 = [h EXCEPT !.pem = x]
  OBVIOUS
<1>3. h1 = H(st, cached, cache, read, len, iv, auth, x)
  BY <1>1, <1>2 DEF H
<1>4. [C(h, data, cur, r, o, g) EXCEPT !.h.pem = x] = C(h1, data, cur, r, o, g)
  BY <1>2 DEF C
<1> QED BY <1>1, <1>3, <1>4

\* The same for the vector.
LEMMA IvIs ==
  ASSUME NEW st, NEW cached, NEW cache, NEW read, NEW len, NEW iv, NEW auth, NEW pem,
         NEW data, NEW cur, NEW r, NEW o, NEW g, NEW x
  PROVE  [C(H(st, cached, cache, read, len, iv, auth, pem), data, cur, r, o, g) EXCEPT !.h.iv = x]
           = C(H(st, cached, cache, read, len, x, auth, pem), data, cur, r, o, g)
<1>1. PICK h : h = H(st, cached, cache, read, len, iv, auth, pem)
  OBVIOUS
<1>2. PICK h1 : h1 = [h EXCEPT !.iv = x]
  OBVIOUS
<1>3. h1 = H(st, cached, cache, read, len, x, auth, pem)
  BY <1>1, <1>2 DEF H
<1>4. [C(h, data, cur, r, o, g) EXCEPT !.h.iv = x] = C(h1, data, cur, r, o, g)
  BY <1>2 DEF C
<1> QED BY <1>1, <1>3, <1>4

\* The same for the tag.
LEMMA AuthIs ==
  ASSUME NEW st, NEW cached, NEW cache, NEW read, NEW len, NEW iv, NEW auth, NEW pem,
         NEW data, NEW cur, NEW r, NEW o, NEW g, NEW x
  PROVE  [C(H(st, cached, cache, read, len, iv, auth, pem), data, cur, r, o, g) EXCEPT !.h.auth = x]
           = C(H(st, cached, cache, read, len, iv, x, pem), data, cur, r, o, g)
<1>1. PICK h : h = H(st, cached, cache, read, len, iv, auth, pem)
  OBVIOUS
<1>2. PICK h1 : h1 = [h EXCEPT !.auth = x]
  OBVIOUS
<1>3. h1 = H(st, cached, cache, read, len, iv, x, pem)
  BY <1>1, <1>2 DEF H
<1>4. [C(h, data, cur, r, o, g) EXCEPT !.h.auth = x] = C(h1, data, cur, r, o, g)
  BY <1>2 DEF C
<1> QED BY <1>1, <1>3, <1>4

\* The same for the place in the chunk.
LEMMA CurIs ==
  ASSUME NEW h, NEW data, NEW cur, NEW r, NEW o, NEW g, NEW x
  PROVE  [C(h, data, cur, r, o, g) EXCEPT !.cur = x] = C(h, data, x, r, o, g)
BY DEF C

\* The same for the length of the binary.
LEMMA LenIs ==
  ASSUME NEW st, NEW cached, NEW cache, NEW read, NEW len, NEW iv, NEW auth, NEW pem,
         NEW data, NEW cur, NEW r, NEW o, NEW g, NEW x
  PROVE  [C(H(st, cached, cache, read, len, iv, auth, pem), data, cur, r, o, g) EXCEPT !.h.len = x]
           = C(H(st, cached, cache, read, x, iv, auth, pem), data, cur, r, o, g)
<1>1. PICK h : h = H(st, cached, cache, read, len, iv, auth, pem)
  OBVIOUS
<1>2. PICK h1 : h1 = [h EXCEPT !.len = x]
  OBVIOUS
<1>3. h1 = H(st, cached, cache, read, x, iv, auth, pem)
  BY <1>1, <1>2 DEF H
<1>4. [C(h, data, cur, r, o, g) EXCEPT !.h.len = x] = C(h1, data, cur, r, o, g)
  BY <1>2 DEF C
<1> QED BY <1>1, <1>3, <1>4

\* The same for the cache.
LEMMA CacheIs ==
  ASSUME NEW st, NEW cached, NEW cache, NEW read, NEW len, NEW iv, NEW auth, NEW pem,
         NEW data, NEW cur, NEW r, NEW o, NEW g, NEW x
  PROVE  [C(H(st, cached, cache, read, len, iv, auth, pem), data, cur, r, o, g) EXCEPT !.h.cache = x]
           = C(H(st, cached, x, read, len, iv, auth, pem), data, cur, r, o, g)
<1>1. PICK h : h = H(st, cached, cache, read, len, iv, auth, pem)
  OBVIOUS
<1>2. PICK h1 : h1 = [h EXCEPT !.cache = x]
  OBVIOUS
<1>3. h1 = H(st, cached, x, read, len, iv, auth, pem)
  BY <1>1, <1>2 DEF H
<1>4. [C(h, data, cur, r, o, g) EXCEPT !.h.cache = x] = C(h1, data, cur, r, o, g)
  BY <1>2 DEF C
<1> QED BY <1>1, <1>3, <1>4

\* A new state begins with nothing read.
LEMMA EnterIs ==
  ASSUME NEW st, NEW cached, NEW cache, NEW read, NEW len, NEW iv, NEW auth, NEW pem,
         NEW data, NEW cur, NEW r, NEW o, NEW g, NEW s
  PROVE  Enter(C(H(st, cached, cache, read, len, iv, auth, pem), data, cur, r, o, g), s)
           = C(H(s, 0, cache, 0, len, iv, auth, pem), data, cur, r, o, g)
<1>1. PICK h : h = H(st, cached, cache, read, len, iv, auth, pem)
  OBVIOUS
<1>2. PICK c : c = C(h, data, cur, r, o, g)
  OBVIOUS
<1>2a. c.h = h
  BY <1>2 DEF C
<1>3. PICK h1 : h1 = [h EXCEPT !.state = s]
  OBVIOUS
<1>4. PICK h2 : h2 = [h1 EXCEPT !.read = 0]
  OBVIOUS
<1>5. PICK h3 : h3 = [h2 EXCEPT !.cached = 0]
  OBVIOUS
<1>6. Enter(c, s) = [c EXCEPT !.h = h3]
  BY <1>2a, <1>3, <1>4, <1>5 DEF Enter
<1>7. h1 = H(s, cached, cache, read, len, iv, auth, pem)
  BY <1>1, <1>3 DEF H
<1>8. h2 = H(s, cached, cache, 0, len, iv, auth, pem)
  BY <1>4, <1>7 DEF H
<1>9. h3 = H(s, 0, cache, 0, len, iv, auth, pem)
  BY <1>5, <1>8 DEF H
<1>10. [c EXCEPT !.h = h3] = C(h3, data, cur, r, o, g)
  BY <1>2 DEF C
<1> QED BY <1>1, <1>2, <1>6, <1>9, <1>10

\* read_and_cache_data moves as much as the chunk and the field allow.
LEMMA ReadToCache ==
  ASSUME NEW st, NEW cached, NEW cache, NEW read, NEW len, NEW iv, NEW auth, NEW pem,
         NEW data, NEW cur, NEW r, NEW o, NEW g,
         NEW size, NEW n, n = Smaller(Len(data) - cur, size - read)
  PROVE  ReadAndCache(C(H(st, cached, cache, read, len, iv, auth, pem), data, cur, r, o, g), size, "cache")
           = C(H(st, cached + n, Copy(cache, cached, SubSeq(SubSeq(data, cur + 1, Len(data)), 1, n)), read + n, len, iv, auth, pem), data, cur + n, r, o, g)
<1>1. PICK h : h = H(st, cached, cache, read, len, iv, auth, pem)
  OBVIOUS
<1>2. PICK c : c = C(h, data, cur, r, o, g)
  OBVIOUS
<1>3. /\ c.h = h /\ c.data = data /\ c.cur = cur
      /\ h.cached = cached /\ h.read = read /\ h.cache = cache
  BY <1>1, <1>2 DEF C, H
<1>4. PICK b : b = Copy(cache, cached, SubSeq(SubSeq(data, cur + 1, Len(data)), 1, n))
  OBVIOUS
<1>5. PICK h1 : h1 = [h EXCEPT !.cache = b]
  OBVIOUS
<1>6. PICK h2 : h2 = [h1 EXCEPT !.cached = cached + n]
  OBVIOUS
<1>7. PICK h3 : h3 = [h2 EXCEPT !.read = read + n]
  OBVIOUS
<1>8. h1 = H(st, cached, b, read, len, iv, auth, pem)
  BY <1>1, <1>5 DEF H
<1>9. h2 = H(st, cached + n, b, read, len, iv, auth, pem)
  BY <1>6, <1>8 DEF H
<1>10. h3 = H(st, cached + n, b, read + n, len, iv, auth, pem)
  BY <1>7, <1>9 DEF H
<1>11. h1.cached = cached /\ h2.read = read
  BY <1>8, <1>9 DEF H
<1>12. PICK e : e = [[c EXCEPT !.h = h2] EXCEPT !.cur = cur + n]
  OBVIOUS
<1>13. ReadAndCache(c, size, "cache") = [e EXCEPT !.h = h3]
  BY <1>3, <1>4, <1>5, <1>6, <1>7, <1>11, <1>12 DEF ReadAndCache, Rest
<1>14. [e EXCEPT !.h = h3] = C(h3, data, cur + n, r, o, g)
  <2>1. PICK d : d = [c EXCEPT !.h = h2]
    OBVIOUS
  <2>2. d = C(h2, data, cur, r, o, g)
    BY <1>2, <2>1 DEF C
  <2>3. e = C(h2, data, cur + n, r, o, g)
    <3>1. PICK x : x = cur + n
      OBVIOUS
    <3>2. e = [d EXCEPT !.cur = x]
      BY <1>12, <2>1, <3>1
    <3> QED BY <2>2, <3>1, <3>2 DEF C
  <2> QED BY <2>3 DEF C
<1> QED BY <1>1, <1>2, <1>4, <1>10, <1>13, <1>14

\* The same into the vector's buffer.
LEMMA ReadToIv ==
  ASSUME NEW st, NEW cached, NEW cache, NEW read, NEW len, NEW iv, NEW auth, NEW pem,
         NEW data, NEW cur, NEW r, NEW o, NEW g,
         NEW size, NEW n, n = Smaller(Len(data) - cur, size - read)
  PROVE  ReadAndCache(C(H(st, cached, cache, read, len, iv, auth, pem), data, cur, r, o, g), size, "iv")
           = C(H(st, cached + n, cache, read + n, len, Copy(iv, cached, SubSeq(SubSeq(data, cur + 1, Len(data)), 1, n)), auth, pem), data, cur + n, r, o, g)
<1>1. PICK h : h = H(st, cached, cache, read, len, iv, auth, pem)
  OBVIOUS
<1>2. PICK c : c = C(h, data, cur, r, o, g)
  OBVIOUS
<1>3. /\ c.h = h /\ c.data = data /\ c.cur = cur
      /\ h.cached = cached /\ h.read = read /\ h.iv = iv
  BY <1>1, <1>2 DEF C, H
<1>4. PICK b : b = Copy(iv, cached, SubSeq(SubSeq(data, cur + 1, Len(data)), 1, n))
  OBVIOUS
<1>5. PICK h1 : h1 = [h EXCEPT !.iv = b]
  OBVIOUS
<1>6. PICK h2 : h2 = [h1 EXCEPT !.cached = cached + n]
  OBVIOUS
<1>7. PICK h3 : h3 = [h2 EXCEPT !.read = read + n]
  OBVIOUS
<1>8. h1 = H(st, cached, cache, read, len, b, auth, pem)
  BY <1>1, <1>5 DEF H
<1>9. h2 = H(st, cached + n, cache, read, len, b, auth, pem)
  BY <1>6, <1>8 DEF H
<1>10. h3 = H(st, cached + n, cache, read + n, len, b, auth, pem)
  BY <1>7, <1>9 DEF H
<1>11. h1.cached = cached /\ h2.read = read
  BY <1>8, <1>9 DEF H
<1>12. PICK e : e = [[c EXCEPT !.h = h2] EXCEPT !.cur = cur + n]
  OBVIOUS
<1>13. ReadAndCache(c, size, "iv") = [e EXCEPT !.h = h3]
  BY <1>3, <1>4, <1>5, <1>6, <1>7, <1>11, <1>12 DEF ReadAndCache, Rest
<1>14. [e EXCEPT !.h = h3] = C(h3, data, cur + n, r, o, g)
  <2>1. PICK d : d = [c EXCEPT !.h = h2]
    OBVIOUS
  <2>2. d = C(h2, data, cur, r, o, g)
    BY <1>2, <2>1 DEF C
  <2>3. e = C(h2, data, cur + n, r, o, g)
    <3>1. PICK x : x = cur + n
      OBVIOUS
    <3>2. e = [d EXCEPT !.cur = x]
      BY <1>12, <2>1, <3>1
    <3> QED BY <2>2, <3>1, <3>2 DEF C
  <2> QED BY <2>3 DEF C
<1> QED BY <1>1, <1>2, <1>4, <1>10, <1>13, <1>14

\* The same into the tag's buffer.
LEMMA ReadToAuth ==
  ASSUME NEW st, NEW cached, NEW cache, NEW read, NEW len, NEW iv, NEW auth, NEW pem,
         NEW data, NEW cur, NEW r, NEW o, NEW g,
         NEW size, NEW n, n = Smaller(Len(data) - cur, size - read)
  PROVE  ReadAndCache(C(H(st, cached, cache, read, len, iv, auth, pem), data, cur, r, o, g), size, "auth")
           = C(H(st, cached + n, cache, read + n, len, iv, Copy(auth, cached, SubSeq(SubSeq(data, cur + 1, Len(data)), 1, n)), pem), data, cur + n, r, o, g)
<1>1. PICK h : h = H(st, cached, cache, read, len, iv, auth, pem)
  OBVIOUS
<1>2. PICK c : c = C(h, data, cur, r, o, g)
  OBVIOUS
<1>3. /\ c.h = h /\ c.data = data /\ c.cur = cur
      /\ h.cached = cached /\ h.read = read /\ h.auth = auth
  BY <1>1, <1>2 DEF C, H
<1>4. PICK b : b = Copy(auth, cached, SubSeq(SubSeq(data, cur + 1, Len(data)), 1, n))
  OBVIOUS
<1>5. PICK h1 : h1 = [h EXCEPT !.auth = b]
  OBVIOUS
<1>6. PICK h2 : h2 = [h1 EXCEPT !.cached = cached + n]
  OBVIOUS
<1>7. PICK h3 : h3 = [h2 EXCEPT !.read = read + n]
  OBVIOUS
<1>8. h1 = H(st, cached, cache, read, len, iv, b, pem)
  BY <1>1, <1>5 DEF H
<1>9. h2 = H(st, cached + n, cache, read, len, iv, b, pem)
  BY <1>6, <1>8 DEF H
<1>10. h3 = H(st, cached + n, cache, read + n, len, iv, b, pem)
  BY <1>7, <1>9 DEF H
<1>11. h1.cached = cached /\ h2.read = read
  BY <1>8, <1>9 DEF H
<1>12. PICK e : e = [[c EXCEPT !.h = h2] EXCEPT !.cur = cur + n]
  OBVIOUS
<1>13. ReadAndCache(c, size, "auth") = [e EXCEPT !.h = h3]
  BY <1>3, <1>4, <1>5, <1>6, <1>7, <1>11, <1>12 DEF ReadAndCache, Rest
<1>14. [e EXCEPT !.h = h3] = C(h3, data, cur + n, r, o, g)
  <2>1. PICK d : d = [c EXCEPT !.h = h2]
    OBVIOUS
  <2>2. d = C(h2, data, cur, r, o, g)
    BY <1>2, <2>1 DEF C
  <2>3. e = C(h2, data, cur + n, r, o, g)
    <3>1. PICK x : x = cur + n
      OBVIOUS
    <3>2. e = [d EXCEPT !.cur = x]
      BY <1>12, <2>1, <3>1
    <3> QED BY <2>2, <3>1, <3>2 DEF C
  <2> QED BY <2>3 DEF C
<1> QED BY <1>1, <1>2, <1>4, <1>10, <1>13, <1>14

\* The same for binary_file_read.
LEMMA ReadIs ==
  ASSUME NEW st, NEW cached, NEW cache, NEW read, NEW len, NEW iv, NEW auth, NEW pem,
         NEW data, NEW cur, NEW r, NEW o, NEW g, NEW x
  PROVE  [C(H(st, cached, cache, read, len, iv, auth, pem), data, cur, r, o, g) EXCEPT !.h.read = x]
           = C(H(st, cached, cache, x, len, iv, auth, pem), data, cur, r, o, g)
<1>1. PICK h : h = H(st, cached, cache, read, len, iv, auth, pem)
  OBVIOUS
<1>2. PICK h1 : h1 = [h EXCEPT !.read = x]
  OBVIOUS
<1>3. h1 = H(st, cached, cache, x, len, iv, auth, pem)
  BY <1>1, <1>2 DEF H
<1>4. [C(h, data, cur, r, o, g) EXCEPT !.h.read = x] = C(h1, data, cur, r, o, g)
  BY <1>2 DEF C
<1> QED BY <1>1, <1>3, <1>4

\* mbedtls_gcm_update on a call written out.
LEMMA UpdateIs ==
  ASSUME NEW h, NEW data, NEW cur, NEW r, NEW o, NEW g, NEW bytes, NEW at
  PROVE  Update(C(h, data, cur, r, o, g), bytes, at) = C(h, data, cur, r, Copy(o, at, bytes), g \o bytes)
<1>1. PICK c : c = C(h, data, cur, r, o, g)
  OBVIOUS
<1>2. c.out = o /\ c.gcm = g
  BY <1>1 DEF C
<1>3. PICK x, y : x = g \o bytes /\ y = Copy(o, at, bytes)
  OBVIOUS
<1>4. PICK d : d = [c EXCEPT !.gcm = x]
  OBVIOUS
<1>5. d = C(h, data, cur, r, o, x)
  BY <1>1, <1>4 DEF C
<1>6. d.out = o
  BY <1>5 DEF C
<1>7. Update(c, bytes, at) = [d EXCEPT !.out = y]
  BY <1>2, <1>3, <1>4, <1>6 DEF Update
<1>8. [d EXCEPT !.out = y] = C(h, data, cur, r, y, x)
  BY <1>5 DEF C
<1> QED BY <1>1, <1>3, <1>7, <1>8

-----------------------------------------------------------------------------
(* The chunk, and gathering a field from it.                               *)

\* Where the fields of the header are.
LEMMA Places ==
  ASSUME EncryptedImgAssumption
  PROVE  /\ MAGIC_SIZE \in Nat /\ ENC_GCM_KEY_SIZE \in Nat /\ IV_SIZE \in Nat /\ BIN_SIZE_DATA \in Nat
         /\ AUTH_SIZE \in Nat /\ RESERVED_HEADER \in Nat /\ BLOCK \in Nat
         /\ MAGIC_SIZE > 0 /\ ENC_GCM_KEY_SIZE > 0 /\ IV_SIZE > 0 /\ BIN_SIZE_DATA > 0
         /\ AUTH_SIZE > 0 /\ RESERVED_HEADER > 0 /\ BLOCK > 0
         /\ KeyAt \in Nat /\ IvAt \in Nat /\ LenAt \in Nat /\ AuthAt \in Nat /\ ExtraAt \in Nat /\ BinAt \in Nat
         /\ KeyAt = MAGIC_SIZE /\ IvAt = KeyAt + ENC_GCM_KEY_SIZE /\ LenAt = IvAt + IV_SIZE
         /\ AuthAt = LenAt + BIN_SIZE_DATA /\ ExtraAt = AuthAt + AUTH_SIZE /\ BinAt = ExtraAt + RESERVED_HEADER
BY DEF EncryptedImgAssumption, KeyAt, IvAt, LenAt, AuthAt, ExtraAt, BinAt

\* What is left of a chunk that starts at byte t.
LEMMA LeftIs ==
  ASSUME NEW t \in Nat, NEW n \in Nat, NEW cur \in Nat, cur <= n
  PROVE  SubSeq(Bytes(t, n), cur + 1, Len(Bytes(t, n))) = Bytes(t + cur, n - cur)
<1>1. Len(Bytes(t, n)) = n
  BY BytesAre
<1>2. PICK p \in Nat : p = cur + 1 /\ p >= 1 /\ p <= n + 1 /\ n <= n /\ t \in Int
  OBVIOUS
<1>3. SubSeq(Bytes(t, n), p, n) = Bytes(t + p - 1, n - p + 1)
  BY <1>2, BytesPart
<1>4. t + p - 1 = t + cur /\ n - p + 1 = n - cur
  BY <1>2
<1> QED BY <1>1, <1>2, <1>3, <1>4

\* The rest of the chunk, of a call written out.
LEMMA RestIs ==
  ASSUME NEW h, NEW t \in Nat, NEW n \in Nat, NEW cur \in Nat, cur <= n, NEW r, NEW o, NEW g
  PROVE  Rest(C(h, Bytes(t, n), cur, r, o, g)) = Bytes(t + cur, n - cur)
<1>1. PICK D : D = Bytes(t, n)
  OBVIOUS
<1>2. Rest(C(h, D, cur, r, o, g)) = SubSeq(D, cur + 1, Len(D))
  <2>1. C(h, D, cur, r, o, g).data = D /\ C(h, D, cur, r, o, g).cur = cur
    BY CallFields
  <2> QED BY <2>1 DEF Rest
<1> QED BY <1>1, <1>2, LeftIs

\* The beginning of consecutive bytes.
LEMMA RestPart ==
  ASSUME NEW a \in Nat, NEW m \in Nat, NEW k \in Nat, k <= m
  PROVE  SubSeq(Bytes(a, m), 1, k) = Bytes(a, k)
<1>1. PICK p \in Nat : p = 1 /\ p >= 1 /\ p <= k + 1 /\ a \in Int
  OBVIOUS
<1>2. SubSeq(Bytes(a, m), p, k) = Bytes(a + p - 1, k - p + 1)
  BY <1>1, BytesPart
<1>3. a + p - 1 = a /\ k - p + 1 = k
  BY <1>1
<1> QED BY <1>1, <1>2, <1>3

\* Bytes a + k, ... of the chunk, as many as the field of size bytes still needs.
LEMMA Amount ==
  ASSUME NEW n \in Nat, NEW cur \in Nat, cur <= n, NEW size \in Nat, NEW k \in Nat, k < size,
         NEW m, m = Smaller(n - cur, size - k)
  PROVE  /\ m \in Nat /\ m <= n - cur /\ k + m <= size /\ cur + m <= n
         /\ (k + m # size => cur + m = n)
BY DEF Smaller

\* What is gathered of a field in the cache is what has come of it.
LEMMA GatherCache ==
  ASSUME NEW st, NEW cache, NEW len, NEW iv, NEW auth, NEW pem, NEW o, NEW g, NEW r,
         NEW t \in Nat, NEW n \in Nat, NEW cur \in Nat, cur <= n,
         NEW size \in Nat, NEW k \in Nat, k < size, NEW a \in Nat, t + cur = a + k,
         NEW m, m = Smaller(n - cur, size - k)
  PROVE  ReadAndCache(C(H(st, k, cache, k, len, iv, auth, pem), Bytes(t, n), cur, r, o, g), size, "cache")
           = C(H(st, k + m, Copy(cache, k, Bytes(a + k, m)), k + m, len, iv, auth, pem), Bytes(t, n), cur + m, r, o, g)
<1>1. m \in Nat /\ m <= n - cur
  BY Amount
<1>2. PICK D : D = Bytes(t, n)
  OBVIOUS
<1>3. Len(D) = n /\ SubSeq(D, cur + 1, Len(D)) = Bytes(a + k, n - cur)
  <2>1. Len(Bytes(t, n)) = n
    BY BytesAre
  <2>2. SubSeq(Bytes(t, n), cur + 1, Len(Bytes(t, n))) = Bytes(t + cur, n - cur)
    BY LeftIs
  <2> QED BY <1>2, <2>1, <2>2
<1>4. PICK part : part = SubSeq(SubSeq(D, cur + 1, Len(D)), 1, m)
  OBVIOUS
<1>5. part = Bytes(a + k, m)
  <2>1. PICK b \in Nat, l \in Nat : b = a + k /\ l = n - cur /\ m <= l
    BY <1>1
  <2>2. PICK q \in Nat : q = m /\ q <= l
    BY <1>1, <2>1
  <2>3. SubSeq(Bytes(b, l), 1, q) = Bytes(b, q)
    BY <2>2, RestPart
  <2> QED BY <1>3, <1>4, <2>1, <2>2, <2>3
<1>6. PICK kept : kept = Copy(cache, k, part)
  OBVIOUS
<1>7. kept = Copy(cache, k, Bytes(a + k, m))
  BY <1>1, <1>5, <1>6
<1>8. m = Smaller(Len(D) - cur, size - k)
  BY <1>3
<1> QED BY <1>2, <1>4, <1>6, <1>7, <1>8, ReadToCache

\* The same for the vector.
LEMMA GatherIv ==
  ASSUME NEW st, NEW cache, NEW len, NEW iv, NEW auth, NEW pem, NEW o, NEW g, NEW r,
         NEW t \in Nat, NEW n \in Nat, NEW cur \in Nat, cur <= n,
         NEW size \in Nat, NEW k \in Nat, k < size, NEW a \in Nat, t + cur = a + k, iv = Bytes(a, k),
         NEW m, m = Smaller(n - cur, size - k)
  PROVE  ReadAndCache(C(H(st, k, cache, k, len, iv, auth, pem), Bytes(t, n), cur, r, o, g), size, "iv")
           = C(H(st, k + m, cache, k + m, len, Bytes(a, k + m), auth, pem), Bytes(t, n), cur + m, r, o, g)
<1>1. m \in Nat /\ m <= n - cur
  BY Amount
<1>2. PICK D : D = Bytes(t, n)
  OBVIOUS
<1>3. Len(D) = n /\ SubSeq(D, cur + 1, Len(D)) = Bytes(a + k, n - cur)
  <2>1. Len(Bytes(t, n)) = n
    BY BytesAre
  <2>2. SubSeq(Bytes(t, n), cur + 1, Len(Bytes(t, n))) = Bytes(t + cur, n - cur)
    BY LeftIs
  <2> QED BY <1>2, <2>1, <2>2
<1>4. PICK part : part = SubSeq(SubSeq(D, cur + 1, Len(D)), 1, m)
  OBVIOUS
<1>5. part = Bytes(a + k, m)
  <2>1. PICK b \in Nat, l \in Nat : b = a + k /\ l = n - cur /\ m <= l
    BY <1>1
  <2>2. PICK q \in Nat : q = m /\ q <= l
    BY <1>1, <2>1
  <2>3. SubSeq(Bytes(b, l), 1, q) = Bytes(b, q)
    BY <2>2, RestPart
  <2> QED BY <1>3, <1>4, <2>1, <2>2, <2>3
<1>6. PICK kept : kept = Copy(iv, k, part)
  OBVIOUS
<1>7. kept = Bytes(a, k + m)
  BY <1>1, <1>5, <1>6, CopyExact
<1>8. m = Smaller(Len(D) - cur, size - k)
  BY <1>3
<1> QED BY <1>2, <1>4, <1>6, <1>7, <1>8, ReadToIv

\* The same for the tag.
LEMMA GatherAuth ==
  ASSUME NEW st, NEW cache, NEW len, NEW iv, NEW auth, NEW pem, NEW o, NEW g, NEW r,
         NEW t \in Nat, NEW n \in Nat, NEW cur \in Nat, cur <= n,
         NEW size \in Nat, NEW k \in Nat, k < size, NEW a \in Nat, t + cur = a + k, auth = Bytes(a, k),
         NEW m, m = Smaller(n - cur, size - k)
  PROVE  ReadAndCache(C(H(st, k, cache, k, len, iv, auth, pem), Bytes(t, n), cur, r, o, g), size, "auth")
           = C(H(st, k + m, cache, k + m, len, iv, Bytes(a, k + m), pem), Bytes(t, n), cur + m, r, o, g)
<1>1. m \in Nat /\ m <= n - cur
  BY Amount
<1>2. PICK D : D = Bytes(t, n)
  OBVIOUS
<1>3. Len(D) = n /\ SubSeq(D, cur + 1, Len(D)) = Bytes(a + k, n - cur)
  <2>1. Len(Bytes(t, n)) = n
    BY BytesAre
  <2>2. SubSeq(Bytes(t, n), cur + 1, Len(Bytes(t, n))) = Bytes(t + cur, n - cur)
    BY LeftIs
  <2> QED BY <1>2, <2>1, <2>2
<1>4. PICK part : part = SubSeq(SubSeq(D, cur + 1, Len(D)), 1, m)
  OBVIOUS
<1>5. part = Bytes(a + k, m)
  <2>1. PICK b \in Nat, l \in Nat : b = a + k /\ l = n - cur /\ m <= l
    BY <1>1
  <2>2. PICK q \in Nat : q = m /\ q <= l
    BY <1>1, <2>1
  <2>3. SubSeq(Bytes(b, l), 1, q) = Bytes(b, q)
    BY <2>2, RestPart
  <2> QED BY <1>3, <1>4, <2>1, <2>2, <2>3
<1>6. PICK kept : kept = Copy(auth, k, part)
  OBVIOUS
<1>7. kept = Bytes(a, k + m)
  BY <1>1, <1>5, <1>6, CopyExact
<1>8. m = Smaller(Len(D) - cur, size - k)
  BY <1>3
<1> QED BY <1>2, <1>4, <1>6, <1>7, <1>8, ReadToAuth

-----------------------------------------------------------------------------
(* Handles in each state, and what a call may come to.                     *)

\* Names for the strings and truth values of a handle and a call: the provers
\* do not instantiate a lemma with a literal of theirs.
Magic == "MAGIC"
GcmKey == "GCM"
Vector == "IV"
Size == "BINSIZE"
Tag == "AUTH"
Extra == "EXTRA"
Decode == "DECODE"
Held == TRUE
Given == FALSE
New == ""
More == "not_finished"
Bad == "fail"
Ok == "ok"

Good == image.spoiled \notin {"magic", "key"}
Iv == Bytes(IvAt, IV_SIZE)
Auth == Bytes(AuthAt, AUTH_SIZE)

\* What the handle holds when p bytes of the image were taken, per state.
AtMagic(h, p) ==
  \E cache : /\ p < MAGIC_SIZE /\ Begins(cache, 0, p)
             /\ h = H(Magic, p, cache, p, 0, <<>>, <<>>, Held)
AtGcm(h, p) ==
  \E k \in Nat : \E cache :
     /\ p = KeyAt + k /\ k < ENC_GCM_KEY_SIZE /\ Begins(cache, KeyAt, k) /\ image.spoiled # "magic"
     /\ h = H(GcmKey, k, cache, k, 0, <<>>, <<>>, Held)
AtIv(h, p) ==
  \E k \in Nat :
     /\ p = IvAt + k /\ k < IV_SIZE /\ Good
     /\ h = H(Vector, k, <<>>, k, 0, Bytes(IvAt, k), <<>>, Given)
AtBinSize(h, p) ==
  \E k \in Nat : \E cache :
     /\ p = LenAt + k /\ k < BIN_SIZE_DATA /\ Begins(cache, LenAt, k) /\ Good
     /\ h = H(Size, k, cache, k, 0, Iv, <<>>, Given)
AtAuth(h, p) ==
  \E k \in Nat : \E cache :
     /\ p = AuthAt + k /\ k < AUTH_SIZE /\ cache \in Seq(Int) /\ Good
     /\ h = H(Tag, k, cache, k, image.len, Iv, Bytes(AuthAt, k), Given)
AtExtra(h, p) ==
  \E k \in Nat : \E cache :
     /\ p = ExtraAt + k /\ k < RESERVED_HEADER /\ cache \in Seq(Int) /\ Good
     /\ h = H(Extra, 0, cache, k, image.len, Iv, Auth, Given)
\* b bytes of the binary went through the cipher, k are kept.
AtDecode(h, p, b) ==
  \E k \in Nat : \E cache :
     /\ b \in Nat /\ p = BinAt + b + k /\ k < BLOCK /\ b % BLOCK = 0 /\ Begins(cache, BinAt + b, k) /\ Good
     /\ h = H(Decode, k, cache, b + k, image.len, Iv, Auth, Given)

AtHeader(h, p) ==
  AtMagic(h, p) \/ AtGcm(h, p) \/ AtIv(h, p) \/ AtBinSize(h, p) \/ AtAuth(h, p) \/ AtExtra(h, p)

\* What a call that was given the image's bytes up to q, when b of the binary
\* had been decrypted, comes to.
Waits(h, q, b) == (AtHeader(h, q) /\ b = 0) \/ (AtDecode(h, q, b) /\ h.read # image.len)
Failed(h, b) == b = 0 /\ h.state \in {Magic, GcmKey} /\ image.spoiled \in {"magic", "key"}
Ended(h, q, b) ==
  /\ b = image.len /\ q = BinAt + image.len /\ Good
  /\ \E cache \in Seq(Int) : h = H(Decode, 0, cache, image.len, image.len, Iv, Auth, Given)
Done(c, q, b) ==
  \E h, data, cur, r : \E d \in Nat :
     /\ c = C(h, data, cur, r, Bytes(BinAt + b, d), Bytes(BinAt, b + d))
     /\ \/ r = More /\ Waits(h, q, b + d)
        \/ r = Bad /\ Failed(h, b + d)
        \/ r = Ok /\ Ended(h, q, b + d)

\* A call on its way, cur of its n bytes used up.
Underway(c, h, t, n, cur, b) ==
  /\ cur \in Nat /\ cur <= n
  /\ c = C(h, Bytes(t, n), cur, New, <<>>, Bytes(BinAt, b))
InMagic(c, t, n, b) == \E h, cur : Underway(c, h, t, n, cur, b) /\ AtMagic(h, t + cur) /\ b = 0
InGcm(c, t, n, b) == \E h, cur : Underway(c, h, t, n, cur, b) /\ AtGcm(h, t + cur) /\ b = 0
InIv(c, t, n, b) == \E h, cur : Underway(c, h, t, n, cur, b) /\ AtIv(h, t + cur) /\ b = 0
InBinSize(c, t, n, b) == \E h, cur : Underway(c, h, t, n, cur, b) /\ AtBinSize(h, t + cur) /\ b = 0
InAuth(c, t, n, b) == \E h, cur : Underway(c, h, t, n, cur, b) /\ AtAuth(h, t + cur) /\ b = 0
InExtra(c, t, n, b) == \E h, cur : Underway(c, h, t, n, cur, b) /\ AtExtra(h, t + cur) /\ b = 0
InDecode(c, t, n, b) == \E h, cur : Underway(c, h, t, n, cur, b) /\ AtDecode(h, t + cur, b)

\* A call that stays in the header, and one that fails there.
LEMMA StaysDone ==
  ASSUME NEW h, NEW data, NEW cur, NEW t \in Nat, NEW n \in Nat, AtHeader(h, t + n), EncryptedImgAssumption
  PROVE  Done(C(h, data, cur, More, <<>>, <<>>), t + n, 0)
<1>1. PICK d, z : d \in Nat /\ d = 0 /\ z = 0
  OBVIOUS
<1> d \in Nat
  BY <1>1
<1>2. Bytes(BinAt + z, d) = <<>> /\ Bytes(BinAt, z + d) = <<>>
  <2>1. BinAt \in Int /\ BinAt + z = BinAt /\ z + d = 0
    BY <1>1, Places
  <2> QED BY <1>1, <2>1, BytesAre
<1>3. Waits(h, t + n, z + d)
  BY <1>1 DEF Waits
<1> QED BY <1>1, <1>2, <1>3 DEF Done

\* A call that fails in the magic or at the key.
LEMMA FailsDone ==
  ASSUME NEW h, NEW data, NEW cur, NEW q, h.state \in {Magic, GcmKey}, image.spoiled \in {"magic", "key"},
         EncryptedImgAssumption
  PROVE  Done(C(h, data, cur, Bad, <<>>, <<>>), q, 0)
<1>1. PICK d, z : d \in Nat /\ d = 0 /\ z = 0
  OBVIOUS
<1> d \in Nat
  BY <1>1
<1>2. Bytes(BinAt + z, d) = <<>> /\ Bytes(BinAt, z + d) = <<>>
  <2>1. BinAt \in Int /\ BinAt + z = BinAt /\ z + d = 0
    BY <1>1, Places
  <2> QED BY <1>1, <2>1, BytesAre
<1>3. Failed(h, z + d)
  BY <1>1 DEF Failed
<1> QED BY <1>1, <1>2, <1>3 DEF Done

\* Nothing of the binary.
LEMMA EmptyFed ==
  ASSUME EncryptedImgAssumption
  PROVE  Bytes(BinAt, 0) = <<>>
BY BytesAre, Places

\* The magic number as a whole: the key is next, or the image is refused.
LEMMA UnderwayIs ==
  ASSUME EncryptedImgAssumption, NEW c, NEW h, NEW t \in Nat, NEW n \in Nat, NEW cur, NEW b,
         Underway(c, h, t, n, cur, b)
  PROVE  /\ cur \in Nat /\ cur <= n
         /\ c = C(h, Bytes(t, n), cur, New, <<>>, Bytes(BinAt, b))
         /\ c.h = h /\ Len(c.data) = n /\ c.cur = cur /\ Rest(c) = Bytes(t + cur, n - cur)
<1>1. cur \in Nat /\ cur <= n /\ c = C(h, Bytes(t, n), cur, New, <<>>, Bytes(BinAt, b))
  BY DEF Underway
<1>2. c.h = h /\ c.data = Bytes(t, n) /\ c.cur = cur
  BY <1>1, CallFields
<1>3. Len(Bytes(t, n)) = n
  BY BytesAre
<1>4. Rest(c) = Bytes(t + cur, n - cur)
  BY <1>1, RestIs
<1> QED BY <1>1, <1>2, <1>3, <1>4

\* The magic number as a whole: the key is next, or the image is refused.
LEMMA MagicReadIs ==
  ASSUME EncryptedImgAssumption, NEW t \in Nat, NEW n \in Nat, NEW cur \in Nat, cur <= n, t + cur = KeyAt,
         NEW cache \in Seq(Int), NEW c,
         c = C(H(Magic, 0, cache, 0, 0, <<>>, <<>>, Held), Bytes(t, n), cur, New, <<>>, <<>>)
  PROVE  LET d == MagicRead(c, Bytes(0, MAGIC_SIZE))
         IN  InGcm(d, t, n, 0) \/ Done(d, t + n, 0)
<1>1. CASE image.spoiled # "magic"
  <2>1. PICK h : h = H(GcmKey, 0, cache, 0, 0, <<>>, <<>>, Held)
    OBVIOUS
  <2>2. MagicRead(c, Bytes(0, MAGIC_SIZE)) = [c EXCEPT !.h.state = GcmKey]
    BY <1>1 DEF MagicRead, MagicIn, GcmKey
  <2>2a. [c EXCEPT !.h.state = GcmKey] = C(h, Bytes(t, n), cur, New, <<>>, <<>>)
    BY <2>1, StateIs
  <2>3. AtGcm(h, t + cur)
    <3>1. PICK k \in Nat : k = 0
      OBVIOUS
    <3>2. Begins(cache, KeyAt, k)
      <4>1. Bytes(KeyAt, k) = <<>>
        BY <3>1, BytesAre, Places
      <4>2. SubSeq(cache, 1, k) = <<>> /\ Len(cache) >= k
        BY <3>1
      <4> QED BY <4>1, <4>2 DEF Begins
    <3>3. t + cur = KeyAt + k /\ k < ENC_GCM_KEY_SIZE
      BY <3>1, Places
    <3> QED BY <1>1, <2>1, <3>1, <3>2, <3>3 DEF AtGcm
  <2>4. Underway(C(h, Bytes(t, n), cur, New, <<>>, <<>>), h, t, n, cur, 0)
    BY EmptyFed DEF Underway
  <2> QED BY <2>2, <2>2a, <2>3, <2>4 DEF InGcm
<1>2. CASE image.spoiled = "magic"
  <2>1. PICK h, f : h = H(Magic, 0, cache, 0, 0, <<>>, <<>>, f) /\ f = FALSE
    OBVIOUS
  <2>2. MagicRead(c, Bytes(0, MAGIC_SIZE)) = Return([c EXCEPT !.h.pem = f], Bad)
    BY <1>2, <2>1 DEF MagicRead, MagicIn, Bad
  <2>3. [c EXCEPT !.h.pem = f] = C(h, Bytes(t, n), cur, New, <<>>, <<>>)
    BY <2>1, PemIs
  <2>4. MagicRead(c, Bytes(0, MAGIC_SIZE)) = C(h, Bytes(t, n), cur, Bad, <<>>, <<>>)
    BY <2>2, <2>3, ReturnIs
  <2>5. h.state = Magic
    BY <2>1, HandleFields
  <2>6. h.state \in {Magic, GcmKey} /\ image.spoiled \in {"magic", "key"}
    BY <1>2, <2>5
  <2> QED BY <2>4, <2>6, FailsDone
<1> QED BY <1>1, <1>2

-----------------------------------------------------------------------------
(* The stages of the header.                                               *)

\* read_magic.
LEMMA MagicStage ==
  ASSUME EncryptedImgAssumption, NEW t \in Nat, NEW n \in Nat, NEW c, InMagic(c, t, n, 0)
  PROVE  InGcm(ReadMagic(c), t, n, 0) \/ Done(ReadMagic(c), t + n, 0)
<1>1. PICK h, cur : Underway(c, h, t, n, cur, 0) /\ AtMagic(h, t + cur)
  BY DEF InMagic
<1>2. /\ cur \in Nat /\ cur <= n
      /\ c = C(h, Bytes(t, n), cur, New, <<>>, <<>>)
      /\ c.h = h /\ Len(c.data) = n /\ c.cur = cur /\ Rest(c) = Bytes(t + cur, n - cur)
  BY <1>1, UnderwayIs, EmptyFed
<1>3. PICK p \in Nat : p = t + cur
  BY <1>2
<1>4. PICK cache : /\ p < MAGIC_SIZE /\ Begins(cache, 0, p)
                   /\ h = H(Magic, p, cache, p, 0, <<>>, <<>>, Held)
  BY <1>1, <1>3 DEF AtMagic
<1>5. h.cached = p
  BY <1>4, HandleFields
<1>7. CASE Whole(c, MAGIC_SIZE)
  <2>1. p = 0 /\ n - cur >= MAGIC_SIZE /\ t + cur = 0
    BY <1>2, <1>3, <1>5, <1>7 DEF Whole
  <2>2. SubSeq(Rest(c), 1, MAGIC_SIZE) = Bytes(0, MAGIC_SIZE)
    <3>1. PICK m \in Nat, z \in Nat : m = n - cur /\ z = 0
      BY <1>2
    <3>2. Rest(c) = Bytes(z, m) /\ MAGIC_SIZE <= m
      BY <1>2, <2>1, <3>1
    <3>3. PICK k \in Nat : k = MAGIC_SIZE
      BY Places
    <3>4. SubSeq(Bytes(z, m), 1, k) = Bytes(z, k)
      BY <3>2, <3>3, RestPart
    <3> QED BY <3>1, <3>2, <3>3, <3>4
  <2>4. PICK to \in Nat : to = cur + MAGIC_SIZE /\ to <= n /\ t + to = KeyAt
    <3>1. MAGIC_SIZE \in Nat /\ KeyAt = MAGIC_SIZE
      BY Places
    <3> QED BY <1>2, <2>1, <3>1
  <2>3. Skip(c, MAGIC_SIZE) = C(H(Magic, 0, cache, 0, 0, <<>>, <<>>, Held), Bytes(t, n), to, New, <<>>, <<>>)
    BY <1>2, <1>4, <2>1, <2>4, ReturnIs
  <2>5. cache \in Seq(Int)
    BY <1>4 DEF Begins
  <2>6. ReadMagic(c) = MagicRead(Skip(c, MAGIC_SIZE), Bytes(0, MAGIC_SIZE))
    BY <1>7, <2>2 DEF ReadMagic
  <2> QED BY <2>3, <2>4, <2>5, <2>6, MagicReadIs
<1>8. CASE ~Whole(c, MAGIC_SIZE)
  <2>1. PICK m, kept :
           /\ m \in Nat
           /\ ReadAndCache(c, MAGIC_SIZE, "cache")
                = C(H(Magic, p + m, kept, p + m, 0, <<>>, <<>>, Held), Bytes(t, n), cur + m, New, <<>>, <<>>)
           /\ Begins(kept, 0, p + m)
           /\ p + m <= MAGIC_SIZE /\ cur + m <= n /\ (p + m # MAGIC_SIZE => cur + m = n)
    <3>1. PICK z \in Nat : z = 0 /\ t + cur = z + p
      BY <1>3
    <3>2. PICK k \in Nat : k = MAGIC_SIZE
      BY Places
    <3>3. Begins(cache, z, p) /\ p < k
      BY <1>4, <3>1, <3>2
    <3>4. PICK i \in Nat : i = cur /\ i <= n /\ t + i = z + p
      BY <1>2, <3>1
    <3>5. PICK m : m = Smaller(n - i, k - p)
      OBVIOUS
    <3>6. m \in Nat /\ p + m <= k /\ i + m <= n /\ (p + m # k => i + m = n)
      <4>1. i \in Nat /\ i <= n /\ p < k
        BY <3>3, <3>4
      <4> QED BY <3>5, <4>1 DEF Smaller
    <3>7. PICK kept : kept = Copy(cache, p, Bytes(z + p, m))
      OBVIOUS
    <3>8. Begins(kept, z, p + m)
      BY <3>3, <3>6, <3>7, CopyBegins
    <3>9. ReadAndCache(C(H(Magic, p, cache, p, 0, <<>>, <<>>, Held), Bytes(t, n), i, New, <<>>, <<>>), k, "cache")
            = C(H(Magic, p + m, kept, p + m, 0, <<>>, <<>>, Held), Bytes(t, n), i + m, New, <<>>, <<>>)
      BY <3>3, <3>4, <3>5, <3>7, GatherCache
    <3> QED BY <1>2, <1>4, <3>1, <3>2, <3>4, <3>6, <3>8, <3>9
  <2> m \in Nat
    BY <2>1
  <2>2. PICK d : d = ReadAndCache(c, MAGIC_SIZE, "cache")
    OBVIOUS
  <2>3. d.h.read = p + m /\ d.h.cache = kept
    <3>1. d.h = H(Magic, p + m, kept, p + m, 0, <<>>, <<>>, Held)
      BY <2>1, <2>2, CallFields
    <3> QED BY <3>1, HandleFields
  <2>4. CASE p + m # MAGIC_SIZE
    <3>1. cur + m = n /\ p + m = t + n /\ p + m < MAGIC_SIZE
      <4>1. MAGIC_SIZE \in Nat
        BY Places
      <4> QED BY <1>2, <1>3, <2>1, <2>4, <4>1
    <3>2. PICK g : g = H(Magic, p + m, kept, p + m, 0, <<>>, <<>>, Held)
      OBVIOUS
    <3>3. ReadMagic(c) = C(g, Bytes(t, n), cur + m, More, <<>>, <<>>)
      <4>1. ReadMagic(c) = Return(d, More)
        BY <1>8, <2>2, <2>3, <2>4 DEF ReadMagic, More
      <4> QED BY <2>1, <2>2, <3>2, <4>1, ReturnIs
    <3>4. AtMagic(g, t + n)
      BY <2>1, <3>1, <3>2 DEF AtMagic
    <3> QED BY <3>3, <3>4, StaysDone DEF AtHeader
  <2>5. CASE p + m = MAGIC_SIZE
    <3>1. PICK to \in Nat : to = cur + m /\ to <= n /\ t + to = KeyAt
      BY <1>2, <1>3, <2>1, <2>5, Places
    <3>2. kept \in Seq(Int) /\ SubSeq(kept, 1, MAGIC_SIZE) = Bytes(0, MAGIC_SIZE)
      BY <2>1, <2>5 DEF Begins
    <3>3. Enter(d, Magic) = C(H(Magic, 0, kept, 0, 0, <<>>, <<>>, Held), Bytes(t, n), to, New, <<>>, <<>>)
      BY <2>1, <2>2, <3>1, EnterIs
    <3>4. ReadMagic(c) = MagicRead(Enter(d, Magic), Bytes(0, MAGIC_SIZE))
      <4>1. Enter(d, "MAGIC") = Enter(d, Magic)
        BY DEF Magic
      <4> QED BY <1>8, <2>2, <2>3, <2>5, <3>2, <4>1 DEF ReadMagic
    <3> QED BY <3>1, <3>2, <3>3, <3>4, MagicReadIs
  <2> QED BY <2>4, <2>5
<1> QED BY <1>7, <1>8

\* The key as a whole: the vector is next, or the image is refused.
LEMMA DecipherIs ==
  ASSUME EncryptedImgAssumption, NEW t \in Nat, NEW n \in Nat, NEW cur \in Nat, cur <= n, t + cur = IvAt,
         NEW cached, NEW cache, NEW read, image.spoiled # "magic", NEW c,
         c = C(H(GcmKey, cached, cache, read, 0, <<>>, <<>>, Held), Bytes(t, n), cur, New, <<>>, <<>>)
  PROVE  LET d == DecipherGcmKey(c, Bytes(KeyAt, ENC_GCM_KEY_SIZE))
         IN  InIv(d, t, n, 0) \/ Done(d, t + n, 0)
<1>1. PICK f : f = FALSE
  OBVIOUS
<1>2. PICK d : d = [c EXCEPT !.h.pem = f]
  OBVIOUS
<1>3. PICK g : g = H(GcmKey, cached, cache, read, 0, <<>>, <<>>, f)
  OBVIOUS
<1>4. d = C(g, Bytes(t, n), cur, New, <<>>, <<>>)
  BY <1>2, <1>3, PemIs
<1>5. c.h.pem = TRUE
  <2>1. c.h = H(GcmKey, cached, cache, read, 0, <<>>, <<>>, Held)
    BY CallFields
  <2>2. c.h.pem = Held
    BY <2>1, HandleFields
  <2> QED BY <2>2 DEF Held
<1>6. CASE image.spoiled # "key"
  <2>1. DecipherGcmKey(c, Bytes(KeyAt, ENC_GCM_KEY_SIZE)) = [Enter(d, Vector) EXCEPT !.h.cache = <<>>]
    BY <1>1, <1>2, <1>5, <1>6 DEF DecipherGcmKey, KeyIn, Vector
  <2>2. PICK e : e = Enter(d, Vector)
    OBVIOUS
  <2>3. e = C(H(Vector, 0, cache, 0, 0, <<>>, <<>>, f), Bytes(t, n), cur, New, <<>>, <<>>)
    BY <1>3, <1>4, <2>2, EnterIs
  <2>4. PICK h : h = H(Vector, 0, <<>>, 0, 0, <<>>, <<>>, f)
    OBVIOUS
  <2>5. [e EXCEPT !.h.cache = <<>>] = C(h, Bytes(t, n), cur, New, <<>>, <<>>)
    BY <2>3, <2>4, CacheIs
  <2>6. AtIv(h, t + cur)
    <3>1. PICK k \in Nat : k = 0
      OBVIOUS
    <3>2. Bytes(IvAt, k) = <<>>
      BY <3>1, BytesAre, Places
    <3>3. t + cur = IvAt + k /\ k < IV_SIZE
      BY <3>1, Places
    <3>4. Good
      <4>1. image.spoiled \notin {"magic", "key"}
        BY <1>6
      <4> QED BY <4>1 DEF Good
    <3>5. f = Given
      BY <1>1 DEF Given
    <3> QED BY <2>4, <3>1, <3>2, <3>3, <3>4, <3>5 DEF AtIv
  <2>7. Underway(C(h, Bytes(t, n), cur, New, <<>>, <<>>), h, t, n, cur, 0)
    BY EmptyFed DEF Underway
  <2> QED BY <2>1, <2>2, <2>5, <2>6, <2>7 DEF InIv
<1>7. CASE image.spoiled = "key"
  <2>1. DecipherGcmKey(c, Bytes(KeyAt, ENC_GCM_KEY_SIZE)) = Return(d, Bad)
    BY <1>1, <1>2, <1>7 DEF DecipherGcmKey, KeyIn, Bad
  <2>2. DecipherGcmKey(c, Bytes(KeyAt, ENC_GCM_KEY_SIZE)) = C(g, Bytes(t, n), cur, Bad, <<>>, <<>>)
    BY <1>4, <2>1, ReturnIs
  <2>3. g.state = GcmKey
    BY <1>3, HandleFields
  <2>4. g.state \in {Magic, GcmKey} /\ image.spoiled \in {"magic", "key"}
    BY <1>7, <2>3
  <2> QED BY <2>2, <2>4, FailsDone
<1> QED BY <1>6, <1>7

\* read_gcm.
LEMMA GcmStage ==
  ASSUME EncryptedImgAssumption, NEW t \in Nat, NEW n \in Nat, NEW c, InGcm(c, t, n, 0)
  PROVE  InIv(ReadGcm(c), t, n, 0) \/ Done(ReadGcm(c), t + n, 0)
<1>1. PICK h, cur : Underway(c, h, t, n, cur, 0) /\ AtGcm(h, t + cur)
  BY DEF InGcm
<1>2. /\ cur \in Nat /\ cur <= n
      /\ c = C(h, Bytes(t, n), cur, New, <<>>, <<>>)
      /\ c.h = h /\ Len(c.data) = n /\ c.cur = cur /\ Rest(c) = Bytes(t + cur, n - cur)
  BY <1>1, UnderwayIs, EmptyFed
<1>4. PICK k, cache :
         /\ k \in Nat
         /\ t + cur = KeyAt + k /\ k < ENC_GCM_KEY_SIZE /\ Begins(cache, KeyAt, k) /\ image.spoiled # "magic"
         /\ h = H(GcmKey, k, cache, k, 0, <<>>, <<>>, Held)
  BY <1>1 DEF AtGcm
<1> k \in Nat
  BY <1>4
<1>5. h.cached = k
  BY <1>4, HandleFields
<1>7. CASE Whole(c, ENC_GCM_KEY_SIZE)
  <2>1. k = 0 /\ n - cur >= ENC_GCM_KEY_SIZE /\ t + cur = KeyAt
    <3>1. KeyAt \in Nat
      BY Places
    <3>2. k = 0 /\ n - cur >= ENC_GCM_KEY_SIZE
      BY <1>2, <1>5, <1>7 DEF Whole
    <3> QED BY <1>4, <3>1, <3>2
  <2>2. SubSeq(Rest(c), 1, ENC_GCM_KEY_SIZE) = Bytes(KeyAt, ENC_GCM_KEY_SIZE)
    <3>1. PICK l \in Nat, z \in Nat : l = n - cur /\ z = KeyAt
      <4>1. KeyAt \in Nat
        BY Places
      <4>2. n - cur \in Nat
        BY <1>2
      <4> QED BY <4>1, <4>2
    <3>2. Rest(c) = Bytes(z, l) /\ ENC_GCM_KEY_SIZE <= l
      BY <1>2, <2>1, <3>1
    <3>3. PICK q \in Nat : q = ENC_GCM_KEY_SIZE
      BY Places
    <3>4. SubSeq(Bytes(z, l), 1, q) = Bytes(z, q)
      BY <3>2, <3>3, RestPart
    <3> QED BY <3>1, <3>2, <3>3, <3>4
  <2>3. PICK to \in Nat : to = cur + ENC_GCM_KEY_SIZE /\ to <= n /\ t + to = IvAt
    <3>1. ENC_GCM_KEY_SIZE \in Nat /\ IvAt = KeyAt + ENC_GCM_KEY_SIZE /\ KeyAt \in Nat
      BY Places
    <3> QED BY <1>2, <2>1, <3>1
  <2>4. Skip(c, ENC_GCM_KEY_SIZE) = C(h, Bytes(t, n), to, New, <<>>, <<>>)
    BY <1>2, <2>3, ReturnIs
  <2>5. ReadGcm(c) = DecipherGcmKey(Skip(c, ENC_GCM_KEY_SIZE), Bytes(KeyAt, ENC_GCM_KEY_SIZE))
    BY <1>7, <2>2 DEF ReadGcm
  <2> QED BY <1>4, <2>3, <2>4, <2>5, DecipherIs
<1>8. CASE ~Whole(c, ENC_GCM_KEY_SIZE)
  <2>1. PICK m, kept :
           /\ m \in Nat
           /\ ReadAndCache(c, ENC_GCM_KEY_SIZE, "cache")
                = C(H(GcmKey, k + m, kept, k + m, 0, <<>>, <<>>, Held), Bytes(t, n), cur + m, New, <<>>, <<>>)
           /\ Begins(kept, KeyAt, k + m)
           /\ k + m <= ENC_GCM_KEY_SIZE /\ cur + m <= n /\ (k + m # ENC_GCM_KEY_SIZE => cur + m = n)
    <3>1. PICK z \in Nat : z = KeyAt /\ t + cur = z + k
      BY <1>4, Places
    <3>2. PICK size \in Nat : size = ENC_GCM_KEY_SIZE
      BY Places
    <3>3. k < size /\ Begins(cache, z, k)
      BY <1>4, <3>1, <3>2
    <3>4. PICK i \in Nat : i = cur /\ i <= n /\ t + i = z + k
      BY <1>2, <3>1
    <3>5. PICK m : m = Smaller(n - i, size - k)
      OBVIOUS
    <3>6. m \in Nat /\ k + m <= size /\ i + m <= n /\ (k + m # size => i + m = n)
      BY <3>3, <3>4, <3>5 DEF Smaller
    <3>7. PICK kept : kept = Copy(cache, k, Bytes(z + k, m))
      OBVIOUS
    <3>8. Begins(kept, z, k + m)
      BY <3>3, <3>6, <3>7, CopyBegins
    <3>8a. PICK field, len, vec, tag, r, o, held : field = GcmKey /\ len = 0 /\ vec = <<>> /\ tag = <<>> /\ r = New /\ o = <<>> /\ held = Held
      OBVIOUS
    <3>9. ReadAndCache(C(H(field, k, cache, k, len, vec, tag, held), Bytes(t, n), i, r, o, o), size, "cache")
            = C(H(field, k + m, kept, k + m, len, vec, tag, held), Bytes(t, n), i + m, r, o, o)
      BY <3>3, <3>4, <3>5, <3>7, GatherCache
    <3> QED BY <1>2, <1>4, <3>1, <3>2, <3>4, <3>6, <3>7, <3>8, <3>8a, <3>9
  <2> m \in Nat
    BY <2>1
  <2>2. PICK d : d = ReadAndCache(c, ENC_GCM_KEY_SIZE, "cache")
    OBVIOUS
  <2>2a. PICK g : g = H(GcmKey, k + m, kept, k + m, 0, <<>>, <<>>, Held)
    OBVIOUS
  <2>2b. d = C(g, Bytes(t, n), cur + m, New, <<>>, <<>>)
    BY <2>1, <2>2, <2>2a
  <2>2c. d.h = g /\ g.read = k + m /\ g.cached = k + m /\ g.cache = kept
    <3>1. d.h = g
      BY <2>2b, CallFields
    <3> QED BY <2>2a, <3>1, HandleFields
  <2>4. CASE k + m # ENC_GCM_KEY_SIZE
    <3>1. cur + m = n /\ KeyAt + (k + m) = t + n /\ k + m < ENC_GCM_KEY_SIZE /\ k + m \in Nat
      <4>1. ENC_GCM_KEY_SIZE \in Nat /\ KeyAt \in Nat
        BY Places
      <4> QED BY <1>2, <1>4, <2>1, <2>4, <4>1
    <3>2. ReadGcm(c) = Return(d, More)
      BY <1>8, <2>2, <2>2c, <2>4 DEF ReadGcm, More
    <3>3. ReadGcm(c) = C(g, Bytes(t, n), cur + m, More, <<>>, <<>>)
      BY <2>2b, <3>2, ReturnIs
    <3>4. AtGcm(g, t + n)
      BY <1>4, <2>1, <2>2a, <3>1 DEF AtGcm
    <3> QED BY <3>3, <3>4, StaysDone DEF AtHeader
  <2>5. CASE k + m = ENC_GCM_KEY_SIZE
    <3>1. PICK to \in Nat : to = cur + m /\ to <= n /\ t + to = IvAt
      <4>1. ENC_GCM_KEY_SIZE \in Nat /\ KeyAt \in Nat /\ IvAt = KeyAt + ENC_GCM_KEY_SIZE
        BY Places
      <4> QED BY <1>2, <1>4, <2>1, <2>5, <4>1
    <3>2. SubSeq(kept, 1, ENC_GCM_KEY_SIZE) = Bytes(KeyAt, ENC_GCM_KEY_SIZE)
      BY <2>1, <2>5 DEF Begins
    <3>3. ReadGcm(c) = DecipherGcmKey(d, Bytes(KeyAt, ENC_GCM_KEY_SIZE))
      BY <1>8, <2>2, <2>2c, <2>5, <3>2 DEF ReadGcm
    <3>4. d = C(g, Bytes(t, n), to, New, <<>>, <<>>)
      BY <2>2b, <3>1
    <3> QED BY <1>4, <2>2a, <3>1, <3>3, <3>4, DecipherIs
  <2> QED BY <2>4, <2>5
<1> QED BY <1>7, <1>8

\* read_iv.
LEMMA IvStage ==
  ASSUME EncryptedImgAssumption, NEW t \in Nat, NEW n \in Nat, NEW c, InIv(c, t, n, 0)
  PROVE  InBinSize(ReadIv(c), t, n, 0) \/ Done(ReadIv(c), t + n, 0)
<1>1. PICK h, cur : Underway(c, h, t, n, cur, 0) /\ AtIv(h, t + cur)
  BY DEF InIv
<1>2. /\ cur \in Nat /\ cur <= n
      /\ c = C(h, Bytes(t, n), cur, New, <<>>, <<>>)
      /\ c.h = h /\ Len(c.data) = n /\ c.cur = cur /\ Rest(c) = Bytes(t + cur, n - cur)
  BY <1>1, UnderwayIs, EmptyFed
<1>4. PICK k \in Nat :
         /\ t + cur = IvAt + k /\ k < IV_SIZE /\ Good
         /\ h = H(Vector, k, <<>>, k, 0, Bytes(IvAt, k), <<>>, Given)
  BY <1>1 DEF AtIv
<1>5. h.cached = k
  BY <1>4, HandleFields
<1>6. PICK full : full = Bytes(IvAt, IV_SIZE) /\ full = Iv
  BY DEF Iv
<1>6a. ASSUME NEW to \in Nat, to <= n, t + to = LenAt, NEW e, NEW cached, NEW read,
             e = C(H(Vector, cached, <<>>, read, 0, full, <<>>, Given), Bytes(t, n), to, New, <<>>, <<>>)
      PROVE  InBinSize(Enter(e, Size), t, n, 0)
  <2>1. PICK g : g = H(Size, 0, <<>>, 0, 0, Iv, <<>>, Given)
    OBVIOUS
  <2>2. Enter(e, Size) = C(g, Bytes(t, n), to, New, <<>>, <<>>)
    BY <1>6a, <1>6, <2>1, EnterIs
  <2>3. AtBinSize(g, t + to)
    <3>1. PICK j \in Nat : j = 0
      OBVIOUS
    <3>2. Begins(<<>>, LenAt, j)
      <4>1. LenAt \in Int
        BY Places
      <4>2. PICK s : s = Bytes(LenAt, j)
        OBVIOUS
      <4>3. s \in Seq(Int) /\ Len(s) = 0 /\ s = <<>>
        BY <3>1, <4>1, <4>2, BytesAre
      <4>4. SubSeq(s, 1, Len(s)) = <<>>
        BY <4>3, TailIs
      <4>5. Begins(s, LenAt, j)
        BY <3>1, <4>2, <4>3, <4>4 DEF Begins
      <4> QED BY <4>3, <4>5
    <3>3. t + to = LenAt + j /\ j < BIN_SIZE_DATA
      BY <1>6a, <3>1, Places
    <3> QED BY <1>4, <2>1, <3>1, <3>2, <3>3 DEF AtBinSize
  <2>4. Underway(C(g, Bytes(t, n), to, New, <<>>, <<>>), g, t, n, to, 0)
    BY <1>6a, EmptyFed DEF Underway
  <2> QED BY <2>2, <2>3, <2>4 DEF InBinSize
<1>7. CASE Whole(c, IV_SIZE)
  <2>1. k = 0 /\ n - cur >= IV_SIZE /\ t + cur = IvAt
    <3>1. IvAt \in Nat
      BY Places
    <3>2. k = 0 /\ n - cur >= IV_SIZE
      BY <1>2, <1>5, <1>7 DEF Whole
    <3> QED BY <1>4, <3>1, <3>2
  <2>2. SubSeq(Rest(c), 1, IV_SIZE) = Bytes(IvAt, IV_SIZE)
    <3>1. PICK l \in Nat, z \in Nat : l = n - cur /\ z = IvAt
      <4>1. IvAt \in Nat
        BY Places
      <4>2. n - cur \in Nat
        BY <1>2
      <4> QED BY <4>1, <4>2
    <3>2. Rest(c) = Bytes(z, l) /\ IV_SIZE <= l
      BY <1>2, <2>1, <3>1
    <3>3. PICK q \in Nat : q = IV_SIZE
      BY Places
    <3>4. SubSeq(Bytes(z, l), 1, q) = Bytes(z, q)
      BY <3>2, <3>3, RestPart
    <3> QED BY <3>1, <3>2, <3>3, <3>4
  <2>3. PICK to \in Nat : to = cur + IV_SIZE /\ to <= n /\ t + to = LenAt
    <3>1. IV_SIZE \in Nat /\ LenAt = IvAt + IV_SIZE /\ IvAt \in Nat
      BY Places
    <3> QED BY <1>2, <2>1, <3>1
  <2>4. Skip(c, IV_SIZE) = C(h, Bytes(t, n), to, New, <<>>, <<>>)
    BY <1>2, <2>3, ReturnIs
  <2>5. PICK s, d : s = Skip(c, IV_SIZE) /\ d = [s EXCEPT !.h.iv = full, !.h.read = IV_SIZE]
    OBVIOUS
  <2>6. d = C(H(Vector, k, <<>>, IV_SIZE, 0, full, <<>>, Given), Bytes(t, n), to, New, <<>>, <<>>)
    <3>1. PICK x, v : x = IV_SIZE /\ v = full
      OBVIOUS
    <3>2. PICK d1 : d1 = [s EXCEPT !.h.iv = v]
      OBVIOUS
    <3>3. d = [d1 EXCEPT !.h.read = x]
      BY <2>5, <3>1, <3>2
    <3>4. d1 = C(H(Vector, k, <<>>, k, 0, v, <<>>, Given), Bytes(t, n), to, New, <<>>, <<>>)
      BY <1>4, <2>4, <2>5, <3>2, IvIs
    <3> QED BY <3>1, <3>3, <3>4, ReadIs
  <2>7. d.h.read = IV_SIZE
    <3>1. d.h = H(Vector, k, <<>>, IV_SIZE, 0, full, <<>>, Given)
      BY <2>6, CallFields
    <3> QED BY <3>1, HandleFields
  <2>8. ReadIv(c) = Enter(d, Size)
    BY <1>6, <1>7, <2>2, <2>5, <2>7 DEF ReadIv, ReadField, Size
  <2> QED BY <1>6a, <2>3, <2>6, <2>8
<1>8. CASE ~Whole(c, IV_SIZE)
  <2>1. PICK m, kept :
           /\ m \in Nat
           /\ ReadAndCache(c, IV_SIZE, "iv")
                = C(H(Vector, k + m, <<>>, k + m, 0, kept, <<>>, Given), Bytes(t, n), cur + m, New, <<>>, <<>>)
           /\ kept = Bytes(IvAt, k + m)
           /\ k + m <= IV_SIZE /\ cur + m <= n /\ (k + m # IV_SIZE => cur + m = n)
    <3>1. PICK z \in Nat : z = IvAt /\ t + cur = z + k
      BY <1>4, Places
    <3>2. PICK size \in Nat : size = IV_SIZE
      BY Places
    <3>3. k < size
      BY <1>4, <3>1, <3>2
    <3>4. PICK i \in Nat : i = cur /\ i <= n /\ t + i = z + k
      BY <1>2, <3>1
    <3>5. PICK m : m = Smaller(n - i, size - k)
      OBVIOUS
    <3>6. m \in Nat /\ k + m <= size /\ i + m <= n /\ (k + m # size => i + m = n)
      BY <3>3, <3>4, <3>5 DEF Smaller
    <3>7. PICK kept : kept = Bytes(z, k + m)
      OBVIOUS
    <3>8a. PICK field, len, vec, tag, r, o, held : field = Vector /\ len = 0 /\ vec = Bytes(IvAt, k) /\ tag = <<>> /\ r = New /\ o = <<>> /\ held = Given
      OBVIOUS
    <3>8. vec = Bytes(z, k)
      BY <3>1, <3>8a
    <3>9. ReadAndCache(C(H(field, k, <<>>, k, len, vec, tag, held), Bytes(t, n), i, r, o, o), size, "iv")
            = C(H(field, k + m, <<>>, k + m, len, kept, tag, held), Bytes(t, n), i + m, r, o, o)
      BY <3>3, <3>4, <3>5, <3>7, <3>8, GatherIv
    <3> QED BY <1>2, <1>4, <3>1, <3>2, <3>4, <3>6, <3>7, <3>8, <3>8a, <3>9
  <2> m \in Nat
    BY <2>1
  <2>2. PICK d : d = ReadAndCache(c, IV_SIZE, "iv")
    OBVIOUS
  <2>2a. PICK g : g = H(Vector, k + m, <<>>, k + m, 0, kept, <<>>, Given)
    OBVIOUS
  <2>2b. d = C(g, Bytes(t, n), cur + m, New, <<>>, <<>>)
    BY <2>1, <2>2, <2>2a
  <2>2c. d.h = g /\ g.read = k + m /\ g.cached = k + m /\ g.cache = <<>>
    <3>1. d.h = g
      BY <2>2b, CallFields
    <3> QED BY <2>2a, <3>1, HandleFields
  <2>4. CASE k + m # IV_SIZE
    <3>1. cur + m = n /\ IvAt + (k + m) = t + n /\ k + m < IV_SIZE /\ k + m \in Nat
      <4>1. IV_SIZE \in Nat /\ IvAt \in Nat
        BY Places
      <4> QED BY <1>2, <1>4, <2>1, <2>4, <4>1
    <3>2. ReadIv(c) = Return(d, More)
      BY <1>8, <2>2, <2>2c, <2>4 DEF ReadIv, ReadField, More
    <3>3. ReadIv(c) = C(g, Bytes(t, n), cur + m, More, <<>>, <<>>)
      BY <2>2b, <3>2, ReturnIs
    <3>4. AtIv(g, t + n)
      BY <1>4, <2>1, <2>2a, <3>1 DEF AtIv
    <3> QED BY <3>3, <3>4, StaysDone DEF AtHeader
  <2>5. CASE k + m = IV_SIZE
    <3>1. PICK to \in Nat : to = cur + m /\ to <= n /\ t + to = LenAt
      <4>1. IV_SIZE \in Nat /\ IvAt \in Nat /\ LenAt = IvAt + IV_SIZE
        BY Places
      <4> QED BY <1>2, <1>4, <2>1, <2>5, <4>1
    <3>2. ReadIv(c) = Enter(d, Size)
      BY <1>8, <2>2, <2>2c, <2>5 DEF ReadIv, ReadField, Size
    <3>3. kept = full
      BY <1>6, <2>1, <2>5
    <3>4. d = C(H(Vector, k + m, <<>>, k + m, 0, full, <<>>, Given), Bytes(t, n), to, New, <<>>, <<>>)
      BY <2>2a, <2>2b, <3>1, <3>3
    <3> QED BY <1>6a, <3>1, <3>2, <3>4
  <2> QED BY <2>4, <2>5
<1> QED BY <1>7, <1>8

\* read_auth.
LEMMA AuthStage ==
  ASSUME EncryptedImgAssumption, NEW t \in Nat, NEW n \in Nat, NEW c, InAuth(c, t, n, 0)
  PROVE  InExtra(ReadAuth(c), t, n, 0) \/ Done(ReadAuth(c), t + n, 0)
<1>1. PICK h, cur : Underway(c, h, t, n, cur, 0) /\ AtAuth(h, t + cur)
  BY DEF InAuth
<1>2. /\ cur \in Nat /\ cur <= n
      /\ c = C(h, Bytes(t, n), cur, New, <<>>, <<>>)
      /\ c.h = h /\ Len(c.data) = n /\ c.cur = cur /\ Rest(c) = Bytes(t + cur, n - cur)
  BY <1>1, UnderwayIs, EmptyFed
<1>4. PICK k, cache :
         /\ k \in Nat
         /\ t + cur = AuthAt + k /\ k < AUTH_SIZE /\ cache \in Seq(Int) /\ Good
         /\ h = H(Tag, k, cache, k, image.len, Iv, Bytes(AuthAt, k), Given)
  BY <1>1 DEF AtAuth
<1> k \in Nat
  BY <1>4
<1>5. h.cached = k
  BY <1>4, HandleFields
<1>6. PICK full : full = Bytes(AuthAt, AUTH_SIZE) /\ full = Auth
  BY DEF Auth
<1>6a. ASSUME NEW to \in Nat, to <= n, t + to = ExtraAt, NEW e, NEW cached, NEW read,
             e = C(H(Tag, cached, cache, read, image.len, Iv, full, Given), Bytes(t, n), to, New, <<>>, <<>>)
      PROVE  InExtra(Enter(e, Extra), t, n, 0)
  <2>1. PICK g : g = H(Extra, 0, cache, 0, image.len, Iv, Auth, Given)
    OBVIOUS
  <2>2. Enter(e, Extra) = C(g, Bytes(t, n), to, New, <<>>, <<>>)
    BY <1>6a, <1>6, <2>1, EnterIs
  <2>3. AtExtra(g, t + to)
    <3>1. PICK j \in Nat : j = 0
      OBVIOUS
    <3>3. t + to = ExtraAt + j /\ j < RESERVED_HEADER
      BY <1>6a, <3>1, Places
    <3> QED BY <1>4, <2>1, <3>1, <3>3 DEF AtExtra
  <2>4. Underway(C(g, Bytes(t, n), to, New, <<>>, <<>>), g, t, n, to, 0)
    BY <1>6a, EmptyFed DEF Underway
  <2> QED BY <2>2, <2>3, <2>4 DEF InExtra
<1>7. CASE Whole(c, AUTH_SIZE)
  <2>1. k = 0 /\ n - cur >= AUTH_SIZE /\ t + cur = AuthAt
    <3>1. AuthAt \in Nat
      BY Places
    <3>2. k = 0 /\ n - cur >= AUTH_SIZE
      BY <1>2, <1>5, <1>7 DEF Whole
    <3> QED BY <1>4, <3>1, <3>2
  <2>2. SubSeq(Rest(c), 1, AUTH_SIZE) = Bytes(AuthAt, AUTH_SIZE)
    <3>1. PICK l \in Nat, z \in Nat : l = n - cur /\ z = AuthAt
      <4>1. AuthAt \in Nat
        BY Places
      <4>2. n - cur \in Nat
        BY <1>2
      <4> QED BY <4>1, <4>2
    <3>2. Rest(c) = Bytes(z, l) /\ AUTH_SIZE <= l
      BY <1>2, <2>1, <3>1
    <3>3. PICK q \in Nat : q = AUTH_SIZE
      BY Places
    <3>4. SubSeq(Bytes(z, l), 1, q) = Bytes(z, q)
      BY <3>2, <3>3, RestPart
    <3> QED BY <3>1, <3>2, <3>3, <3>4
  <2>3. PICK to \in Nat : to = cur + AUTH_SIZE /\ to <= n /\ t + to = ExtraAt
    <3>1. AUTH_SIZE \in Nat /\ ExtraAt = AuthAt + AUTH_SIZE /\ AuthAt \in Nat
      BY Places
    <3> QED BY <1>2, <2>1, <3>1
  <2>4. Skip(c, AUTH_SIZE) = C(h, Bytes(t, n), to, New, <<>>, <<>>)
    BY <1>2, <2>3, ReturnIs
  <2>5. PICK s, d : s = Skip(c, AUTH_SIZE) /\ d = [s EXCEPT !.h.auth = full, !.h.read = AUTH_SIZE]
    OBVIOUS
  <2>6. d = C(H(Tag, k, cache, AUTH_SIZE, image.len, Iv, full, Given), Bytes(t, n), to, New, <<>>, <<>>)
    <3>1. PICK x, v : x = AUTH_SIZE /\ v = full
      OBVIOUS
    <3>2. PICK d1 : d1 = [s EXCEPT !.h.auth = v]
      OBVIOUS
    <3>3. d = [d1 EXCEPT !.h.read = x]
      BY <2>5, <3>1, <3>2
    <3>4. d1 = C(H(Tag, k, cache, k, image.len, Iv, v, Given), Bytes(t, n), to, New, <<>>, <<>>)
      BY <1>4, <2>4, <2>5, <3>2, AuthIs
    <3> QED BY <3>1, <3>3, <3>4, ReadIs
  <2>7. d.h.read = AUTH_SIZE
    <3>1. d.h = H(Tag, k, cache, AUTH_SIZE, image.len, Iv, full, Given)
      BY <2>6, CallFields
    <3> QED BY <3>1, HandleFields
  <2>8. ReadAuth(c) = Enter(d, Extra)
    BY <1>6, <1>7, <2>2, <2>5, <2>7 DEF ReadAuth, ReadField, Extra
  <2> QED BY <1>6a, <2>3, <2>6, <2>8
<1>8. CASE ~Whole(c, AUTH_SIZE)
  <2>1. PICK m, kept :
           /\ m \in Nat
           /\ ReadAndCache(c, AUTH_SIZE, "auth")
                = C(H(Tag, k + m, cache, k + m, image.len, Iv, kept, Given), Bytes(t, n), cur + m, New, <<>>, <<>>)
           /\ kept = Bytes(AuthAt, k + m)
           /\ k + m <= AUTH_SIZE /\ cur + m <= n /\ (k + m # AUTH_SIZE => cur + m = n)
    <3>1. PICK z \in Nat : z = AuthAt /\ t + cur = z + k
      BY <1>4, Places
    <3>2. PICK size \in Nat : size = AUTH_SIZE
      BY Places
    <3>3. k < size
      BY <1>4, <3>1, <3>2
    <3>4. PICK i \in Nat : i = cur /\ i <= n /\ t + i = z + k
      BY <1>2, <3>1
    <3>5. PICK m : m = Smaller(n - i, size - k)
      OBVIOUS
    <3>6. m \in Nat /\ k + m <= size /\ i + m <= n /\ (k + m # size => i + m = n)
      BY <3>3, <3>4, <3>5 DEF Smaller
    <3>7. PICK kept : kept = Bytes(z, k + m)
      OBVIOUS
    <3>8a. PICK field, len, vec, tag, r, o, held : field = Tag /\ len = image.len /\ vec = Iv /\ tag = Bytes(AuthAt, k) /\ r = New /\ o = <<>> /\ held = Given
      OBVIOUS
    <3>8. tag = Bytes(z, k)
      BY <3>1, <3>8a
    <3>9. ReadAndCache(C(H(field, k, cache, k, len, vec, tag, held), Bytes(t, n), i, r, o, o), size, "auth")
            = C(H(field, k + m, cache, k + m, len, vec, kept, held), Bytes(t, n), i + m, r, o, o)
      BY <3>3, <3>4, <3>5, <3>7, <3>8, GatherAuth
    <3> QED BY <1>2, <1>4, <3>1, <3>2, <3>4, <3>6, <3>7, <3>8, <3>8a, <3>9
  <2> m \in Nat
    BY <2>1
  <2>2. PICK d : d = ReadAndCache(c, AUTH_SIZE, "auth")
    OBVIOUS
  <2>2a. PICK g : g = H(Tag, k + m, cache, k + m, image.len, Iv, kept, Given)
    OBVIOUS
  <2>2b. d = C(g, Bytes(t, n), cur + m, New, <<>>, <<>>)
    BY <2>1, <2>2, <2>2a
  <2>2c. d.h = g /\ g.read = k + m /\ g.cached = k + m /\ g.cache = cache
    <3>1. d.h = g
      BY <2>2b, CallFields
    <3> QED BY <2>2a, <3>1, HandleFields
  <2>4. CASE k + m # AUTH_SIZE
    <3>1. cur + m = n /\ AuthAt + (k + m) = t + n /\ k + m < AUTH_SIZE /\ k + m \in Nat
      <4>1. AUTH_SIZE \in Nat /\ AuthAt \in Nat
        BY Places
      <4> QED BY <1>2, <1>4, <2>1, <2>4, <4>1
    <3>2. ReadAuth(c) = Return(d, More)
      BY <1>8, <2>2, <2>2c, <2>4 DEF ReadAuth, ReadField, More
    <3>3. ReadAuth(c) = C(g, Bytes(t, n), cur + m, More, <<>>, <<>>)
      BY <2>2b, <3>2, ReturnIs
    <3>4. AtAuth(g, t + n)
      BY <1>4, <2>1, <2>2a, <3>1 DEF AtAuth
    <3> QED BY <3>3, <3>4, StaysDone DEF AtHeader
  <2>5. CASE k + m = AUTH_SIZE
    <3>1. PICK to \in Nat : to = cur + m /\ to <= n /\ t + to = ExtraAt
      <4>1. AUTH_SIZE \in Nat /\ AuthAt \in Nat /\ ExtraAt = AuthAt + AUTH_SIZE
        BY Places
      <4> QED BY <1>2, <1>4, <2>1, <2>5, <4>1
    <3>2. ReadAuth(c) = Enter(d, Extra)
      BY <1>8, <2>2, <2>2c, <2>5 DEF ReadAuth, ReadField, Extra
    <3>3. kept = full
      BY <1>6, <2>1, <2>5
    <3>4. d = C(H(Tag, k + m, cache, k + m, image.len, Iv, full, Given), Bytes(t, n), to, New, <<>>, <<>>)
      BY <2>2a, <2>2b, <3>1, <3>3
    <3> QED BY <1>6a, <3>1, <3>2, <3>4
  <2> QED BY <2>4, <2>5
<1> QED BY <1>7, <1>8

\* read_bin_size.
LEMMA BinSizeStage ==
  ASSUME EncryptedImgAssumption, NEW t \in Nat, NEW n \in Nat, NEW c, InBinSize(c, t, n, 0)
  PROVE  InAuth(ReadBinSize(c), t, n, 0) \/ Done(ReadBinSize(c), t + n, 0)
<1>1. PICK h, cur : Underway(c, h, t, n, cur, 0) /\ AtBinSize(h, t + cur)
  BY DEF InBinSize
<1>2. /\ cur \in Nat /\ cur <= n
      /\ c = C(h, Bytes(t, n), cur, New, <<>>, <<>>)
      /\ c.h = h /\ Len(c.data) = n /\ c.cur = cur /\ Rest(c) = Bytes(t + cur, n - cur)
  BY <1>1, UnderwayIs, EmptyFed
<1>4. PICK k, cache :
         /\ k \in Nat
         /\ t + cur = LenAt + k /\ k < BIN_SIZE_DATA /\ Begins(cache, LenAt, k) /\ Good
         /\ h = H(Size, k, cache, k, 0, Iv, <<>>, Given)
  BY <1>1 DEF AtBinSize
<1> k \in Nat
  BY <1>4
<1>5. h.cached = k
  BY <1>4, HandleFields
<1>6. LengthIn(Bytes(LenAt, BIN_SIZE_DATA)) = image.len
  BY DEF LengthIn
<1>6a. ASSUME NEW to \in Nat, to <= n, t + to = AuthAt, NEW e, NEW cached, NEW read, NEW kept \in Seq(Int),
             e = C(H(Size, cached, kept, read, 0, Iv, <<>>, Given), Bytes(t, n), to, New, <<>>, <<>>)
      PROVE  InAuth(Enter([e EXCEPT !.h.len = image.len], Tag), t, n, 0)
  <2>0. PICK d, l : d = [e EXCEPT !.h.len = l] /\ l = image.len
    OBVIOUS
  <2>1. d = C(H(Size, cached, kept, read, l, Iv, <<>>, Given), Bytes(t, n), to, New, <<>>, <<>>)
    BY <1>6a, <2>0, LenIs
  <2>1a. PICK g : g = H(Tag, 0, kept, 0, l, Iv, <<>>, Given)
    OBVIOUS
  <2>2. Enter(d, Tag) = C(g, Bytes(t, n), to, New, <<>>, <<>>)
    BY <2>1, <2>1a, EnterIs
  <2>3. AtAuth(g, t + to)
    <3>1. PICK j \in Nat : j = 0
      OBVIOUS
    <3>2. Bytes(AuthAt, j) = <<>>
      BY <3>1, BytesAre, Places
    <3>3. t + to = AuthAt + j /\ j < AUTH_SIZE
      BY <1>6a, <3>1, Places
    <3> QED BY <1>4, <1>6a, <2>0, <2>1a, <3>1, <3>2, <3>3 DEF AtAuth
  <2>4. Underway(C(g, Bytes(t, n), to, New, <<>>, <<>>), g, t, n, to, 0)
    BY <1>6a, EmptyFed DEF Underway
  <2> QED BY <2>0, <2>2, <2>3, <2>4 DEF InAuth
<1>7. CASE Whole(c, BIN_SIZE_DATA)
  <2>1. k = 0 /\ n - cur >= BIN_SIZE_DATA /\ t + cur = LenAt
    <3>1. LenAt \in Nat
      BY Places
    <3>2. k = 0 /\ n - cur >= BIN_SIZE_DATA
      BY <1>2, <1>5, <1>7 DEF Whole
    <3> QED BY <1>4, <3>1, <3>2
  <2>2. SubSeq(Rest(c), 1, BIN_SIZE_DATA) = Bytes(LenAt, BIN_SIZE_DATA)
    <3>1. PICK l \in Nat, z \in Nat : l = n - cur /\ z = LenAt
      <4>1. LenAt \in Nat
        BY Places
      <4>2. n - cur \in Nat
        BY <1>2
      <4> QED BY <4>1, <4>2
    <3>2. Rest(c) = Bytes(z, l) /\ BIN_SIZE_DATA <= l
      BY <1>2, <2>1, <3>1
    <3>3. PICK q \in Nat : q = BIN_SIZE_DATA
      BY Places
    <3>4. SubSeq(Bytes(z, l), 1, q) = Bytes(z, q)
      BY <3>2, <3>3, RestPart
    <3> QED BY <3>1, <3>2, <3>3, <3>4
  <2>3. PICK to \in Nat : to = cur + BIN_SIZE_DATA /\ to <= n /\ t + to = AuthAt
    <3>1. BIN_SIZE_DATA \in Nat /\ AuthAt = LenAt + BIN_SIZE_DATA /\ LenAt \in Nat
      BY Places
    <3> QED BY <1>2, <2>1, <3>1
  <2>4. Skip(c, BIN_SIZE_DATA) = C(h, Bytes(t, n), to, New, <<>>, <<>>)
    BY <1>2, <2>3, ReturnIs
  <2>5. ReadBinSize(c) = Enter([Skip(c, BIN_SIZE_DATA) EXCEPT !.h.len = image.len], Tag)
    BY <1>6, <1>7, <2>2 DEF ReadBinSize, Tag
  <2>6. cache \in Seq(Int)
    BY <1>4 DEF Begins
  <2> QED BY <1>4, <1>6a, <2>3, <2>4, <2>5, <2>6
<1>8. CASE ~Whole(c, BIN_SIZE_DATA)
  <2>1. PICK m, kept :
           /\ m \in Nat
           /\ ReadAndCache(c, BIN_SIZE_DATA, "cache")
                = C(H(Size, k + m, kept, k + m, 0, Iv, <<>>, Given), Bytes(t, n), cur + m, New, <<>>, <<>>)
           /\ Begins(kept, LenAt, k + m)
           /\ k + m <= BIN_SIZE_DATA /\ cur + m <= n /\ (k + m # BIN_SIZE_DATA => cur + m = n)
    <3>1. PICK z \in Nat : z = LenAt /\ t + cur = z + k
      BY <1>4, Places
    <3>2. PICK size \in Nat : size = BIN_SIZE_DATA
      BY Places
    <3>3. k < size /\ Begins(cache, z, k)
      BY <1>4, <3>1, <3>2
    <3>4. PICK i \in Nat : i = cur /\ i <= n /\ t + i = z + k
      BY <1>2, <3>1
    <3>5. PICK m : m = Smaller(n - i, size - k)
      OBVIOUS
    <3>6. m \in Nat /\ k + m <= size /\ i + m <= n /\ (k + m # size => i + m = n)
      BY <3>3, <3>4, <3>5 DEF Smaller
    <3>7. PICK kept : kept = Copy(cache, k, Bytes(z + k, m))
      OBVIOUS
    <3>8. Begins(kept, z, k + m)
      BY <3>3, <3>6, <3>7, CopyBegins
    <3>8a. PICK field, len, vec, tag, r, o, held : field = Size /\ len = 0 /\ vec = Iv /\ tag = <<>> /\ r = New /\ o = <<>> /\ held = Given
      OBVIOUS
    <3>9. ReadAndCache(C(H(field, k, cache, k, len, vec, tag, held), Bytes(t, n), i, r, o, o), size, "cache")
            = C(H(field, k + m, kept, k + m, len, vec, tag, held), Bytes(t, n), i + m, r, o, o)
      BY <3>3, <3>4, <3>5, <3>7, GatherCache
    <3> QED BY <1>2, <1>4, <3>1, <3>2, <3>4, <3>6, <3>7, <3>8, <3>8a, <3>9
  <2> m \in Nat
    BY <2>1
  <2>2. PICK d : d = ReadAndCache(c, BIN_SIZE_DATA, "cache")
    OBVIOUS
  <2>2a. PICK g : g = H(Size, k + m, kept, k + m, 0, Iv, <<>>, Given)
    OBVIOUS
  <2>2b. d = C(g, Bytes(t, n), cur + m, New, <<>>, <<>>)
    BY <2>1, <2>2, <2>2a
  <2>2c. d.h = g /\ g.read = k + m /\ g.cached = k + m /\ g.cache = kept
    <3>1. d.h = g
      BY <2>2b, CallFields
    <3> QED BY <2>2a, <3>1, HandleFields
  <2>4. CASE k + m # BIN_SIZE_DATA
    <3>1. cur + m = n /\ LenAt + (k + m) = t + n /\ k + m < BIN_SIZE_DATA /\ k + m \in Nat
      <4>1. BIN_SIZE_DATA \in Nat /\ LenAt \in Nat
        BY Places
      <4> QED BY <1>2, <1>4, <2>1, <2>4, <4>1
    <3>2. ReadBinSize(c) = Return(d, More)
      BY <1>8, <2>2, <2>2c, <2>4 DEF ReadBinSize, More
    <3>3. ReadBinSize(c) = C(g, Bytes(t, n), cur + m, More, <<>>, <<>>)
      BY <2>2b, <3>2, ReturnIs
    <3>4. AtBinSize(g, t + n)
      BY <1>4, <2>1, <2>2a, <3>1 DEF AtBinSize
    <3> QED BY <3>3, <3>4, StaysDone DEF AtHeader
  <2>5. CASE k + m = BIN_SIZE_DATA
    <3>1. PICK to \in Nat : to = cur + m /\ to <= n /\ t + to = AuthAt
      <4>1. BIN_SIZE_DATA \in Nat /\ LenAt \in Nat /\ AuthAt = LenAt + BIN_SIZE_DATA
        BY Places
      <4> QED BY <1>2, <1>4, <2>1, <2>5, <4>1
    <3>2. SubSeq(kept, 1, BIN_SIZE_DATA) = Bytes(LenAt, BIN_SIZE_DATA) /\ kept \in Seq(Int)
      BY <2>1, <2>5 DEF Begins
    <3>3. ReadBinSize(c) = Enter([d EXCEPT !.h.len = image.len], Tag)
      BY <1>6, <1>8, <2>2, <2>2c, <2>5, <3>2 DEF ReadBinSize, Tag
    <3>4. d = C(g, Bytes(t, n), to, New, <<>>, <<>>)
      BY <2>2b, <3>1
    <3> QED BY <1>6a, <2>2a, <3>1, <3>2, <3>3, <3>4
  <2> QED BY <2>4, <2>5
<1> QED BY <1>7, <1>8

\* read_extra_header.
LEMMA ExtraStage ==
  ASSUME EncryptedImgAssumption, NEW t \in Nat, NEW n \in Nat, NEW c, InExtra(c, t, n, 0)
  PROVE  InDecode(ReadExtraHeader(c), t, n, 0) \/ Done(ReadExtraHeader(c), t + n, 0)
<1>1. PICK h, cur : Underway(c, h, t, n, cur, 0) /\ AtExtra(h, t + cur)
  BY DEF InExtra
<1>2. /\ cur \in Nat /\ cur <= n
      /\ c = C(h, Bytes(t, n), cur, New, <<>>, <<>>)
      /\ c.h = h /\ Len(c.data) = n /\ c.cur = cur /\ Rest(c) = Bytes(t + cur, n - cur)
  BY <1>1, UnderwayIs, EmptyFed
<1>4. PICK k, cache :
         /\ k \in Nat
         /\ t + cur = ExtraAt + k /\ k < RESERVED_HEADER /\ cache \in Seq(Int) /\ Good
         /\ h = H(Extra, 0, cache, k, image.len, Iv, Auth, Given)
  BY <1>1 DEF AtExtra
<1> k \in Nat
  BY <1>4
<1>5. h.read = k
  BY <1>4, HandleFields
<1>6. PICK m : m = Smaller(n - cur, RESERVED_HEADER - k)
  OBVIOUS
<1>7. m \in Nat /\ k + m <= RESERVED_HEADER /\ cur + m <= n /\ (k + m # RESERVED_HEADER => cur + m = n)
  <2>1. RESERVED_HEADER \in Nat /\ k < RESERVED_HEADER
    BY <1>4, Places
  <2> QED BY <1>2, <1>6, <2>1 DEF Smaller
<1>8. PICK d : d = [c EXCEPT !.cur = @ + m, !.h.read = @ + m]
  OBVIOUS
<1>9. PICK g : g = H(Extra, 0, cache, k + m, image.len, Iv, Auth, Given)
  OBVIOUS
<1>10. d = C(g, Bytes(t, n), cur + m, New, <<>>, <<>>)
  <2>1. PICK x, y : x = cur + m /\ y = k + m
    OBVIOUS
  <2>2. PICK d1 : d1 = [c EXCEPT !.cur = x]
    OBVIOUS
  <2>3. d1 = C(h, Bytes(t, n), x, New, <<>>, <<>>)
    BY <1>2, <2>2, CurIs
  <2>4. d1.h = h
    BY <2>3, CallFields
  <2>5. d = [d1 EXCEPT !.h.read = y]
    BY <1>2, <1>5, <1>8, <2>1, <2>2, <2>4
  <2>6. [d1 EXCEPT !.h.read = y] = C(H(Extra, 0, cache, y, image.len, Iv, Auth, Given), Bytes(t, n), x, New, <<>>, <<>>)
    BY <1>4, <2>3, ReadIs
  <2> QED BY <1>9, <2>1, <2>5, <2>6
<1>11. d.h.read = k + m
  <2>1. d.h = g
    BY <1>10, CallFields
  <2> QED BY <1>9, <2>1, HandleFields
<1>12. CASE k + m # RESERVED_HEADER
  <2>1. cur + m = n /\ ExtraAt + (k + m) = t + n /\ k + m < RESERVED_HEADER /\ k + m \in Nat
    <3>1. RESERVED_HEADER \in Nat /\ ExtraAt \in Nat
      BY Places
    <3> QED BY <1>2, <1>4, <1>7, <1>12, <3>1
  <2>2. ReadExtraHeader(c) = Return(d, More)
    BY <1>2, <1>5, <1>6, <1>8, <1>11, <1>12 DEF ReadExtraHeader, More
  <2>3. ReadExtraHeader(c) = C(g, Bytes(t, n), cur + m, More, <<>>, <<>>)
    BY <1>10, <2>2, ReturnIs
  <2>4. AtExtra(g, t + n)
    BY <1>4, <1>9, <2>1 DEF AtExtra
  <2> QED BY <2>3, <2>4, StaysDone DEF AtHeader
<1>13. CASE k + m = RESERVED_HEADER
  <2>1. PICK to \in Nat : to = cur + m /\ to <= n /\ t + to = BinAt
    <3>1. RESERVED_HEADER \in Nat /\ ExtraAt \in Nat /\ BinAt = ExtraAt + RESERVED_HEADER
      BY Places
    <3> QED BY <1>2, <1>4, <1>7, <1>13, <3>1
  <2>2. ReadExtraHeader(c) = Enter(d, Decode)
    BY <1>2, <1>5, <1>6, <1>8, <1>11, <1>13 DEF ReadExtraHeader, Decode
  <2>3. PICK e : e = H(Decode, 0, cache, 0, image.len, Iv, Auth, Given)
    OBVIOUS
  <2>4. Enter(d, Decode) = C(e, Bytes(t, n), to, New, <<>>, <<>>)
    BY <1>9, <1>10, <2>1, <2>3, EnterIs
  <2>5. AtDecode(e, t + to, 0)
    <3>1. PICK j \in Nat, b \in Nat : j = 0 /\ b = 0 /\ b + j = 0
      OBVIOUS
    <3>2. Begins(cache, BinAt + b, j)
      <4>1. Bytes(BinAt + b, j) = <<>>
        <5>1. BinAt + b \in Int
          BY Places
        <5> QED BY <3>1, <5>1, BytesAre
      <4>2. SubSeq(cache, 1, j) = <<>> /\ Len(cache) >= j
        BY <1>4, <3>1
      <4> QED BY <1>4, <4>1, <4>2 DEF Begins
    <3>3. t + to = BinAt + b + j /\ j < BLOCK /\ b % BLOCK = 0
      BY <2>1, <3>1, Places
    <3> QED BY <1>4, <2>3, <3>1, <3>2, <3>3 DEF AtDecode
  <2>6. Underway(C(e, Bytes(t, n), to, New, <<>>, <<>>), e, t, n, to, 0)
    BY <2>1, EmptyFed DEF Underway
  <2> QED BY <2>2, <2>4, <2>5, <2>6 DEF InDecode
<1> QED BY <1>12, <1>13

-----------------------------------------------------------------------------
(* Whole blocks.                                                           *)

\* Whole blocks.
IsBlocks(x) == x % BLOCK = 0

\* A multiple has a quotient.
LEMMA Quotient ==
  ASSUME NEW x \in Nat, NEW B \in Nat, B > 0, x % B = 0
  PROVE  \E q \in Nat : x = q * B
OBVIOUS

\* A product is a multiple.
LEMMA Product ==
  ASSUME NEW q \in Nat, NEW B \in Nat, B > 0
  PROVE  (q * B) % B = 0
OBVIOUS

\* Whole blocks and whole blocks.
LEMMA BlocksAdd ==
  ASSUME EncryptedImgAssumption, NEW x \in Nat, NEW y \in Nat, NEW z \in Nat, z = x + y, IsBlocks(x), IsBlocks(y)
  PROVE  IsBlocks(z)
<1>0. PICK B \in Nat : B = BLOCK /\ B > 0
  BY Places
<1>1. PICK q \in Nat : x = q * B
  BY <1>0, Quotient DEF IsBlocks
<1>2. PICK r \in Nat : y = r * B
  BY <1>0, Quotient DEF IsBlocks
<1>3. PICK s \in Nat : s = q + r
  OBVIOUS
<1>4. z = s * B
  BY <1>1, <1>2, <1>3
<1>5. (s * B) % B = 0
  BY <1>0, Product
<1> QED BY <1>0, <1>4, <1>5 DEF IsBlocks

\* Without the remainder there are whole blocks.
LEMMA BlocksLeft ==
  ASSUME EncryptedImgAssumption, NEW x \in Nat, NEW r, r = x % BLOCK
  PROVE  r \in Nat /\ r < BLOCK /\ r <= x /\ IsBlocks(x - r)
<1>0. PICK B \in Nat : B = BLOCK /\ B > 0
  BY Places
<1>1. x % B \in Nat /\ x % B < B /\ x % B <= x /\ (x - (x % B)) % B = 0
  BY <1>0
<1> QED BY <1>0, <1>1 DEF IsBlocks

\* None and one.
LEMMA OneBlock ==
  ASSUME EncryptedImgAssumption
  PROVE  IsBlocks(0) /\ IsBlocks(BLOCK)
<1>0. PICK B \in Nat : B = BLOCK /\ B > 0
  BY Places
<1>1. B % B = 0 /\ 0 % B = 0
  BY <1>0
<1> QED BY <1>0, <1>1 DEF IsBlocks

\* The cipher is fed the next m bytes, and the caller gets them.
LEMMA UpdateMore ==
  ASSUME NEW h, NEW data, NEW cur, NEW r, NEW x \in Int, NEW a \in Int, NEW i \in Nat, NEW j \in Nat, NEW m \in Nat,
         NEW p \in Int, p = x + j, p = a + i
  PROVE  Update(C(h, data, cur, r, Bytes(x, j), Bytes(a, i)), Bytes(p, m), j)
           = C(h, data, cur, r, Bytes(x, j + m), Bytes(a, i + m))
<1>1. PICK o, g, bytes : o = Bytes(x, j) /\ g = Bytes(a, i) /\ bytes = Bytes(p, m)
  OBVIOUS
<1>2. Update(C(h, data, cur, r, o, g), bytes, j) = C(h, data, cur, r, Copy(o, j, bytes), g \o bytes)
  BY UpdateIs
<1>3. Copy(o, j, bytes) = Bytes(x, j + m)
  <2>1. Copy(Bytes(x, j), j, Bytes(x + j, m)) = Bytes(x, j + m)
    BY CopyExact
  <2> QED BY <1>1, <2>1
<1>4. g \o bytes = Bytes(a, i + m)
  <2>1. Bytes(a, i) \o Bytes(a + i, m) = Bytes(a, i + m)
    BY BytesJoin
  <2> QED BY <1>1, <2>1
<1> QED BY <1>1, <1>2, <1>3, <1>4

-----------------------------------------------------------------------------
(* The binary.                                                             *)

\* No bytes are the empty sequence.
LEMMA BytesEmpty ==
  ASSUME NEW a \in Int, NEW m \in Nat
  PROVE  Bytes(a, m) = <<>> <=> m = 0
<1>1. Len(<<>>) = 0
  OBVIOUS
<1>2. Len(Bytes(a, m)) = m /\ (m = 0 => Bytes(a, m) = <<>>)
  BY BytesAre
<1> QED BY <1>1, <1>2

\* What is in the middle and at the end of a chunk's rest.
Slice(s, p, q) == SubSeq(s, p, q)

\* BytesPart, on names.
LEMMA BytesSlice ==
  ASSUME NEW a \in Int, NEW n \in Nat, NEW p \in Nat, NEW q \in Nat, p >= 1, p <= q + 1, q <= n,
         NEW b \in Int, b = a + p - 1, NEW m \in Nat, m = q - p + 1
  PROVE  Slice(Bytes(a, n), p, q) = Bytes(b, m)
<1>1. PICK s : s = Bytes(a, n)
  OBVIOUS
<1>2. s \in Seq(Int) /\ Len(s) = n /\ \A i \in 1 .. n : s[i] = a + i - 1
  BY <1>1, BytesAre
<1>3. PICK t : t = SubSeq(s, p, q)
  OBVIOUS
<1>4. t \in Seq(Int) /\ Len(t) = q - p + 1 /\ \A k \in 1 .. q - p + 1 : t[k] = s[p + k - 1]
  BY <1>2, <1>3, PartIs
<1>6. \A k \in 1 .. m : t[k] = b + k - 1
  <2>1. \A k \in 1 .. m : p + k - 1 \in 1 .. n /\ a + (p + k - 1) - 1 = b + k - 1
    OBVIOUS
  <2> QED BY <1>2, <1>4, <2>1
<1>7. t = Bytes(b, m)
  BY <1>4, <1>6, IsBytes
<1> QED BY <1>1, <1>3, <1>7 DEF Slice

\* The call and its handle in the binary, R bytes of it read.
Bin(k, cache, R) == H(Decode, k, cache, R, image.len, Iv, Auth, Given)

\* The handle while it decodes.
LEMMA BinFields ==
  ASSUME NEW k, NEW cache, NEW R
  PROVE  /\ Bin(k, cache, R).state = Decode /\ Bin(k, cache, R).cached = k /\ Bin(k, cache, R).cache = cache
         /\ Bin(k, cache, R).read = R /\ Bin(k, cache, R).len = image.len
BY HandleFields DEF Bin

\* CacheIs while it decodes.
LEMMA BinCache ==
  ASSUME NEW k, NEW cache, NEW R, NEW data, NEW cur, NEW r, NEW o, NEW g, NEW x
  PROVE  [C(Bin(k, cache, R), data, cur, r, o, g) EXCEPT !.h.cache = x] = C(Bin(k, x, R), data, cur, r, o, g)
<1>1. PICK n, v, w : n = image.len /\ v = Iv /\ w = Auth
  OBVIOUS
<1>2. [C(H(Decode, k, cache, R, n, v, w, Given), data, cur, r, o, g) EXCEPT !.h.cache = x]
        = C(H(Decode, k, x, R, n, v, w, Given), data, cur, r, o, g)
  BY CacheIs
<1> QED BY <1>1, <1>2 DEF Bin

\* CachedIs while it decodes.
LEMMA BinCached ==
  ASSUME NEW k, NEW cache, NEW R, NEW data, NEW cur, NEW r, NEW o, NEW g, NEW x
  PROVE  [C(Bin(k, cache, R), data, cur, r, o, g) EXCEPT !.h.cached = x] = C(Bin(x, cache, R), data, cur, r, o, g)
<1>1. PICK n, v, w : n = image.len /\ v = Iv /\ w = Auth
  OBVIOUS
<1>2. [C(H(Decode, k, cache, R, n, v, w, Given), data, cur, r, o, g) EXCEPT !.h.cached = x]
        = C(H(Decode, x, cache, R, n, v, w, Given), data, cur, r, o, g)
  BY CachedIs
<1> QED BY <1>1, <1>2 DEF Bin

\* The part of a block that the chunk can fill.
LEMMA FilledIs ==
  ASSUME NEW k \in Nat, NEW l \in Nat, NEW a \in Nat, NEW m \in Nat, m <= l, NEW cache, Begins(cache, a, k)
  PROVE  Begins(Copy(cache, k, SubSeq(Bytes(a + k, l), 1, m)), a, k + m)
<1>1. SubSeq(Bytes(a + k, l), 1, m) = Bytes(a + k, m)
  <2>1. PICK b \in Nat : b = a + k
    OBVIOUS
  <2> QED BY <2>1, RestPart
<1>2. Begins(Copy(cache, k, Bytes(a + k, m)), a, k + m)
  BY CopyBegins
<1> QED BY <1>1, <1>2

\* A call that has decrypted whole blocks and keeps the rest is done.
LEMMA BinWaits ==
  ASSUME EncryptedImgAssumption, NEW b \in Nat, NEW d \in Nat, NEW k \in Nat, NEW s \in Nat, s = b + d,
         k < BLOCK, IsBlocks(s), NEW cache, Begins(cache, BinAt + s, k), Good,
         NEW R, R = s + k, R # image.len, NEW q, q = BinAt + R, NEW data, NEW cur
  PROVE  Done(C(Bin(k, cache, R), data, cur, More, Bytes(BinAt + b, d), Bytes(BinAt, s)), q, b)
<1>1. PICK h : h = Bin(k, cache, R)
  OBVIOUS
<1>2. AtDecode(h, q, s)
  <2>1. q = BinAt + s + k
    BY Places
  <2> QED BY <1>1, <2>1 DEF AtDecode, Bin, IsBlocks
<1>3. h.read # image.len
  BY <1>1, BinFields
<1>4. Waits(h, q, b + d)
  BY <1>2, <1>3 DEF Waits
<1> QED BY <1>1, <1>4 DEF Done

\* The steps of process_bin when the binary does not end in this chunk.
Copied(c) == IF c.h.cached = 0 THEN 0 ELSE Smaller(BLOCK - c.h.cached, Len(Rest(c)))
Filled(c) ==
  IF Copied(c) = 0 THEN c
  ELSE [c EXCEPT !.h.cache = Copy(@, c.h.cached, SubSeq(Rest(c), 1, Copied(c))),
                 !.h.cached = @ + Copied(c)]
First(c) == IF c.h.cached = 0 THEN Filled(c) ELSE Update(Filled(c), SubSeq(Filled(c).h.cache, 1, BLOCK), 0)
Over(c) == (Len(Rest(c)) - Copied(c)) % BLOCK
Middle(c) == SubSeq(Rest(c), Copied(c) + 1, Len(Rest(c)) - Over(c))
Second(c) == IF Middle(c) = <<>> THEN First(c)
             ELSE Update(First(c), Middle(c), IF c.h.cached = 0 THEN 0 ELSE BLOCK)
Last(c) == [Second(c) EXCEPT !.h.cached = Over(c),
              !.h.cache = Copy(@, 0, SubSeq(Rest(c), Len(Rest(c)) - Over(c) + 1, Len(Rest(c))))]

\* process_bin in these steps.
LEMMA ProcessMiddleIs ==
  ASSUME NEW c
  PROVE  ProcessMiddle(c) = IF c.h.cached # 0 /\ Filled(c).h.cached # BLOCK
                              THEN Return(Filled(c), More) ELSE Return(Last(c), More)
BY DEF ProcessMiddle, Copied, Filled, First, Over, Middle, Second, Last, More

\* The handle after the last of them.
LEMMA LastIs ==
  ASSUME NEW c, NEW f, NEW kept, NEW R, NEW data, NEW cur, NEW r, NEW o, NEW g,
         Second(c) = C(Bin(f, kept, R), data, cur, r, o, g),
         NEW over, over = Over(c), NEW last,
         last = Copy(kept, 0, SubSeq(Rest(c), Len(Rest(c)) - over + 1, Len(Rest(c))))
  PROVE  Last(c) = C(Bin(over, last, R), data, cur, r, o, g)
<1>1. PICK d : d = Second(c)
  OBVIOUS
<1>2. PICK e : e = [d EXCEPT !.h.cached = over]
  OBVIOUS
<1>3. e = C(Bin(over, kept, R), data, cur, r, o, g)
  BY <1>1, <1>2, BinCached
<1>4. e.h.cache = kept
  <2>1. e.h = Bin(over, kept, R)
    BY <1>3, CallFields
  <2> QED BY <2>1, BinFields
<1>5. Last(c) = [e EXCEPT !.h.cache = last]
  BY <1>1, <1>2, <1>4 DEF Last
<1>6. [e EXCEPT !.h.cache = last] = C(Bin(over, last, R), data, cur, r, o, g)
  BY <1>3, BinCache
<1> QED BY <1>5, <1>6

\* A chunk in which the binary does not end.
LEMMA MiddleOfBinary ==
  ASSUME EncryptedImgAssumption, NEW t \in Nat, NEW n \in Nat, NEW cur \in Nat, cur <= n, NEW l \in Nat, l = n - cur,
         NEW b \in Nat, NEW k \in Nat, t + cur = BinAt + b + k, k < BLOCK, IsBlocks(b),
         NEW cache, Begins(cache, BinAt + b, k), Good, NEW R \in Nat, R = b + k + l, R # image.len,
         NEW c, c = C(Bin(k, cache, R), Bytes(t, n), cur, New, <<>>, Bytes(BinAt, b))
  PROVE  Done(ProcessMiddle(c), t + n, b)
<1>0. BLOCK \in Nat /\ BLOCK > 0 /\ BinAt \in Nat
  BY Places
<1>1. PICK a \in Nat : a = BinAt + b
  BY <1>0
<1>2. PICK D : D = Bytes(t, n)
  OBVIOUS
<1>3. PICK new : new = Bytes(a + k, l)
  OBVIOUS
<1>4. Rest(c) = new /\ Len(new) = l
  <2>1. Rest(c) = Bytes(t + cur, n - cur)
    <3>1. PICK o, g : o = <<>> /\ g = Bytes(BinAt, b)
      OBVIOUS
    <3>2. c = C(Bin(k, cache, R), Bytes(t, n), cur, New, o, g)
      BY <3>1
    <3> QED BY <3>2, RestIs
  <2>2. t + cur = a + k
    BY <1>1
  <2>3. Len(Bytes(a + k, l)) = l
    <3>1. a + k \in Int
      OBVIOUS
    <3> QED BY <3>1, BytesAre
  <2> QED BY <1>3, <2>1, <2>2, <2>3
<1>5. PICK h : h = Bin(k, cache, R)
  OBVIOUS
<1>6. c.h = h /\ h.cached = k /\ h.cache = cache
  <2>1. c.h = h
    BY <1>5, CallFields
  <2> QED BY <1>5, <2>1, BinFields
<1>7. PICK m : m = Copied(c) /\ m = IF k = 0 THEN 0 ELSE Smaller(BLOCK - k, l)
  BY <1>4, <1>6 DEF Copied
<1>8. m \in Nat /\ m <= l /\ k + m <= BLOCK /\ (k # 0 /\ k + m # BLOCK => m = l) /\ (k = 0 => m = 0)
  BY <1>0, <1>7 DEF Smaller
\* What fills the block, and what is kept then.
<1>9. PICK filled : filled = Filled(c)
  OBVIOUS
<1>10. PICK kept : /\ filled = C(Bin(k + m, kept, R), D, cur, New, <<>>, Bytes(BinAt, b))
                   /\ Begins(kept, a, k + m)
  <2>1. CASE m = 0
    <3>1. k + m = k
      BY <2>1
    <3>2. filled = c
      BY <1>7, <1>9, <2>1 DEF Filled
    <3> QED BY <1>1, <1>2, <2>1, <3>1, <3>2
  <2>2. CASE m # 0
    <3>1. PICK x, y : x = Copy(cache, k, SubSeq(new, 1, m)) /\ y = k + m
      OBVIOUS
    <3>2. PICK o, g : o = <<>> /\ g = Bytes(BinAt, b)
      OBVIOUS
    <3>2a. PICK c1 : c1 = [c EXCEPT !.h.cache = x]
      OBVIOUS
    <3>2b. c1 = C(Bin(k, x, R), D, cur, New, o, g)
      BY <1>2, <3>2, <3>2a, BinCache
    <3>2c. c1.h.cached = k
      <4>1. c1.h = Bin(k, x, R)
        BY <3>2b, CallFields
      <4> QED BY <4>1, BinFields
    <3>2d. filled = [c1 EXCEPT !.h.cached = y]
      BY <1>4, <1>6, <1>7, <1>9, <2>2, <3>1, <3>2a, <3>2c DEF Filled
    <3>3. filled = C(Bin(y, x, R), D, cur, New, <<>>, Bytes(BinAt, b))
      <4>1. [c1 EXCEPT !.h.cached = y] = C(Bin(y, x, R), D, cur, New, o, g)
        BY <3>2b, BinCached
      <4> QED BY <3>2, <3>2d, <4>1
    <3>4. Begins(x, a, k + m)
      BY <1>1, <1>3, <1>8, <3>1, FilledIs
    <3> QED BY <3>1, <3>3, <3>4
  <2> QED BY <2>1, <2>2
<1>11. filled.h.cached = k + m /\ filled.h.cache = kept
  <2>1. filled.h = Bin(k + m, kept, R)
    BY <1>10, CallFields
  <2> QED BY <2>1, BinFields
<1>12. CASE k # 0 /\ k + m # BLOCK
  <2>1. ProcessMiddle(c) = Return(filled, More)
    BY <1>6, <1>9, <1>11, <1>12, ProcessMiddleIs
  <2>2. ProcessMiddle(c) = C(Bin(k + m, kept, R), D, cur, More, <<>>, Bytes(BinAt, b))
    BY <1>10, <2>1, ReturnIs
  <2>3. PICK z \in Nat, j \in Nat : z = 0 /\ j = k + m /\ b = b + z
    BY <1>8
  <2>4. Bytes(BinAt + b, z) = <<>>
    BY <1>1, <2>3, BytesAre
  <2>5. j < BLOCK /\ Begins(kept, BinAt + b, j) /\ R = b + j /\ t + n = BinAt + R
    BY <1>0, <1>1, <1>8, <1>10, <1>12, <2>3
  <2>6. Done(C(Bin(j, kept, R), D, cur, More, Bytes(BinAt + b, z), Bytes(BinAt, b)), t + n, b)
    BY <2>3, <2>5, BinWaits
  <2> QED BY <2>2, <2>3, <2>4, <2>6
<1>13. CASE ~(k # 0 /\ k + m # BLOCK)
  <2>1. PICK f \in Nat : f = k + m
    BY <1>8
  <2>1a. f = (IF k = 0 THEN 0 ELSE BLOCK)
    BY <1>0, <1>8, <1>13, <2>1
  <2>1b. IsBlocks(f)
    BY <2>1a, OneBlock
  <2>2. PICK first : first = First(c) /\ first = IF k = 0 THEN filled ELSE Update(filled, SubSeq(filled.h.cache, 1, BLOCK), 0)
    BY <1>6, <1>9 DEF First
  <2>3. first = C(Bin(f, kept, R), D, cur, New, Bytes(BinAt + b, f), Bytes(BinAt, b + f))
    <3>1. CASE k = 0
      <4>1. f = 0 /\ b + f = b
        BY <1>8, <2>1, <3>1
      <4>2. Bytes(BinAt + b, f) = <<>>
        BY <1>1, <4>1, BytesAre
      <4> QED BY <1>10, <2>1, <2>2, <3>1, <4>1, <4>2
    <3>2. CASE k # 0
      <4>1. PICK z, bytes : z \in Nat /\ z = 0 /\ bytes = SubSeq(filled.h.cache, 1, BLOCK)
        OBVIOUS
      <4> z \in Nat
        BY <4>1
      <4>2. bytes = Bytes(a, f)
        <5>1. SubSeq(kept, 1, f) = Bytes(a, f) /\ f = BLOCK
          BY <1>10, <2>1, <2>1a, <3>2 DEF Begins
        <5> QED BY <1>11, <4>1, <5>1
      <4>3. Bytes(a, z) = <<>>
        BY <4>1, BytesAre
      <4>4. filled = C(Bin(f, kept, R), D, cur, New, Bytes(a, z), Bytes(BinAt, b))
        BY <1>10, <2>1, <4>3
      <4>5. PICK i \in Nat : i = b + f
        OBVIOUS
      <4>6. BinAt \in Int /\ a = a + z /\ a = BinAt + b /\ f = z + f
        BY <1>0, <1>1, <4>1
      <4>7. Update(filled, bytes, z) = C(Bin(f, kept, R), D, cur, New, Bytes(a, f), Bytes(BinAt, i))
        <5>1. PICK x \in Int, y \in Int : x = a /\ y = BinAt
          BY <4>6
        <5>2. Update(C(Bin(f, kept, R), D, cur, New, Bytes(x, z), Bytes(y, b)), Bytes(x, f), z)
                = C(Bin(f, kept, R), D, cur, New, Bytes(x, z + f), Bytes(y, b + f))
          <6>1. x = x + z /\ x = y + b
            BY <4>6, <5>1
          <6> QED BY <6>1, UpdateMore
        <5> QED BY <4>2, <4>4, <4>5, <4>6, <5>1, <5>2
      <4> QED BY <1>1, <2>2, <3>2, <4>1, <4>5, <4>7
    <3> QED BY <3>1, <3>2
  <2>4. PICK over : over = Over(c) /\ over = (l - m) % BLOCK
    BY <1>4, <1>7 DEF Over
  <2>5. over \in Nat /\ over < BLOCK /\ over <= l - m /\ IsBlocks((l - m) - over)
    <3>1. PICK x \in Nat : x = l - m
      BY <1>8
    <3>2. over = x % BLOCK
      BY <2>4, <3>1
    <3>3. over \in Nat /\ over < BLOCK /\ over <= x /\ IsBlocks(x - over)
      BY <3>2, BlocksLeft
    <3> QED BY <3>1, <3>3
  <2>5a. over \in Nat /\ over < BLOCK /\ over <= l - m
    BY <2>5
  <2>6. PICK mm \in Nat : mm = (l - m) - over
    BY <1>8, <2>5a
  <2>6a. IsBlocks(mm)
    BY <2>5, <2>6
  <2>7. PICK middle : middle = Middle(c) /\ middle = SubSeq(new, m + 1, l - over)
    BY <1>4, <1>7, <2>4 DEF Middle
  <2>8. middle = Bytes(BinAt + b + f, mm) /\ (middle = <<>> <=> mm = 0)
    <3>1. PICK z \in Int, j \in Nat, p \in Nat, w \in Int : z = a + k /\ j = l - over /\ p = m + 1 /\ w = z + m
      BY <1>8, <2>5a
    <3>2. p >= 1 /\ p <= j + 1 /\ j <= l /\ w = z + p - 1 /\ mm = j - p + 1
      BY <1>8, <2>5a, <2>6, <3>1
    <3>3. Slice(Bytes(z, l), p, j) = Bytes(w, mm)
      BY <3>2, BytesSlice
    <3>4. w = BinAt + b + f
      BY <1>0, <1>1, <1>8, <2>1, <3>1
    <3>5. middle = Slice(Bytes(z, l), p, j)
      BY <1>3, <2>7, <3>1 DEF Slice
    <3>6. Bytes(w, mm) = <<>> <=> mm = 0
      BY BytesEmpty
    <3> QED BY <3>3, <3>4, <3>5, <3>6
  <2>9. PICK second : second = Second(c) /\ second = IF middle = <<>> THEN first ELSE Update(first, middle, IF k = 0 THEN 0 ELSE BLOCK)
    BY <1>6, <2>2, <2>7 DEF Second
  <2>10. PICK s \in Nat, dd \in Nat : dd = f + mm /\ s = b + dd
    OBVIOUS
  <2>10a. IsBlocks(s)
    <3>1. IsBlocks(dd)
      BY <2>1b, <2>6a, <2>10, BlocksAdd
    <3> QED BY <2>10, <3>1, BlocksAdd
  <2>11. second = C(Bin(f, kept, R), D, cur, New, Bytes(BinAt + b, dd), Bytes(BinAt, s))
    <3>1. CASE mm = 0
      <4>1. dd = f /\ s = b + f
        BY <2>10, <3>1
      <4> QED BY <2>3, <2>8, <2>9, <3>1, <4>1
    <3>2. CASE mm # 0
      <4>1. second = Update(first, middle, f)
        BY <2>1a, <2>8, <2>9, <3>2
      <4>2. PICK i \in Nat, w \in Int : i = b + f /\ w = BinAt + b + f
        BY <1>0
      <4>3. BinAt \in Int /\ a \in Int /\ w = a + f /\ w = BinAt + i /\ s = i + mm
        BY <1>0, <1>1, <2>10, <4>2
      <4>4. first = C(Bin(f, kept, R), D, cur, New, Bytes(a, f), Bytes(BinAt, i)) /\ middle = Bytes(w, mm)
        BY <1>1, <2>3, <2>8, <4>2
      <4>5. Update(first, middle, f) = C(Bin(f, kept, R), D, cur, New, Bytes(a, dd), Bytes(BinAt, s))
        <5>1. PICK x \in Int, y \in Int : x = a /\ y = BinAt
          BY <4>3
        <5>2. Update(C(Bin(f, kept, R), D, cur, New, Bytes(x, f), Bytes(y, i)), Bytes(w, mm), f)
                = C(Bin(f, kept, R), D, cur, New, Bytes(x, f + mm), Bytes(y, i + mm))
          <6>1. w = x + f /\ w = y + i
            BY <4>3, <5>1
          <6>2. PICK o, g, bytes : o = Bytes(x, f) /\ g = Bytes(y, i) /\ bytes = Bytes(w, mm)
            OBVIOUS
          <6>3. PICK hh : hh = Bin(f, kept, R)
            OBVIOUS
          <6>4. Update(C(hh, D, cur, New, o, g), bytes, f) = C(hh, D, cur, New, Copy(o, f, bytes), g \o bytes)
            BY UpdateIs
          <6>5. Copy(Bytes(x, f), f, Bytes(x + f, mm)) = Bytes(x, f + mm)
            BY CopyExact
          <6>6. Bytes(y, i) \o Bytes(y + i, mm) = Bytes(y, i + mm)
            BY BytesJoin
          <6> QED BY <6>1, <6>2, <6>3, <6>4, <6>5, <6>6
        <5> QED BY <2>10, <4>3, <4>4, <5>1, <5>2
      <4> QED BY <1>1, <4>1, <4>5
    <3> QED BY <3>1, <3>2
  <2>12. PICK tail, last : tail = SubSeq(new, l - over + 1, l) /\ last = Copy(kept, 0, tail)
    OBVIOUS
  <2>13. Begins(last, BinAt + s, over)
    <3>1. PICK z \in Int, p \in Nat, w \in Int : z = a + k /\ p = l - over + 1 /\ w = BinAt + s
      BY <1>0, <1>8, <2>5a
    <3>2. p >= 1 /\ p <= l + 1 /\ l <= l /\ w = z + p - 1 /\ over = l - p + 1
      BY <1>0, <1>1, <1>8, <2>1, <2>5a, <2>6, <2>10, <3>1
    <3>3. Slice(Bytes(z, l), p, l) = Bytes(w, over)
      BY <2>5a, <3>2, BytesSlice
    <3>4. tail = Bytes(BinAt + s, over)
      BY <1>3, <2>12, <3>1, <3>3 DEF Slice
    <3>5. PICK v \in Nat, i \in Nat : v = BinAt + s /\ i = 0 /\ v + i = v /\ i + over = over
      BY <1>0, <2>5a
    <3>6. Begins(kept, v, i)
      <4>1. kept \in Seq(Int)
        BY <1>10 DEF Begins
      <4>2. SubSeq(kept, 1, i) = <<>> /\ Len(kept) >= i
        BY <3>5, <4>1
      <4>3. Bytes(v, i) = <<>>
        BY <3>5, BytesAre
      <4> QED BY <4>1, <4>2, <4>3 DEF Begins
    <3>7. Begins(Copy(kept, i, Bytes(v + i, over)), v, i + over)
      BY <2>5a, <3>6, CopyBegins
    <3> QED BY <2>12, <3>4, <3>5, <3>7
  <2>14. PICK e : e = Last(c)
    OBVIOUS
  <2>15. e = C(Bin(over, last, R), D, cur, New, Bytes(BinAt + b, dd), Bytes(BinAt, s))
    <3>1. PICK o, g : o = Bytes(BinAt + b, dd) /\ g = Bytes(BinAt, s)
      OBVIOUS
    <3>2. Second(c) = C(Bin(f, kept, R), D, cur, New, o, g)
      BY <2>9, <2>11, <3>1
    <3>3. last = Copy(kept, 0, SubSeq(Rest(c), Len(Rest(c)) - over + 1, Len(Rest(c))))
      BY <1>4, <2>12
    <3>4. over = Over(c)
      BY <2>4
    <3>5. e = C(Bin(over, last, R), D, cur, New, o, g)
      BY <2>14, <3>2, <3>3, <3>4, LastIs
    <3> QED BY <3>1, <3>5
  <2>16. ProcessMiddle(c) = Return(e, More)
    BY <1>6, <1>9, <1>11, <1>13, <2>14, ProcessMiddleIs
  <2>17. ProcessMiddle(c) = C(Bin(over, last, R), D, cur, More, Bytes(BinAt + b, dd), Bytes(BinAt, s))
    BY <2>15, <2>16, ReturnIs
  <2>18. R = s + over /\ t + n = BinAt + R
    BY <1>0, <1>8, <2>1, <2>5a, <2>6, <2>10
  <2>19. Done(C(Bin(over, last, R), D, cur, More, Bytes(BinAt + b, dd), Bytes(BinAt, s)), t + n, b)
    <3>1. s = b + dd /\ over \in Nat /\ over < BLOCK
      BY <2>5a, <2>10
    <3> QED BY <2>10a, <2>13, <2>18, <3>1, BinWaits
  <2> QED BY <2>17, <2>19
<1> QED BY <1>12, <1>13

\* The steps of process_bin with the last chunk.
LastCopied(c) == Smaller(BLOCK - c.h.cached, Len(Rest(c)))
LastFilled(c) == Copy(c.h.cache, c.h.cached, SubSeq(Rest(c), 1, LastCopied(c)))
LastFirst(c) == Update(c, SubSeq(LastFilled(c), 1, c.h.cached + LastCopied(c)), 0)
LastSecond(c) == IF Len(Rest(c)) = LastCopied(c) THEN LastFirst(c)
                 ELSE Update(LastFirst(c), SubSeq(Rest(c), LastCopied(c) + 1, Len(Rest(c))), BLOCK)

\* process_bin with the last chunk, in its steps.
LEMMA ProcessLastIs ==
  ASSUME NEW c, NEW k, NEW kept, NEW R, NEW data, NEW cur, NEW r, NEW o, NEW g,
         LastSecond(c) = C(Bin(k, kept, R), data, cur, r, o, g),
         NEW filled, filled = LastFilled(c)
  PROVE  ProcessLast(c) = C(Bin(0, filled, R), data, cur, Ok, o, g)
<1>1. PICK d, z : d = LastSecond(c) /\ z = 0
  OBVIOUS
<1>2. PICK e : e = [d EXCEPT !.h.cached = z]
  OBVIOUS
<1>3. e = C(Bin(z, kept, R), data, cur, r, o, g)
  BY <1>1, <1>2, BinCached
<1>4. PICK f : f = [e EXCEPT !.h.cache = filled]
  OBVIOUS
<1>5. f = C(Bin(z, filled, R), data, cur, r, o, g)
  BY <1>3, <1>4, BinCache
<1>6. [d EXCEPT !.h.cached = z, !.h.cache = filled] = f
  BY <1>2, <1>4
<1>7. ProcessLast(c) = Return([LastSecond(c) EXCEPT !.h.cached = 0, !.h.cache = LastFilled(c)], Ok)
  BY DEF ProcessLast, LastSecond, LastFirst, LastFilled, LastCopied, Ok
<1>8. ProcessLast(c) = Return(f, Ok)
  BY <1>1, <1>6, <1>7
<1> QED BY <1>1, <1>5, <1>8, ReturnIs

\* The chunk in which the binary ends.
LEMMA EndOfBinary ==
  ASSUME EncryptedImgAssumption, NEW t \in Nat, NEW n \in Nat, NEW cur \in Nat, cur <= n, NEW l \in Nat, l = n - cur,
         NEW b \in Nat, NEW k \in Nat, t + cur = BinAt + b + k, k < BLOCK, IsBlocks(b),
         NEW cache, Begins(cache, BinAt + b, k), Good, NEW R \in Nat, R = b + k + l, NEW size, size = image.len, ~(R # size),
         NEW c, c = C(Bin(k, cache, R), Bytes(t, n), cur, New, <<>>, Bytes(BinAt, b))
  PROVE  Done(ProcessLast(c), t + n, b)
<1>0. BLOCK \in Nat /\ BLOCK > 0 /\ BinAt \in Nat
  BY Places
<1>1. PICK a \in Nat : a = BinAt + b
  BY <1>0
<1>2. PICK D : D = Bytes(t, n)
  OBVIOUS
<1>3. PICK new : new = Bytes(a + k, l)
  OBVIOUS
<1>4. Rest(c) = new /\ Len(new) = l
  <2>1. Rest(c) = Bytes(t + cur, n - cur)
    <3>1. PICK o, g : o = <<>> /\ g = Bytes(BinAt, b)
      OBVIOUS
    <3>2. c = C(Bin(k, cache, R), Bytes(t, n), cur, New, o, g)
      BY <3>1
    <3> QED BY <3>2, RestIs
  <2>2. t + cur = a + k
    BY <1>1
  <2>3. Len(Bytes(a + k, l)) = l
    <3>1. a + k \in Int
      OBVIOUS
    <3> QED BY <3>1, BytesAre
  <2> QED BY <1>3, <2>1, <2>2, <2>3
<1>5. PICK h : h = Bin(k, cache, R)
  OBVIOUS
<1>6. c.h = h /\ h.cached = k /\ h.cache = cache
  <2>1. c.h = h
    BY <1>5, CallFields
  <2> QED BY <1>5, <2>1, BinFields
<1>7. PICK m : m = LastCopied(c) /\ m = Smaller(BLOCK - k, l)
  BY <1>4, <1>6 DEF LastCopied
<1>8. m \in Nat /\ m <= l /\ k + m <= BLOCK /\ (l # m => k + m = BLOCK)
  BY <1>0, <1>7 DEF Smaller
<1>9. PICK filled : filled = LastFilled(c)
  OBVIOUS
<1>10. Begins(filled, a, k + m)
  <2>1. filled = Copy(cache, k, SubSeq(new, 1, m))
    BY <1>4, <1>6, <1>7, <1>9 DEF LastFilled
  <2> QED BY <1>1, <1>3, <1>8, <2>1, FilledIs
<1>11. PICK i \in Nat, f \in Nat : f = k + m /\ i = b + f
  BY <1>8
<1>12. PICK first : first = LastFirst(c)
  OBVIOUS
<1>13. first = C(Bin(k, cache, R), D, cur, New, Bytes(a, f), Bytes(BinAt, i))
  <2>1. PICK z, o, g, bytes : z = 0 /\ o = <<>> /\ g = Bytes(BinAt, b) /\ bytes = Bytes(a, f)
    OBVIOUS
  <2>2. first = Update(c, bytes, z)
    <3>1. SubSeq(filled, 1, f) = bytes
      BY <1>10, <1>11, <2>1 DEF Begins
    <3> QED BY <1>6, <1>7, <1>9, <1>11, <1>12, <2>1, <3>1 DEF LastFirst
  <2>3. c = C(h, D, cur, New, o, g)
    BY <1>2, <1>5, <2>1
  <2>4. Update(C(h, D, cur, New, o, g), bytes, z) = C(h, D, cur, New, Copy(o, z, bytes), g \o bytes)
    BY UpdateIs
  <2>5. Copy(o, z, bytes) = Bytes(a, f)
    <3>1. PICK j \in Nat : j = 0
      OBVIOUS
    <3>2. Copy(Bytes(a, j), j, Bytes(a + j, f)) = Bytes(a, j + f)
      <4>1. a \in Int
        OBVIOUS
      <4> QED BY <4>1, CopyExact
    <3>3. Bytes(a, j) = <<>> /\ a + j = a /\ j + f = f
      BY <3>1, BytesAre
    <3> QED BY <2>1, <3>1, <3>2, <3>3
  <2>6. g \o bytes = Bytes(BinAt, i)
    <3>1. PICK w \in Int : w = BinAt
      BY <1>0
    <3>2. Bytes(w, b) \o Bytes(w + b, f) = Bytes(w, b + f)
      BY BytesJoin
    <3> QED BY <1>1, <1>11, <2>1, <3>1, <3>2
  <2> QED BY <1>5, <2>2, <2>3, <2>4, <2>5, <2>6
<1>14. PICK d \in Nat, s \in Nat : d = k + l /\ s = b + d
  OBVIOUS
<1>15. PICK second : second = LastSecond(c)
  OBVIOUS
<1>16. second = C(Bin(k, cache, R), D, cur, New, Bytes(a, d), Bytes(BinAt, s))
  <2>1. CASE l = m
    <3>1. f = d /\ i = s
      BY <1>11, <1>14, <2>1
    <3> QED BY <1>4, <1>7, <1>12, <1>13, <1>15, <2>1, <3>1 DEF LastSecond
  <2>2. CASE l # m
    <3>1. f = BLOCK
      BY <1>8, <1>11, <2>2
    <3>2. PICK tail : tail = SubSeq(new, m + 1, l)
      OBVIOUS
    <3>3. second = Update(first, tail, f)
      BY <1>4, <1>7, <1>12, <1>15, <2>2, <3>1, <3>2 DEF LastSecond
    <3>4. PICK mm \in Nat : mm = l - m
      BY <1>8
    <3>5. tail = Bytes(a + f, mm)
      <4>1. PICK z \in Int, p \in Nat, w \in Int : z = a + k /\ p = m + 1 /\ w = a + f
        BY <1>8
      <4>2. p >= 1 /\ p <= l + 1 /\ l <= l /\ w = z + p - 1 /\ mm = l - p + 1
        BY <1>8, <1>11, <3>4, <4>1
      <4>3. Slice(Bytes(z, l), p, l) = Bytes(w, mm)
        BY <4>2, BytesSlice
      <4> QED BY <1>3, <3>2, <4>1, <4>3 DEF Slice
    <3>6. PICK o, g : o = Bytes(a, f) /\ g = Bytes(BinAt, i)
      OBVIOUS
    <3>7. first = C(h, D, cur, New, o, g)
      BY <1>5, <1>13, <3>6
    <3>8. Update(C(h, D, cur, New, o, g), tail, f) = C(h, D, cur, New, Copy(o, f, tail), g \o tail)
      BY UpdateIs
    <3>9. Copy(o, f, tail) = Bytes(a, d)
      <4>1. Copy(Bytes(a, f), f, Bytes(a + f, mm)) = Bytes(a, f + mm)
        <5>1. a \in Int
          OBVIOUS
        <5> QED BY <5>1, CopyExact
      <4>2. f + mm = d
        BY <1>8, <1>11, <1>14, <3>4
      <4> QED BY <3>5, <3>6, <4>1, <4>2
    <3>10. g \o tail = Bytes(BinAt, s)
      <4>1. PICK w \in Int : w = BinAt
        BY <1>0
      <4>2. Bytes(w, i) \o Bytes(w + i, mm) = Bytes(w, i + mm)
        BY BytesJoin
      <4>3. i + mm = s /\ w + i = a + f
        BY <1>0, <1>1, <1>8, <1>11, <1>14, <3>4, <4>1
      <4> QED BY <3>5, <3>6, <4>1, <4>2, <4>3
    <3> QED BY <1>5, <3>3, <3>7, <3>8, <3>9, <3>10
  <2> QED BY <2>1, <2>2
<1>17. ProcessLast(c) = C(Bin(0, filled, R), D, cur, Ok, Bytes(a, d), Bytes(BinAt, s))
  <2>1. PICK o, g : o = Bytes(a, d) /\ g = Bytes(BinAt, s)
    OBVIOUS
  <2>2. LastSecond(c) = C(Bin(k, cache, R), D, cur, New, o, g)
    BY <1>15, <1>16, <2>1
  <2>3. ProcessLast(c) = C(Bin(0, filled, R), D, cur, Ok, o, g)
    BY <1>9, <2>2, ProcessLastIs
  <2> QED BY <2>1, <2>3
<1>18. Ended(Bin(0, filled, R), t + n, s)
  <2>1. s = image.len /\ t + n = BinAt + image.len
    BY <1>0, <1>14
  <2>2. filled \in Seq(Int)
    BY <1>10 DEF Begins
  <2> QED BY <2>1, <2>2 DEF Ended, Bin
<1>19. Done(C(Bin(0, filled, R), D, cur, Ok, Bytes(BinAt + b, d), Bytes(BinAt, b + d)), t + n, b)
  BY <1>14, <1>18 DEF Done
<1> QED BY <1>1, <1>14, <1>17, <1>19

\* process_bin, either way.
LEMMA DecodeStage ==
  ASSUME EncryptedImgAssumption, NEW t \in Nat, NEW n \in Nat, NEW b, NEW c, InDecode(c, t, n, b)
  PROVE  Done(ProcessBin(c), t + n, b)
<1>1. PICK h, cur : Underway(c, h, t, n, cur, b) /\ AtDecode(h, t + cur, b)
  BY DEF InDecode
<1>2. /\ cur \in Nat /\ cur <= n
      /\ c = C(h, Bytes(t, n), cur, New, <<>>, Bytes(BinAt, b))
      /\ c.h = h /\ Len(c.data) = n /\ c.cur = cur
  BY <1>1, UnderwayIs
<1>3. PICK k \in Nat : \E cache :
         /\ b \in Nat /\ t + cur = BinAt + b + k /\ k < BLOCK /\ b % BLOCK = 0 /\ Begins(cache, BinAt + b, k) /\ Good
         /\ h = H(Decode, k, cache, b + k, image.len, Iv, Auth, Given)
  BY <1>1 DEF AtDecode
<1>4. PICK cache :
         /\ b \in Nat /\ t + cur = BinAt + b + k /\ k < BLOCK /\ IsBlocks(b) /\ Begins(cache, BinAt + b, k) /\ Good
         /\ h = Bin(k, cache, b + k)
  BY <1>3 DEF IsBlocks, Bin
<1>5. PICK l \in Nat : l = n - cur
  BY <1>2
<1>6. PICK R \in Nat : R = b + k + l
  BY <1>4
<1>7. PICK d : d = [c EXCEPT !.h.read = R]
  OBVIOUS
<1>8. d = C(Bin(k, cache, R), Bytes(t, n), cur, New, <<>>, Bytes(BinAt, b))
  <2>1. PICK x, v, w, o, g, D : x = image.len /\ v = Iv /\ w = Auth /\ o = <<>> /\ g = Bytes(BinAt, b) /\ D = Bytes(t, n)
    OBVIOUS
  <2>2. c = C(H(Decode, k, cache, b + k, x, v, w, Given), D, cur, New, o, g)
    BY <1>2, <1>4, <2>1 DEF Bin
  <2>3. d = C(H(Decode, k, cache, R, x, v, w, Given), D, cur, New, o, g)
    BY <1>7, <2>2, ReadIs
  <2> QED BY <2>1, <2>3 DEF Bin
<1>9. d.h.read = R /\ d.h.len = image.len
  <2>1. d.h = Bin(k, cache, R)
    BY <1>8, CallFields
  <2> QED BY <2>1, BinFields
<1>10. ProcessBin(c) = IF R # image.len THEN ProcessMiddle(d) ELSE ProcessLast(d)
  <2>1. c.h.read = b + k
    BY <1>2, <1>4, BinFields
  <2>2. (b + k) + n - cur = R
    BY <1>2, <1>4, <1>5, <1>6
  <2>3. [c EXCEPT !.h.read = @ + Len(c.data) - c.cur] = d
    BY <1>2, <1>7, <2>1, <2>2
  <2> QED BY <1>9, <2>3 DEF ProcessBin
<1>11. CASE R # image.len
  BY <1>2, <1>4, <1>5, <1>6, <1>8, <1>10, <1>11, MiddleOfBinary
<1>12. CASE R = image.len
  <2>1. PICK size : size = image.len /\ ~(R # size)
    BY <1>12
  <2>2. Done(ProcessLast(d), t + n, b)
    BY <1>2, <1>4, <1>5, <1>6, <1>8, <2>1, EndOfBinary
  <2> QED BY <1>10, <1>12, <2>2
<1> QED BY <1>11, <1>12

-----------------------------------------------------------------------------
(* The switch, falling through.                                            *)

\* The names of states and results differ.
LEMMA NamesDiffer ==
  /\ Magic \notin {GcmKey, Vector, Size, Tag, Extra, Decode} /\ GcmKey \notin {Vector, Size, Tag, Extra, Decode}
  /\ Vector \notin {Size, Tag, Extra, Decode} /\ Size \notin {Tag, Extra, Decode} /\ Tag \notin {Extra, Decode}
  /\ Extra # Decode /\ New \notin {More, Bad, Ok} /\ More \notin {Bad, Ok} /\ Bad # Ok
BY DEF Magic, GcmKey, Vector, Size, Tag, Extra, Decode, New, More, Bad, Ok

\* The handle's state is that of its description.
LEMMA HandleStates ==
  ASSUME NEW h, NEW p, NEW b
  PROVE  /\ AtMagic(h, p) => h.state = Magic
         /\ AtGcm(h, p) => h.state = GcmKey
         /\ AtIv(h, p) => h.state = Vector
         /\ AtBinSize(h, p) => h.state = Size
         /\ AtAuth(h, p) => h.state = Tag
         /\ AtExtra(h, p) => h.state = Extra
         /\ AtDecode(h, p, b) => h.state = Decode
<1>1. AtMagic(h, p) => h.state = Magic
  BY HandleFields DEF AtMagic
<1>2. AtGcm(h, p) => h.state = GcmKey
  BY HandleFields DEF AtGcm
<1>3. AtIv(h, p) => h.state = Vector
  BY HandleFields DEF AtIv
<1>4. AtBinSize(h, p) => h.state = Size
  BY HandleFields DEF AtBinSize
<1>5. AtAuth(h, p) => h.state = Tag
  BY HandleFields DEF AtAuth
<1>6. AtExtra(h, p) => h.state = Extra
  BY HandleFields DEF AtExtra
<1>7. AtDecode(h, p, b) => h.state = Decode
  BY HandleFields DEF AtDecode
<1> QED BY <1>1, <1>2, <1>3, <1>4, <1>5, <1>6, <1>7

\* So is that of a call.
LEMMA CallStates ==
  ASSUME NEW c, NEW t \in Nat, NEW n \in Nat, NEW b, NEW q
  PROVE  /\ InMagic(c, t, n, b) => c.ret = New /\ c.h.state = Magic
         /\ InGcm(c, t, n, b) => c.ret = New /\ c.h.state = GcmKey
         /\ InIv(c, t, n, b) => c.ret = New /\ c.h.state = Vector
         /\ InBinSize(c, t, n, b) => c.ret = New /\ c.h.state = Size
         /\ InAuth(c, t, n, b) => c.ret = New /\ c.h.state = Tag
         /\ InExtra(c, t, n, b) => c.ret = New /\ c.h.state = Extra
         /\ InDecode(c, t, n, b) => c.ret = New /\ c.h.state = Decode
         /\ Done(c, q, b) => c.ret # New
<1>0. ASSUME NEW h, NEW cur, Underway(c, h, t, n, cur, b)
      PROVE  c.ret = New /\ c.h = h
  BY <1>0, CallFields DEF Underway
<1>1. InMagic(c, t, n, b) => c.ret = New /\ c.h.state = Magic
  BY <1>0, HandleStates DEF InMagic
<1>2. InGcm(c, t, n, b) => c.ret = New /\ c.h.state = GcmKey
  BY <1>0, HandleStates DEF InGcm
<1>3. InIv(c, t, n, b) => c.ret = New /\ c.h.state = Vector
  BY <1>0, HandleStates DEF InIv
<1>4. InBinSize(c, t, n, b) => c.ret = New /\ c.h.state = Size
  BY <1>0, HandleStates DEF InBinSize
<1>5. InAuth(c, t, n, b) => c.ret = New /\ c.h.state = Tag
  BY <1>0, HandleStates DEF InAuth
<1>6. InExtra(c, t, n, b) => c.ret = New /\ c.h.state = Extra
  BY <1>0, HandleStates DEF InExtra
<1>7. InDecode(c, t, n, b) => c.ret = New /\ c.h.state = Decode
  BY <1>0, HandleStates DEF InDecode
<1>8. Done(c, q, b) => c.ret # New
  BY CallFields, NamesDiffer DEF Done
<1> QED BY <1>1, <1>2, <1>3, <1>4, <1>5, <1>6, <1>7, <1>8

\* Where a call may be when the switch comes to each of its cases.
Before7(c, t, n, b) == InDecode(c, t, n, b) \/ Done(c, t + n, b)
Before6(c, t, n, b) == InExtra(c, t, n, b) \/ Before7(c, t, n, b)
Before5(c, t, n, b) == InAuth(c, t, n, b) \/ Before6(c, t, n, b)
Before4(c, t, n, b) == InBinSize(c, t, n, b) \/ Before5(c, t, n, b)
Before3(c, t, n, b) == InIv(c, t, n, b) \/ Before4(c, t, n, b)
Before2(c, t, n, b) == InGcm(c, t, n, b) \/ Before3(c, t, n, b)
Before1(c, t, n, b) == InMagic(c, t, n, b) \/ Before2(c, t, n, b)

\* Each case of the switch leaves what the next one expects: the magic,
LEMMA Case1 ==
  ASSUME EncryptedImgAssumption, NEW t \in Nat, NEW n \in Nat, NEW b, NEW c, Before1(c, t, n, b)
  PROVE  Before2(Stage(c, Magic, ReadMagic(c)), t, n, b)
<1>1. CASE InMagic(c, t, n, b)
  <2>1. Stage(c, Magic, ReadMagic(c)) = ReadMagic(c)
    <3>1. c.ret = New /\ c.h.state = Magic
      BY <1>1, CallStates
    <3> QED BY <3>1 DEF Stage, New
  <2>2. b = 0
    BY <1>1 DEF InMagic
  <2>3. InGcm(ReadMagic(c), t, n, 0) \/ Done(ReadMagic(c), t + n, 0)
    BY <1>1, <2>2, MagicStage
  <2> QED BY <2>1, <2>2, <2>3 DEF Before2, Before3, Before4, Before5, Before6, Before7
<1>2. CASE Before2(c, t, n, b)
  <2>1. c.ret # New \/ c.h.state # Magic
    BY <1>2, CallStates, NamesDiffer DEF Before2, Before3, Before4, Before5, Before6, Before7
  <2>2. Stage(c, Magic, ReadMagic(c)) = c
    BY <2>1 DEF Stage, New
  <2> QED BY <1>2, <2>2
<1> QED BY <1>1, <1>2 DEF Before1

\* the key,
LEMMA Case2 ==
  ASSUME EncryptedImgAssumption, NEW t \in Nat, NEW n \in Nat, NEW b, NEW c, Before2(c, t, n, b)
  PROVE  Before3(Stage(c, GcmKey, ReadGcm(c)), t, n, b)
<1>1. CASE InGcm(c, t, n, b)
  <2>1. Stage(c, GcmKey, ReadGcm(c)) = ReadGcm(c)
    <3>1. c.ret = New /\ c.h.state = GcmKey
      BY <1>1, CallStates
    <3> QED BY <3>1 DEF Stage, New
  <2>2. b = 0
    BY <1>1 DEF InGcm
  <2>3. InIv(ReadGcm(c), t, n, 0) \/ Done(ReadGcm(c), t + n, 0)
    BY <1>1, <2>2, GcmStage
  <2> QED BY <2>1, <2>2, <2>3 DEF Before3, Before4, Before5, Before6, Before7
<1>2. CASE Before3(c, t, n, b)
  <2>1. c.ret # New \/ c.h.state # GcmKey
    BY <1>2, CallStates, NamesDiffer DEF Before3, Before4, Before5, Before6, Before7
  <2>2. Stage(c, GcmKey, ReadGcm(c)) = c
    BY <2>1 DEF Stage, New
  <2> QED BY <1>2, <2>2
<1> QED BY <1>1, <1>2 DEF Before2

\* the vector,
LEMMA Case3 ==
  ASSUME EncryptedImgAssumption, NEW t \in Nat, NEW n \in Nat, NEW b, NEW c, Before3(c, t, n, b)
  PROVE  Before4(Stage(c, Vector, ReadIv(c)), t, n, b)
<1>1. CASE InIv(c, t, n, b)
  <2>1. Stage(c, Vector, ReadIv(c)) = ReadIv(c)
    <3>1. c.ret = New /\ c.h.state = Vector
      BY <1>1, CallStates
    <3> QED BY <3>1 DEF Stage, New
  <2>2. b = 0
    BY <1>1 DEF InIv
  <2>3. InBinSize(ReadIv(c), t, n, 0) \/ Done(ReadIv(c), t + n, 0)
    BY <1>1, <2>2, IvStage
  <2> QED BY <2>1, <2>2, <2>3 DEF Before4, Before5, Before6, Before7
<1>2. CASE Before4(c, t, n, b)
  <2>1. c.ret # New \/ c.h.state # Vector
    BY <1>2, CallStates, NamesDiffer DEF Before4, Before5, Before6, Before7
  <2>2. Stage(c, Vector, ReadIv(c)) = c
    BY <2>1 DEF Stage, New
  <2> QED BY <1>2, <2>2
<1> QED BY <1>1, <1>2 DEF Before3

\* the length,
LEMMA Case4 ==
  ASSUME EncryptedImgAssumption, NEW t \in Nat, NEW n \in Nat, NEW b, NEW c, Before4(c, t, n, b)
  PROVE  Before5(Stage(c, Size, ReadBinSize(c)), t, n, b)
<1>1. CASE InBinSize(c, t, n, b)
  <2>1. Stage(c, Size, ReadBinSize(c)) = ReadBinSize(c)
    <3>1. c.ret = New /\ c.h.state = Size
      BY <1>1, CallStates
    <3> QED BY <3>1 DEF Stage, New
  <2>2. b = 0
    BY <1>1 DEF InBinSize
  <2>3. InAuth(ReadBinSize(c), t, n, 0) \/ Done(ReadBinSize(c), t + n, 0)
    BY <1>1, <2>2, BinSizeStage
  <2> QED BY <2>1, <2>2, <2>3 DEF Before5, Before6, Before7
<1>2. CASE Before5(c, t, n, b)
  <2>1. c.ret # New \/ c.h.state # Size
    BY <1>2, CallStates, NamesDiffer DEF Before5, Before6, Before7
  <2>2. Stage(c, Size, ReadBinSize(c)) = c
    BY <2>1 DEF Stage, New
  <2> QED BY <1>2, <2>2
<1> QED BY <1>1, <1>2 DEF Before4

\* the tag,
LEMMA Case5 ==
  ASSUME EncryptedImgAssumption, NEW t \in Nat, NEW n \in Nat, NEW b, NEW c, Before5(c, t, n, b)
  PROVE  Before6(Stage(c, Tag, ReadAuth(c)), t, n, b)
<1>1. CASE InAuth(c, t, n, b)
  <2>1. Stage(c, Tag, ReadAuth(c)) = ReadAuth(c)
    <3>1. c.ret = New /\ c.h.state = Tag
      BY <1>1, CallStates
    <3> QED BY <3>1 DEF Stage, New
  <2>2. b = 0
    BY <1>1 DEF InAuth
  <2>3. InExtra(ReadAuth(c), t, n, 0) \/ Done(ReadAuth(c), t + n, 0)
    BY <1>1, <2>2, AuthStage
  <2> QED BY <2>1, <2>2, <2>3 DEF Before6, Before7
<1>2. CASE Before6(c, t, n, b)
  <2>1. c.ret # New \/ c.h.state # Tag
    BY <1>2, CallStates, NamesDiffer DEF Before6, Before7
  <2>2. Stage(c, Tag, ReadAuth(c)) = c
    BY <2>1 DEF Stage, New
  <2> QED BY <1>2, <2>2
<1> QED BY <1>1, <1>2 DEF Before5

\* the reserved bytes,
LEMMA Case6 ==
  ASSUME EncryptedImgAssumption, NEW t \in Nat, NEW n \in Nat, NEW b, NEW c, Before6(c, t, n, b)
  PROVE  Before7(Stage(c, Extra, ReadExtraHeader(c)), t, n, b)
<1>1. CASE InExtra(c, t, n, b)
  <2>1. Stage(c, Extra, ReadExtraHeader(c)) = ReadExtraHeader(c)
    <3>1. c.ret = New /\ c.h.state = Extra
      BY <1>1, CallStates
    <3> QED BY <3>1 DEF Stage, New
  <2>2. b = 0
    BY <1>1 DEF InExtra
  <2>3. InDecode(ReadExtraHeader(c), t, n, 0) \/ Done(ReadExtraHeader(c), t + n, 0)
    BY <1>1, <2>2, ExtraStage
  <2> QED BY <2>1, <2>2, <2>3 DEF Before7
<1>2. CASE Before7(c, t, n, b)
  <2>1. c.ret # New \/ c.h.state # Extra
    BY <1>2, CallStates, NamesDiffer DEF Before7
  <2>2. Stage(c, Extra, ReadExtraHeader(c)) = c
    BY <2>1 DEF Stage, New
  <2> QED BY <1>2, <2>2
<1> QED BY <1>1, <1>2 DEF Before6

\* the binary.
LEMMA Case7 ==
  ASSUME EncryptedImgAssumption, NEW t \in Nat, NEW n \in Nat, NEW b, NEW c, Before7(c, t, n, b)
  PROVE  Done(Stage(c, Decode, ProcessBin(c)), t + n, b)
<1>1. CASE InDecode(c, t, n, b)
  <2>1. Stage(c, Decode, ProcessBin(c)) = ProcessBin(c)
    <3>1. c.ret = New /\ c.h.state = Decode
      BY <1>1, CallStates
    <3> QED BY <3>1 DEF Stage, New
  <2> QED BY <1>1, <2>1, DecodeStage
<1>2. CASE Done(c, t + n, b)
  <2>1. c.ret # New \/ c.h.state # Decode
    BY <1>2, CallStates, NamesDiffer
  <2>2. Stage(c, Decode, ProcessBin(c)) = c
    BY <2>1 DEF Stage, New
  <2> QED BY <1>2, <2>2
<1> QED BY <1>1, <1>2 DEF Before7

\* A whole call: it ends with the image's next n bytes in the handle or with the caller.
LEMMA DecryptedIs ==
  ASSUME EncryptedImgAssumption, NEW t \in Nat, NEW n \in Nat, NEW b, NEW h,
         (AtHeader(h, t) /\ b = 0) \/ AtDecode(h, t, b)
  PROVE  Done(Decrypted(C(h, Bytes(t, n), 0, New, <<>>, Bytes(BinAt, b))), t + n, b)
<1>1. PICK cur \in Nat : cur = 0
  OBVIOUS
<1>2. PICK c : c = C(h, Bytes(t, n), cur, New, <<>>, Bytes(BinAt, b))
  OBVIOUS
<1>3. Underway(c, h, t, n, cur, b) /\ t + cur = t
  BY <1>1, <1>2 DEF Underway
<1>4. Before1(c, t, n, b)
  BY <1>3 DEF AtHeader, Before1, Before2, Before3, Before4, Before5, Before6, Before7,
              InMagic, InGcm, InIv, InBinSize, InAuth, InExtra, InDecode
<1>5. PICK c1 : c1 = Stage(c, Magic, ReadMagic(c))
  OBVIOUS
<1>6. Before2(c1, t, n, b)
  BY <1>4, <1>5, Case1
<1>7. PICK c2 : c2 = Stage(c1, GcmKey, ReadGcm(c1))
  OBVIOUS
<1>8. Before3(c2, t, n, b)
  BY <1>6, <1>7, Case2
<1>9. PICK c3 : c3 = Stage(c2, Vector, ReadIv(c2))
  OBVIOUS
<1>10. Before4(c3, t, n, b)
  BY <1>8, <1>9, Case3
<1>11. PICK c4 : c4 = Stage(c3, Size, ReadBinSize(c3))
  OBVIOUS
<1>12. Before5(c4, t, n, b)
  BY <1>10, <1>11, Case4
<1>13. PICK c5 : c5 = Stage(c4, Tag, ReadAuth(c4))
  OBVIOUS
<1>14. Before6(c5, t, n, b)
  BY <1>12, <1>13, Case5
<1>15. PICK c6 : c6 = Stage(c5, Extra, ReadExtraHeader(c5))
  OBVIOUS
<1>16. Before7(c6, t, n, b)
  BY <1>14, <1>15, Case6
<1>17. PICK c7 : c7 = Stage(c6, Decode, ProcessBin(c6))
  OBVIOUS
<1>18. Done(c7, t + n, b)
  BY <1>16, <1>17, Case7
<1>19. Decrypted(c) = c7
  BY <1>5, <1>7, <1>9, <1>11, <1>13, <1>15, <1>17 DEF Decrypted, Magic, GcmKey, Vector, Size, Tag, Extra, Decode
<1> QED BY <1>1, <1>2, <1>18, <1>19

(***************************************************************************)
(* The inductive invariant                                                 *)
(***************************************************************************)

-----------------------------------------------------------------------------
(* The invariant and the theorem.                                          *)

\* What the caller has, b bytes of the binary, and what the handle keeps.
EncData ==
  \E b \in Nat :
     /\ out = Bytes(BinAt, b) /\ fed = Bytes(BinAt, b)
     /\ \/ ret = More /\ Waits(handle, taken, b)
        \/ ret = Bad /\ Failed(handle, b)
        \/ ret = Ok /\ Ended(handle, taken, b)
EncEnd ==
  end = "ok" /\ handle.state = "DECODE" =>
    handle.cached = 0 /\ handle.read = handle.len /\ TagMatches
EncType ==
  /\ taken \in Nat /\ image.len \in Nat
  /\ image.spoiled \in {"no", "magic", "key", "tag"}
EncInv == EncType /\ EncData /\ EncEnd

\* A new handle has taken nothing.
LEMMA EncInit == ASSUME EncryptedImgAssumption PROVE Init => EncInv
<1> SUFFICES ASSUME Init PROVE EncInv
  OBVIOUS
<1>1. EncType
  BY DEF Init, EncType, EncryptedImgAssumption
<1>2. EncEnd
  BY DEF Init, EncEnd
<1>3. PICK p \in Nat : p = 0
  OBVIOUS
<1>4. PICK s : s = <<>>
  OBVIOUS
<1>5. handle = H(Magic, p, s, p, 0, <<>>, <<>>, Held)
  BY <1>3, <1>4 DEF Init, NewHandle, H, Magic, Held
<1>6. Begins(s, 0, p)
  <2>1. PICK z \in Int : z = 0
    OBVIOUS
  <2>2. PICK u : u = Bytes(z, p)
    OBVIOUS
  <2>3. u \in Seq(Int) /\ Len(u) = 0 /\ u = s
    BY <1>3, <1>4, <2>2, BytesAre
  <2>4. SubSeq(u, 1, Len(u)) = <<>>
    BY <2>3, TailIs
  <2>5. Begins(u, z, p)
    BY <1>3, <1>4, <2>2, <2>3, <2>4 DEF Begins
  <2> QED BY <2>1, <2>3, <2>5
<1>7. AtMagic(handle, p)
  <2>1. p < MAGIC_SIZE
    BY <1>3, Places
  <2> QED BY <1>5, <1>6, <2>1 DEF AtMagic
<1>8. Waits(handle, taken, p)
  BY <1>3, <1>7 DEF Init, Waits, AtHeader
<1>9. Bytes(BinAt, p) = <<>>
  BY <1>3, EmptyFed
<1>10. EncData
  BY <1>8, <1>9 DEF Init, EncData, More
<1> QED BY <1>1, <1>2, <1>10 DEF EncInv

\* A chunk of any length keeps the invariant.
LEMMA DataKept ==
  ASSUME EncryptedImgAssumption, EncInv, NEW n \in Nat, DecryptData(n)
  PROVE  EncData'
<1>1. PICK b \in Nat :
         /\ out = Bytes(BinAt, b) /\ fed = Bytes(BinAt, b)
         /\ \/ ret = More /\ Waits(handle, taken, b)
            \/ ret = Bad /\ Failed(handle, b)
            \/ ret = Ok /\ Ended(handle, taken, b)
  BY DEF EncInv, EncData
<1>2. taken \in Nat /\ ret = More /\ image' = image /\ taken' = taken + n
  BY DEF EncInv, EncType, DecryptData, More
<1>3. Waits(handle, taken, b)
  BY <1>1, <1>2, NamesDiffer
<1>4. PICK t, f : t \in Nat /\ t = taken /\ f = fed
  BY <1>2
<1> t \in Nat
  BY <1>4
<1>5. PICK c : c = Decrypted(C(handle, Bytes(t, n), 0, New, <<>>, f))
  OBVIOUS
<1>6. handle' = c.h /\ ret' = c.ret /\ out' = out \o c.out /\ fed' = c.gcm
  BY <1>4, <1>5 DEF DecryptData, C, New
<1>7. Done(c, t + n, b)
  <2>1. (AtHeader(handle, t) /\ b = 0) \/ AtDecode(handle, t, b)
    BY <1>3, <1>4 DEF Waits
  <2> QED BY <1>1, <1>4, <1>5, <2>1, DecryptedIs
<1>8. PICK h, data, cur, r : \E d \in Nat :
         /\ c = C(h, data, cur, r, Bytes(BinAt + b, d), Bytes(BinAt, b + d))
         /\ \/ r = More /\ Waits(h, t + n, b + d)
            \/ r = Bad /\ Failed(h, b + d)
            \/ r = Ok /\ Ended(h, t + n, b + d)
  BY <1>7 DEF Done
<1>9. PICK d \in Nat :
         /\ c = C(h, data, cur, r, Bytes(BinAt + b, d), Bytes(BinAt, b + d))
         /\ \/ r = More /\ Waits(h, t + n, b + d)
            \/ r = Bad /\ Failed(h, b + d)
            \/ r = Ok /\ Ended(h, t + n, b + d)
  BY <1>8
<1>10. PICK s \in Nat : s = b + d
  OBVIOUS
<1>11. c.h = h /\ c.ret = r /\ c.out = Bytes(BinAt + b, d) /\ c.gcm = Bytes(BinAt, s)
  <2>1. PICK o, g : o = Bytes(BinAt + b, d) /\ g = Bytes(BinAt, s)
    OBVIOUS
  <2>2. c = C(h, data, cur, r, o, g)
    BY <1>9, <1>10, <2>1
  <2> QED BY <2>1, <2>2, CallFields
<1>12. out' = Bytes(BinAt, s)
  <2>1. PICK w \in Int : w = BinAt
    BY Places
  <2>2. Bytes(w, b) \o Bytes(w + b, d) = Bytes(w, b + d)
    BY BytesJoin
  <2> QED BY <1>1, <1>6, <1>10, <1>11, <2>1, <2>2
<1>13. handle' = h /\ ret' = r /\ fed' = Bytes(BinAt, s) /\ taken' = t + n
  BY <1>2, <1>4, <1>6, <1>11
<1>14. \/ ret' = More /\ Waits(handle', taken', s)
       \/ ret' = Bad /\ Failed(handle', s)
       \/ ret' = Ok /\ Ended(handle', taken', s)
  BY <1>9, <1>10, <1>13
<1>15. /\ Waits(handle', taken', s) => Waits(handle, taken, s)'
       /\ Failed(handle', s) => Failed(handle, s)'
       /\ Ended(handle', taken', s) => Ended(handle, taken, s)'
  BY <1>2 DEF Waits, Failed, Ended, AtHeader, AtMagic, AtGcm, AtIv, AtBinSize, AtAuth, AtExtra, AtDecode, Good
<1>16. More' = More /\ Bad' = Bad /\ Ok' = Ok /\ Bytes(BinAt, s)' = Bytes(BinAt, s)
  BY DEF More, Bad, Ok
<1> QED BY <1>12, <1>13, <1>14, <1>15, <1>16 DEF EncData

\* So does every other step.
LEMMA EncNext == ASSUME EncryptedImgAssumption PROVE EncInv /\ [Next]_vars => EncInv'
<1> SUFFICES ASSUME EncInv, [Next]_vars PROVE EncInv'
  OBVIOUS
<1>1. ASSUME NEW n \in 0 .. MaxChunk, DecryptData(n) PROVE EncInv'
  <2>1. n \in Nat
    BY DEF EncryptedImgAssumption
  <2>2. EncData'
    BY <1>1, <2>1, DataKept
  <2>3. EncType'
    <3>1. taken' = taken + n /\ image' = image
      BY <1>1 DEF DecryptData
    <3> QED BY <2>1, <3>1 DEF EncInv, EncType
  <2>4. EncEnd'
    BY <1>1 DEF EncEnd, DecryptData
  <2> QED BY <2>2, <2>3, <2>4 DEF EncInv
<1>2. ASSUME UNCHANGED <<image, taken, handle, out, fed, ret>> PROVE EncType' /\ EncData'
  <2>1. EncType'
    BY <1>2 DEF EncInv, EncType
  <2>2. EncData'
    BY <1>2 DEF EncInv, EncData, Waits, Failed, Ended, AtHeader, AtMagic, AtGcm, AtIv, AtBinSize, AtAuth,
             AtExtra, AtDecode, Good
  <2> QED BY <2>1, <2>2
<1>3. CASE DecryptEnd
  <2>1. EncEnd'
    <3>1. TagMatches => TagMatches'
      BY <1>3 DEF DecryptEnd, TagMatches, Binary
    <3> QED BY <1>3, <3>1 DEF DecryptEnd, EncEnd
  <2> QED BY <1>2, <1>3, <2>1 DEF DecryptEnd, EncInv
<1>4. CASE DecryptAbort
  <2>1. EncEnd'
    BY <1>4 DEF DecryptAbort, EncEnd
  <2> QED BY <1>2, <1>4, <2>1 DEF DecryptAbort, EncInv
<1>5. CASE UNCHANGED vars
  <2>1. EncEnd'
    BY <1>5 DEF vars, EncInv, EncEnd, TagMatches, Binary
  <2> QED BY <1>2, <1>5, <2>1 DEF vars, EncInv
<1> QED BY <1>1, <1>3, <1>4, <1>5 DEF Next

\* In the binary, what the caller has and what is kept are what arrived.
LEMMA InvCuts == ASSUME EncryptedImgAssumption, EncInv PROVE CutsDoNotMatter
<1>0. BinAt \in Nat /\ BinAt \in Int /\ BLOCK \in Nat /\ BLOCK > 0
  BY Places
<1>1. PICK b \in Nat :
         /\ out = Bytes(BinAt, b) /\ fed = Bytes(BinAt, b)
         /\ \/ ret = More /\ Waits(handle, taken, b)
            \/ ret = Bad /\ Failed(handle, b)
            \/ ret = Ok /\ Ended(handle, taken, b)
  BY DEF EncInv, EncData
<1>2. image.len \in Nat /\ taken \in Nat
  BY DEF EncInv, EncType
<1>3. Len(fed) = b
  BY <1>0, <1>1, BytesAre
<1>4. IsBlocks(0)
  BY OneBlock
<1>5. CASE ret = More /\ AtHeader(handle, taken) /\ b = 0
  <2>1. handle.state # Decode
    BY <1>5, HandleStates, NamesDiffer DEF AtHeader
  <2>2. taken < BinAt
    <3>0. /\ MAGIC_SIZE <= BinAt /\ KeyAt + ENC_GCM_KEY_SIZE <= BinAt /\ IvAt + IV_SIZE <= BinAt
          /\ LenAt + BIN_SIZE_DATA <= BinAt /\ AuthAt + AUTH_SIZE <= BinAt /\ ExtraAt + RESERVED_HEADER <= BinAt
          /\ MAGIC_SIZE \in Nat /\ ENC_GCM_KEY_SIZE \in Nat /\ IV_SIZE \in Nat /\ BIN_SIZE_DATA \in Nat
          /\ AUTH_SIZE \in Nat /\ RESERVED_HEADER \in Nat
          /\ KeyAt \in Nat /\ IvAt \in Nat /\ LenAt \in Nat /\ AuthAt \in Nat /\ ExtraAt \in Nat
      BY Places
    <3>1. AtMagic(handle, taken) => taken < BinAt
      <4>1. AtMagic(handle, taken) => taken < MAGIC_SIZE
        BY DEF AtMagic
      <4> QED BY <1>0, <1>2, <3>0, <4>1
    <3>2. AtGcm(handle, taken) => taken < BinAt
      <4>1. ASSUME AtGcm(handle, taken) PROVE \E k \in Nat : taken = KeyAt + k /\ k < ENC_GCM_KEY_SIZE
        BY <4>1 DEF AtGcm
      <4> QED BY <1>0, <1>2, <3>0, <4>1
    <3>3. AtIv(handle, taken) => taken < BinAt
      <4>1. ASSUME AtIv(handle, taken) PROVE \E k \in Nat : taken = IvAt + k /\ k < IV_SIZE
        BY <4>1 DEF AtIv
      <4> QED BY <1>0, <1>2, <3>0, <4>1
    <3>4. AtBinSize(handle, taken) => taken < BinAt
      <4>1. ASSUME AtBinSize(handle, taken) PROVE \E k \in Nat : taken = LenAt + k /\ k < BIN_SIZE_DATA
        BY <4>1 DEF AtBinSize
      <4> QED BY <1>0, <1>2, <3>0, <4>1
    <3>5. AtAuth(handle, taken) => taken < BinAt
      <4>1. ASSUME AtAuth(handle, taken) PROVE \E k \in Nat : taken = AuthAt + k /\ k < AUTH_SIZE
        BY <4>1 DEF AtAuth
      <4> QED BY <1>0, <1>2, <3>0, <4>1
    <3>6. AtExtra(handle, taken) => taken < BinAt
      <4>1. ASSUME AtExtra(handle, taken) PROVE \E k \in Nat : taken = ExtraAt + k /\ k < RESERVED_HEADER
        BY <4>1 DEF AtExtra
      <4> QED BY <1>0, <1>2, <3>0, <4>1
    <3> QED BY <1>5, <3>1, <3>2, <3>3, <3>4, <3>5, <3>6 DEF AtHeader
  <2>3. taken - BinAt # image.len
    BY <1>0, <1>2, <2>2
  <2>4. Len(fed) % BLOCK = 0
    BY <1>3, <1>4, <1>5 DEF IsBlocks
  <2> QED BY <1>1, <1>5, <2>1, <2>3, <2>4 DEF CutsDoNotMatter, Decode, More
<1>6. CASE ret = More /\ AtDecode(handle, taken, b) /\ handle.read # image.len
  <2>1. PICK k \in Nat : \E cache :
         /\ taken = BinAt + b + k /\ k < BLOCK /\ b % BLOCK = 0 /\ Begins(cache, BinAt + b, k)
         /\ handle = H(Decode, k, cache, b + k, image.len, Iv, Auth, Given)
    BY <1>6 DEF AtDecode
  <2>2. PICK cache :
         /\ taken = BinAt + b + k /\ IsBlocks(b) /\ Begins(cache, BinAt + b, k)
         /\ handle = Bin(k, cache, b + k)
    BY <2>1 DEF Bin, IsBlocks
  <2>3. handle.cached = k /\ handle.cache = cache /\ handle.len = image.len /\ handle.read = b + k
    BY <2>2, BinFields
  <2>4. handle.iv = Iv /\ handle.auth = Auth
    BY <2>2, HandleFields DEF Bin
  <2>5. out \o SubSeq(handle.cache, 1, handle.cached) = Bytes(BinAt, taken - BinAt)
    <3>1. SubSeq(cache, 1, k) = Bytes(BinAt + b, k)
      BY <2>2 DEF Begins
    <3>2. PICK w \in Int : w = BinAt
      BY <1>0
    <3>3. Bytes(w, b) \o Bytes(w + b, k) = Bytes(w, b + k)
      BY BytesJoin
    <3>4. taken - BinAt = b + k
      BY <1>0, <2>2
    <3> QED BY <1>1, <2>3, <3>1, <3>2, <3>3, <3>4
  <2>6. taken - BinAt # image.len
    BY <1>0, <1>2, <1>6, <2>2, <2>3
  <2>7. Len(fed) % BLOCK = 0
    BY <1>3, <2>2 DEF IsBlocks
  <2> QED BY <1>1, <1>6, <2>3, <2>4, <2>5, <2>6, <2>7 DEF CutsDoNotMatter, More, Iv, Auth
<1>7. CASE ret = Bad /\ Failed(handle, b)
  <2>1. handle.state # Decode
    BY <1>7, NamesDiffer DEF Failed
  <2>2. Len(fed) % BLOCK = 0 /\ image.spoiled \in {"magic", "key"}
    BY <1>3, <1>4, <1>7 DEF IsBlocks, Failed
  <2> QED BY <1>1, <1>7, <2>1, <2>2 DEF CutsDoNotMatter, Decode, Bad
<1>8. CASE ret = Ok /\ Ended(handle, taken, b)
  <2>1. PICK cache \in Seq(Int) : handle = Bin(0, cache, image.len)
    BY <1>8 DEF Ended, Bin
  <2>2. handle.cached = 0 /\ handle.cache = cache /\ handle.len = image.len
    BY <2>1, BinFields
  <2>3. handle.iv = Iv /\ handle.auth = Auth
    BY <2>1, HandleFields DEF Bin
  <2>4. b = image.len /\ taken - BinAt = b
    BY <1>0, <1>2, <1>8 DEF Ended
  <2>5. out \o SubSeq(handle.cache, 1, handle.cached) = Bytes(BinAt, taken - BinAt)
    <3>1. SubSeq(cache, 1, 0) = <<>>
      BY <2>1
    <3>2. out \in Seq(Int)
      BY <1>0, <1>1, BytesAre
    <3>3. out \o <<>> = out
      BY <3>2
    <3> QED BY <1>1, <2>2, <2>4, <3>1, <3>3
  <2> QED BY <1>1, <1>8, <2>2, <2>3, <2>4, <2>5 DEF CutsDoNotMatter, Ok, Iv, Auth, Binary
<1> QED BY <1>1, <1>5, <1>6, <1>7, <1>8 DEF Waits

\* The invariant gives the second property.
LEMMA InvEnd == ASSUME EncryptedImgAssumption, EncInv PROVE EndAcceptsOnlyWhole
<1> SUFFICES ASSUME end = "ok", handle.state = "DECODE"
             PROVE  out = Binary /\ taken = BinAt + image.len /\ image.spoiled = "no"
  BY DEF EndAcceptsOnlyWhole
<1>1. PICK b \in Nat :
         /\ out = Bytes(BinAt, b) /\ fed = Bytes(BinAt, b)
         /\ \/ ret = More /\ Waits(handle, taken, b)
            \/ ret = Bad /\ Failed(handle, b)
            \/ ret = Ok /\ Ended(handle, taken, b)
  BY DEF EncInv, EncData
<1>2. handle.state = Decode /\ handle.read = handle.len /\ image.spoiled # "tag"
  BY DEF EncInv, EncEnd, TagMatches, Decode
<1>3. ~AtHeader(handle, taken)
  BY <1>2, HandleStates, NamesDiffer DEF AtHeader
<1>4. ~Failed(handle, b)
  BY <1>2, NamesDiffer DEF Failed
<1>5. ~(AtDecode(handle, taken, b) /\ handle.read # image.len)
  <2>1. AtDecode(handle, taken, b) => handle.len = image.len
    BY HandleFields DEF AtDecode
  <2> QED BY <1>2, <2>1
<1>6. Ended(handle, taken, b)
  BY <1>1, <1>3, <1>4, <1>5 DEF Waits
<1>7. image.spoiled \in {"no", "magic", "key", "tag"}
  BY DEF EncInv, EncType
<1>8. image.spoiled \notin {"magic", "key"} /\ b = image.len /\ taken = BinAt + image.len
  BY <1>6 DEF Ended, Good
<1> QED BY <1>1, <1>2, <1>7, <1>8 DEF Binary

\* Wherever the image is cut into chunks, the caller gets the binary's bytes in
\* order and decrypt_end accepts, in the binary, only a whole and good image.
THEOREM EncSafe ==
  ASSUME EncryptedImgAssumption
  PROVE  Spec => [](CutsDoNotMatter /\ EndAcceptsOnlyWhole)
<1>1. Init => EncInv
  BY EncInit
<1>2. EncInv /\ [Next]_vars => EncInv'
  BY EncNext
<1>3. EncInv => CutsDoNotMatter /\ EndAcceptsOnlyWhole
  BY InvCuts, InvEnd
<1> QED BY <1>1, <1>2, <1>3, PTL DEF Spec

=============================================================================
