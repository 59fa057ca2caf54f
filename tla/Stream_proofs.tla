---------------------------- MODULE Stream_proofs ----------------------------
(***************************************************************************)
(* Proofs about the ring of both streams, and about the stream that sends: *)
(* for rings, writes and sends of any length.                              *)
(***************************************************************************)
EXTENDS StreamOutput, TLAPS


(* The parts of a stream. *)
LEMMA StreamParts ==
  ASSUME NEW s, IsStream(s)
  PROVE  /\ s.bufferlength \in Nat \ {0}
         /\ s.buffer \in [0 .. s.bufferlength - 1 -> Bytes]
         /\ s.head \in 0 .. s.bufferlength - 1
         /\ s.tail \in 0 .. s.bufferlength - 1
         /\ s = [bufferlength |-> s.bufferlength, buffer |-> s.buffer,
                 head |-> s.head, tail |-> s.tail]
BY DEF IsStream

LEMMA StreamOfParts ==
  ASSUME NEW n \in Nat \ {0}, NEW b \in [0 .. n - 1 -> Bytes],
         NEW h \in 0 .. n - 1, NEW t \in 0 .. n - 1
  PROVE  IsStream([bufferlength |-> n, buffer |-> b, head |-> h, tail |-> t])
BY DEF IsStream

(* The ring never holds as many bytes as its buffer has. *)
LEMMA LengthBound ==
  ASSUME NEW s, IsStream(s)
  PROVE  RealLength(s) \in 0 .. s.bufferlength - 1
BY StreamParts DEF RealLength

(* Where the i-th byte stands. *)
LEMMA ByteAtWrapped ==
  ASSUME NEW s, IsStream(s), NEW i \in 0 .. s.bufferlength
  PROVE  /\ ByteAt(s, i) = s.buffer[IF s.head + i < s.bufferlength THEN s.head + i
                                    ELSE s.head + i - s.bufferlength]
         /\ i < s.bufferlength => ByteAt(s, i) \in Bytes
<1>1. /\ s.bufferlength \in Nat \ {0}
      /\ s.buffer \in [0 .. s.bufferlength - 1 -> Bytes]
      /\ s.head \in 0 .. s.bufferlength - 1
  BY StreamParts
<1>0. PICK n \in Nat \ {0}, h \in Nat :
       /\ n = s.bufferlength
       /\ h = s.head
       /\ h < n
  BY <1>1
<1>2. (h + i) % n = IF h + i < n THEN h + i ELSE h + i - n
  BY <1>0
<1>3. ByteAt(s, i) = s.buffer[(h + i) % n]
  BY <1>0 DEF ByteAt
<1> DEFINE at == (h + i) % n
<1>4. i < n => at \in 0 .. n - 1
  BY <1>0, <1>2
<1>5. i < s.bufferlength => ByteAt(s, i) \in Bytes
  <2> HIDE DEF at
  <2> QED
    BY <1>0, <1>1, <1>3, <1>4 DEF at
<1> QED
  BY <1>0, <1>2, <1>3, <1>5

(* The content is a sequence of bytes. *)
LEMMA ContentIsSeq ==
  ASSUME NEW s, IsStream(s)
  PROVE  /\ Content(s) \in Seq(Bytes)
         /\ Len(Content(s)) = RealLength(s)
         /\ \A i \in 1 .. RealLength(s) : Content(s)[i] = ByteAt(s, i - 1)
<1>1. RealLength(s) \in 0 .. s.bufferlength - 1 /\ s.bufferlength \in Nat
  BY LengthBound, StreamParts
<1>2. \A i \in 1 .. RealLength(s) : ByteAt(s, i - 1) \in Bytes
  BY <1>1, ByteAtWrapped
<1> DEFINE n == RealLength(s)
           f == [i \in 1 .. n |-> ByteAt(s, i - 1)]
<1>3. Content(s) = f
  BY DEF Content
<1>4. f \in [1 .. n -> Bytes] /\ n \in Nat
  BY <1>1, <1>2
<1>5. f \in Seq(Bytes) /\ Len(f) = n
  BY <1>4
<1> QED
  BY <1>3, <1>5

(* Two sequences are equal that have the same length and elements. *)
LEMMA SameContent ==
  ASSUME NEW p \in Seq(Bytes), NEW q \in Seq(Bytes), Len(p) = Len(q),
         \A i \in 1 .. Len(p) : p[i] = q[i]
  PROVE  p = q
OBVIOUS

LEMMA JoinedParts ==
  ASSUME NEW p \in Seq(Bytes), NEW q \in Seq(Bytes)
  PROVE  /\ p \o q \in Seq(Bytes)
         /\ Len(p) \in Nat /\ Len(q) \in Nat
         /\ Len(p \o q) = Len(p) + Len(q)
         /\ \A i \in 1 .. Len(p) : (p \o q)[i] = p[i]
         /\ \A i \in 1 .. Len(q) : (p \o q)[Len(p) + i] = q[i]
OBVIOUS

(* An emptied ring holds nothing. *)
LEMMA ClearedIsEmpty ==
  ASSUME NEW s, IsStream(s)
  PROVE  /\ IsStream(Cleared(s))
         /\ RealLength(Cleared(s)) = 0
         /\ Content(Cleared(s)) = <<>>
<1>1. Cleared(s) = [bufferlength |-> s.bufferlength, buffer |-> s.buffer,
                    head |-> 0, tail |-> 0]
  BY DEF Cleared
<1>2. IsStream(Cleared(s))
  BY <1>1, StreamParts, StreamOfParts
<1>3. RealLength(Cleared(s)) = 0
  BY <1>1 DEF RealLength
<1>4. Content(Cleared(s)) = <<>>
  BY <1>3, <1>2, ContentIsSeq
<1> QED
  BY <1>2, <1>3, <1>4

(* A new ring. *)
LEMMA NewIsEmpty ==
  ASSUME NEW n \in Nat \ {0}
  PROVE  /\ IsStream(New(n))
         /\ Content(New(n)) = <<>>
<1>1. IsStream(New(n))
  BY StreamBasicAssumption, StreamOfParts DEF New
<1>2. RealLength(New(n)) = 0
  BY DEF New, RealLength
<1> QED
  BY <1>1, <1>2, ContentIsSeq

(* A ring that moves keeps its bytes, wherever head and tail stand. *)
LEMMA ResizedKeepsContent ==
  ASSUME NEW s, IsStream(s), NEW size \in Int
  PROVE  LET r == Resized(s, size)
         IN  /\ IsStream(r)
             /\ r.bufferlength = s.bufferlength + Larger(size, s.bufferlength \div 2)
             /\ r.bufferlength >= s.bufferlength + size
             /\ r.bufferlength >= s.bufferlength
             /\ r.head = 0
             /\ r.tail = RealLength(s)
             /\ Content(r) = Content(s)
<1> DEFINE r == Resized(s, size)
           n == s.bufferlength
           length == n + Larger(size, n \div 2)
           copied == IF s.head < s.tail THEN RealLength(s)
                     ELSE s.bufferlength - s.head + s.tail
           buf == [i \in 0 .. length - 1 |-> IF i < copied THEN ByteAt(s, i) ELSE Zero]
<1>1. /\ n \in Nat \ {0}
      /\ s.head \in 0 .. n - 1
      /\ s.tail \in 0 .. n - 1
      /\ RealLength(s) \in 0 .. n - 1
  BY StreamParts, LengthBound
<1>2. n \div 2 \in Nat
  BY <1>1
<1>3. /\ length \in Nat \ {0}
      /\ length >= n + size
      /\ length >= n
  BY <1>1, <1>2 DEF Larger
<1>4. r = [bufferlength |-> length, buffer |-> buf, head |-> 0, tail |-> RealLength(s)]
  BY DEF Resized
<1>5. /\ copied \in 0 .. n
      /\ RealLength(s) <= copied
  BY <1>1 DEF RealLength
<1> HIDE DEF length, copied
<1>6. \A i \in 0 .. n - 1 : ByteAt(s, i) \in Bytes
  BY <1>1, ByteAtWrapped
<1>7. buf \in [0 .. length - 1 -> Bytes]
  BY <1>3, <1>5, <1>6, <1>1, StreamBasicAssumption
<1>8. IsStream(r)
  BY <1>1, <1>3, <1>4, <1>7, StreamOfParts
<1>9. RealLength(r) = RealLength(s)
  BY <1>1, <1>4 DEF RealLength
<1>10. ASSUME NEW i \in 1 .. RealLength(s)
       PROVE  Content(r)[i] = Content(s)[i]
  <2>1. i - 1 \in 0 .. r.bufferlength /\ i - 1 < length /\ i - 1 < copied
    BY <1>1, <1>3, <1>4, <1>5
  <2>2. Content(r)[i] = ByteAt(r, i - 1)
    BY <1>8, <1>9, ContentIsSeq
  <2>3. ByteAt(r, i - 1) = buf[i - 1]
    <3>1. r.head = 0 /\ r.bufferlength = length /\ r.buffer = buf
      BY <1>4
    <3>2. 0 + (i - 1) = i - 1 /\ i - 1 < length
      BY <1>1, <2>1
    <3> HIDE DEF r, buf
    <3>3. ByteAt(r, i - 1) = r.buffer[IF r.head + (i - 1) < r.bufferlength
                                      THEN r.head + (i - 1)
                                      ELSE r.head + (i - 1) - r.bufferlength]
      BY <1>8, <2>1, ByteAtWrapped
    <3> QED
      BY <3>1, <3>2, <3>3
  <2>4. buf[i - 1] = ByteAt(s, i - 1)
    BY <2>1, <1>3
  <2> QED
    BY <2>2, <2>3, <2>4, ContentIsSeq
<1>11. Content(r) = Content(s)
  BY <1>8, <1>9, <1>10, ContentIsSeq, SameContent
<1> QED
  BY <1>3, <1>4, <1>8, <1>11 DEF length

-----------------------------------------------------------------------------
(* A ring of which the first n bytes were taken.                           *)

Taken(s, n) ==
  [s EXCEPT !.head = IF s.head + n < s.bufferlength THEN s.head + n
                     ELSE s.head + n - s.bufferlength]

FirstBytes(s, n) == [i \in 1 .. n |-> ByteAt(s, i - 1)]

LEMMA TakenContent ==
  ASSUME NEW s, IsStream(s), NEW n \in 0 .. RealLength(s)
  PROVE  /\ IsStream(Taken(s, n))
         /\ FirstBytes(s, n) \in Seq(Bytes)
         /\ Content(s) = FirstBytes(s, n) \o Content(Taken(s, n))
<1> DEFINE r == Taken(s, n)
           f == FirstBytes(s, n)
           len == s.bufferlength
           h == IF s.head + n < len THEN s.head + n ELSE s.head + n - len
<1>1. /\ len \in Nat \ {0}
      /\ s.head \in 0 .. len - 1
      /\ s.tail \in 0 .. len - 1
      /\ s.buffer \in [0 .. len - 1 -> Bytes]
      /\ RealLength(s) \in 0 .. len - 1
  BY StreamParts, LengthBound
<1>2. h \in 0 .. len - 1
  BY <1>1
<1>3. r = [bufferlength |-> len, buffer |-> s.buffer, head |-> h, tail |-> s.tail]
  BY StreamParts DEF Taken
<1>4. IsStream(r)
  BY <1>1, <1>2, <1>3, StreamOfParts
<1>5. RealLength(r) = RealLength(s) - n
  <2>1. PICK l \in Nat, a \in Nat, b \in Nat, m \in Nat :
          l = len /\ a = s.head /\ b = s.tail /\ m = n /\ a < l /\ b < l
    BY <1>1
  <2>2. RealLength(s) = IF a <= b THEN b - a ELSE l - a + b
    BY <2>1 DEF RealLength
  <2>3. PICK c \in Nat : c = h
    BY <1>2
  <2>4. c = IF a + m < l THEN a + m ELSE a + m - l
    BY <2>1, <2>3
  <2>5. r.head = c /\ r.tail = b /\ r.bufferlength = l
    BY <1>3, <2>1, <2>3
  <2> HIDE DEF r, h, len
  <2>6. RealLength(r) = IF c <= b THEN b - c ELSE l - c + b
    BY <2>5 DEF RealLength
  <2>7. PICK x \in Int : x = RealLength(s) /\ m <= x
    BY <1>1, <2>1
  <2> QED
    BY <2>1, <2>2, <2>4, <2>6, <2>7
<1>6. f \in Seq(Bytes) /\ Len(f) = n /\ \A i \in 1 .. n : f[i] = ByteAt(s, i - 1)
  <2>1. n \in Nat /\ \A i \in 1 .. n : i - 1 \in 0 .. len /\ i - 1 < len
    BY <1>1
  <2>2. \A i \in 1 .. n : ByteAt(s, i - 1) \in Bytes
    BY <2>1, ByteAtWrapped
  <2>3. f \in [1 .. n -> Bytes]
    BY <2>2 DEF FirstBytes
  <2> QED
    BY <2>1, <2>3 DEF FirstBytes
<1>7. ASSUME NEW i \in 1 .. RealLength(s) - n
      PROVE  ByteAt(r, i - 1) = ByteAt(s, n + i - 1)
  <2>1. i - 1 \in 0 .. len /\ n + i - 1 \in 0 .. len /\ n + i - 1 < len
    BY <1>1
  <2>2. ByteAt(s, n + i - 1) = s.buffer[IF s.head + (n + i - 1) < len THEN s.head + (n + i - 1)
                                        ELSE s.head + (n + i - 1) - len]
    BY <2>1, ByteAtWrapped
  <2>3. ByteAt(r, i - 1) = s.buffer[IF h + (i - 1) < len THEN h + (i - 1)
                                    ELSE h + (i - 1) - len]
    <3>1. r.bufferlength = len /\ r.buffer = s.buffer /\ r.head = h
      BY <1>3
    <3> HIDE DEF r, h
    <3> QED
      BY <1>4, <2>1, <3>1, ByteAtWrapped
  <2>4. (IF h + (i - 1) < len THEN h + (i - 1) ELSE h + (i - 1) - len)
          = IF s.head + (n + i - 1) < len THEN s.head + (n + i - 1)
            ELSE s.head + (n + i - 1) - len
    <3>1. PICK x \in Nat, l \in Nat : x = s.head /\ l = len
      BY <1>1
    <3>2. n \in Nat /\ i \in Nat /\ x + n - 1 \in Int /\ n + i - 1 < l /\ x < l /\ i >= 1
      BY <1>1, <2>1, <3>1
    <3>3. h = IF x + n < l THEN x + n ELSE x + n - l
      BY <3>1
    <3> HIDE DEF h, len
    <3> QED
      BY <3>1, <3>2, <3>3
  <2> QED
    BY <2>2, <2>3, <2>4
<1> DEFINE c == Content(r)
<1>8. /\ c \in Seq(Bytes)
      /\ Len(c) = RealLength(s) - n
      /\ \A i \in 1 .. RealLength(s) - n : c[i] = ByteAt(s, n + i - 1)
  BY <1>4, <1>5, <1>7, ContentIsSeq
<1> HIDE DEF c, f
<1>9. /\ f \o c \in Seq(Bytes)
      /\ Len(f \o c) = RealLength(s)
      /\ \A i \in 1 .. RealLength(s) : (f \o c)[i] = ByteAt(s, i - 1)
  <2>1. f \in Seq(Bytes) /\ c \in Seq(Bytes)
    BY <1>6, <1>8
  <2>2. /\ f \o c \in Seq(Bytes)
        /\ Len(f \o c) = Len(f) + Len(c)
        /\ \A i \in 1 .. Len(f) : (f \o c)[i] = f[i]
        /\ \A i \in 1 .. Len(c) : (f \o c)[Len(f) + i] = c[i]
    BY <2>1, JoinedParts
  <2>3. /\ n \in Nat
        /\ RealLength(s) \in Nat
        /\ Len(f) = n
        /\ Len(c) = RealLength(s) - n
    BY <1>1, <1>6, <1>8
  <2>4. Len(f \o c) = RealLength(s)
    BY <2>2, <2>3
  <2>5. ASSUME NEW i \in 1 .. RealLength(s)
        PROVE  (f \o c)[i] = ByteAt(s, i - 1)
    <3>1. CASE i <= n
      <4>1. i \in 1 .. n
        BY <2>3, <3>1
      <4> QED
        BY <1>6, <2>2, <2>3, <4>1
    <3>2. CASE ~(i <= n)
      <4>1. PICK j \in 1 .. RealLength(s) - n : i = n + j
        <5>1. i - n \in 1 .. RealLength(s) - n /\ i = n + (i - n)
          BY <2>3, <3>2
        <5> QED
          BY <5>1
      <4>2. (f \o c)[n + j] = c[j]
        BY <2>2, <2>3
      <4> QED
        BY <1>8, <4>1, <4>2
    <3> QED
      BY <3>1, <3>2
  <2> QED
    BY <2>2, <2>4, <2>5
<1>10. Content(s) = f \o c
  BY <1>1, <1>9, ContentIsSeq, SameContent
<1> QED
  BY <1>4, <1>6, <1>10 DEF c, f

(* The first bytes, where they stand up to the end of the buffer. *)
LEMMA InBuffer ==
  ASSUME NEW s, IsStream(s), NEW m \in Nat, s.head + m <= s.bufferlength
  PROVE  /\ FirstBytes(s, m) \in Seq(Bytes)
         /\ [i \in 1 .. m |-> s.buffer[s.head + i - 1]] = FirstBytes(s, m)
<1>1. /\ s.bufferlength \in Nat \ {0}
      /\ s.head \in 0 .. s.bufferlength - 1
  BY StreamParts
<1>2. \A i \in 1 .. m : i - 1 \in 0 .. s.bufferlength /\ i - 1 < s.bufferlength
                        /\ s.head + (i - 1) < s.bufferlength
                        /\ s.head + (i - 1) = s.head + i - 1
  BY <1>1
<1>3. \A i \in 1 .. m : ByteAt(s, i - 1) = s.buffer[s.head + i - 1]
                        /\ ByteAt(s, i - 1) \in Bytes
  BY <1>2, ByteAtWrapped
<1> DEFINE f == FirstBytes(s, m)
<1>4. f = [i \in 1 .. m |-> s.buffer[s.head + i - 1]]
  BY <1>3 DEF FirstBytes
<1>5. f \in [1 .. m -> Bytes]
  BY <1>3 DEF FirstBytes
<1> HIDE DEF f
<1>6. f \in Seq(Bytes)
  BY <1>5
<1> QED
  BY <1>4, <1>6 DEF f

(* And when they go on at its front. *)
LEMMA OverTheEnd ==
  ASSUME NEW s, IsStream(s), NEW m \in Nat, s.head + m = s.bufferlength,
         NEW k \in 0 .. s.head
  PROVE  FirstBytes(s, m) \o [i \in 1 .. k |-> s.buffer[i - 1]] = FirstBytes(s, m + k)
<1> DEFINE f == FirstBytes(s, m)
           g == [i \in 1 .. k |-> s.buffer[i - 1]]
           e == FirstBytes(s, m + k)
           l == s.bufferlength
<1>1. /\ l \in Nat \ {0}
      /\ s.head \in 0 .. l - 1
      /\ s.buffer \in [0 .. l - 1 -> Bytes]
      /\ k \in Nat
      /\ m + k \in 0 .. l
  BY StreamParts
<1>2. \A i \in 1 .. m + k : i - 1 \in 0 .. l /\ i - 1 < l
  BY <1>1
<1>3. \A i \in 1 .. m + k : ByteAt(s, i - 1) \in Bytes
  BY <1>2, ByteAtWrapped
<1>4. /\ f \in [1 .. m -> Bytes]
      /\ e \in [1 .. m + k -> Bytes]
      /\ g \in [1 .. k -> Bytes]
  <2>1. \A i \in 1 .. m : i \in 1 .. m + k
    BY <1>1
  <2>2. \A i \in 1 .. k : i - 1 \in 0 .. l - 1
    BY <1>1
  <2>3. f \in [1 .. m -> Bytes]
    BY <1>3, <2>1 DEF FirstBytes
  <2>4. e \in [1 .. m + k -> Bytes]
    BY <1>3 DEF FirstBytes
  <2>5. g \in [1 .. k -> Bytes]
    BY <1>1, <2>2
  <2> QED
    BY <2>3, <2>4, <2>5
<1>5. \A i \in 1 .. m : f[i] = e[i]
  BY <1>1 DEF FirstBytes
<1>6. ASSUME NEW i \in 1 .. k
      PROVE  g[i] = e[m + i]
  <2>1. /\ m + i \in 1 .. m + k
        /\ (m + i) - 1 \in 0 .. l
        /\ ~(s.head + ((m + i) - 1) < l)
        /\ s.head + ((m + i) - 1) - l = i - 1
    BY <1>1
  <2>2. ByteAt(s, (m + i) - 1) = s.buffer[i - 1]
    BY <2>1, ByteAtWrapped
  <2>3. e[m + i] = ByteAt(s, (m + i) - 1)
    BY <2>1 DEF FirstBytes
  <2> QED
    BY <2>2, <2>3
<1> HIDE DEF f, g, e, l
<1>7. /\ f \in Seq(Bytes) /\ Len(f) = m
      /\ g \in Seq(Bytes) /\ Len(g) = k
      /\ e \in Seq(Bytes) /\ Len(e) = m + k
  <2>1. m \in Nat /\ k \in Nat /\ m + k \in Nat
    BY <1>1
  <2>2. f \in Seq(Bytes) /\ Len(f) = m
    BY <1>4, <2>1
  <2>3. g \in Seq(Bytes) /\ Len(g) = k
    BY <1>4, <2>1
  <2>4. e \in Seq(Bytes) /\ Len(e) = m + k
    BY <1>4, <2>1
  <2> QED
    BY <2>2, <2>3, <2>4
<1>8. /\ f \o g \in Seq(Bytes)
      /\ Len(f \o g) = Len(f) + Len(g)
      /\ \A i \in 1 .. Len(f) : (f \o g)[i] = f[i]
      /\ \A i \in 1 .. Len(g) : (f \o g)[Len(f) + i] = g[i]
  BY <1>7, JoinedParts
<1>9. ASSUME NEW i \in 1 .. m + k
      PROVE  (f \o g)[i] = e[i]
  <2>1. CASE i <= m
    <3>1. i \in 1 .. m
      BY <1>1, <2>1
    <3> QED
      BY <1>5, <1>7, <1>8, <3>1
  <2>2. CASE ~(i <= m)
    <3>1. PICK j \in 1 .. k : i = m + j
      <4>1. i - m \in 1 .. k /\ i = m + (i - m)
        BY <1>1, <2>2
      <4> QED
        BY <4>1
    <3> QED
      BY <1>6, <1>7, <1>8, <3>1
  <2> QED
    BY <2>1, <2>2
<1>10. f \o g = e
  BY <1>7, <1>8, <1>9, SameContent
<1> QED
  BY <1>10 DEF f, g, e

(* Writing into the buffer moves neither head nor tail.                    *)
PutBuffer(s, at, d) ==
  [i \in 0 .. s.bufferlength - 1 |->
     IF i >= at /\ i < at + Len(d) THEN d[i - at + 1] ELSE s.buffer[i]]

LEMMA PutParts ==
  ASSUME NEW s, IsStream(s), NEW at \in Int, NEW d \in Seq(Bytes)
  PROVE  /\ PutBuffer(s, at, d) \in [0 .. s.bufferlength - 1 -> Bytes]
         /\ Put(s, at, d) = [bufferlength |-> s.bufferlength, buffer |-> PutBuffer(s, at, d),
                             head |-> s.head, tail |-> s.tail]
         /\ IsStream(Put(s, at, d))
<1> DEFINE n == s.bufferlength
           b == PutBuffer(s, at, d)
<1>1. /\ n \in Nat \ {0}
      /\ s.head \in 0 .. n - 1
      /\ s.tail \in 0 .. n - 1
      /\ s.buffer \in [0 .. n - 1 -> Bytes]
  BY StreamParts
<1>2. \A i \in 0 .. n - 1 :
        i >= at /\ i < at + Len(d) => i - at + 1 \in 1 .. Len(d) /\ d[i - at + 1] \in Bytes
  BY <1>1
<1>3. b \in [0 .. n - 1 -> Bytes]
  BY <1>1, <1>2 DEF PutBuffer
<1>4. Put(s, at, d) = [s EXCEPT !.buffer = b]
  BY <1>1 DEF Put, PutBuffer
<1> HIDE DEF b
<1>5. Put(s, at, d) = [bufferlength |-> n, buffer |-> b, head |-> s.head, tail |-> s.tail]
  BY <1>4, StreamParts
<1>6. IsStream(Put(s, at, d))
  BY <1>1, <1>3, <1>5, StreamOfParts
<1> QED
  BY <1>3, <1>5, <1>6 DEF b

LEMMA PutIsStream ==
  ASSUME NEW s, IsStream(s), NEW at \in Int, NEW d \in Seq(Bytes)
  PROVE  /\ IsStream(Put(s, at, d))
         /\ Put(s, at, d).bufferlength = s.bufferlength
         /\ Put(s, at, d).head = s.head
         /\ Put(s, at, d).tail = s.tail
BY PutParts

LEMMA ResizedIsStream ==
  ASSUME NEW s, IsStream(s), NEW size \in Int
  PROVE  /\ IsStream(Resized(s, size))
         /\ Resized(s, size).bufferlength >= s.bufferlength
BY ResizedKeepsContent

(* tail moves to any place of the buffer.                                  *)
LEMMA TailMoved ==
  ASSUME NEW s, IsStream(s), NEW t \in 0 .. s.bufferlength - 1
  PROVE  /\ [s EXCEPT !.tail = t] = [bufferlength |-> s.bufferlength, buffer |-> s.buffer,
                                     head |-> s.head, tail |-> t]
         /\ IsStream([s EXCEPT !.tail = t])
<1>1. [s EXCEPT !.tail = t] = [bufferlength |-> s.bufferlength, buffer |-> s.buffer,
                               head |-> s.head, tail |-> t]
  BY StreamParts
<1>2. /\ s.bufferlength \in Nat \ {0}
      /\ s.head \in 0 .. s.bufferlength - 1
      /\ s.buffer \in [0 .. s.bufferlength - 1 -> Bytes]
  BY StreamParts
<1> QED
  BY <1>1, <1>2, StreamOfParts

-----------------------------------------------------------------------------
(* Flush.                                                                  *)

(* The ring of a stream with its head elsewhere. *)
At(s, h) == [bufferlength |-> s.bufferlength, buffer |-> s.buffer,
             head |-> h, tail |-> s.tail]

LEMMA HeadMoved ==
  ASSUME NEW s, IsStream(s), NEW h, NEW g
  PROVE  /\ s = At(s, s.head)
         /\ [s EXCEPT !.head = h] = At(s, h)
         /\ [At(s, g) EXCEPT !.head = h] = At(s, h)
         /\ Cleared(At(s, h)) = Cleared(s)
BY StreamParts DEF At, Cleared

LEMMA TakenAt ==
  ASSUME NEW s, IsStream(s), NEW n \in 0 .. s.bufferlength
  PROVE  /\ s.head + n < s.bufferlength => Taken(s, n) = At(s, s.head + n)
         /\ ~(s.head + n < s.bufferlength)
              => Taken(s, n) = At(s, s.head + n - s.bufferlength)
BY HeadMoved DEF Taken

(* The bytes of a send that starts at the head. *)
LEMMA SentFirst ==
  ASSUME NEW s, IsStream(s), NEW m \in Nat, s.head + m <= s.bufferlength
  PROVE  <<>> \o [i \in 1 .. m |-> s.buffer[s.head + i - 1]] = FirstBytes(s, m)
<1> DEFINE f == FirstBytes(s, m)
<1>1. f \in Seq(Bytes) /\ f = [i \in 1 .. m |-> s.buffer[s.head + i - 1]]
  BY InBuffer
<1> HIDE DEF f
<1>2. <<>> \o f = f
  BY <1>1
<1> QED
  BY <1>1, <1>2 DEF f

LEMMA StreamReplaced ==
  ASSUME NEW q, NEW x, NEW y, NEW e, NEW z, q = [stream |-> x, sent |-> y, ends |-> e]
  PROVE  [q EXCEPT !.stream = z] = [stream |-> z, sent |-> y, ends |-> e]
OBVIOUS

(* What a flush can leave: it has sent the first n bytes and the ring has  *)
(* lost them, or is rewound when they were all it held.                    *)
LEMMA FlushTakes ==
  ASSUME IsStream(ostream), RealLength(ostream) # 0, NEW r \in Flushed
  PROVE  \E n \in 0 .. RealLength(ostream) :
           /\ r.sent = FirstBytes(ostream, n)
           /\ \/ r.stream = Taken(ostream, n)
              \/ n = RealLength(ostream) /\ r.stream = Cleared(ostream)
<1> DEFINE s == ostream
           l == s.bufferlength
           left == IF s.head < s.tail THEN s.tail - s.head ELSE l - s.head
           begun == [stream |-> s, sent |-> <<>>, ends |-> FALSE]
<1>1. /\ l \in Nat \ {0}
      /\ s.head \in 0 .. l - 1
      /\ s.tail \in 0 .. l - 1
      /\ RealLength(s) \in 0 .. l - 1
  BY StreamParts, LengthBound
<1>2. PICK q \in Sends(begun, left) : \E p \in SendsFront(q) : r = Rewound(p)
  BY DEF Flushed
<1>3. PICK p \in SendsFront(q) : r = Rewound(p)
  BY <1>2
<1>4. PICK m \in 0 .. left :
        q = [stream |-> At(s, s.head + m), sent |-> FirstBytes(s, m), ends |-> m < left]
  <2>1. PICK m \in 0 .. left :
          q = [stream |-> [s EXCEPT !.head = s.head + m],
               sent |-> <<>> \o [i \in 1 .. m |-> s.buffer[s.head + i - 1]],
               ends |-> m < left]
    BY <1>2 DEF Sends
  <2>2. m \in Nat /\ s.head + m <= l
    BY <1>1
  <2> QED
    BY <2>1, <2>2, HeadMoved, SentFirst
<1>5. CASE s.head < s.tail
  <2>1. /\ RealLength(s) = left
        /\ m \in 0 .. RealLength(s)
        /\ s.head + m <= s.tail
        /\ s.head + m < l
        /\ m \in 0 .. l
    BY <1>1, <1>5 DEF RealLength
  <2>2. q.stream = At(s, s.head + m) /\ q.stream.head <= q.stream.tail
    BY <1>4, <2>1 DEF At
  <2>3. p = q
    BY <1>3, <2>2 DEF SendsFront
  <2>4. q.stream = Taken(s, m)
    BY <2>1, <2>2, TakenAt
  <2>5. q.sent = FirstBytes(s, m)
    BY <1>4
  <2>6. CASE ~q.ends /\ q.stream.head = q.stream.tail
    <3>1. r = [q EXCEPT !.stream = Cleared(q.stream)]
      BY <1>3, <2>3, <2>6 DEF Rewound
    <3>2. r.stream = Cleared(s) /\ r.sent = FirstBytes(s, m)
      BY <1>4, <3>1, HeadMoved
    <3>3. m = RealLength(s)
      <4>1. q.stream.head = s.head + m /\ q.stream.tail = s.tail
        BY <1>4 DEF At
      <4>2. s.head + m = s.tail
        BY <2>6, <4>1
      <4>3. RealLength(s) = s.tail - s.head
        BY <1>1, <1>5 DEF RealLength
      <4>4. m \in Nat /\ s.head \in Nat /\ s.tail \in Nat
        BY <1>1, <2>1
      <4> HIDE DEF left
      <4> QED
        BY <4>2, <4>3, <4>4
    <3> QED
      BY <2>1, <3>2, <3>3
  <2>7. CASE ~(~q.ends /\ q.stream.head = q.stream.tail)
    BY <1>3, <2>1, <2>3, <2>4, <2>5, <2>7 DEF Rewound
  <2> QED
    BY <2>6, <2>7
<1>6. CASE ~(s.head < s.tail)
  <2>1. /\ s.tail < s.head
        /\ left = l - s.head
        /\ RealLength(s) = left + s.tail
    BY <1>1, <1>6 DEF RealLength
  <2>2. CASE m < left
    <3>1. /\ m \in 0 .. RealLength(s)
          /\ m \in 0 .. l
          /\ s.head + m < l
      BY <1>1, <2>1, <2>2
    <3>2. p = q
      BY <1>3, <1>4, <2>2 DEF SendsFront
    <3>3. r = q
      BY <1>3, <1>4, <2>2, <3>2 DEF Rewound
    <3> QED
      BY <1>4, <3>1, <3>3, TakenAt
  <2>3. CASE ~(m < left)
    <3>1. m = left /\ s.head + m = l /\ m \in Nat /\ m = l - s.head
      BY <1>1, <2>1, <2>3
    <3> DEFINE front == [q.stream EXCEPT !.head = 0]
                q0 == [q EXCEPT !.stream = front]
    <3>2. /\ q.ends = FALSE
          /\ q.stream.head = l
          /\ q.stream.tail = s.tail
          /\ front.tail = s.tail
          /\ q0 = [stream |-> At(s, 0), sent |-> FirstBytes(s, m), ends |-> FALSE]
      <4>1. (m < left) = FALSE
        BY <2>3
      <4> HIDE DEF left
      <4>2. q = [stream |-> At(s, l), sent |-> FirstBytes(s, m), ends |-> FALSE]
        BY <1>4, <3>1, <4>1
      <4>3. front = At(s, 0)
        BY <4>2, HeadMoved
      <4>4. q0 = [stream |-> front, sent |-> FirstBytes(s, m), ends |-> FALSE]
        <5> DEFINE x == At(s, l)
                   y == FirstBytes(s, m)
                   e == FALSE
                   z == front
        <5>1. q = [stream |-> x, sent |-> y, ends |-> e]
          BY <4>2
        <5>2. q0 = [q EXCEPT !.stream = z]
          OBVIOUS
        <5> HIDE DEF x, y, z, e, q0, front
        <5>3. q0 = [stream |-> z, sent |-> y, ends |-> e]
          BY <5>1, <5>2, StreamReplaced
        <5> QED
          BY <5>3 DEF y, z, e
      <4>5. q.ends = FALSE /\ q.stream.head = l /\ q.stream.tail = s.tail /\ front.tail = s.tail
        BY <4>2, <4>3 DEF At
      <4> QED
        BY <4>3, <4>4, <4>5
    <3>3. p \in Sends(q0, s.tail)
      BY <1>1, <1>3, <3>2 DEF SendsFront
    <3>4. PICK k \in 0 .. s.tail :
            p = [stream |-> At(s, k), sent |-> FirstBytes(s, m + k), ends |-> k < s.tail]
      <4> HIDE DEF q0
      <4>1. /\ q0.stream = At(s, 0)
            /\ q0.stream.head = 0
            /\ q0.stream.buffer = s.buffer
            /\ q0.sent = FirstBytes(s, m)
        BY <3>2 DEF At
      <4>2. PICK k \in 0 .. s.tail :
              p = [stream |-> [At(s, 0) EXCEPT !.head = 0 + k],
                   sent |-> FirstBytes(s, m) \o [i \in 1 .. k |-> s.buffer[0 + i - 1]],
                   ends |-> k < s.tail]
        BY <3>3, <4>1 DEF Sends, At
      <4>3. k \in 0 .. s.head /\ 0 + k = k
        BY <1>1, <2>1
      <4>4. [i \in 1 .. k |-> s.buffer[0 + i - 1]] = [i \in 1 .. k |-> s.buffer[i - 1]]
        OBVIOUS
      <4>5. FirstBytes(s, m) \o [i \in 1 .. k |-> s.buffer[i - 1]] = FirstBytes(s, m + k)
        BY <3>1, <4>3, OverTheEnd
      <4>6. [At(s, 0) EXCEPT !.head = 0 + k] = At(s, k)
        BY <4>3, HeadMoved
      <4> QED
        BY <4>2, <4>4, <4>5, <4>6
    <3>5. /\ m + k \in 0 .. RealLength(s)
          /\ m + k \in 0 .. l
          /\ ~(s.head + (m + k) < l)
          /\ s.head + (m + k) - l = k
      <4>1. /\ k \in Nat /\ m \in Nat /\ l \in Nat /\ s.head \in Nat /\ s.tail \in Nat
            /\ k <= s.tail
            /\ s.tail < s.head
            /\ s.head + m = l
        BY <1>1, <2>1, <3>1
      <4>2. RealLength(s) = m + s.tail
        BY <2>1, <3>1
      <4> HIDE DEF left, l
      <4>3. m + k \in 0 .. RealLength(s)
        BY <4>1, <4>2
      <4>4. m + k \in 0 .. l /\ ~(s.head + (m + k) < l) /\ s.head + (m + k) - l = k
        BY <4>1
      <4> QED
        BY <4>3, <4>4
    <3>6. At(s, k) = Taken(s, m + k)
      BY <3>5, TakenAt
    <3>7. CASE ~p.ends /\ p.stream.head = p.stream.tail
      <4>1. r.stream = Cleared(s) /\ r.sent = FirstBytes(s, m + k)
        BY <1>3, <3>4, <3>7, HeadMoved DEF Rewound
      <4>2. m + k = RealLength(s)
        <5>1. p.stream.head = k /\ p.stream.tail = s.tail
          BY <3>4 DEF At
        <5> HIDE DEF left, l
        <5> QED
          BY <2>1, <3>1, <3>7, <5>1
      <4> QED
        BY <3>5, <4>1, <4>2
    <3>8. CASE ~(~p.ends /\ p.stream.head = p.stream.tail)
      BY <1>3, <3>4, <3>5, <3>6, <3>8 DEF Rewound
    <3> QED
      BY <3>7, <3>8
  <2> QED
    BY <2>2, <2>3
<1> QED
  BY <1>5, <1>6

-----------------------------------------------------------------------------
(* Write.                                                                  *)

(* Whatever write does with the head and tail it read first, the ring      *)
(* stays a ring.                                                           *)
LEMMA WrittenIsStream ==
  ASSUME NEW s, IsStream(s), NEW data \in Seq(Bytes)
  PROVE  IsStream(Written(s, data))
<1> DEFINE length == Len(data)
           s1 == IF length >= FreeToWrite(s) THEN Resized(s, length - FreeToWrite(s) + 1) ELSE s
           right == s1.bufferlength - s.tail - 1
           copied == IF s.head <= s.tail /\ length > right
                     THEN Put(Put(s1, s.tail, SubSeq(data, 1, right)),
                              0, SubSeq(data, right + 1, length))
                     ELSE Put(s1, s.tail, data)
<1>1. /\ s.bufferlength \in Nat \ {0}
      /\ s.head \in 0 .. s.bufferlength - 1
      /\ s.tail \in 0 .. s.bufferlength - 1
      /\ length \in Nat
  BY StreamParts
<1>2. FreeToWrite(s) \in Int
  BY <1>1 DEF FreeToWrite
<1>3. IsStream(s1) /\ s1.bufferlength >= s.bufferlength
  <2>1. length - FreeToWrite(s) + 1 \in Int
    BY <1>1, <1>2
  <2> QED
    <3> DEFINE size == length - FreeToWrite(s) + 1
    <3>1. IsStream(Resized(s, size)) /\ Resized(s, size).bufferlength >= s.bufferlength
      <4> HIDE DEF size
      <4> QED
        BY <2>1, ResizedIsStream DEF size
    <3>2. s.bufferlength >= s.bufferlength
      BY <1>1
    <3>3. s1 = Resized(s, size) \/ s1 = s
      OBVIOUS
    <3> HIDE DEF s1, size
    <3> QED
      BY <3>1, <3>2, <3>3
<1> HIDE DEF s1
<1>4. s1.bufferlength \in Nat \ {0} /\ s.tail \in Int /\ right \in Nat
  BY <1>1, <1>3, StreamParts
<1>5. IsStream(copied) /\ copied.bufferlength = s1.bufferlength
  <2>1. CASE s.head <= s.tail /\ length > right
    <3>1. SubSeq(data, 1, right) \in Seq(Bytes) /\ SubSeq(data, right + 1, length) \in Seq(Bytes)
      BY <1>1, <1>4, <2>1
    <3> DEFINE p == Put(s1, s.tail, SubSeq(data, 1, right))
    <3>2. IsStream(p) /\ p.bufferlength = s1.bufferlength
      BY <1>3, <1>4, <3>1, PutIsStream
    <3> HIDE DEF p
    <3> DEFINE rest == SubSeq(data, right + 1, length)
               q == Put(p, 0, rest)
    <3>3. IsStream(q) /\ q.bufferlength = p.bufferlength
      <4>1. rest \in Seq(Bytes) /\ 0 \in Int
        BY <3>1
      <4> HIDE DEF rest
      <4> QED
        BY <3>2, <4>1, PutIsStream
    <3>4. copied = q
      BY <2>1 DEF p
    <3> HIDE DEF q, copied
    <3> QED
      BY <3>2, <3>3, <3>4
  <2>2. CASE ~(s.head <= s.tail /\ length > right)
    <3> DEFINE q == Put(s1, s.tail, data)
    <3>1. IsStream(q) /\ q.bufferlength = s1.bufferlength
      BY <1>3, <1>4, PutIsStream
    <3>2. copied = q
      BY <2>2
    <3> HIDE DEF q, copied
    <3> QED
      BY <3>1, <3>2
  <2> QED
    BY <2>1, <2>2
<1> DEFINE t == (s.tail + length) % s1.bufferlength
<1>6. t \in 0 .. s1.bufferlength - 1
  BY <1>1, <1>4
<1>7. Written(s, data) = [copied EXCEPT !.tail = t]
  BY DEF Written, s1
<1> HIDE DEF copied, t
<1> QED
  BY <1>5, <1>6, <1>7, TailMoved

(* A write to a ring with its head at 0 puts its bytes behind the others:  *)
(* it has room for them, or moves to a buffer that has.                    *)
LEMMA WrittenAtStart ==
  ASSUME NEW s, IsStream(s), s.head = 0, NEW data \in Seq(Bytes)
  PROVE  Content(Written(s, data)) = Content(s) \o data
<1> DEFINE length == Len(data)
           tail == s.tail
           size == length - FreeToWrite(s) + 1
           s1 == IF length >= FreeToWrite(s) THEN Resized(s, size) ELSE s
<1>1. /\ s.bufferlength \in Nat \ {0}
      /\ tail \in 0 .. s.bufferlength - 1
      /\ length \in Nat
      /\ FreeToWrite(s) = s.bufferlength - tail - 1
      /\ RealLength(s) = tail
  BY StreamParts DEF FreeToWrite, RealLength
<1>2. /\ IsStream(s1)
      /\ s1.head = 0
      /\ s1.tail = tail
      /\ Content(s1) = Content(s)
      /\ s1.bufferlength \in Nat
      /\ s1.bufferlength >= length + tail + 2
  <2>1. CASE length >= FreeToWrite(s)
    <3>1. size \in Int /\ s.bufferlength + size = length + tail + 2
      BY <1>1
    <3> HIDE DEF size
    <3> DEFINE z == Resized(s, size)
    <3>2. /\ IsStream(z)
          /\ z.head = 0
          /\ z.tail = RealLength(s)
          /\ Content(z) = Content(s)
          /\ z.bufferlength >= s.bufferlength + size
      BY <3>1, ResizedKeepsContent
    <3>3. s1 = z
      BY <2>1
    <3> HIDE DEF z, s1
    <3> QED
      BY <1>1, <3>1, <3>2, <3>3, StreamParts
  <2>2. CASE ~(length >= FreeToWrite(s))
    <3>1. s1 = s
      BY <2>2
    <3>2. s.bufferlength >= length + tail + 2
      BY <1>1, <2>2
    <3> HIDE DEF s1
    <3> QED
      BY <1>1, <3>1, <3>2
  <2> QED
    BY <2>1, <2>2
<1> DEFINE n == s1.bufferlength
           r == Written(s, data)
           b == [i \in 0 .. n - 1 |->
                  IF i >= tail /\ i < tail + length THEN data[i - tail + 1] ELSE s1.buffer[i]]
<1>3. /\ b \in [0 .. n - 1 -> Bytes]
      /\ r = [bufferlength |-> n, buffer |-> b, head |-> 0, tail |-> tail + length]
  <2>1. ~(length > n - tail - 1) /\ tail + length \in 0 .. n - 1
    <3>1. PICK m \in Nat, a \in Nat, k \in Nat : m = n /\ a = tail /\ k = length
      <4> HIDE DEF s1
      <4> QED
        BY <1>1, <1>2, StreamParts
    <3> HIDE DEF s1, n, tail, length
    <3> QED
      BY <1>2, <3>1 DEF n
  <2>2. (tail + length) % n = tail + length
    <3> HIDE DEF s1, tail, length
    <3>1. PICK m \in Nat, a \in Nat : m = n /\ a = tail + length /\ a < m
      BY <1>1, <1>2, <2>1
    <3>2. a % m = a
      BY <3>1
    <3> QED
      BY <3>1, <3>2
  <2>3. r = [Put(s1, tail, data) EXCEPT !.tail = tail + length]
    BY <2>1, <2>2 DEF Written
  <2> HIDE DEF s1
  <2> DEFINE p == Put(s1, tail, data)
  <2>4. /\ b \in [0 .. n - 1 -> Bytes]
        /\ p = [bufferlength |-> n, buffer |-> b, head |-> s1.head, tail |-> s1.tail]
    <3> DEFINE e == PutBuffer(s1, tail, data)
    <3>1. tail \in Int
      BY <1>1
    <3>2. /\ e \in [0 .. n - 1 -> Bytes]
          /\ p = [bufferlength |-> n, buffer |-> e, head |-> s1.head, tail |-> s1.tail]
      BY <1>2, <3>1, PutParts
    <3>3. b = e
      BY DEF PutBuffer
    <3> QED
      BY <3>2, <3>3
  <2> HIDE DEF b
  <2>5. r = [p EXCEPT !.tail = tail + length]
    BY <2>3
  <2> HIDE DEF p, r
  <2> QED
    BY <1>2, <2>4, <2>5
<1> HIDE DEF s1
<1>4. IsStream(r) /\ RealLength(r) = tail + length
  <2>1. n \in Nat \ {0} /\ 0 \in 0 .. n - 1 /\ tail + length \in 0 .. n - 1
    <3>1. PICK m \in Nat, a \in Nat, k \in Nat : m = n /\ a = tail /\ k = length
      BY <1>1, <1>2, StreamParts
    <3> HIDE DEF n, tail, length
    <3> QED
      BY <1>2, <3>1 DEF n
  <2> HIDE DEF r, b, n, length
  <2>2. IsStream(r)
    BY <1>3, <2>1, StreamOfParts
  <2>3. r.head = 0 /\ r.tail = tail + length
    BY <1>3
  <2> QED
    BY <2>1, <2>2, <2>3 DEF RealLength
<1>5. ASSUME NEW i \in 1 .. tail + length
      PROVE  ByteAt(r, i - 1) = b[i - 1]
  <2>1. r.head = 0 /\ r.buffer = b /\ r.bufferlength = n
    BY <1>3
  <2>2. i - 1 \in 0 .. n /\ 0 + (i - 1) < n /\ 0 + (i - 1) = i - 1
    BY <1>1, <1>2
  <2> HIDE DEF r, b, n
  <2> QED
    BY <1>4, <2>1, <2>2, ByteAtWrapped
<1>6. ASSUME NEW i \in 1 .. tail
      PROVE  b[i - 1] = Content(s)[i]
  <2>1. /\ i - 1 \in 0 .. n - 1
        /\ i - 1 \in 0 .. n
        /\ ~(i - 1 >= tail)
        /\ 0 + (i - 1) < n
        /\ 0 + (i - 1) = i - 1
    BY <1>1, <1>2
  <2>2. b[i - 1] = s1.buffer[i - 1]
    BY <2>1
  <2>3. ByteAt(s1, i - 1) = s1.buffer[i - 1]
    BY <1>2, <2>1, ByteAtWrapped
  <2>4. RealLength(s1) = tail
    BY <1>1, <1>2 DEF RealLength
  <2>5. Content(s1)[i] = ByteAt(s1, i - 1)
    BY <1>2, <2>4, ContentIsSeq
  <2> QED
    BY <1>2, <2>2, <2>3, <2>5
<1>7. ASSUME NEW i \in 1 .. length
      PROVE  b[(tail + i) - 1] = data[i]
  <2>1. /\ (tail + i) - 1 \in 0 .. n - 1
        /\ (tail + i) - 1 >= tail
        /\ (tail + i) - 1 < tail + length
        /\ (tail + i) - 1 - tail + 1 = i
    <3>1. PICK x \in Nat, y \in Nat : x = tail /\ y = length
      BY <1>1
    <3>2. PICK m \in Nat : m = n /\ n >= tail + length + 1
      <4> HIDE DEF s1
      <4> QED
        BY <1>1, <1>2
    <3> HIDE DEF tail, length, n
    <3>3. i \in 1 .. y /\ m >= x + y + 1
      BY <3>1, <3>2
    <3> QED
      BY <3>1, <3>2, <3>3
  <2> QED
    BY <2>1
<1> DEFINE c == Content(s)
<1> HIDE DEF r, b, n, c
<1>8. /\ c \in Seq(Bytes)
      /\ Len(c) = tail
      /\ Content(r) \in Seq(Bytes)
      /\ Len(Content(r)) = tail + length
      /\ \A i \in 1 .. tail + length : Content(r)[i] = ByteAt(r, i - 1)
  BY <1>1, <1>4, ContentIsSeq DEF c
<1>9. /\ c \o data \in Seq(Bytes)
      /\ Len(c \o data) = Len(c) + Len(data)
      /\ \A i \in 1 .. Len(c) : (c \o data)[i] = c[i]
      /\ \A i \in 1 .. Len(data) : (c \o data)[Len(c) + i] = data[i]
  BY <1>8, JoinedParts
<1>10. ASSUME NEW i \in 1 .. tail + length
       PROVE  Content(r)[i] = (c \o data)[i]
  <2>1. CASE i <= tail
    <3>1. i \in 1 .. tail
      BY <1>1, <2>1
    <3>2. Content(r)[i] = b[i - 1]
      BY <1>5, <1>8
    <3> QED
      BY <1>6, <1>8, <1>9, <3>1, <3>2 DEF c
  <2>2. CASE ~(i <= tail)
    <3>1. PICK j \in 1 .. length : i = tail + j
      <4>1. i - tail \in 1 .. length /\ i = tail + (i - tail)
        BY <1>1, <2>2
      <4> QED
        BY <4>1
    <3>2. Content(r)[i] = b[(tail + j) - 1]
      BY <1>5, <1>8, <3>1
    <3> QED
      BY <1>7, <1>8, <1>9, <3>1, <3>2
  <2> QED
    BY <2>1, <2>2
<1>11. Content(r) = c \o data
  BY <1>8, <1>9, <1>10, SameContent, ZenonT(40)
<1> QED
  BY <1>11 DEF r, c

-----------------------------------------------------------------------------
(* The theorems.                                                           *)

(* A flush splits what the ring held into what it sent and what is left.   *)
LEMMA FlushSplits ==
  ASSUME IsStream(ostream), Flush
  PROVE  /\ IsStream(ostream')
         /\ sent' \in Seq(Bytes)
         /\ Content(ostream) = sent' \o Content(ostream')
<1>1. RealLength(ostream) # 0
  BY DEF Flush
<1>2. PICK r \in Flushed : ostream' = r.stream /\ sent' = r.sent
  BY DEF Flush
<1>3. PICK n \in 0 .. RealLength(ostream) :
        /\ r.sent = FirstBytes(ostream, n)
        /\ \/ r.stream = Taken(ostream, n)
           \/ n = RealLength(ostream) /\ r.stream = Cleared(ostream)
  BY <1>1, FlushTakes
<1> DEFINE t == Taken(ostream, n)
           f == FirstBytes(ostream, n)
<1>4. /\ IsStream(t)
      /\ f \in Seq(Bytes)
      /\ Content(ostream) = f \o Content(t)
  BY TakenContent
<1>5. CASE r.stream = t
  BY <1>2, <1>3, <1>4, <1>5
<1>6. CASE n = RealLength(ostream) /\ r.stream = Cleared(ostream)
  <2>1. IsStream(ostream') /\ Content(ostream') = <<>>
    BY <1>2, <1>6, ClearedIsEmpty
  <2>2. Content(ostream) = f
    <3>1. /\ f \in Seq(Bytes) /\ Len(f) = n
          /\ \A i \in 1 .. n : f[i] = ByteAt(ostream, i - 1)
      BY <1>4, LengthBound, StreamParts DEF FirstBytes
    <3> HIDE DEF f
    <3> QED
      BY <1>6, <3>1, ContentIsSeq, SameContent
  <2>3. f \o <<>> = f
    <3> HIDE DEF f
    <3> QED
      BY <1>4
  <2>4. sent' = f
    BY <1>2, <1>3
  <2> QED
    BY <1>4, <2>1, <2>2, <2>3, <2>4
<1> QED
  BY <1>3, <1>5, <1>6

LEMMA OutputTypes ==
  OutputOK /\ [OutputNext]_outputvars => OutputOK'
<1> SUFFICES ASSUME OutputOK, [OutputNext]_outputvars PROVE OutputOK'
  OBVIOUS
<1> USE DEF OutputOK
<1>1. ASSUME NEW data \in Values, Write(data)
      PROVE  OutputOK'
  BY <1>1, StreamOutputAssumption, WrittenIsStream DEF Write
<1>2. CASE Flush
  BY <1>2, FlushSplits
<1>3. CASE OutputDisconnect
  BY <1>3, ClearedIsEmpty DEF OutputDisconnect
<1>4. CASE UNCHANGED outputvars
  BY <1>4 DEF outputvars
<1> QED
  BY <1>1, <1>2, <1>3, <1>4 DEF OutputNext

(* The ring of a stream that sends stays a ring, whatever is written and   *)
(* sent: head and tail are places of its buffer.                           *)
THEOREM OutputIsStream ==
  OutputSpec => []OutputOK
<1>1. OutputInit => OutputOK
  BY StreamBasicAssumption, NewIsEmpty DEF OutputInit, OutputOK
<1> QED
  BY <1>1, OutputTypes, PTL DEF OutputSpec

(* A flush loses, doubles and swaps no byte, wherever its sends stop: what *)
(* it gave to the socket and what is left are what the ring held.          *)
THEOREM FlushInOrder ==
  OutputSpec => FlushKeepsOrder
<1>1. OutputOK /\ [OutputNext]_outputvars
        => [Flush => Content(ostream) = sent' \o Content(ostream')]_outputvars
  BY FlushSplits DEF OutputOK
<1> QED
  BY <1>1, OutputIsStream, PTL DEF OutputSpec, FlushKeepsOrder

(* What is written before a send is appended, whether the ring has room or *)
(* moves to a larger buffer.                                               *)
THEOREM FirstWritesAppend ==
  OutputSpec => WriteBeforeSendAppends
<1>1. OutputOK /\ [OutputNext]_outputvars
        => [\A data \in Values :
              ostream.head = 0 /\ Write(data)
                => Content(ostream') = Content(ostream) \o data]_outputvars
  <2> SUFFICES ASSUME OutputOK, NEW data \in Values, ostream.head = 0, Write(data)
               PROVE  Content(ostream') = Content(ostream) \o data
    OBVIOUS
  <2>1. data \in Seq(Bytes) /\ ostream' = Written(ostream, data)
    BY StreamOutputAssumption DEF Write
  <2> QED
    BY <2>1, WrittenAtStart DEF OutputOK
<1> QED
  BY <1>1, OutputIsStream, PTL DEF OutputSpec, WriteBeforeSendAppends
=============================================================================
