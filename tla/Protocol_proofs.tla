--------------------------- MODULE Protocol_proofs ---------------------------
(***************************************************************************)
(* Proofs for buffers, receives and packets of any length: the stream a    *)
(* connection receives with implements a queue of bytes, and the protocol  *)
(* never loses the border of a packet in it.                               *)
(***************************************************************************)
EXTENDS Protocol, Stream_proofs, NaturalsInduction, WellFoundedInduction

-----------------------------------------------------------------------------
(* Reading.                                                                *)

(* What read and peek copy are the first bytes of the ring.                *)
LEMMA CopiedFirst ==
  ASSUME NEW s, IsStream(s), NEW n \in 1 .. RealLength(s)
  PROVE  Copied(s, n) = FirstBytes(s, n)
<1> DEFINE l == s.bufferlength
           right == l - s.head
<1>1. /\ l \in Nat \ {0}
      /\ s.head \in 0 .. l - 1
      /\ s.tail \in 0 .. l - 1
      /\ RealLength(s) \in 0 .. l - 1
      /\ n \in Nat /\ n >= 1 /\ n <= RealLength(s)
  BY StreamParts, LengthBound
<1>2. CASE s.head < s.tail \/ n < right
  <2>1. s.head + n <= l
    BY <1>1, <1>2 DEF RealLength
  <2> QED
    BY <1>1, <1>2, <2>1, InBuffer DEF Copied
<1>3. CASE ~(s.head < s.tail \/ n < right)
  <2>1. /\ right \in Nat
        /\ s.head + right = l
        /\ n - right \in 0 .. s.head
        /\ right + (n - right) = n
    BY <1>1, <1>3 DEF RealLength
  <2>2. s.head + right <= s.bufferlength /\ s.head + right = s.bufferlength
    BY <1>1, <2>1
  <2>3. FirstBytes(s, right) = [i \in 1 .. right |-> s.buffer[s.head + i - 1]]
    BY <2>1, <2>2, InBuffer
  <2> DEFINE k == n - right
  <2>4. FirstBytes(s, right) \o [i \in 1 .. k |-> s.buffer[i - 1]] = FirstBytes(s, right + k)
    <3>1. k \in 0 .. s.head
      BY <2>1
    <3> HIDE DEF k
    <3> QED
      BY <2>1, <2>2, <3>1, OverTheEnd
  <2>5. Copied(s, n) = [i \in 1 .. right |-> s.buffer[s.head + i - 1]]
                       \o [i \in 1 .. k |-> s.buffer[i - 1]]
    BY <1>3 DEF Copied
  <2> QED
    BY <2>1, <2>3, <2>4, <2>5
<1> QED
  BY <1>2, <1>3

(* skip takes them off.                                                    *)
LEMMA SkippedTaken ==
  ASSUME NEW s, IsStream(s), NEW n \in 0 .. RealLength(s)
  PROVE  Skipped(s, n) = Taken(s, n)
<1>1. /\ s.bufferlength \in Nat \ {0}
      /\ s.head \in 0 .. s.bufferlength - 1
      /\ RealLength(s) \in 0 .. s.bufferlength - 1
      /\ n \in Nat /\ n <= RealLength(s)
  BY StreamParts, LengthBound
<1>2. PICK l \in Nat \ {0}, h \in Nat, m \in Nat :
        l = s.bufferlength /\ h = s.head /\ m = n /\ h < l /\ m < l
  BY <1>1
<1>3. (h + m) % l = IF h + m < l THEN h + m ELSE h + m - l
  BY <1>2
<1> QED
  BY <1>2, <1>3 DEF Skipped, Taken

(* The two parts of a sequence.                                            *)
LEMMA PartsOfJoin ==
  ASSUME NEW p \in Seq(Bytes), NEW q \in Seq(Bytes)
  PROVE  /\ SubSeq(p \o q, 1, Len(p)) = p
         /\ SubSeq(p \o q, Len(p) + 1, Len(p \o q)) = q
OBVIOUS

LEMMA ReadSplits ==
  ASSUME NEW s, IsStream(s), NEW n \in 1 .. RealLength(s)
  PROVE  /\ IsStream(Skipped(s, n))
         /\ Copied(s, n) \in Seq(Bytes)
         /\ n \in 1 .. Len(Content(s))
         /\ Copied(s, n) = SubSeq(Content(s), 1, n)
         /\ Content(Skipped(s, n)) = SubSeq(Content(s), n + 1, Len(Content(s)))
<1> DEFINE f == FirstBytes(s, n)
           c == Content(Taken(s, n))
<1>1. n \in 0 .. RealLength(s) /\ n \in Nat
  BY LengthBound, StreamParts
<1>2. /\ IsStream(Taken(s, n))
      /\ f \in Seq(Bytes)
      /\ Content(s) = f \o c
  BY <1>1, TakenContent
<1>3. c \in Seq(Bytes)
  BY <1>2, ContentIsSeq
<1>4. Len(f) = n
  BY <1>1 DEF FirstBytes
<1>5. Copied(s, n) = f /\ Skipped(s, n) = Taken(s, n)
  BY <1>1, CopiedFirst, SkippedTaken
<1>6. Len(Content(s)) = RealLength(s)
  BY ContentIsSeq
<1> HIDE DEF f, c
<1>7. /\ SubSeq(f \o c, 1, Len(f)) = f
      /\ SubSeq(f \o c, Len(f) + 1, Len(f \o c)) = c
  BY <1>2, <1>3, PartsOfJoin
<1> QED
  BY <1>2, <1>4, <1>5, <1>6, <1>7 DEF c

-----------------------------------------------------------------------------
(* Receiving.                                                              *)

(* The bytes of a receive come behind the ones the ring holds, if they     *)
(* fit: before the end of the buffer, and one fewer than what is free.     *)
LEMMA ReceiveAppends ==
  ASSUME NEW s, IsStream(s), NEW data \in Seq(Bytes),
         s.tail + Len(data) <= s.bufferlength,
         RealLength(s) + Len(data) <= s.bufferlength - 1
  PROVE  /\ IsStream(Receive(s, data))
         /\ Content(Receive(s, data)) = Content(s) \o data
<1>1. PICK l \in Nat \ {0}, h \in Nat, a \in Nat, k \in Nat, rl \in Nat :
        /\ l = s.bufferlength /\ h = s.head /\ a = s.tail
        /\ k = Len(data) /\ rl = RealLength(s)
        /\ h < l /\ a < l
        /\ a + k <= l
        /\ rl + k <= l - 1
  <2>1. /\ s.bufferlength \in Nat \ {0} /\ s.head \in Nat /\ s.tail \in Nat
        /\ Len(data) \in Nat /\ RealLength(s) \in Nat
        /\ s.head < s.bufferlength /\ s.tail < s.bufferlength
    BY StreamParts, LengthBound
  <2> QED
    BY <2>1
<1>2. /\ h < l /\ a < l
      /\ a + k <= l
      /\ rl + k <= l - 1
      /\ rl = IF h <= a THEN a - h ELSE l - h + a
  BY <1>1 DEF RealLength
<1> DEFINE t == IF a + k < l THEN a + k ELSE 0
           b == [i \in 0 .. l - 1 |->
                  IF i >= a /\ i < a + k THEN data[i - a + 1] ELSE s.buffer[i]]
           r == Receive(s, data)
<1>3. /\ b \in [0 .. l - 1 -> Bytes]
      /\ r = [bufferlength |-> l, buffer |-> b, head |-> h, tail |-> t]
  <2> DEFINE p == Put(s, a, data)
  <2>1. /\ b \in [0 .. l - 1 -> Bytes]
        /\ p = [bufferlength |-> l, buffer |-> b, head |-> h, tail |-> a]
    <3> DEFINE c == PutBuffer(s, a, data)
    <3>1. a \in Int
      OBVIOUS
    <3>2. /\ c \in [0 .. s.bufferlength - 1 -> Bytes]
          /\ Put(s, a, data) = [bufferlength |-> s.bufferlength, buffer |-> c,
                                head |-> s.head, tail |-> s.tail]
      BY <3>1, PutParts
    <3>3. b = c
      BY <1>1 DEF PutBuffer
    <3> HIDE DEF b, c
    <3> QED
      BY <1>1, <3>2, <3>3
  <2> HIDE DEF b, t, r
  <2>2. p.tail = a
    BY <2>1
  <2>3. (a + k) % l = t
    <3>1. (a + k) % l = IF a + k < l THEN a + k ELSE a + k - l
      BY <1>2
    <3> QED
      BY <1>2, <3>1 DEF t
  <2>4. r = [p EXCEPT !.tail = (p.tail + Len(data)) % s.bufferlength]
    BY <1>1 DEF Receive, r
  <2>5. r = [p EXCEPT !.tail = t]
    <3> HIDE DEF p
    <3> QED
      BY <1>1, <2>2, <2>3, <2>4
  <2> HIDE DEF p
  <2> QED
    BY <2>1, <2>5
<1>4. t \in 0 .. l - 1 /\ h \in 0 .. l - 1
  BY <1>2
<1> DEFINE at(i) == IF h + i < l THEN h + i ELSE h + i - l
<1>5. ASSUME NEW i \in Nat, i < rl
      PROVE  at(i) \in 0 .. l - 1 /\ ~(at(i) >= a /\ at(i) < a + k)
  BY <1>2, <1>5
<1>6. ASSUME NEW i \in Nat, i >= 1, i <= k
      PROVE  /\ at(rl + i - 1) = a + i - 1
             /\ a + i - 1 \in 0 .. l - 1
             /\ a + i - 1 >= a
             /\ a + i - 1 < a + k
             /\ (a + i - 1) - a + 1 = i
  BY <1>2, <1>6
<1>7. ASSUME NEW i \in Nat, i < rl
      PROVE  b[at(i)] = ByteAt(s, i)
  <2>1. at(i) \in 0 .. l - 1 /\ ~(at(i) >= a /\ at(i) < a + k)
    BY <1>5, <1>7
  <2>2. b[at(i)] = s.buffer[at(i)]
    <3> HIDE DEF at
    <3> QED
      BY <2>1
  <2>3. i \in 0 .. l
    BY <1>2, <1>7
  <2> QED
    BY <1>1, <2>2, <2>3, ByteAtWrapped
<1>8. ASSUME NEW i \in Nat, i >= 1, i <= k
      PROVE  b[at(rl + i - 1)] = data[i]
  <2>1. b[a + i - 1] = data[(a + i - 1) - a + 1]
    <3>1. a + i - 1 \in 0 .. l - 1 /\ a + i - 1 >= a /\ a + i - 1 < a + k
      BY <1>6, <1>8
    <3> QED
      BY <3>1
  <2> QED
    BY <1>6, <1>8, <2>1
<1> HIDE DEF b, r, t
<1>9. IsStream(r)
  BY <1>3, <1>4, StreamOfParts
<1>10. RealLength(r) = rl + k
  <2>1. r.head = h /\ r.tail = t /\ r.bufferlength = l
    BY <1>3
  <2>2. (IF h <= t THEN t - h ELSE l - h + t) = rl + k
    BY <1>2 DEF t
  <2> QED
    BY <2>1, <2>2 DEF RealLength
<1>11. ASSUME NEW i \in Nat, i < rl + k
       PROVE  ByteAt(r, i) = b[at(i)]
  <2>1. r.head = h /\ r.buffer = b /\ r.bufferlength = l
    BY <1>3
  <2>2. i \in 0 .. l
    BY <1>2, <1>11
  <2> QED
    BY <1>9, <2>1, <2>2, ByteAtWrapped
<1> DEFINE c == Content(s)
           d == Content(r)
<1>12. /\ c \in Seq(Bytes)
       /\ Len(c) = rl
       /\ \A i \in 1 .. rl : c[i] = ByteAt(s, i - 1)
  BY <1>1, ContentIsSeq
<1>13. /\ d \in Seq(Bytes)
       /\ Len(d) = rl + k
       /\ \A i \in 1 .. rl + k : d[i] = ByteAt(r, i - 1)
  BY <1>9, <1>10, ContentIsSeq
<1> HIDE DEF c, d, at
<1>14. /\ c \o data \in Seq(Bytes)
       /\ Len(c \o data) = Len(c) + Len(data)
       /\ \A i \in 1 .. Len(c) : (c \o data)[i] = c[i]
       /\ \A i \in 1 .. Len(data) : (c \o data)[Len(c) + i] = data[i]
  BY <1>12, JoinedParts
<1>15. ASSUME NEW i \in 1 .. rl + k
       PROVE  d[i] = (c \o data)[i]
  <2>1. i - 1 \in Nat /\ i - 1 < rl + k
    OBVIOUS
  <2>2. d[i] = b[at(i - 1)]
    BY <1>11, <1>13, <2>1
  <2>3. CASE i <= rl
    <3>1. i - 1 < rl /\ i \in 1 .. rl
      BY <2>3
    <3> QED
      BY <1>7, <1>12, <1>14, <2>1, <2>2, <3>1
  <2>4. CASE ~(i <= rl)
    <3>1. PICK j \in Nat : i = rl + j /\ j >= 1 /\ j <= k
      <4>1. i - rl \in Nat /\ i = rl + (i - rl) /\ i - rl >= 1 /\ i - rl <= k
        BY <2>4
      <4> QED
        BY <4>1
    <3>2. b[at(rl + j - 1)] = data[j]
      BY <1>8, <3>1
    <3>3. (c \o data)[rl + j] = data[j]
      <4>1. j \in 1 .. Len(data)
        BY <1>1, <3>1
      <4> QED
        BY <1>12, <1>14, <4>1
    <3> QED
      BY <2>2, <3>1, <3>2, <3>3
  <2> QED
    BY <2>3, <2>4
<1>16. d = c \o data
  BY <1>1, <1>12, <1>13, <1>14, <1>15, SameContent
<1> QED
  BY <1>9, <1>16 DEF r, c, d

(* r is a stage of a fill: the bytes it has taken from wire are behind the *)
(* ones the stream held before.                                            *)
FillStage(r) ==
  /\ r = [stream |-> r.stream, taken |-> r.taken]
  /\ IsStream(r.stream)
  /\ r.taken \in 0 .. Len(wire)
  /\ Content(r.stream) = Content(stream) \o SubSeq(wire, 1, r.taken)

LEMMA StageOfParts ==
  ASSUME NEW s, IsStream(s), NEW n \in 0 .. Len(wire),
         Content(s) = Content(stream) \o SubSeq(wire, 1, n)
  PROVE  FillStage([stream |-> s, taken |-> n])
BY DEF FillStage

LEMMA MinOfTwo ==
  ASSUME NEW a \in Int, NEW b \in Int
  PROVE  Min({a, b}) \in Int /\ Min({a, b}) <= a /\ Min({a, b}) <= b
<1>1. \E x \in {a, b} : \A y \in {a, b} : x <= y
  BY a <= b \/ b <= a
<1>2. Min({a, b}) \in {a, b} /\ \A y \in {a, b} : Min({a, b}) <= y
  BY <1>1 DEF Min
<1> QED
  BY <1>2

LEMMA JoinedSubSeq ==
  ASSUME NEW w \in Seq(Bytes), NEW m \in 0 .. Len(w), NEW n \in m .. Len(w)
  PROVE  /\ SubSeq(w, 1, m) \in Seq(Bytes)
         /\ SubSeq(w, m + 1, n) \in Seq(Bytes)
         /\ Len(SubSeq(w, m + 1, n)) = n - m
         /\ SubSeq(w, 1, m) \o SubSeq(w, m + 1, n) = SubSeq(w, 1, n)
OBVIOUS

LEMMA JoinAssociates ==
  ASSUME NEW p \in Seq(Bytes), NEW q \in Seq(Bytes), NEW r \in Seq(Bytes)
  PROVE  (p \o q) \o r = p \o (q \o r)
OBVIOUS

(* One receive of at most free bytes.                                      *)
LEMMA ReceivesKeepStage ==
  ASSUME IsStream(stream), wire \in Seq(Bytes), NEW r, FillStage(r), NEW free \in Nat,
         r.stream.tail + free <= r.stream.bufferlength,
         RealLength(r.stream) + free <= r.stream.bufferlength - 1,
         NEW q \in Receives(r, free)
  PROVE  FillStage(q)
<1> DEFINE s == r.stream
           c == Content(stream)
<1>1. /\ IsStream(s)
      /\ r.taken \in 0 .. Len(wire)
      /\ Content(s) = c \o SubSeq(wire, 1, r.taken)
  BY DEF FillStage
<1>2. PICK n \in r.taken .. Min({r.taken + free, Len(wire)}) :
        q = [stream |-> Receive(s, SubSeq(wire, r.taken + 1, n)), taken |-> n]
  BY DEF Receives
<1>3. PICK t \in 0 .. Len(wire) : t = r.taken
  BY <1>1
<1>4. PICK m \in Nat : n = t + m /\ m <= free /\ t + m <= Len(wire)
  <2> DEFINE a == t + free
             b == Len(wire)
             least == Min({a, b})
  <2>1. a \in Int /\ b \in Int
    OBVIOUS
  <2>2. least \in Int /\ least <= a /\ least <= b
    <3> HIDE DEF a, b
    <3> QED
      BY <2>1, MinOfTwo
  <2>3. n \in t .. least
    BY <1>2, <1>3
  <2> HIDE DEF least
  <2>4. n - t \in Nat /\ n = t + (n - t) /\ n - t <= free /\ t + (n - t) <= Len(wire)
    BY <2>2, <2>3
  <2> QED
    BY <2>4
<1>5. t + m \in 0 .. Len(wire) /\ t + m \in t .. Len(wire) /\ (t + m) - t = m
  BY <1>4
<1> DEFINE data == SubSeq(wire, t + 1, t + m)
           old == SubSeq(wire, 1, t)
           new == SubSeq(wire, 1, t + m)
<1>6. /\ old \in Seq(Bytes)
      /\ data \in Seq(Bytes)
      /\ Len(data) = m
      /\ old \o data = new
  BY <1>5, JoinedSubSeq
<1>7. q = [stream |-> Receive(s, data), taken |-> t + m] /\ Content(s) = c \o old
  BY <1>1, <1>2, <1>3, <1>4
<1>8. c \in Seq(Bytes)
  BY ContentIsSeq
<1> HIDE DEF data, old, c
<1>9. s.tail + Len(data) <= s.bufferlength /\ RealLength(s) + Len(data) <= s.bufferlength - 1
  <2>a. /\ s.tail \in Nat
        /\ s.bufferlength \in Nat
        /\ RealLength(s) \in Nat
    <3> HIDE DEF s
    <3>1. /\ s.bufferlength \in Nat
          /\ s.tail \in 0 .. s.bufferlength - 1
          /\ RealLength(s) \in 0 .. s.bufferlength - 1
      BY <1>1, StreamParts, LengthBound
    <3> QED
      BY <3>1
  <2>1. PICK x \in Nat, y \in Nat, z \in Nat :
          x = s.tail /\ y = s.bufferlength /\ z = RealLength(s)
    BY <2>a
  <2>2. x + free <= y /\ z + free <= y - 1
    BY <2>1
  <2>3. x + m <= y /\ z + m <= y - 1
    BY <1>4, <2>2
  <2> QED
    BY <1>6, <2>1, <2>3
<1>10. IsStream(Receive(s, data)) /\ Content(Receive(s, data)) = Content(s) \o data
  <2> HIDE DEF s
  <2> QED
    BY <1>1, <1>6, <1>9, ReceiveAppends
<1>11. (c \o old) \o data = c \o (old \o data)
  BY <1>6, <1>8, JoinAssociates, ZenonT(40)
<1>12. Content(Receive(s, data)) = c \o new
  BY <1>6, <1>7, <1>10, <1>11
<1> DEFINE z == Receive(s, data)
<1>13. /\ IsStream(z)
       /\ Content(z) = Content(stream) \o SubSeq(wire, 1, t + m)
       /\ q = [stream |-> z, taken |-> t + m]
  BY <1>7, <1>10, <1>12 DEF c
<1> HIDE DEF z
<1> QED
  BY <1>5, <1>13, StageOfParts

(* What is free from tail on fits.                                         *)
LEMMA FreeFits ==
  ASSUME NEW s, IsStream(s)
  PROVE  /\ Free(s) \in Nat
         /\ s.tail + Free(s) <= s.bufferlength
         /\ RealLength(s) + Free(s) <= s.bufferlength - 1
<1>1. /\ s.bufferlength \in Nat \ {0}
      /\ s.head \in 0 .. s.bufferlength - 1
      /\ s.tail \in 0 .. s.bufferlength - 1
  BY StreamParts
<1> QED
  BY <1>1 DEF Free, RealLength

(* A fill, with one receive, two, or a resize and one more.                *)
LEMMA FilledKeepsStage ==
  ASSUME IsStream(stream), wire \in Seq(Bytes), NEW r \in Filled
  PROVE  FillStage(r)
<1> DEFINE begun == [stream |-> stream, taken |-> 0]
<1>1. FillStage(begun)
  <2> DEFINE c == Content(stream)
  <2>1. c \in Seq(Bytes)
    BY ContentIsSeq
  <2>2. SubSeq(wire, 1, 0) = <<>> /\ 0 \in 0 .. Len(wire)
    OBVIOUS
  <2>3. c \o <<>> = c
    <3> HIDE DEF c
    <3> QED
      BY <2>1
  <2>4. Content(stream) = Content(stream) \o SubSeq(wire, 1, 0)
    BY <2>2, <2>3
  <2> QED
    BY <2>2, <2>4, StageOfParts
<1>2. ASSUME NEW q, FillStage(q), NEW p \in Receives(q, Free(q.stream))
      PROVE  FillStage(p)
  <2>1. IsStream(q.stream)
    BY <1>2 DEF FillStage
  <2> DEFINE free == Free(q.stream)
  <2>2. /\ free \in Nat
        /\ q.stream.tail + free <= q.stream.bufferlength
        /\ RealLength(q.stream) + free <= q.stream.bufferlength - 1
    BY <2>1, FreeFits
  <2>3. p \in Receives(q, free)
    OBVIOUS
  <2> HIDE DEF free
  <2> QED
    BY <1>2, <2>2, <2>3, ReceivesKeepStage
<1>3. ASSUME NEW q \in Received
      PROVE  FillStage(q)
  <2>1. PICK p \in Receives(begun, Free(stream)) :
          q = p \/ q \in Receives(p, Free(p.stream))
    BY DEF Received
  <2>2. FillStage(p)
    <3>1. begun.stream = stream
      OBVIOUS
    <3> HIDE DEF begun
    <3> QED
      BY <1>1, <1>2, <2>1, <3>1
  <2> QED
    BY <1>2, <2>1, <2>2
<1>4. ASSUME NEW q, FillStage(q), NEW available \in Nat,
             NEW p \in Receives([q EXCEPT !.stream = Resized(q.stream, available + 1)], available)
      PROVE  FillStage(p)
  <2> DEFINE s == q.stream
             t == q.taken
             size == available + 1
             z == Resized(s, size)
             m == [q EXCEPT !.stream = z]
  <2>1. /\ q = [stream |-> s, taken |-> t]
        /\ IsStream(s)
        /\ t \in 0 .. Len(wire)
        /\ Content(s) = Content(stream) \o SubSeq(wire, 1, t)
    BY <1>4 DEF FillStage
  <2>2. p \in Receives(m, available)
    OBVIOUS
  <2>3. size \in Int /\ size = available + 1
    OBVIOUS
  <2> HIDE DEF s, t, size
  <2>4. /\ IsStream(z)
        /\ z.bufferlength >= s.bufferlength + size
        /\ z.tail = RealLength(s)
        /\ z.head = 0
        /\ Content(z) = Content(s)
    BY <2>1, <2>3, ResizedKeepsContent
  <2> HIDE DEF z
  <2>5. m = [stream |-> z, taken |-> t]
    BY <2>1
  <2> HIDE DEF m
  <2>6. FillStage(m)
    BY <2>1, <2>4, <2>5, StageOfParts
  <2>7. m.stream = z
    BY <2>5
  <2>8. z.tail + available <= z.bufferlength /\ RealLength(z) + available <= z.bufferlength - 1
    <3> HIDE DEF begun, FillStage
    <3>0. IsStream(s) /\ IsStream(z)
      BY <2>1, <2>4
    <3>1. PICK x \in Nat, y \in Nat, w \in Nat :
            x = z.tail /\ y = z.bufferlength /\ w = s.bufferlength
      <4>1. s.bufferlength \in Nat
        BY <3>0, StreamParts
      <4>2. z.tail \in Nat /\ z.bufferlength \in Nat
        BY <3>0, StreamParts
      <4> QED
        BY <4>1, <4>2
    <3>2. x < w
      BY <2>1, <2>4, <3>1, LengthBound
    <3>3. RealLength(z) = x
      BY <2>4, <3>1 DEF RealLength
    <3>4. y >= w + size
      BY <2>4, <3>1
    <3>5. x + available <= y /\ x + available <= y - 1
      BY <2>3, <3>2, <3>4
    <3> QED
      BY <3>1, <3>3, <3>5
  <2> QED
    BY <2>2, <2>6, <2>7, <2>8, ReceivesKeepStage
<1>5. PICK q \in Received :
        \/ r = q
        \/ \E available \in {n \in 1 .. Len(wire) - q.taken : ~TooLong(q, n)} :
             r \in Receives([q EXCEPT !.stream = Resized(q.stream, available + 1)], available)
  BY DEF Filled
<1>6. FillStage(q)
  BY <1>3
<1>7. CASE r = q
  BY <1>6, <1>7
<1>8. ASSUME NEW available \in {n \in 1 .. Len(wire) - q.taken : ~TooLong(q, n)},
             r \in Receives([q EXCEPT !.stream = Resized(q.stream, available + 1)], available)
      PROVE  FillStage(r)
  <2>1. available \in Nat
    OBVIOUS
  <2> QED
    BY <1>4, <1>6, <1>8, <2>1
<1> QED
  BY <1>5, <1>7, <1>8

-----------------------------------------------------------------------------
(* The steps of the connection and the operations of the queue.            *)

(* A fill is one receive of the queue.                                     *)
LEMMA FillReceives ==
  ASSUME StreamOK, Fill
  PROVE  /\ StreamOK'
         /\ \E n \in 1 .. Len(wire) : Q!Receive(n)
<1>1. PICK r \in Filled :
        /\ r.taken > 0
        /\ stream' = r.stream
        /\ wire' = SubSeq(wire, r.taken + 1, Len(wire))
        /\ got' = got
  BY DEF Fill
<1>2. FillStage(r)
  BY FilledKeepsStage DEF StreamOK
<1>3. PICK n \in 0 .. Len(wire) : n = r.taken
  BY <1>2 DEF FillStage
<1>4. n \in 1 .. Len(wire) /\ wire \in Seq(Bytes) /\ got \in Seq(Bytes)
  BY <1>1, <1>3 DEF StreamOK
<1>5. /\ IsStream(stream')
      /\ Content(stream') = Content(stream) \o SubSeq(wire, 1, n)
      /\ wire' = SubSeq(wire, n + 1, Len(wire))
  BY <1>1, <1>2, <1>3 DEF FillStage
<1>6. wire' \in Seq(Bytes)
  BY <1>4, <1>5
<1>7. Content(stream)' = Content(stream')
  BY DEF Content, RealLength, ByteAt
<1>8. Q!Receive(n)
  BY <1>1, <1>5, <1>7 DEF Q!Receive, Q!First, Q!Rest
<1>9. StreamOK'
  BY <1>1, <1>4, <1>5, <1>6 DEF StreamOK, IsStream
<1> QED
  BY <1>4, <1>8, <1>9

(* read copies the first bytes and takes them off.                         *)
LEMMA ReadReads ==
  ASSUME StreamOK, NEW n \in Nat \ {0}, Read(n)
  PROVE  /\ StreamOK'
         /\ \E m \in 1 .. Len(Content(stream)) : Q!Read(m)
<1>1. IsStream(stream) /\ wire \in Seq(Bytes) /\ got \in Seq(Bytes)
  BY DEF StreamOK
<1>2. /\ n <= RealLength(stream)
      /\ got' = Copied(stream, n)
      /\ stream' = Skipped(stream, n)
      /\ wire' = wire
  BY DEF Read
<1>3. n \in 1 .. RealLength(stream)
  <2>1. RealLength(stream) \in Int
    BY <1>1, LengthBound, StreamParts
  <2> QED
    BY <1>2, <2>1
<1>4. /\ IsStream(stream')
      /\ got' \in Seq(Bytes)
      /\ n \in 1 .. Len(Content(stream))
      /\ got' = SubSeq(Content(stream), 1, n)
      /\ Content(stream') = SubSeq(Content(stream), n + 1, Len(Content(stream)))
  BY <1>1, <1>2, <1>3, ReadSplits
<1>5. Content(stream)' = Content(stream')
  BY DEF Content, RealLength, ByteAt
<1>6. Q!Read(n)
  BY <1>2, <1>4, <1>5 DEF Q!Read, Q!First, Q!Rest
<1>7. StreamOK'
  BY <1>1, <1>2, <1>4 DEF StreamOK, IsStream
<1> QED
  BY <1>4, <1>6, <1>7

(* skip takes them off.                                                    *)
LEMMA SkipSkips ==
  ASSUME StreamOK, NEW n \in Nat \ {0}, Skip(n)
  PROVE  /\ StreamOK'
         /\ \E m \in 1 .. Len(Content(stream)) : Q!Skip(m)
<1>1. IsStream(stream) /\ wire \in Seq(Bytes) /\ got \in Seq(Bytes)
  BY DEF StreamOK
<1>2. /\ n <= RealLength(stream)
      /\ stream' = Skipped(stream, n)
      /\ wire' = wire
      /\ got' = got
  BY DEF Skip
<1>3. n \in 1 .. RealLength(stream)
  <2>1. RealLength(stream) \in Int
    BY <1>1, LengthBound, StreamParts
  <2> QED
    BY <1>2, <2>1
<1>4. /\ IsStream(stream')
      /\ n \in 1 .. Len(Content(stream))
      /\ Content(stream') = SubSeq(Content(stream), n + 1, Len(Content(stream)))
  BY <1>1, <1>2, <1>3, ReadSplits
<1>5. Content(stream)' = Content(stream')
  BY DEF Content, RealLength, ByteAt
<1>6. Q!Skip(n)
  BY <1>2, <1>4, <1>5 DEF Q!Skip, Q!Rest
<1>7. StreamOK'
  BY <1>1, <1>2, <1>4 DEF StreamOK, IsStream
<1> QED
  BY <1>4, <1>6, <1>7

(* A packet arrives.                                                       *)
LEMMA FrameArrives ==
  ASSUME StreamOK, NEW p \in Packets, Arrive(Frame(p))
  PROVE  StreamOK' /\ Q!Arrive
<1> DEFINE d == Frame(p)
<1>1. d \in Seq(Bytes) /\ d # <<>>
  <2>1. Frame(p) \in Seq(Bytes) /\ Body[p] \in Seq(Bytes)
    BY ProtocolAssumption
  <2>2. <<p, Len(Body[p])>> \o Body[p] # <<>>
    BY <2>1
  <2> QED
    BY <2>1, <2>2 DEF Frame
<1>2. wire' = wire \o d /\ stream' = stream /\ got' = got
  BY DEF Arrive
<1> HIDE DEF d
<1>3. wire \in Seq(Bytes) /\ IsStream(stream) /\ got \in Seq(Bytes)
  BY DEF StreamOK
<1>4. /\ wire' \in Seq(Bytes)
      /\ Len(wire') > Len(wire)
      /\ SubSeq(wire', 1, Len(wire)) = wire
  BY <1>1, <1>2, <1>3
<1>5. StreamOK'
  BY <1>2, <1>3, <1>4 DEF StreamOK, IsStream
<1>6. Content(stream)' = Content(stream)
  BY <1>2 DEF Content, RealLength, ByteAt
<1> QED
  BY <1>2, <1>4, <1>5, <1>6 DEF Q!Arrive, Q!First

(* The connection is cleared.                                              *)
LEMMA ClearClears ==
  ASSUME StreamOK, Clear
  PROVE  StreamOK' /\ Q!Clear
<1>1. IsStream(stream)
  BY DEF StreamOK
<1>2. stream' = Cleared(stream) /\ wire' = <<>> /\ got' = <<>>
  BY DEF Clear
<1>3. IsStream(stream') /\ Content(stream') = <<>>
  BY <1>1, <1>2, ClearedIsEmpty
<1>4. Content(stream)' = Content(stream')
  BY DEF Content, RealLength, ByteAt
<1>5. wire' \in Seq(Bytes) /\ got' \in Seq(Bytes)
  BY <1>2
<1>6. StreamOK'
  BY <1>3, <1>5 DEF StreamOK, IsStream
<1> QED
  BY <1>2, <1>3, <1>4, <1>6 DEF Q!Clear

LEMMA StreamRests ==
  ASSUME StreamOK, UNCHANGED <<stream, wire, got>>
  PROVE  StreamOK' /\ UNCHANGED <<wire, Content(stream), got>>
BY DEF StreamOK, IsStream, Content, RealLength, ByteAt

(* The length in a header that has come whole is a number.                 *)
LEMMA HeaderParts ==
  ASSUME StreamOK, Complete
  PROVE  Header[2] \in Nat
<1>1. IsStream(stream)
  BY DEF StreamOK
<1>2. HeaderSize \in 1 .. RealLength(stream)
  <2>1. RealLength(stream) \in Int
    BY <1>1, LengthBound, StreamParts
  <2> QED
    BY <2>1 DEF Complete, HeaderSize
<1>3. /\ Header \in Seq(Bytes)
      /\ Header = SubSeq(Content(stream), 1, HeaderSize)
      /\ HeaderSize \in 1 .. Len(Content(stream))
  BY <1>1, <1>2, ReadSplits DEF Header
<1>4. Content(stream) \in Seq(Bytes)
  BY <1>1, ContentIsSeq
<1> DEFINE c == Content(stream)
           h == Header
<1>5. h = SubSeq(c, 1, 2) /\ c \in Seq(Bytes) /\ Len(c) >= 2
  BY <1>3, <1>4 DEF HeaderSize
<1> HIDE DEF c, h
<1>6. h[2] \in Bytes
  BY <1>5
<1> QED
  BY <1>6, ProtocolAssumption DEF h

(* What the steps keep: the types of the stream, and what a packet has     *)
(* left is a number.                                                       *)
RingInv == StreamOK /\ left \in Nat

LEMMA StepOfQueue ==
  ASSUME RingInv, [Next]_vars
  PROVE  RingInv' /\ [Q!Next]_<<wire, Content(stream), got>>
<1>1. StreamOK /\ left \in Nat
  BY DEF RingInv
<1>2. ASSUME NEW p \in Packets, SendPacket(p)
      PROVE  RingInv' /\ Q!Next
  <2>1. Arrive(Frame(p)) /\ left' = left
    BY <1>2 DEF SendPacket, progress
  <2> QED
    BY <1>1, <2>1, FrameArrives DEF RingInv, Q!Next
<1>3. CASE Input
  <2>1. left' = left /\ (Fill \/ UNCHANGED <<stream, wire, got>>)
    BY <1>3 DEF Input
  <2>2. CASE Fill
    <3>1. StreamOK' /\ \E n \in 1 .. Len(wire) : Q!Receive(n)
      BY <1>1, <2>2, FillReceives
    <3> QED
      BY <1>1, <2>1, <3>1 DEF RingInv, Q!Next
  <2>3. CASE UNCHANGED <<stream, wire, got>>
    BY <1>1, <2>1, <2>3, StreamRests DEF RingInv
  <2> QED
    BY <2>1, <2>2, <2>3
<1>4. CASE CommandHeader
  <2>1. Complete /\ Skip(HeaderSize) /\ left' = Header[2]
    BY <1>4 DEF CommandHeader
  <2>2. HeaderSize \in Nat \ {0}
    BY DEF HeaderSize
  <2>3. StreamOK' /\ \E n \in 1 .. Len(Content(stream)) : Q!Skip(n)
    BY <1>1, <2>1, <2>2, SkipSkips
  <2>4. left' \in Nat
    BY <1>1, <2>1, HeaderParts
  <2> QED
    BY <2>3, <2>4 DEF RingInv, Q!Next
<1>5. CASE ReadField
  <2>1. PICK n \in 1 .. left : Read(n) /\ left' = left - n
    BY <1>5 DEF ReadField
  <2>2. n \in Nat \ {0} /\ left' \in Nat
    BY <1>1, <2>1
  <2>3. StreamOK' /\ \E m \in 1 .. Len(Content(stream)) : Q!Read(m)
    BY <1>1, <2>1, <2>2, ReadReads
  <2> QED
    BY <2>2, <2>3 DEF RingInv, Q!Next
<1>6. CASE Execute
  <2>1. UNCHANGED <<stream, wire, got>> /\ left' = left
    BY <1>6 DEF Execute
  <2> QED
    BY <1>1, <2>1, StreamRests DEF RingInv
<1>7. CASE CommandEnd
  <2>1. UNCHANGED <<stream, wire, got>> /\ left' = left
    BY <1>7 DEF CommandEnd
  <2> QED
    BY <1>1, <2>1, StreamRests DEF RingInv
<1>8. CASE Disconnect
  <2>1. Clear /\ left' = 0
    BY <1>8 DEF Disconnect
  <2> QED
    BY <1>1, <2>1, ClearClears DEF RingInv, Q!Next
<1>9. CASE UNCHANGED vars
  <2>1. UNCHANGED <<stream, wire, got>> /\ left' = left
    BY <1>9 DEF vars, progress
  <2> QED
    BY <1>1, <2>1, StreamRests DEF RingInv
<1> QED
  BY <1>2, <1>3, <1>4, <1>5, <1>6, <1>7, <1>8, <1>9 DEF Next

(* For buffers, receives and packets of any length, the ring of a          *)
(* connection is a queue of bytes: over the end of the buffer, over a      *)
(* resize in the middle of a fill and over a connection that is given      *)
(* away, the protocol reads what the peer sent.                            *)
THEOREM ProtocolReadsQueue == Spec => ImplementsByteQueue
<1>1. Init => RingInv /\ Q!Init
  <2> SUFFICES ASSUME Init
               PROVE  RingInv /\ Q!Init
    OBVIOUS
  <2>1. stream = New(BufferLength) /\ wire = <<>> /\ got = <<>> /\ left = 0
    BY DEF Init, InputInit
  <2>2. BufferLength \in Nat \ {0}
    BY StreamBasicAssumption
  <2>3. IsStream(stream) /\ Content(stream) = <<>>
    BY <2>1, <2>2, NewIsEmpty
  <2>4. wire \in Seq(Bytes) /\ got \in Seq(Bytes)
    BY <2>1
  <2> QED
    BY <2>1, <2>3, <2>4 DEF RingInv, StreamOK, Q!Init
<1>2. RingInv /\ [Next]_vars => RingInv' /\ [Q!Next]_<<wire, Content(stream), got>>
  BY StepOfQueue
<1> QED
  BY <1>1, <1>2, PTL DEF Spec, ImplementsByteQueue, Q!Spec

-----------------------------------------------------------------------------
(* What FlattenSeq makes of a sequence of sequences of bytes.              *)

(* What holds of some number holds of a least one: induction over the      *)
(* parts of a sequence.                                                    *)
LEMMA LeastNumber ==
  ASSUME NEW T, T \subseteq Nat, T # {}
  PROVE  \E n \in T : \A m \in T : n <= m
<1>1. PICK x \in T : \A y \in T : ~(<<y, x>> \in OpToRel(<, Nat))
  BY NatLessThanWellFounded, WFMin
<1>2. \A y \in T : ~(y < x)
  <2>1. SUFFICES ASSUME NEW y \in T, y < x
                 PROVE  <<y, x>> \in OpToRel(<, Nat)
    BY <1>1, Zenon
  <2>2. <<y, x>> \in Nat \X Nat
    OBVIOUS
  <2>3. <<y, x>>[1] < <<y, x>>[2]
    BY <2>1
  <2> QED
    BY <2>2, <2>3, Zenon DEF OpToRel
<1> QED
  BY <1>2

(* f joins the first parts of s, for each number of parts up to n. *)
IsRun(f, s, n) == \A i \in 1 .. n : f[i] = IF i = 1 THEN s[i] ELSE f[i - 1] \o s[i]

LEMMA RunExists ==
  ASSUME NEW n \in Nat, NEW s, \A i \in 1 .. n : s[i] \in Seq(Bytes)
  PROVE  \E f \in [1 .. n -> Seq(Bytes)] : IsRun(f, s, n)
<1> DEFINE T == {m \in 0 .. n : ~\E f \in [1 .. m -> Seq(Bytes)] : IsRun(f, s, m)}
<1>1. SUFFICES ASSUME T # {} PROVE FALSE
  OBVIOUS
<1>2. PICK m \in T : \A l \in T : m <= l
  <2>1. T \subseteq Nat
    OBVIOUS
  <2> HIDE DEF T
  <2> QED
    BY <1>1, <2>1, LeastNumber
<1>3. m \in 0 .. n
  OBVIOUS
<1>4. CASE m = 0
  <2>1. [i \in 1 .. 0 |-> <<>>] \in [1 .. 0 -> Seq(Bytes)]
    OBVIOUS
  <2>2. IsRun([i \in 1 .. 0 |-> <<>>], s, 0)
    BY DEF IsRun
  <2> QED
    BY <1>4, <2>1, <2>2
<1>5. CASE m # 0
  <2>1. m - 1 \in 0 .. n /\ m - 1 \notin T
    BY <1>2, <1>3, <1>5
  <2>2. PICK f \in [1 .. m - 1 -> Seq(Bytes)] : IsRun(f, s, m - 1)
    BY <2>1
  <2> DEFINE x == IF m = 1 THEN s[m] ELSE f[m - 1] \o s[m]
             g == [i \in 1 .. m |-> IF i = m THEN x ELSE f[i]]
  <2>3. x \in Seq(Bytes)
    <3>1. m \in 1 .. n /\ s[m] \in Seq(Bytes)
      BY <1>3, <1>5
    <3>2. m # 1 => f[m - 1] \in Seq(Bytes)
      BY <1>3, <1>5
    <3> QED
      BY <3>1, <3>2
  <2> HIDE DEF x
  <2>4. g \in [1 .. m -> Seq(Bytes)]
    BY <1>3, <2>3
  <2>5. \A i \in 1 .. m : g[i] = IF i = 1 THEN s[i] ELSE g[i - 1] \o s[i]
    <3> SUFFICES ASSUME NEW i \in 1 .. m
                 PROVE  g[i] = IF i = 1 THEN s[i] ELSE g[i - 1] \o s[i]
      OBVIOUS
    <3>1. CASE i = m
      <4>1. i # 1 => g[i - 1] = f[i - 1]
        BY <1>3, <3>1
      <4> QED
        BY <3>1, <4>1 DEF x
    <3>2. CASE i # m
      <4>1. i \in 1 .. m - 1 /\ g[i] = f[i] /\ (i # 1 => g[i - 1] = f[i - 1])
        BY <1>3, <3>2
      <4>2. f[i] = IF i = 1 THEN s[i] ELSE f[i - 1] \o s[i]
        BY <2>2, <4>1 DEF IsRun
      <4> QED
        BY <4>1, <4>2
    <3> QED
      BY <3>1, <3>2
  <2>6. IsRun(g, s, m)
    <3> HIDE DEF g
    <3> QED
      BY <2>5 DEF IsRun
  <2> QED
    BY <2>4, <2>6
<1> QED
  BY <1>4, <1>5

Agree(f, g, n) == \A i \in 1 .. n : f[i] = g[i]

LEMMA RunsAgree ==
  ASSUME NEW n \in Nat, NEW m \in Nat, n <= m, NEW s, NEW t, Agree(s, t, n),
         NEW f, NEW g, IsRun(f, s, n), IsRun(g, t, m)
  PROVE  Agree(f, g, n)
<1> DEFINE T == {i \in 1 .. n : f[i] # g[i]}
<1>1. SUFFICES ASSUME T # {} PROVE FALSE
  BY DEF Agree
<1>2. PICK i \in T : \A l \in T : i <= l
  <2>1. T \subseteq Nat
    OBVIOUS
  <2> HIDE DEF T
  <2> QED
    BY <1>1, <2>1, LeastNumber
<1>3. i \in 1 .. n /\ i \in 1 .. m /\ f[i] # g[i]
  OBVIOUS
<1>4. /\ f[i] = IF i = 1 THEN s[i] ELSE f[i - 1] \o s[i]
      /\ g[i] = IF i = 1 THEN t[i] ELSE g[i - 1] \o t[i]
  BY <1>3 DEF IsRun, Agree
<1>5. i # 1 => f[i - 1] = g[i - 1]
  <2> SUFFICES ASSUME i # 1 PROVE i - 1 \in 1 .. n /\ i - 1 \notin T
    OBVIOUS
  <2> QED
    BY <1>2, <1>3
<1>6. s[i] = t[i]
  BY <1>3 DEF Agree
<1> QED
  BY <1>3, <1>4, <1>5, <1>6

LEMMA FlattenIsRun ==
  ASSUME NEW n \in Nat \ {0}, NEW s, s \in Seq(Seq(Bytes)), Len(s) = n
  PROVE  \E f \in [1 .. n -> Seq(Bytes)] : IsRun(f, s, n) /\ FlattenSeq(s) = f[n]
<1>1. \A i \in 1 .. n : s[i] \in Seq(Bytes)
  OBVIOUS
<1>2. PICK f \in [1 .. n -> Seq(Bytes)] : IsRun(f, s, n)
  BY <1>1, RunExists
<1> DEFINE join(g) == [i \in 1 .. n |-> IF i = 1 THEN s[i] ELSE g[i - 1] \o s[i]]
           flatten == CHOOSE g : g = join(g)
<1>3. IsRun(flatten, s, n)
  <2>1. f = join(f)
    BY <1>2 DEF IsRun
  <2>2. flatten = join(flatten)
    <3> HIDE DEF join
    <3> QED
      BY <2>1
  <2> HIDE DEF flatten
  <2> QED
    BY <2>2 DEF IsRun
<1>4. FlattenSeq(s) = flatten[n]
  BY DEF FlattenSeq
<1> HIDE DEF flatten
<1>5. flatten[n] = f[n]
  <2>1. n \in Nat /\ n <= n /\ Agree(s, s, n) /\ n \in 1 .. n
    BY DEF Agree
  <2>2. Agree(flatten, f, n)
    BY <1>2, <1>3, <2>1, RunsAgree
  <2> QED
    BY <2>1, <2>2 DEF Agree
<1> QED
  BY <1>2, <1>4, <1>5

LEMMA FlattenEmpty == FlattenSeq(<<>>) = <<>>
BY DEF FlattenSeq

LEMMA FlattenAppend ==
  ASSUME NEW s \in Seq(Seq(Bytes)), NEW x \in Seq(Bytes)
  PROVE  FlattenSeq(Append(s, x)) = FlattenSeq(s) \o x
<1> DEFINE t == Append(s, x)
<1>1. PICK n \in Nat, m \in Nat \ {0} : Len(s) = n /\ n + 1 = m
  OBVIOUS
<1>2. /\ t \in Seq(Seq(Bytes)) /\ Len(t) = m /\ t[m] = x
      /\ \A i \in 1 .. n : s[i] = t[i]
  BY <1>1
<1> HIDE DEF t
<1>3. PICK g \in [1 .. m -> Seq(Bytes)] : IsRun(g, t, m) /\ FlattenSeq(t) = g[m]
  BY <1>1, <1>2, FlattenIsRun
<1>4. g[m] = IF n = 0 THEN x ELSE g[n] \o x
  <2>1. g[m] = IF m = 1 THEN t[m] ELSE g[m - 1] \o t[m]
    <3>1. m \in 1 .. m
      OBVIOUS
    <3> QED
      BY <1>3, <3>1 DEF IsRun
  <2>2. m - 1 = n /\ (m = 1 <=> n = 0)
    BY <1>1
  <2> QED
    BY <1>2, <2>1, <2>2
<1>5. CASE n = 0
  <2>1. FlattenSeq(s) = <<>>
    <3>1. s = <<>>
      BY <1>1, <1>5
    <3> QED
      BY <3>1, FlattenEmpty
  <2>2. <<>> \o x = x
    OBVIOUS
  <2> QED
    BY <1>3, <1>4, <1>5, <2>1, <2>2 DEF t
<1>6. CASE n # 0
  <2>1. PICK f \in [1 .. n -> Seq(Bytes)] : IsRun(f, s, n) /\ FlattenSeq(s) = f[n]
    <3>1. n \in Nat \ {0}
      BY <1>6
    <3> QED
      BY <1>1, <3>1, FlattenIsRun
  <2>2. f[n] = g[n]
    <3>1. n \in 1 .. n /\ n <= m /\ m \in Nat
      BY <1>1, <1>6
    <3>2. Agree(f, g, n)
      <4>1. Agree(s, t, n)
        BY <1>2 DEF Agree
      <4> QED
        BY <1>3, <2>1, <3>1, <4>1, RunsAgree
    <3> QED
      BY <3>1, <3>2 DEF Agree
  <2> QED
    BY <1>3, <1>4, <1>6, <2>1, <2>2 DEF t
<1> QED
  BY <1>5, <1>6

LEMMA FlattenTail ==
  ASSUME NEW s \in Seq(Seq(Bytes)), s # <<>>
  PROVE  /\ s[1] \in Seq(Bytes)
         /\ FlattenSeq(Tail(s)) \in Seq(Bytes)
         /\ FlattenSeq(s) = s[1] \o FlattenSeq(Tail(s))
<1> DEFINE t == Tail(s)
<1>1. PICK n \in Nat, m \in Nat \ {0} : Len(s) = m /\ n + 1 = m
  <2>1. Len(s) \in Nat \ {0} /\ Len(s) - 1 \in Nat /\ (Len(s) - 1) + 1 = Len(s)
    OBVIOUS
  <2> QED
    BY <2>1
<1>2. /\ t \in Seq(Seq(Bytes)) /\ Len(t) = n
      /\ \A i \in 1 .. n : t[i] = s[i + 1]
      /\ s[1] \in Seq(Bytes)
      /\ \A i \in 1 .. m : s[i] \in Seq(Bytes)
  <2>1. t \in Seq(Seq(Bytes))
    OBVIOUS
  <2>2. Len(t) = n
    BY <1>1
  <2>3. \A i \in 1 .. n : t[i] = s[i + 1]
    BY <1>1
  <2>4. \A i \in 1 .. m : s[i] \in Seq(Bytes)
    BY <1>1
  <2>5. s[1] \in Seq(Bytes)
    BY <1>1, <2>4
  <2> QED
    BY <2>1, <2>2, <2>3, <2>4, <2>5
<1> HIDE DEF t
<1>3. PICK f \in [1 .. m -> Seq(Bytes)] : IsRun(f, s, m) /\ FlattenSeq(s) = f[m]
  BY <1>1, FlattenIsRun
<1>4. \A i \in 1 .. m : f[i] = IF i = 1 THEN s[i] ELSE f[i - 1] \o s[i]
  BY <1>3, Zenon DEF IsRun
<1>5. CASE n = 0
  <2>1. FlattenSeq(t) = <<>>
    <3>1. t = <<>>
      BY <1>2, <1>5
    <3> QED
      BY <3>1, FlattenEmpty
  <2>2. f[m] = s[1]
    BY <1>1, <1>4, <1>5
  <2>3. s[1] \o <<>> = s[1] /\ <<>> \in Seq(Bytes)
    BY <1>2
  <2> QED
    BY <1>2, <1>3, <2>1, <2>2, <2>3 DEF t
<1>6. CASE n # 0
  <2>1. PICK g \in [1 .. n -> Seq(Bytes)] : IsRun(g, t, n) /\ FlattenSeq(t) = g[n]
    <3>1. n \in Nat \ {0}
      BY <1>6
    <3> QED
      BY <1>2, <3>1, FlattenIsRun
  <2>2. \A i \in 1 .. n : g[i] = IF i = 1 THEN t[i] ELSE g[i - 1] \o t[i]
    <3>1. n \in Nat \ {0}
      BY <1>6
    <3> QED
      BY <2>1, <3>1, Zenon DEF IsRun
  <2> DEFINE T == {i \in 1 .. n : f[i + 1] # s[1] \o g[i]}
  <2>3. T = {}
    <3> SUFFICES ASSUME T # {} PROVE FALSE
      OBVIOUS
    <3>1. PICK i \in T : \A l \in T : i <= l
      <4>1. T \subseteq Nat
        OBVIOUS
      <4> HIDE DEF T
      <4> QED
        BY <4>1, LeastNumber
    <3>2. PICK j \in 1 .. m : j = i + 1 /\ j # 1 /\ j - 1 = i
      BY <1>1
    <3>3. i \in 1 .. n /\ f[j] = f[i] \o s[j] /\ t[i] = s[j] /\ f[j] # s[1] \o g[i]
      BY <1>2, <1>4, <3>2
    <3>4. CASE i = 1
      <4>1. 1 \in 1 .. m /\ 1 \in 1 .. n
        BY <1>1, <3>3, <3>4
      <4>2. f[i] = s[1] /\ g[i] = t[i]
        BY <1>4, <2>2, <3>4, <4>1
      <4> QED
        BY <3>3, <4>2
    <3>5. CASE i # 1
      <4>1. PICK h \in 1 .. n : h = i - 1 /\ h + 1 = i /\ h \notin T
        <5>1. i - 1 \in 1 .. n /\ (i - 1) + 1 = i
          BY <3>3, <3>5
        <5>2. i - 1 \notin T
          <6> HIDE DEF T
          <6> QED
            BY <3>1, <3>3
        <5> HIDE DEF T
        <5> QED
          BY <5>1, <5>2
      <4>2. f[i] = s[1] \o g[h]
        BY <4>1
      <4>3. g[i] = g[h] \o t[i]
        BY <2>2, <3>3, <3>5, <4>1
      <4>4. g[h] \in Seq(Bytes) /\ t[i] \in Seq(Bytes)
        BY <1>2, <2>1, <3>2, <3>3, <4>1
      <4>5. (s[1] \o g[h]) \o t[i] = s[1] \o (g[h] \o t[i])
        BY <1>2, <4>4, JoinAssociates, ZenonT(40)
      <4>6. f[j] = (s[1] \o g[h]) \o t[i]
        BY <3>3, <4>2, Zenon
      <4>7. s[1] \o g[i] = s[1] \o (g[h] \o t[i])
        BY <4>3, Zenon
      <4> QED
        BY <3>3, <4>5, <4>6, <4>7, Zenon
    <3> QED
      BY <3>4, <3>5
  <2>4. f[m] = s[1] \o g[n]
    <3>1. n \in 1 .. n
      BY <1>6
    <3> QED
      BY <1>1, <2>3, <3>1
  <2>5. g[n] \in Seq(Bytes)
    BY <1>6, <2>1
  <2> QED
    BY <1>2, <1>3, <2>1, <2>4, <2>5 DEF t
<1> QED
  BY <1>5, <1>6

-----------------------------------------------------------------------------
(* The packets behind one another.                                         *)

FramesOf(q) == [i \in 1 .. Len(q) |-> Frame(q[i])]

Behind(q) == FlattenSeq(FramesOf(q))

LEMMA FrameParts ==
  ASSUME NEW p \in Packets
  PROVE  /\ Frame(p) \in Seq(Bytes)
         /\ Body[p] \in Seq(Bytes)
         /\ <<p, Len(Body[p])>> \in Seq(Bytes)
         /\ Frame(p) = <<p, Len(Body[p])>> \o Body[p]
<1>1. Frame(p) \in Seq(Bytes) /\ Body[p] \in Seq(Bytes)
  BY ProtocolAssumption
<1>2. Frame(p) = <<p, Len(Body[p])>> \o Body[p]
  BY DEF Frame
<1> DEFINE f == Frame(p)
           b == Body[p]
           n == Len(b)
<1>3. Len(f) = 2 + n /\ f[1] = p /\ f[2] = n /\ n \in Nat
  BY <1>1, <1>2
<1>4. \A i \in 1 .. Len(f) : f[i] \in Bytes
  BY <1>1
<1>5. p \in Bytes /\ n \in Bytes
  <2>1. 1 \in 1 .. Len(f) /\ 2 \in 1 .. Len(f)
    BY <1>3
  <2> HIDE DEF f, n
  <2> QED
    BY <1>3, <1>4, <2>1
<1> QED
  BY <1>1, <1>2, <1>5

LEMMA FramesAreSeqs ==
  ASSUME NEW q \in Seq(Packets)
  PROVE  /\ FramesOf(q) \in Seq(Seq(Bytes))
         /\ Len(FramesOf(q)) = Len(q)
         /\ \A i \in 1 .. Len(q) : FramesOf(q)[i] = Frame(q[i])
<1>1. \A i \in 1 .. Len(q) : Frame(q[i]) \in Seq(Bytes)
  <2>1. \A i \in 1 .. Len(q) : q[i] \in Packets
    OBVIOUS
  <2> QED
    BY <2>1, ProtocolAssumption
<1> QED
  BY <1>1 DEF FramesOf

LEMMA SameParts ==
  ASSUME NEW s \in Seq(Seq(Bytes)), NEW t \in Seq(Seq(Bytes)), NEW n \in Nat,
         Len(s) = n, Len(t) = n, \A i \in 1 .. n : s[i] = t[i]
  PROVE  s = t
OBVIOUS

LEMMA BehindNone == Behind(<<>>) = <<>>
<1>1. FramesOf(<<>>) = <<>>
  BY DEF FramesOf
<1> QED
  BY <1>1, FlattenEmpty DEF Behind

LEMMA BehindMore ==
  ASSUME NEW q \in Seq(Packets), NEW p \in Packets
  PROVE  Behind(Append(q, p)) = Behind(q) \o Frame(p)
<1> DEFINE r == Append(q, p)
           s == FramesOf(q)
           t == FramesOf(r)
           u == Append(s, Frame(p))
<1>1. PICK n \in Nat, m \in Nat : Len(q) = n /\ n + 1 = m
  OBVIOUS
<1>2. r \in Seq(Packets) /\ Len(r) = m /\ r[m] = p /\ \A i \in 1 .. n : r[i] = q[i]
  BY <1>1
<1>3. Frame(p) \in Seq(Bytes)
  BY ProtocolAssumption
<1> HIDE DEF r
<1>4. /\ s \in Seq(Seq(Bytes)) /\ Len(s) = n
      /\ \A i \in 1 .. n : s[i] = Frame(q[i])
  BY <1>1, FramesAreSeqs
<1>5. /\ t \in Seq(Seq(Bytes)) /\ Len(t) = m
      /\ \A i \in 1 .. m : t[i] = Frame(r[i])
  BY <1>2, FramesAreSeqs
<1> HIDE DEF s, t
<1>6. u \in Seq(Seq(Bytes)) /\ Len(u) = m /\ u[m] = Frame(p)
      /\ \A i \in 1 .. n : u[i] = s[i]
  BY <1>1, <1>3, <1>4
<1> HIDE DEF u
<1>7. \A i \in 1 .. m : t[i] = u[i]
  <2> SUFFICES ASSUME NEW i \in 1 .. m PROVE t[i] = u[i]
    OBVIOUS
  <2>1. i = m \/ i \in 1 .. n
    BY <1>1
  <2> QED
    BY <1>2, <1>4, <1>5, <1>6, <2>1
<1>8. t = u
  BY <1>5, <1>6, <1>7, SameParts
<1> QED
  BY <1>3, <1>4, <1>8, FlattenAppend DEF Behind, r, s, t, u

LEMMA BehindFirst ==
  ASSUME NEW q \in Seq(Packets), q # <<>>
  PROVE  /\ Behind(Tail(q)) \in Seq(Bytes)
         /\ Behind(q) = Frame(Head(q)) \o Behind(Tail(q))
<1> DEFINE r == Tail(q)
           s == FramesOf(q)
           t == FramesOf(r)
<1>1. PICK n \in Nat, m \in Nat : Len(q) = m /\ n + 1 = m
  <2>1. Len(q) \in Nat \ {0} /\ Len(q) - 1 \in Nat /\ (Len(q) - 1) + 1 = Len(q)
    OBVIOUS
  <2> QED
    BY <2>1
<1>2. r \in Seq(Packets) /\ Len(r) = n /\ \A i \in 1 .. n : r[i] = q[i + 1]
  <2>1. r \in Seq(Packets)
    OBVIOUS
  <2>2. Len(r) = n
    BY <1>1
  <2>3. \A i \in 1 .. n : r[i] = q[i + 1]
    BY <1>1
  <2> QED
    BY <2>1, <2>2, <2>3
<1>3. Head(q) = q[1]
  OBVIOUS
<1> HIDE DEF r
<1>4. /\ s \in Seq(Seq(Bytes)) /\ Len(s) = m
      /\ \A i \in 1 .. m : s[i] = Frame(q[i])
  BY <1>1, FramesAreSeqs
<1>5. /\ t \in Seq(Seq(Bytes)) /\ Len(t) = n
      /\ \A i \in 1 .. n : t[i] = Frame(r[i])
  BY <1>2, FramesAreSeqs
<1> HIDE DEF s, t
<1>6. s # <<>> /\ s[1] = Frame(Head(q))
  BY <1>1, <1>3, <1>4
<1> DEFINE u == Tail(s)
<1>7. u \in Seq(Seq(Bytes)) /\ Len(u) = n /\ \A i \in 1 .. n : u[i] = s[i + 1]
  <2>1. u \in Seq(Seq(Bytes))
    BY <1>4, <1>6
  <2>2. Len(u) = n
    BY <1>1, <1>4, <1>6
  <2>3. \A i \in 1 .. n : u[i] = s[i + 1]
    BY <1>1, <1>4, <1>6
  <2> QED
    BY <2>1, <2>2, <2>3
<1> HIDE DEF u
<1>8. \A i \in 1 .. n : u[i] = t[i]
  <2> SUFFICES ASSUME NEW i \in 1 .. n PROVE u[i] = t[i]
    OBVIOUS
  <2>1. i + 1 \in 1 .. m
    BY <1>1
  <2> QED
    BY <1>2, <1>4, <1>5, <1>7, <2>1
<1>9. u = t
  BY <1>5, <1>7, <1>8, SameParts
<1>10. FlattenSeq(u) \in Seq(Bytes) /\ FlattenSeq(s) = s[1] \o FlattenSeq(u)
  BY <1>4, <1>6, FlattenTail DEF u
<1> QED
  BY <1>6, <1>9, <1>10 DEF Behind, r, s, t

LEMMA BehindIsSeq ==
  ASSUME NEW q \in Seq(Packets)
  PROVE  Behind(q) \in Seq(Bytes)
<1>1. CASE q = <<>>
  <2>1. <<>> \in Seq(Bytes)
    OBVIOUS
  <2> QED
    BY <1>1, <2>1, BehindNone, Zenon
<1>2. CASE q # <<>>
  <2>1. Behind(Tail(q)) \in Seq(Bytes) /\ Behind(q) = Frame(Head(q)) \o Behind(Tail(q))
    BY <1>2, BehindFirst
  <2>2. Frame(Head(q)) \in Seq(Bytes)
    <3>1. Head(q) \in Packets
      BY <1>2
    <3> QED
      BY <3>1, ProtocolAssumption
  <2> HIDE DEF Behind
  <2> QED
    BY <2>1, <2>2
<1> QED
  BY <1>1, <1>2

-----------------------------------------------------------------------------
(* The bytes that are held, and the ones that are expected.                *)

LEMMA TakeJoin ==
  ASSUME NEW p \in Seq(Bytes), NEW q \in Seq(Bytes), NEW n \in 0 .. Len(p)
  PROVE  /\ SubSeq(p \o q, 1, n) = SubSeq(p, 1, n)
         /\ SubSeq(p \o q, n + 1, Len(p \o q)) = SubSeq(p, n + 1, Len(p)) \o q
         /\ n <= Len(p \o q)
<1> DEFINE a == SubSeq(p, 1, n)
           b == SubSeq(p, n + 1, Len(p))
<1>1. a \in Seq(Bytes) /\ b \in Seq(Bytes) /\ a \o b = p /\ Len(a) = n
  <2>1. a \in Seq(Bytes) /\ Len(a) = n
    OBVIOUS
  <2>2. b \in Seq(Bytes) /\ a \o b = SubSeq(p, 1, Len(p))
    <3>1. Len(p) \in n .. Len(p)
      OBVIOUS
    <3> QED
      BY <3>1, JoinedSubSeq
  <2>3. SubSeq(p, 1, Len(p)) = p
    OBVIOUS
  <2> QED
    BY <2>1, <2>2, <2>3
<1> HIDE DEF a, b
<1>2. (a \o b) \o q = a \o (b \o q)
  <2>1. a \in Seq(Bytes) /\ b \in Seq(Bytes)
    BY <1>1
  <2> QED
    BY <2>1, JoinAssociates, SMTT(30)
<1> DEFINE r == b \o q
<1>3. r \in Seq(Bytes) /\ p \o q = a \o r
  <2>1. r \in Seq(Bytes)
    BY <1>1
  <2>2. p \o q = a \o r
    BY <1>1, <1>2, Zenon DEF r
  <2> QED
    BY <2>1, <2>2
<1> HIDE DEF r
<1>4. SubSeq(a \o r, 1, Len(a)) = a /\ SubSeq(a \o r, Len(a) + 1, Len(a \o r)) = r
  BY <1>1, <1>3, PartsOfJoin
<1>5. n <= Len(p \o q)
  OBVIOUS
<1> QED
  BY <1>1, <1>3, <1>4, <1>5 DEF a, b, r

LEMMA DropDrop ==
  ASSUME NEW b \in Seq(Bytes), NEW l \in 0 .. Len(b), NEW n \in 0 .. l
  PROVE  LET c == SubSeq(b, Len(b) - l + 1, Len(b))
         IN  /\ c \in Seq(Bytes)
             /\ Len(c) = l
             /\ SubSeq(c, n + 1, Len(c)) = SubSeq(b, Len(b) - (l - n) + 1, Len(b))
OBVIOUS

LEMMA WholeSubSeq ==
  ASSUME NEW b \in Seq(Bytes)
  PROVE  /\ SubSeq(b, 1, Len(b)) = b
         /\ SubSeq(b, Len(b) + 1, Len(b)) = <<>>
         /\ <<>> \o b = b
OBVIOUS

Held == Content(stream) \o wire

LEMMA ContentNext == Content(stream)' = Content(stream')
BY DEF Content, RealLength, ByteAt

LEMMA FillHolds ==
  ASSUME StreamOK, Fill
  PROVE  Held' = Held
<1>1. PICK n \in 1 .. Len(wire) : Q!Receive(n)
  BY FillReceives
<1> DEFINE c == Content(stream)
           p == SubSeq(wire, 1, n)
           q == SubSeq(wire, n + 1, Len(wire))
<1>2. Content(stream)' = c \o p /\ wire' = q
  BY <1>1 DEF Q!Receive, Q!First, Q!Rest
<1>3. c \in Seq(Bytes) /\ wire \in Seq(Bytes)
  BY ContentIsSeq DEF StreamOK
<1>4. n \in 0 .. Len(wire) /\ Len(wire) \in n .. Len(wire)
  BY <1>3
<1>5. p \in Seq(Bytes) /\ q \in Seq(Bytes) /\ p \o q = SubSeq(wire, 1, Len(wire))
  BY <1>3, <1>4, JoinedSubSeq
<1>6. SubSeq(wire, 1, Len(wire)) = wire
  BY <1>3
<1> HIDE DEF c, p, q
<1>7. (c \o p) \o q = c \o (p \o q)
  BY <1>3, <1>5, JoinAssociates, ZenonT(40)
<1> QED
  BY <1>2, <1>5, <1>6, <1>7 DEF Held, c

(* What n bytes that go make of the bytes that are held. *)
Dropped(n) ==
  /\ n <= Len(Held)
  /\ Copied(stream, n) = SubSeq(Held, 1, n)
  /\ Held' = SubSeq(Held, n + 1, Len(Held))
  /\ RealLength(stream') = RealLength(stream) - n

LEMMA DropHolds ==
  ASSUME StreamOK, NEW n \in Nat \ {0}, n <= RealLength(stream),
         stream' = Skipped(stream, n), wire' = wire
  PROVE  Dropped(n)
<1>1. IsStream(stream) /\ wire \in Seq(Bytes)
  BY DEF StreamOK
<1>2. PICK l \in Nat : RealLength(stream) = l /\ n <= l
  <2>1. RealLength(stream) \in Nat
    BY <1>1, LengthBound, StreamParts
  <2> QED
    BY <2>1
<1> DEFINE c == Content(stream)
           d == Content(stream')
<1>3. /\ IsStream(stream')
      /\ Copied(stream, n) = SubSeq(c, 1, n)
      /\ d = SubSeq(c, n + 1, Len(c))
  <2>1. n \in 1 .. RealLength(stream)
    BY <1>2
  <2> QED
    BY <1>1, <2>1, ReadSplits
<1>4. c \in Seq(Bytes) /\ Len(c) = l
  BY <1>1, <1>2, ContentIsSeq
<1>5. Len(d) = RealLength(stream')
  BY <1>3, ContentIsSeq
<1>6. Content(stream)' = d
  BY ContentNext
<1> HIDE DEF c, d
<1>7. Len(d) = l - n
  BY <1>2, <1>3, <1>4
<1>8. /\ SubSeq(c \o wire, 1, n) = SubSeq(c, 1, n)
      /\ SubSeq(c \o wire, n + 1, Len(c \o wire)) = SubSeq(c, n + 1, Len(c)) \o wire
      /\ n <= Len(c \o wire)
  <2>1. n \in 0 .. Len(c)
    BY <1>2, <1>4
  <2> QED
    BY <1>1, <1>4, <2>1, TakeJoin
<1>9. Held = c \o wire /\ Held' = d \o wire
  BY <1>6 DEF Held, c
<1> QED
  BY <1>2, <1>3, <1>5, <1>7, <1>8, <1>9 DEF Dropped

Idle == phase # "body" => Expected = Behind(pending)

Reading ==
  phase = "body" /\ pending # <<>> =>
    LET body == Body[Head(pending)]
    IN  Expected = SubSeq(body, Len(body) - left + 1, Len(body)) \o Behind(Tail(pending))

LEMMA ExpectedIs == pending \in Seq(Packets) => Idle /\ Reading
<1> SUFFICES ASSUME pending \in Seq(Packets) PROVE Idle /\ Reading
  OBVIOUS
<1>1. Idle
  BY DEF Idle, Expected, Behind, FramesOf
<1>2. ASSUME pending # <<>>
      PROVE  [i \in 1 .. Len(pending) - 1 |-> Frame(pending[i + 1])] = FramesOf(Tail(pending))
  <2>1. Len(Tail(pending)) = Len(pending) - 1
    BY <1>2
  <2>2. \A i \in 1 .. Len(pending) - 1 : Tail(pending)[i] = pending[i + 1]
    BY <1>2
  <2> QED
    BY <2>1, <2>2 DEF FramesOf
<1>3. Reading
  BY <1>2 DEF Reading, Expected, Behind
<1> QED
  BY <1>1, <1>3

LEMMA ExpectedNext == (pending \in Seq(Packets))' => (Idle /\ Reading)'
  BY ExpectedIs, PTL

LEMMA IdleNext ==
  ASSUME Idle', phase' # "body"
  PROVE  Expected' = Behind(pending')
BY DEF Idle, Behind, FramesOf, Frame, FlattenSeq

LEMMA ReadingNext ==
  ASSUME Reading', phase' = "body", pending' # <<>>
  PROVE  LET body == Body[Head(pending')]
         IN  Expected' = SubSeq(body, Len(body) - left' + 1, Len(body)) \o Behind(Tail(pending'))
BY DEF Reading, Behind, FramesOf, Frame, FlattenSeq

-----------------------------------------------------------------------------
(* The steps of the protocol.                                              *)

(* The packet that is being read is the first one, its body has come and   *)
(* the tick may execute it.                                                *)
BodyInv ==
  /\ pending # <<>>
  /\ left <= Len(Body[Head(pending)])
  /\ left <= RealLength(stream)
  /\ count < ExecuteCount

FrameInv == TypeOK /\ Framed /\ (phase = "body" => BodyInv)

LEMMA Types ==
  ASSUME FrameInv
  PROVE  /\ StreamOK /\ IsStream(stream) /\ wire \in Seq(Bytes)
         /\ Content(stream) \in Seq(Bytes)
         /\ Held \in Seq(Bytes)
         /\ pending \in Seq(Packets)
         /\ phase \in {"input", "command", "body"}
         /\ left \in Nat
         /\ count \in 0 .. ExecuteCount
         /\ ExecuteCount \in Nat \ {0}
         /\ Held = Expected
<1>1. StreamOK /\ IsStream(stream) /\ wire \in Seq(Bytes)
  BY DEF FrameInv, TypeOK, StreamOK
<1>2. Content(stream) \in Seq(Bytes)
  BY <1>1, ContentIsSeq
<1>3. Held \in Seq(Bytes)
  BY <1>1, <1>2 DEF Held
<1>4. Held = Expected
  BY DEF FrameInv, Framed, Held
<1> QED
  BY <1>1, <1>2, <1>3, <1>4, ProtocolAssumption DEF FrameInv, TypeOK

(* What the first packet has left.                                         *)
LEMMA FirstLeft ==
  ASSUME NEW q \in Seq(Packets), q # <<>>, NEW l \in Nat, l <= Len(Body[Head(q)])
  PROVE  LET body == Body[Head(q)]
         IN  /\ Head(q) \in Packets
             /\ Tail(q) \in Seq(Packets)
             /\ body \in Seq(Bytes)
             /\ l \in 0 .. Len(body)
             /\ SubSeq(body, Len(body) - l + 1, Len(body)) \in Seq(Bytes)
             /\ Len(SubSeq(body, Len(body) - l + 1, Len(body))) = l
<1>1. Head(q) \in Packets /\ Tail(q) \in Seq(Packets)
  OBVIOUS
<1>2. PICK body \in Seq(Bytes) : body = Body[Head(q)]
  BY <1>1, ProtocolAssumption
<1>3. l \in 0 .. Len(body)
  BY <1>2
<1>4. /\ SubSeq(body, Len(body) - l + 1, Len(body)) \in Seq(Bytes)
      /\ Len(SubSeq(body, Len(body) - l + 1, Len(body))) = l
  BY <1>3
<1> QED
  BY <1>1, <1>2, <1>3, <1>4

LEMMA SendKeeps ==
  ASSUME FrameInv, NEW p \in Packets, SendPacket(p)
  PROVE  FrameInv'
<1> DEFINE f == Frame(p)
<1>1. /\ StreamOK /\ wire \in Seq(Bytes) /\ Content(stream) \in Seq(Bytes)
      /\ pending \in Seq(Packets) /\ Held = Expected /\ Held \in Seq(Bytes)
      /\ left \in Nat /\ phase \in {"input", "command", "body"} /\ count \in 0 .. ExecuteCount
  BY Types
<1>2. /\ pending' = Append(pending, p)
      /\ stream' = stream /\ wire' = wire \o f
      /\ Arrive(f)
      /\ phase' = phase /\ left' = left /\ count' = count
  BY DEF SendPacket, Arrive, progress
<1>3. f \in Seq(Bytes)
  BY ProtocolAssumption
<1>4. StreamOK'
  BY <1>1, <1>2, FrameArrives
<1> HIDE DEF f
<1>5. pending' \in Seq(Packets) /\ (pending \in Seq(Packets))'
  BY <1>1, <1>2
<1>6. TypeOK'
  BY <1>1, <1>2, <1>4, <1>5 DEF TypeOK
<1>7. Held' = Held \o f
  <2>1. Content(stream)' = Content(stream)
    BY <1>2, ContentNext
  <2>2. Held' = Content(stream) \o (wire \o f)
    <3>1. wire' = wire \o f
      BY <1>2
    <3> QED
      BY <2>1, <3>1, Zenon DEF Held
  <2>3. (Content(stream) \o wire) \o f = Content(stream) \o (wire \o f)
    BY <1>1, <1>3, JoinAssociates, SMTT(30)
  <2> QED
    BY <2>2, <2>3 DEF Held
<1>8. Idle /\ Reading /\ Idle' /\ Reading'
  BY <1>1, <1>5, ExpectedIs, ExpectedNext
<1>9. CASE phase # "body"
  <2>1. Expected = Behind(pending) /\ Expected' = Behind(pending')
    BY <1>2, <1>8, <1>9, IdleNext DEF Idle
  <2>2. Behind(pending') = Behind(pending) \o f
    BY <1>1, <1>2, BehindMore DEF f
  <2>3. Framed'
    <3>1. Held' = Expected'
      BY <1>1, <1>7, <2>1, <2>2, Zenon
    <3> QED
      BY <3>1, Zenon DEF Framed, Held
  <2> QED
    BY <1>2, <1>6, <1>9, <2>3 DEF FrameInv
<1>10. CASE phase = "body"
  <2> DEFINE r == Tail(pending)
             body == Body[Head(pending)]
             x == SubSeq(body, Len(body) - left + 1, Len(body))
  <2>1. BodyInv
    BY <1>10 DEF FrameInv
  <2>2. pending # <<>> /\ left <= Len(body)
    BY <2>1 DEF BodyInv
  <2>3. /\ pending' # <<>>
        /\ Head(pending') = Head(pending)
        /\ Tail(pending') = Append(r, p)
    BY <1>1, <1>2, <2>2, SMTT(30)
  <2>4. r \in Seq(Packets) /\ x \in Seq(Bytes)
    BY <1>1, <2>2, FirstLeft
  <2>5. Behind(r) \in Seq(Bytes) /\ Behind(Append(r, p)) = Behind(r) \o f
    BY <2>4, BehindIsSeq, BehindMore DEF f
  <2>6. Expected = x \o Behind(r)
    BY <1>8, <1>10, <2>2 DEF Reading
  <2>7. Expected' = x \o Behind(Append(r, p))
    BY <1>2, <1>8, <1>10, <2>3, ReadingNext
  <2> HIDE DEF x, r
  <2>8. (x \o Behind(r)) \o f = x \o (Behind(r) \o f)
    BY <1>3, <2>4, <2>5, JoinAssociates, SMTT(30)
  <2>9. Framed'
    BY <1>1, <1>7, <2>5, <2>6, <2>7, <2>8 DEF Framed, Held
  <2>10. BodyInv'
    BY <1>2, <2>1, <2>3 DEF BodyInv, RealLength
  <2> QED
    BY <1>6, <2>9, <2>10 DEF FrameInv
<1> QED
  BY <1>9, <1>10

LEMMA InputKeeps ==
  ASSUME FrameInv, Input
  PROVE  FrameInv'
<1>1. /\ StreamOK /\ pending \in Seq(Packets) /\ Held = Expected
      /\ left \in Nat /\ count \in 0 .. ExecuteCount
  BY Types
<1>2. /\ phase = "input" /\ phase' = "command"
      /\ pending' = pending /\ left' = left /\ count' = count
      /\ Fill \/ UNCHANGED <<stream, wire, got>>
  BY DEF Input
<1>3. StreamOK' /\ Held' = Held
  <2>1. CASE Fill
    BY <1>1, <2>1, FillReceives, FillHolds
  <2>2. CASE UNCHANGED <<stream, wire, got>>
    BY <1>1, <2>2, StreamRests DEF Held
  <2> QED
    BY <1>2, <2>1, <2>2
<1>4. TypeOK' /\ (pending \in Seq(Packets))'
  BY <1>1, <1>2, <1>3 DEF TypeOK
<1>5. Expected = Behind(pending) /\ Expected' = Behind(pending)
  <2>1. phase # "body" /\ phase' # "body"
    BY <1>2
  <2>2. Idle /\ Idle'
    BY <1>1, <1>4, ExpectedIs, ExpectedNext
  <2> QED
    BY <1>2, <2>1, <2>2, IdleNext DEF Idle
<1>6. Framed'
  BY <1>1, <1>3, <1>5 DEF Framed, Held
<1> QED
  BY <1>2, <1>4, <1>6 DEF FrameInv

(* A packet that has come is taken up: its header says where it ends.      *)
LEMMA HeaderKeeps ==
  ASSUME FrameInv, CommandHeader
  PROVE  FrameInv'
<1>1. /\ StreamOK /\ IsStream(stream) /\ pending \in Seq(Packets) /\ Held = Expected
      /\ Held \in Seq(Bytes) /\ left \in Nat /\ count \in 0 .. ExecuteCount
      /\ ExecuteCount \in Nat
  BY Types
<1>2. /\ phase = "command" /\ phase' = "body" /\ count < ExecuteCount
      /\ RealLength(stream) >= 2 /\ RealLength(stream) >= 2 + Header[2]
      /\ Skip(2) /\ stream' = Skipped(stream, 2) /\ wire' = wire
      /\ left' = Header[2] /\ pending' = pending /\ count' = count
  BY DEF CommandHeader, Complete, HeaderSize, Skip
<1>3. RealLength(stream) \in Nat
  BY <1>1, LengthBound, StreamParts
<1>4. Dropped(2)
  BY <1>1, <1>2, <1>3, DropHolds
<1>5. StreamOK'
  <2>1. 2 \in Nat \ {0}
    OBVIOUS
  <2> QED
    BY <1>1, <1>2, <2>1, SkipSkips
<1>6. Expected = Behind(pending)
  <2>1. phase # "body" /\ Idle
    BY <1>1, <1>2, ExpectedIs
  <2> QED
    BY <2>1 DEF Idle
<1>7. pending # <<>>
  <2> SUFFICES ASSUME pending = <<>> PROVE FALSE
    OBVIOUS
  <2>1. Held = <<>>
    BY <1>1, <1>6, BehindNone
  <2> QED
    BY <1>4, <2>1 DEF Dropped
<1> DEFINE p == Head(pending)
           body == Body[p]
           header == <<p, Len(body)>>
           r == Behind(Tail(pending))
<1>8. /\ p \in Packets /\ Tail(pending) \in Seq(Packets)
  BY <1>1, <1>7
<1>9. /\ header \in Seq(Bytes) /\ body \in Seq(Bytes)
      /\ r \in Seq(Bytes) /\ Held = (header \o body) \o r
  <2>1. /\ body \in Seq(Bytes) /\ header \in Seq(Bytes) /\ Frame(p) = header \o body
    BY <1>8, FrameParts
  <2>2. r \in Seq(Bytes) /\ Behind(pending) = Frame(p) \o r
    BY <1>1, <1>7, BehindFirst
  <2> QED
    BY <1>1, <1>6, <2>1, <2>2
<1>10. Len(header) = 2 /\ header[2] = Len(body) /\ Len(body) \in Nat
  BY <1>9
<1> HIDE DEF header, body, r
<1>11. /\ Held = header \o (body \o r) /\ body \o r \in Seq(Bytes)
  <2>1. (header \o body) \o r = header \o (body \o r)
    BY <1>9, JoinAssociates, SMTT(30)
  <2>2. body \o r \in Seq(Bytes)
    BY <1>9
  <2> QED
    BY <1>9, <2>1, <2>2
<1>12. SubSeq(Held, 1, 2) = header /\ SubSeq(Held, 3, Len(Held)) = body \o r
  <2>1. /\ SubSeq(header \o (body \o r), 1, Len(header)) = header
        /\ SubSeq(header \o (body \o r), Len(header) + 1, Len(header \o (body \o r))) = body \o r
    BY <1>9, <1>11, PartsOfJoin
  <2>2. Len(header) + 1 = 3
    BY <1>10
  <2> QED
    BY <1>10, <1>11, <2>1, <2>2
<1>13. Header = header /\ Held' = body \o r
  BY <1>4, <1>12 DEF Dropped, Header, HeaderSize
<1>14. left' = Len(body)
  BY <1>2, <1>10, <1>13
<1>15. TypeOK' /\ (pending \in Seq(Packets))'
  BY <1>1, <1>2, <1>5, <1>10, <1>14 DEF TypeOK
<1>16. Expected' = body \o r
  <2>1. Reading'
    BY <1>15, ExpectedNext
  <2>2. Expected' = SubSeq(body, Len(body) - left' + 1, Len(body)) \o r
    BY <1>2, <1>7, <2>1, ReadingNext DEF body, r
  <2>3. Len(body) - left' + 1 = 1 /\ SubSeq(body, 1, Len(body)) = body
    BY <1>9, <1>10, <1>14
  <2> QED
    BY <2>2, <2>3
<1>17. Framed'
  BY <1>13, <1>16 DEF Framed, Held
<1>18. BodyInv'
  <2>1. left' <= RealLength(stream')
    BY <1>2, <1>3, <1>4, <1>10, <1>13, <1>14 DEF Dropped
  <2>2. RealLength(stream)' = RealLength(stream')
    BY DEF RealLength
  <2>3. pending' # <<>> /\ left' <= Len(Body[Head(pending')]) /\ count' < ExecuteCount
    BY <1>2, <1>7, <1>10, <1>14 DEF body
  <2> QED
    BY <2>1, <2>2, <2>3 DEF BodyInv
<1> QED
  BY <1>15, <1>17, <1>18 DEF FrameInv

LEMMA FieldKeeps ==
  ASSUME FrameInv, ReadField
  PROVE  FrameInv'
<1>1. /\ StreamOK /\ IsStream(stream) /\ pending \in Seq(Packets) /\ Held = Expected
      /\ Held \in Seq(Bytes) /\ left \in Nat /\ count \in 0 .. ExecuteCount
  BY Types
<1>2. PICK n \in 1 .. left : Read(n) /\ left' = left - n
  BY DEF ReadField
<1>3. /\ phase = "body" /\ phase' = "body" /\ pending' = pending /\ count' = count
      /\ stream' = Skipped(stream, n) /\ wire' = wire /\ n <= RealLength(stream)
      /\ n \in Nat \ {0} /\ left' \in Nat /\ n \in 0 .. left
  BY <1>1, <1>2 DEF ReadField, Read
<1>4. StreamOK'
  BY <1>1, <1>2, <1>3, ReadReads
<1>5. Dropped(n)
  BY <1>1, <1>3, DropHolds
<1>6. BodyInv
  BY <1>3 DEF FrameInv
<1> DEFINE body == Body[Head(pending)]
           x == SubSeq(body, Len(body) - left + 1, Len(body))
           y == SubSeq(body, Len(body) - (left - n) + 1, Len(body))
           r == Behind(Tail(pending))
<1>7. pending # <<>> /\ left <= Len(body)
  BY <1>6 DEF BodyInv
<1>8. /\ Tail(pending) \in Seq(Packets) /\ body \in Seq(Bytes) /\ left \in 0 .. Len(body)
      /\ x \in Seq(Bytes) /\ Len(x) = left
  BY <1>1, <1>7, FirstLeft
<1>9. r \in Seq(Bytes)
  BY <1>8, BehindIsSeq
<1>10. SubSeq(x, n + 1, Len(x)) = y
  <2> HIDE DEF body
  <2> QED
    BY <1>3, <1>8, DropDrop
<1>11. TypeOK' /\ (pending \in Seq(Packets))'
  BY <1>1, <1>3, <1>4 DEF TypeOK
<1>12. Held = x \o r
  <2>1. Reading
    BY <1>1, ExpectedIs
  <2> QED
    BY <1>1, <1>3, <1>7, <2>1 DEF Reading
<1>13. Expected' = y \o r
  <2>1. Reading'
    BY <1>11, ExpectedNext
  <2>2. Expected' = SubSeq(body, Len(body) - left' + 1, Len(body)) \o r
    BY <1>3, <1>7, <2>1, ReadingNext
  <2> QED
    BY <1>2, <2>2
<1> HIDE DEF x, y, r
<1>14. SubSeq(x \o r, n + 1, Len(x \o r)) = SubSeq(x, n + 1, Len(x)) \o r
  <2>1. n \in 0 .. Len(x)
    BY <1>3, <1>8
  <2> QED
    BY <1>8, <1>9, <2>1, TakeJoin
<1>15. Held' = y \o r
  BY <1>5, <1>10, <1>12, <1>14 DEF Dropped
<1>16. Framed'
  BY <1>13, <1>15 DEF Framed, Held
<1>17. BodyInv'
  <2>1. RealLength(stream)' = RealLength(stream')
    BY DEF RealLength
  <2>2. RealLength(stream) \in Nat /\ Len(body) \in Nat
    BY <1>1, <1>8, LengthBound, StreamParts
  <2>3. left' <= RealLength(stream') /\ left' <= Len(body)
    BY <1>1, <1>2, <1>3, <1>5, <1>6, <1>7, <2>2 DEF Dropped, BodyInv
  <2> QED
    BY <1>3, <1>6, <2>1, <2>3 DEF BodyInv
<1> QED
  BY <1>11, <1>16, <1>17 DEF FrameInv

LEMMA ExecuteKeeps ==
  ASSUME FrameInv, Execute
  PROVE  FrameInv'
<1>1. /\ StreamOK /\ pending \in Seq(Packets) /\ Held = Expected
      /\ left \in Nat /\ count \in 0 .. ExecuteCount /\ ExecuteCount \in Nat \ {0}
  BY Types
<1>2. /\ phase = "body" /\ left = 0 /\ pending' = Tail(pending)
      /\ UNCHANGED <<stream, wire, got>> /\ left' = left
      /\ phase' \in {"command", "input"}
      /\ count' = count + 1 \/ count' = 0
  BY DEF Execute
<1>3. StreamOK' /\ Held' = Held
  BY <1>1, <1>2, StreamRests DEF Held
<1>4. BodyInv
  BY <1>2 DEF FrameInv
<1>5. pending # <<>> /\ count < ExecuteCount
  BY <1>4 DEF BodyInv
<1>6. pending' \in Seq(Packets) /\ (pending \in Seq(Packets))'
  BY <1>1, <1>2, <1>5
<1>7. TypeOK'
  BY <1>1, <1>2, <1>3, <1>5, <1>6 DEF TypeOK
<1> DEFINE body == Body[Head(pending)]
           r == Behind(Tail(pending))
<1>8. Held = r
  <2>1. Reading
    BY <1>1, ExpectedIs
  <2>2. Expected = SubSeq(body, Len(body) - left + 1, Len(body)) \o r
    BY <1>2, <1>5, <2>1 DEF Reading
  <2>3. body \in Seq(Bytes) /\ r \in Seq(Bytes)
    <3>1. Head(pending) \in Packets /\ Tail(pending) \in Seq(Packets)
      BY <1>1, <1>5
    <3> QED
      BY <3>1, BehindIsSeq, ProtocolAssumption
  <2> HIDE DEF body, r
  <2>4. SubSeq(body, Len(body) - left + 1, Len(body)) = <<>>
    <3>1. Len(body) - left + 1 = Len(body) + 1
      BY <1>2, <2>3
    <3> QED
      BY <2>3, <3>1, WholeSubSeq
  <2>5. <<>> \o r = r
    BY <2>3, WholeSubSeq
  <2> QED
    BY <1>1, <2>2, <2>4, <2>5
<1>9. Expected' = r
  <2>1. Idle' /\ phase' # "body"
    BY <1>2, <1>6, ExpectedNext
  <2> QED
    BY <1>2, <2>1, IdleNext
<1>10. Framed'
  BY <1>3, <1>8, <1>9 DEF Framed, Held
<1> QED
  BY <1>2, <1>7, <1>10 DEF FrameInv

LEMMA EndKeeps ==
  ASSUME FrameInv, CommandEnd
  PROVE  FrameInv'
<1>1. /\ StreamOK /\ pending \in Seq(Packets) /\ Held = Expected
      /\ left \in Nat /\ ExecuteCount \in Nat
  BY Types
<1>2. /\ phase = "command" /\ phase' = "input" /\ count' = 0
      /\ UNCHANGED <<stream, wire, got>> /\ pending' = pending /\ left' = left
  BY DEF CommandEnd
<1>3. StreamOK' /\ Held' = Held
  BY <1>1, <1>2, StreamRests DEF Held
<1>4. TypeOK' /\ (pending \in Seq(Packets))'
  BY <1>1, <1>2, <1>3 DEF TypeOK
<1>5. Expected = Behind(pending) /\ Expected' = Behind(pending)
  <2>1. phase # "body" /\ phase' # "body"
    BY <1>2
  <2>2. Idle /\ Idle'
    BY <1>1, <1>4, ExpectedIs, ExpectedNext
  <2> QED
    BY <1>2, <2>1, <2>2, IdleNext DEF Idle
<1>6. Framed'
  BY <1>1, <1>3, <1>5 DEF Framed, Held
<1> QED
  BY <1>2, <1>4, <1>6 DEF FrameInv

LEMMA DisconnectKeeps ==
  ASSUME FrameInv, Disconnect
  PROVE  FrameInv'
<1>1. StreamOK /\ ExecuteCount \in Nat
  BY Types
<1>2. /\ Clear /\ pending' = <<>> /\ phase' = "input" /\ left' = 0 /\ count' = 0
  BY DEF Disconnect
<1>3. StreamOK' /\ Content(stream)' = <<>> /\ wire' = <<>>
  BY <1>1, <1>2, ClearClears DEF Q!Clear
<1>4. TypeOK' /\ (pending \in Seq(Packets))'
  BY <1>1, <1>2, <1>3 DEF TypeOK
<1>5. Held' = <<>>
  BY <1>3 DEF Held
<1>6. Expected' = <<>>
  <2>1. Idle' /\ phase' # "body"
    BY <1>2, <1>4, ExpectedNext
  <2>2. Expected' = Behind(<<>>)
    BY <1>2, <2>1, IdleNext
  <2> QED
    BY <2>2, BehindNone
<1>7. Framed'
  BY <1>5, <1>6 DEF Framed, Held
<1> QED
  BY <1>2, <1>4, <1>7 DEF FrameInv

LEMMA FrameStep == FrameInv /\ [Next]_vars => FrameInv'
<1> SUFFICES ASSUME FrameInv, [Next]_vars PROVE FrameInv'
  OBVIOUS
<1>1. CASE UNCHANGED vars
  BY <1>1 DEF vars, progress, FrameInv, TypeOK, Framed, Expected, BodyInv,
     StreamOK, IsStream, Content, RealLength, ByteAt
<1> QED
  BY <1>1, SendKeeps, InputKeeps, HeaderKeeps, FieldKeeps, ExecuteKeeps, EndKeeps,
     DisconnectKeeps DEF Next

LEMMA FrameInit == Init => FrameInv
<1> SUFFICES ASSUME Init PROVE FrameInv
  OBVIOUS
<1>1. /\ stream = New(BufferLength) /\ wire = <<>> /\ got = <<>> /\ pending = <<>>
      /\ phase = "input" /\ left = 0 /\ count = 0
  BY DEF Init, InputInit
<1>2. BufferLength \in Nat \ {0} /\ ExecuteCount \in Nat
  BY StreamBasicAssumption, ProtocolAssumption
<1>3. IsStream(stream) /\ Content(stream) = <<>>
  BY <1>1, <1>2, NewIsEmpty
<1>4. TypeOK
  BY <1>1, <1>2, <1>3 DEF TypeOK, StreamOK
<1>5. Expected = <<>>
  <2>1. Idle
    BY <1>4, ExpectedIs DEF TypeOK
  <2> QED
    BY <1>1, <2>1, BehindNone DEF Idle
<1>6. Framed
  BY <1>1, <1>3, <1>5 DEF Framed
<1> QED
  BY <1>1, <1>4, <1>6 DEF FrameInv

-----------------------------------------------------------------------------
(* The results.                                                            *)

(* What every step keeps: types, borders, and that the packet that is      *)
(* being read is there.  The borders alone are not kept: a read of a body  *)
(* that goes past its end would take the next header for a part of it.     *)
THEOREM FramesAreKept == Spec => []FrameInv
<1>1. Init => FrameInv
  BY FrameInit
<1>2. FrameInv /\ [Next]_vars => FrameInv'
  BY FrameStep
<1> QED
  BY <1>1, <1>2, PTL DEF Spec

(* The stream, the packets under way and the loop of command keep their    *)
(* types: count never passes execute_count_pretick_.                       *)
THEOREM ProtocolTypes == Spec => []TypeOK
<1>1. FrameInv => TypeOK
  BY DEF FrameInv
<1> QED
  BY <1>1, FramesAreKept, PTL

(* In whatever parts the bytes of packets come and wherever a fill, the    *)
(* count of a tick or a break cuts, what the ring and the socket hold is   *)
(* the rest of the packet that is being read and the packets behind it.    *)
THEOREM PacketsStayFramed == Spec => []Framed
<1>1. FrameInv => Framed
  BY DEF FrameInv
<1> QED
  BY <1>1, FramesAreKept, PTL

(* A packet that is being read has come whole: no read of its body fails.  *)
THEOREM BodiesAreReceived == Spec => []BodyIsReceived
<1>1. FrameInv => BodyIsReceived
  BY DEF FrameInv, BodyInv, BodyIsReceived
<1> QED
  BY <1>1, FramesAreKept, PTL
=============================================================================
