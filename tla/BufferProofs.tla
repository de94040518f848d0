---------------------------- MODULE BufferProofs ----------------------------
(***************************************************************************)
(* Buffer implements ByteStream, for every initial size and all writes.     *)
(* The argument is about EnsureWriteSpace: whichever way it makes room, the *)
(* unread bytes are the same and the new ones fit behind them.              *)
(***************************************************************************)
EXTENDS Buffer, SequenceTheorems, TLAPS

IInv == TypeOK /\ StagedInPlace

LEMMA WritesFacts ==
  ASSUME NEW d \in Writes
  PROVE  d \in Seq(Bytes) /\ Len(d) \in Nat \ {0} /\ d \in [1 .. Len(d) -> Bytes]
BY SizesAssumption DEF Writes

LEMMA InitIInv == Init => IInv
BY SizesAssumption, BytesAssumption DEF Init, IInv, TypeOK, StagedInPlace, Copy, TailIdleSize

-----------------------------------------------------------------------------
\* Room is made behind the unread bytes, and they are what they were.
LEMMA Room ==
  ASSUME TypeOK, NEW n \in Nat, NEW b, b = EnsureWriteSpace(n)
  PROVE  /\ b.size \in Nat /\ b.r \in Nat /\ b.w \in Nat
         /\ b.r <= b.w /\ b.w + n <= b.size
         /\ b.cells \in [0 .. b.size - 1 -> Bytes]
         /\ b.w - b.r = w - r
         /\ \A i \in 1 .. w - r : b.cells[b.r + i - 1] = cells[r + i - 1]
<1> USE DEF TypeOK
<1>1. CASE b = Unmoved /\ w + n < size  BY <1>1 DEF Unmoved
<1>2. CASE b = Compacted /\ TailIdleSize + HeadIdleSize >= n
  <2>1. /\ b.size = size /\ b.r = 0 /\ b.w = w - r
        /\ b.cells = [i \in 0 .. size - 1 |->
                        IF i < w - r THEN cells[r + i] ELSE cells[i]]
    BY <1>2 DEF Compacted, ReadAbleSize
  <2>2. w - r \in Nat /\ w - r + n <= size
    BY <1>2 DEF TailIdleSize, HeadIdleSize
  <2>3. \A i \in 0 .. size - 1 : i < w - r => r + i \in 0 .. size - 1  OBVIOUS
  <2>4. b.cells \in [0 .. size - 1 -> Bytes]  BY <2>1, <2>3
  <2>5. \A i \in 1 .. w - r : b.cells[i - 1] = cells[r + i - 1]
    <3>1. TAKE i \in 1 .. w - r
    <3>2. i - 1 \in 0 .. size - 1 /\ i - 1 < w - r /\ r + (i - 1) = r + i - 1
      OBVIOUS
    <3> QED  BY <2>1, <3>2
  <2> QED  BY <2>1, <2>2, <2>4, <2>5
<1>3. CASE b = Grown(n) /\ w + n >= size
  <2>1. /\ b.size = w + n /\ b.r = r /\ b.w = w
        /\ b.cells = [i \in 0 .. w + n - 1 |-> IF i < size THEN cells[i] ELSE Zero]
    BY <1>3 DEF Grown
  <2>2. b.cells \in [0 .. b.size - 1 -> Bytes]  BY <2>1, BytesAssumption
  <2>3. \A i \in 1 .. w - r : b.cells[r + i - 1] = cells[r + i - 1]
    BY <2>1, <1>3
  <2> QED  BY <2>1, <2>2, <2>3
<1> QED
  BY <1>1, <1>2, <1>3 DEF EnsureWriteSpace, TailIdleSize, HeadIdleSize

\* Cells with d laid over them from position p on.
LEMMA OverlayFacts ==
  ASSUME NEW s \in Nat, NEW p \in Nat, NEW d \in Writes, p + Len(d) <= s,
         NEW c \in [0 .. s - 1 -> Bytes]
  PROVE  /\ Overlay(c, s, p, d) \in [0 .. s - 1 -> Bytes]
         /\ \A i \in Nat : i < p => Overlay(c, s, p, d)[i] = c[i]
         /\ \A i \in 1 .. Len(d) : Overlay(c, s, p, d)[p + i - 1] = d[i]
<1> DEFINE e == Overlay(c, s, p, d)
<1> USE DEF Overlay
<1>1. PICK n \in Nat : n = Len(d) /\ d \in [1 .. n -> Bytes]  BY WritesFacts
<1>2. \A i \in p .. p + n - 1 : i - p + 1 \in 1 .. n  BY <1>1
<1>3. e \in [0 .. s - 1 -> Bytes]  BY <1>1, <1>2
<1>4. \A i \in Nat : i < p => e[i] = c[i]  BY <1>1
<1>5. ASSUME NEW i \in 1 .. n PROVE e[p + i - 1] = d[i]
  <2>1. /\ p + i - 1 \in 0 .. s - 1 /\ p + i - 1 \in p .. p + n - 1
        /\ (p + i - 1) - p + 1 = i
    BY <1>1
  <2> QED  BY <2>1, <1>1
<1> QED  BY <1>1, <1>3, <1>4, <1>5

\* After a write d is behind the unread bytes; they stay readable, with d when
\* it is pushed.
LEMMA PutFacts ==
  ASSUME TypeOK, NEW d \in Writes, NEW pushed \in {0, Len(d)}, Put(d, pushed)
  PROVE  /\ size' \in Nat /\ r' \in Nat /\ w' \in Nat
         /\ w' - pushed \in Nat
         /\ r' <= w' /\ w' <= size' /\ w' - pushed + Len(d) <= size'
         /\ cells' \in [0 .. size' - 1 -> Bytes]
         /\ w' - r' = w - r + pushed
         /\ \A i \in 1 .. w - r : cells'[r' + i - 1] = cells[r + i - 1]
         /\ \A i \in 1 .. Len(d) : cells'[w' - pushed + i - 1] = d[i]
<1> DEFINE b == EnsureWriteSpace(Len(d))
<1>1. Len(d) \in Nat \ {0}  BY WritesFacts
<1>2. PICK s \in Nat, rr \in Nat, ww \in Nat, c \in {b.cells} :
        /\ c \in [0 .. s - 1 -> Bytes]
        /\ s = b.size /\ rr = b.r /\ ww = b.w /\ c = b.cells
        /\ rr <= ww /\ ww + Len(d) <= s /\ ww - rr = w - r
        /\ \A i \in 1 .. w - r : c[rr + i - 1] = cells[r + i - 1]
  <2>1. /\ b.size \in Nat /\ b.r \in Nat /\ b.w \in Nat
        /\ b.r <= b.w /\ b.w + Len(d) <= b.size
        /\ b.cells \in [0 .. b.size - 1 -> Bytes]
        /\ b.w - b.r = w - r
        /\ \A i \in 1 .. w - r : b.cells[b.r + i - 1] = cells[r + i - 1]
    BY <1>1, Room
  <2> HIDE DEF b
  <2> QED  BY <2>1
<1>3. /\ size' = s /\ r' = rr /\ w' = ww + pushed
      /\ cells' = Overlay(c, s, ww, d)
  BY <1>2 DEF Put
<1> HIDE DEF b
<1>4. r \in Nat /\ w \in Nat /\ r <= w  BY DEF TypeOK
<1>5. /\ cells' \in [0 .. s - 1 -> Bytes]
      /\ \A i \in Nat : i < ww => cells'[i] = c[i]
      /\ \A i \in 1 .. Len(d) : cells'[ww + i - 1] = d[i]
  <2>1. ww + Len(d) <= s /\ c \in [0 .. s - 1 -> Bytes]  BY <1>2
  <2>2. /\ Overlay(c, s, ww, d) \in [0 .. s - 1 -> Bytes]
        /\ \A i \in Nat : i < ww => Overlay(c, s, ww, d)[i] = c[i]
        /\ \A i \in 1 .. Len(d) : Overlay(c, s, ww, d)[ww + i - 1] = d[i]
    BY <2>1, OverlayFacts
  <2>3. cells' = Overlay(c, s, ww, d)  BY <1>3
  <2> QED  BY <2>2, <2>3, Zenon
<1>6. ASSUME NEW i \in 1 .. w - r PROVE cells'[rr + i - 1] = cells[r + i - 1]
  <2>0. PICK m \in Nat : m = w - r /\ ww - rr = m /\ i \in 1 .. m
    BY <1>2, <1>4
  <2>1. rr + i - 1 \in Nat /\ rr + i - 1 < ww  BY <2>0
  <2> QED  BY <1>2, <1>5, <2>1
<1>7. PICK n \in Nat : n = Len(d)  BY <1>1
<1>8. pushed \in Nat /\ pushed <= n  BY <1>7
<1>9. w' = ww + pushed /\ w' - pushed = ww /\ w' \in Nat
  BY <1>3, <1>8
<1>10. \A i \in 1 .. Len(d) : cells'[w' - pushed + i - 1] = d[i]  BY <1>5, <1>9
<1>11. r' = rr /\ size' = s /\ rr <= ww /\ ww + n <= s /\ ww - rr = w - r
  BY <1>2, <1>3, <1>7
<1>12. /\ w' - r' = w - r + pushed /\ r' <= w' /\ w' <= size'
       /\ w' - pushed + n <= size'
  BY <1>4, <1>8, <1>9, <1>11
<1> QED  BY <1>3, <1>5, <1>6, <1>7, <1>9, <1>10, <1>11, <1>12

-----------------------------------------------------------------------------
(* Reading cells as a sequence *)

\* n cells, all of them inside the vector, are a sequence of n bytes.
LEMMA CopyFacts ==
  ASSUME NEW z \in Nat, NEW c \in [0 .. z - 1 -> Bytes],
         NEW p \in Nat, NEW n \in Nat, p + n <= z
  PROVE  /\ Copy(c, p, n) \in Seq(Bytes)
         /\ Len(Copy(c, p, n)) = n
         /\ \A i \in 1 .. n : Copy(c, p, n)[i] = c[p + i - 1]
<1>1. \A i \in 1 .. n : p + i - 1 \in 0 .. z - 1  OBVIOUS
<1>2. Copy(c, p, n) \in [1 .. n -> Bytes]  BY <1>1 DEF Copy
<1> QED  BY <1>2 DEF Copy

\* A sequence that has the n cells as its elements is what Copy returns.
LEMMA CopyIs ==
  ASSUME NEW c, NEW p \in Nat, NEW s \in Seq(Bytes),
         \A i \in 1 .. Len(s) : s[i] = c[p + i - 1]
  PROVE  Copy(c, p, Len(s)) = s
<1>1. s = [i \in 1 .. Len(s) |-> s[i]]  OBVIOUS
<1> QED  BY <1>1 DEF Copy

\* Cells that hold s and then d.
LEMMA CopyConcat ==
  ASSUME NEW c, NEW p \in Nat, NEW s \in Seq(Bytes), NEW d \in Seq(Bytes),
         \A i \in 1 .. Len(s) : c[p + i - 1] = s[i],
         \A i \in 1 .. Len(d) : c[p + Len(s) + i - 1] = d[i]
  PROVE  Copy(c, p, Len(s) + Len(d)) = s \o d
<1> DEFINE t == s \o d
<1>1. /\ t \in Seq(Bytes) /\ Len(t) = Len(s) + Len(d)
      /\ \A i \in 1 .. Len(s) + Len(d) :
           t[i] = IF i <= Len(s) THEN s[i] ELSE d[i - Len(s)]
  BY ConcatProperties
<1> HIDE DEF t
<1>2. PICK m \in Nat, n \in Nat : m = Len(s) /\ n = Len(d)  BY LenProperties
<1>3. ASSUME NEW i \in 1 .. m + n PROVE t[i] = c[p + i - 1]
  <2>1. t[i] = IF i <= m THEN s[i] ELSE d[i - m]  BY <1>1, <1>2
  <2>2. CASE i <= m
    <3>1. i \in 1 .. m  BY <2>2
    <3> QED  BY <1>2, <2>1, <2>2, <3>1
  <2>3. CASE ~ (i <= m)
    <3>1. i - m \in 1 .. n /\ p + m + (i - m) - 1 = p + i - 1  BY <2>3
    <3>2. c[p + m + (i - m) - 1] = d[i - m]  BY <1>2, <3>1
    <3> QED  BY <2>1, <2>3, <3>1, <3>2
  <2> QED  BY <2>2, <2>3
<1>4. \A i \in 1 .. Len(t) : t[i] = c[p + i - 1]  BY <1>1, <1>2, <1>3
<1>5. t \in Seq(Bytes)  BY <1>1
<1>6. Copy(c, p, Len(t)) = t  BY <1>4, <1>5, CopyIs
<1>7. Copy(c, p, Len(s) + Len(d)) = t  BY <1>1, <1>6
<1> QED  BY <1>7 DEF t

LEMMA ReadableFacts ==
  ASSUME TypeOK
  PROVE  /\ Readable \in Seq(Bytes)
         /\ w - r \in Nat
         /\ Len(Readable) = w - r
         /\ \A i \in 1 .. w - r : Readable[i] = cells[r + i - 1]
<1>1. /\ size \in Nat /\ r \in Nat /\ w - r \in Nat /\ r + (w - r) <= size
      /\ cells \in [0 .. size - 1 -> Bytes]
  BY DEF TypeOK
<1> QED  BY <1>1, CopyFacts DEF Readable

\* The first n readable bytes, read from the cells.
LEMMA Prefix ==
  ASSUME TypeOK, NEW n \in 0 .. w - r
  PROVE  /\ Copy(cells, r, n) = SubSeq(Readable, 1, n)
         /\ Copy(cells, r, n) \in Seq(Bytes)
<1>1. n \in Nat /\ r \in Nat /\ w \in Nat  BY DEF TypeOK
<1>2. /\ SubSeq(Readable, 1, n) \in Seq(Bytes)
      /\ Len(SubSeq(Readable, 1, n)) = n
      /\ \A i \in 1 .. n : SubSeq(Readable, 1, n)[i] = cells[r + i - 1]
  BY <1>1, ReadableFacts
<1>3. Copy(cells, r, n) = SubSeq(Readable, 1, n)
  <2> DEFINE t == SubSeq(Readable, 1, n)
  <2>1. \A i \in 1 .. Len(t) : t[i] = cells[r + i - 1]  BY <1>2
  <2>2. t \in Seq(Bytes) /\ Len(t) = n  BY <1>2
  <2> HIDE DEF t
  <2>3. Copy(cells, r, Len(t)) = t  BY <1>1, <2>1, <2>2, CopyIs
  <2>4. Copy(cells, r, n) = t  BY <2>2, <2>3
  <2> QED  BY <2>4 DEF t
<1> QED  BY <1>2, <1>3

\* What GetLine reads: ByteStream's line.
LEMMA LineFacts ==
  ASSUME TypeOK
  PROVE  LineSize \in 0 .. w - r /\ LineSize = Stream!LineLength(Readable)
<1>0. r \in Nat /\ w \in Nat /\ r <= w  BY DEF TypeOK
<1>1. /\ Len(Readable) = w - r /\ w - r \in Nat
      /\ \A i \in 1 .. w - r : Readable[i] = cells[r + i - 1]
  BY ReadableFacts
<1> DEFINE Ends == Stream!LineEnds(Readable)
<1>2. ASSUME NEW i \in 1 .. w - r,
             Readable[i] = NL, \A j \in 1 .. i - 1 : Readable[j] # NL
      PROVE  r + i - 1 \in LineEnds
  <2>1. r + i - 1 \in r .. w - 1  BY <1>0
  <2>2. cells[r + i - 1] = NL  BY <1>1, <1>2
  <2>3. ASSUME NEW k \in r .. (r + i - 1) - 1 PROVE cells[k] # NL
    <3>1. /\ k - r + 1 \in 1 .. i - 1 /\ k - r + 1 \in 1 .. w - r
          /\ r + (k - r + 1) - 1 = k
      BY <1>0
    <3> QED  BY <3>1, <1>1, <1>2
  <2> QED  BY <2>1, <2>2, <2>3 DEF LineEnds
<1>3. ASSUME NEW p \in LineEnds PROVE p - r + 1 \in Ends
  <2>1. p \in r .. w - 1 /\ cells[p] = NL /\ \A k \in r .. p - 1 : cells[k] # NL
    BY DEF LineEnds
  <2>2. p - r + 1 \in 1 .. w - r /\ r + (p - r + 1) - 1 = p  BY <1>0, <2>1
  <2>3. ASSUME NEW j \in 1 .. (p - r + 1) - 1 PROVE Readable[j] # NL
    <3>1. r + j - 1 \in r .. p - 1 /\ j \in 1 .. w - r  BY <1>0, <2>1
    <3> QED  BY <3>1, <2>1, <1>1
  <2>4. Readable[p - r + 1] = NL  BY <1>1, <2>1, <2>2
  <2> QED  BY <1>1, <2>2, <2>3, <2>4 DEF Stream!LineEnds
<1>4. ASSUME NEW i \in Ends PROVE r + i - 1 \in LineEnds /\ i \in 1 .. w - r
  <2>1. i \in 1 .. w - r /\ Readable[i] = NL /\ \A j \in 1 .. i - 1 : Readable[j] # NL
    BY <1>1 DEF Stream!LineEnds
  <2> QED  BY <1>2, <2>1
<1>5. \A p, q \in LineEnds : p = q  BY <1>0 DEF LineEnds
<1> HIDE DEF Ends
<1>6. CASE LineEnds = {}
  <2>1. Ends = {}  BY <1>4, <1>6
  <2> QED  BY <1>1, <1>6, <2>1 DEF LineSize, Stream!LineLength, Ends
<1>7. CASE LineEnds # {}
  <2>1. PICK p \in LineEnds : p = CHOOSE q \in LineEnds : TRUE  BY <1>7
  <2>2. p - r + 1 \in Ends  BY <1>3
  <2>3. PICK i \in Ends : i = CHOOSE j \in Ends : TRUE  BY <2>2
  <2>4. r + i - 1 = p /\ i \in 1 .. w - r  BY <1>4, <1>5
  <2>5. i = p - r + 1  BY <1>0, <2>4
  <2>6. LineSize = p - r + 1  BY <1>7, <2>1 DEF LineSize
  <2>7. Stream!LineLength(Readable) = i
    BY <2>2, <2>3 DEF Stream!LineLength, Ends
  <2> QED  BY <2>4, <2>5, <2>6, <2>7
<1> QED  BY <1>6, <1>7

-----------------------------------------------------------------------------
(* Each operation preserves IInv and is an operation, or a stutter, of        *)
(* ByteStream.                                                               *)

\* The unread bytes do not notice a step that leaves them where they are.
LEMMA SameReadable ==
  ASSUME TypeOK, w' - r' = w - r,
         \A i \in 1 .. w - r : cells'[r' + i - 1] = cells[r + i - 1]
  PROVE  Readable' = Readable
BY DEF Readable, Copy

\* PutFacts with the new positions as numbers.
LEMMA PutNumbers ==
  ASSUME TypeOK, NEW d \in Writes, NEW pushed \in {0, Len(d)}, Put(d, pushed)
  PROVE  \E z \in Nat, rr \in Nat, ww \in Nat :
           /\ size' = z /\ r' = rr /\ w' = ww + pushed
           /\ ww = rr + (w - r) /\ ww + Len(d) <= z
           /\ cells' \in [0 .. z - 1 -> Bytes]
           /\ \A i \in 1 .. w - r : cells'[rr + i - 1] = cells[r + i - 1]
           /\ \A i \in 1 .. Len(d) : cells'[ww + i - 1] = d[i]
<1>1. PICK n \in Nat : n = Len(d)  BY WritesFacts
<1>2. PICK k \in Nat : k = pushed /\ k <= n  BY <1>1
<1>3. PICK m \in Nat : m = w - r  BY ReadableFacts
<1>4. PICK z \in Nat, rr \in Nat, w2 \in Nat : z = size' /\ rr = r' /\ w2 = w'
  BY PutFacts
<1>5. /\ w2 - k \in Nat /\ rr <= w2 /\ (w2 - k) + n <= z
      /\ w2 - rr = m + k
      /\ cells' \in [0 .. z - 1 -> Bytes]
      /\ \A i \in 1 .. m : cells'[rr + i - 1] = cells[r + i - 1]
      /\ \A i \in 1 .. n : cells'[(w2 - k) + i - 1] = d[i]
  BY <1>1, <1>2, <1>3, <1>4, PutFacts
<1>6. PICK ww \in Nat : ww = w2 - k  BY <1>5
<1>7. w2 = ww + k /\ ww = rr + m  BY <1>5, <1>6
<1>8. w' = ww + k /\ ww + n <= z  BY <1>4, <1>5, <1>6, <1>7
<1>9. \A i \in 1 .. n : cells'[ww + i - 1] = d[i]  BY <1>5, <1>6
<1>10. /\ size' = z /\ r' = rr /\ w' = ww + pushed
       /\ ww = rr + (w - r) /\ ww + Len(d) <= z
       /\ cells' \in [0 .. z - 1 -> Bytes]
       /\ \A i \in 1 .. w - r : cells'[rr + i - 1] = cells[r + i - 1]
       /\ \A i \in 1 .. Len(d) : cells'[ww + i - 1] = d[i]
  BY <1>1, <1>2, <1>3, <1>4, <1>5, <1>7, <1>8, <1>9
<1> QED  BY <1>10

LEMMA WriteStep ==
  ASSUME TypeOK, NEW d \in Writes, Write(d)
  PROVE  IInv' /\ Stream!Stage(d)
<1>1. Put(d, 0) /\ staged' = d /\ out' = out  BY DEF Write, Put
<1>2. d \in Seq(Bytes)  BY WritesFacts
<1>0. PICK m \in Nat, n \in Nat : m = w - r /\ n = Len(d)
  BY ReadableFacts, WritesFacts
<1>2b. PICK z \in Nat, rr \in Nat, ww \in Nat :
        /\ size' = z /\ r' = rr /\ w' = ww + 0
        /\ ww = rr + (w - r) /\ ww + Len(d) <= z
        /\ cells' \in [0 .. z - 1 -> Bytes]
        /\ \A i \in 1 .. w - r : cells'[rr + i - 1] = cells[r + i - 1]
        /\ \A i \in 1 .. Len(d) : cells'[ww + i - 1] = d[i]
  BY <1>1, PutNumbers
<1>3. /\ size' = z /\ r' = rr /\ w' = ww + 0 /\ m = w - r
      /\ n = Len(d)
      /\ ww = rr + m /\ ww + n <= z
      /\ cells' \in [0 .. z - 1 -> Bytes]
      /\ \A i \in 1 .. m : cells'[rr + i - 1] = cells[r + i - 1]
      /\ \A i \in 1 .. n : cells'[ww + i - 1] = d[i]
  BY <1>0, <1>2b
<1>4. w' = ww  BY <1>3
<1>5. TypeOK'  BY <1>1, <1>2, <1>3, <1>4 DEF TypeOK
<1>6. StagedInPlace'
  <2>1. Copy(cells', ww, n) = d
    <3>1. \A i \in 1 .. Len(d) : d[i] = cells'[ww + i - 1]  BY <1>3
    <3>2. Copy(cells', ww, Len(d)) = d  BY <1>2, <3>1, CopyIs
    <3> QED  BY <1>3, <3>2
  <2>2. n <= z - ww  BY <1>3
  <2> QED  BY <1>1, <1>3, <1>4, <2>1, <2>2 DEF StagedInPlace, TailIdleSize
<1>7. Readable' = Readable
  <2>1. ww - rr = m  BY <1>3
  <2> QED  BY <1>3, <1>4, <2>1 DEF Readable, Copy
<1> QED  BY <1>1, <1>5, <1>6, <1>7 DEF IInv, Stream!Stage

LEMMA WriteAndPushStep ==
  ASSUME TypeOK, NEW d \in Writes, WriteAndPush(d)
  PROVE  IInv' /\ Stream!Push(d)
<1>1. Put(d, Len(d)) /\ staged' = <<>> /\ out' = out  BY DEF WriteAndPush, Put
<1>2. d \in Seq(Bytes)  BY WritesFacts
<1>0. PICK m \in Nat, n \in Nat : m = w - r /\ n = Len(d)
  BY ReadableFacts, WritesFacts
<1>2b. PICK z \in Nat, rr \in Nat, ww \in Nat :
        /\ size' = z /\ r' = rr /\ w' = ww + Len(d)
        /\ ww = rr + (w - r) /\ ww + Len(d) <= z
        /\ cells' \in [0 .. z - 1 -> Bytes]
        /\ \A i \in 1 .. w - r : cells'[rr + i - 1] = cells[r + i - 1]
        /\ \A i \in 1 .. Len(d) : cells'[ww + i - 1] = d[i]
  BY <1>1, PutNumbers
<1>3. /\ size' = z /\ r' = rr /\ w' = ww + Len(d) /\ m = w - r
      /\ n = Len(d)
      /\ ww = rr + m /\ ww + n <= z
      /\ cells' \in [0 .. z - 1 -> Bytes]
      /\ \A i \in 1 .. m : cells'[rr + i - 1] = cells[r + i - 1]
      /\ \A i \in 1 .. n : cells'[ww + i - 1] = d[i]
  BY <1>0, <1>2b
<1>4. w' = ww + n  BY <1>3
<1>5. TypeOK'  BY <1>1, <1>3, <1>4 DEF TypeOK
<1>6. StagedInPlace'
  <2>1. Len(staged') = 0  BY <1>1
  <2>2. 0 <= z - (ww + n)  BY <1>3
  <2>3. Copy(cells', w', 0) = <<>>  BY DEF Copy
  <2> QED  BY <1>1, <1>3, <1>4, <2>1, <2>2, <2>3 DEF StagedInPlace, TailIdleSize
<1>7. Readable' = Readable \o d
  <2>1. /\ Readable \in Seq(Bytes) /\ Len(Readable) = m
        /\ \A i \in 1 .. m : Readable[i] = cells[r + i - 1]
    BY <1>3, ReadableFacts
  <2>2. \A i \in 1 .. m : cells'[rr + i - 1] = Readable[i]  BY <1>3, <2>1
  <2>3. \A i \in 1 .. n : cells'[rr + m + i - 1] = d[i]  BY <1>3
  <2>4. Copy(cells', rr, m + n) = Readable \o d
    <3> DEFINE s == Readable
    <3>1. s \in Seq(Bytes) /\ Len(s) = m /\ Len(d) = n  BY <1>3, <2>1
    <3>2. \A i \in 1 .. m : cells'[rr + i - 1] = s[i]  BY <2>2
    <3> HIDE DEF s
    <3>3. \A i \in 1 .. Len(s) : cells'[rr + i - 1] = s[i]  BY <3>1, <3>2
    <3>4. \A i \in 1 .. Len(d) : cells'[rr + Len(s) + i - 1] = d[i]
      BY <2>3, <3>1
    <3>5. s \in Seq(Bytes)  BY <3>1
    <3>6. Copy(cells', rr, Len(s) + Len(d)) = s \o d
      BY <1>2, <3>3, <3>4, <3>5, CopyConcat
    <3>7. Copy(cells', rr, m + n) = s \o d  BY <3>1, <3>6
    <3> QED  BY <3>7 DEF s
  <2>5. (ww + n) - rr = m + n  BY <1>3
  <2> QED  BY <1>3, <1>4, <2>4, <2>5 DEF Readable
<1> QED  BY <1>1, <1>5, <1>6, <1>7 DEF IInv, Stream!Push

\* Staged bytes become readable, in front of what is still staged.
LEMMA MoveStep ==
  ASSUME IInv, NEW n \in 0 .. Len(staged), MoveWriteOffset(n)
  PROVE  IInv' /\ Stream!Commit(n)
<1>1. PICK k \in Nat : k = Len(staged)  BY DEF IInv, TypeOK
<1>2. /\ n \in Nat /\ n <= k /\ staged \in Seq(Bytes)
      /\ r \in Nat /\ w \in Nat /\ size \in Nat /\ r <= w /\ w <= size
      /\ w + k <= size
  BY <1>1 DEF IInv, TypeOK, StagedInPlace, TailIdleSize
<1>3. /\ w' = w + n /\ size' = size /\ cells' = cells /\ r' = r /\ out' = out
      /\ staged' = SubSeq(staged, n + 1, k)
  BY <1>1 DEF MoveWriteOffset
<1>4. \A i \in 1 .. k : cells[w + i - 1] = staged[i]
  <2>1. staged = Copy(cells, w, k)  BY <1>1 DEF IInv, StagedInPlace
  <2> QED  BY <2>1 DEF Copy
<1>5. /\ staged' \in Seq(Bytes) /\ Len(staged') = k - n
      /\ \A i \in 1 .. k - n : staged'[i] = staged[n + i]
  <2> DEFINE t == SubSeq(staged, n + 1, k)
  <2>0. staged \in Seq(Bytes) /\ Len(staged) = k /\ n \in Nat /\ n <= k
    BY <1>1, <1>2
  <2>1. t \in Seq(Bytes) /\ Len(t) = k - n
        /\ \A i \in 1 .. k - n : t[i] = staged[n + i]
    BY <2>0
  <2> QED  BY <1>3, <2>1
<1>6. TypeOK'
  <2>1. r <= w + n /\ w + n <= size /\ w + n \in Nat  BY <1>1, <1>2
  <2> QED  BY <1>2, <1>3, <1>5, <2>1 DEF IInv, TypeOK
<1>7. StagedInPlace'
  <2>1. \A i \in 1 .. k - n : staged'[i] = cells[(w + n) + i - 1]
    <3>1. TAKE i \in 1 .. k - n
    <3>2. n + i \in 1 .. k /\ w + (n + i) - 1 = (w + n) + i - 1
      BY <1>1, <1>2
    <3>3. cells[w + (n + i) - 1] = staged[n + i]  BY <1>4, <3>2
    <3> QED  BY <1>5, <3>2, <3>3
  <2>2. w + n \in Nat /\ k - n <= size - (w + n)  BY <1>1, <1>2
  <2> DEFINE t == staged'
  <2>3. t \in Seq(Bytes) /\ \A i \in 1 .. Len(t) : t[i] = cells[(w + n) + i - 1]
    BY <1>5, <2>1
  <2> HIDE DEF t
  <2>4. Copy(cells, w + n, Len(t)) = t  BY <2>2, <2>3, CopyIs
  <2>5. Copy(cells', w', Len(staged')) = staged'  BY <1>3, <2>4 DEF t
  <2>6. Len(staged') <= size' - w'  BY <1>3, <1>5, <2>2
  <2> QED  BY <2>5, <2>6 DEF StagedInPlace, TailIdleSize
<1>8. Readable' = Readable \o SubSeq(staged, 1, n)
  <2> DEFINE s == Readable
  <2> DEFINE d == SubSeq(staged, 1, n)
  <2>1. PICK m \in Nat : m = w - r  BY <1>2
  <2>2. s \in Seq(Bytes) /\ Len(s) = m
        /\ \A i \in 1 .. m : s[i] = cells[r + i - 1]
    BY <2>1, ReadableFacts DEF IInv
  <2>3. d \in Seq(Bytes) /\ Len(d) = n /\ \A i \in 1 .. n : d[i] = staged[i]
    BY <1>1, <1>2
  <2>4. \A i \in 1 .. n : cells[r + m + i - 1] = d[i]
    <3>1. TAKE i \in 1 .. n
    <3>2. i \in 1 .. k /\ r + m + i - 1 = w + i - 1  BY <1>1, <1>2, <2>1
    <3> QED  BY <1>4, <2>3, <3>2
  <2> HIDE DEF s, d
  <2>5. Copy(cells, r, Len(s) + Len(d)) = s \o d
    <3>1. \A i \in 1 .. Len(s) : cells[r + i - 1] = s[i]  BY <2>2
    <3>2. \A i \in 1 .. Len(d) : cells[r + Len(s) + i - 1] = d[i]
      BY <2>2, <2>3, <2>4
    <3>3. r \in Nat /\ s \in Seq(Bytes) /\ d \in Seq(Bytes)
      BY <1>2, <2>2, <2>3
    <3> QED  BY <3>1, <3>2, <3>3, CopyConcat
  <2>6. Copy(cells, r, m + n) = s \o d  BY <2>2, <2>3, <2>5
  <2>7. (w + n) - r = m + n  BY <1>2, <2>1
  <2>8. Readable' = Copy(cells, r, (w + n) - r)  BY <1>3 DEF Readable
  <2> QED  BY <2>6, <2>7, <2>8 DEF s, d
<1> QED
  BY <1>1, <1>3, <1>6, <1>7, <1>8 DEF IInv, Stream!Commit

\* Pushing more than was staged makes cells readable that nobody wrote.
LEMMA MoveMoreStep ==
  ASSUME IInv, NEW n \in 0 .. TailIdleSize, n > Len(staged), MoveWriteOffset(n)
  PROVE  IInv' /\ Stream!CommitMore
<1>1. PICK k \in Nat, m \in Nat : k = Len(staged) /\ m = w - r
  BY ReadableFacts DEF IInv, TypeOK
<1>2. /\ r \in Nat /\ w \in Nat /\ size \in Nat /\ w = r + m
      /\ n \in Nat /\ n > k /\ w + n <= size
      /\ staged \in Seq(Bytes) /\ cells \in [0 .. size - 1 -> Bytes]
  BY <1>1 DEF IInv, TypeOK, TailIdleSize
<1>3. /\ w' = w + n /\ size' = size /\ cells' = cells /\ r' = r /\ out' = out
      /\ staged' = SubSeq(staged, n + 1, k)
  BY <1>1 DEF MoveWriteOffset
<1>4. staged' = <<>>  BY <1>2, <1>3, SubSeqEmpty
<1>5. TypeOK'
  BY <1>2, <1>3, <1>4 DEF IInv, TypeOK
<1>6. StagedInPlace'
  BY <1>2, <1>3, <1>4 DEF StagedInPlace, TailIdleSize, Copy
<1>7. \A i \in 1 .. k : cells[w + i - 1] = staged[i]
  <2>1. staged = Copy(cells, w, k)  BY <1>1 DEF IInv, StagedInPlace
  <2> QED  BY <2>1 DEF Copy
<1>8. PICK t : t = Readable'  OBVIOUS
<1>9. /\ t \in Seq(Bytes) /\ Len(t) = m + n
      /\ \A i \in 1 .. m + n : t[i] = cells[r + i - 1]
  <2>1. t = Copy(cells, r, m + n)
    <3>1. (w + n) - r = m + n  BY <1>2
    <3> QED  BY <1>3, <1>8, <3>1 DEF Readable
  <2>2. PICK z \in Nat : z = m + n /\ r + z <= size  BY <1>2
  <2>3. /\ Copy(cells, r, z) \in Seq(Bytes) /\ Len(Copy(cells, r, z)) = z
        /\ \A i \in 1 .. z : Copy(cells, r, z)[i] = cells[r + i - 1]
    <3>1. \A i \in 1 .. z : r + i - 1 \in 0 .. size - 1  BY <1>2, <2>2
    <3>2. Copy(cells, r, z) \in [1 .. z -> Bytes]  BY <1>2, <3>1 DEF Copy
    <3> QED  BY <3>2 DEF Copy
  <2> QED  BY <2>1, <2>2, <2>3, Zenon
<1>10. Copy(cells, r, m + k) = Readable \o staged
  <2> DEFINE s == Readable
  <2>1. s \in Seq(Bytes) /\ Len(s) = m /\ \A i \in 1 .. m : s[i] = cells[r + i - 1]
    BY <1>1, ReadableFacts DEF IInv
  <2>2. \A i \in 1 .. k : cells[r + m + i - 1] = staged[i]  BY <1>2, <1>7
  <2> HIDE DEF s
  <2>3. \A i \in 1 .. Len(s) : cells[r + i - 1] = s[i]  BY <2>1
  <2>4. \A i \in 1 .. Len(staged) : cells[r + Len(s) + i - 1] = staged[i]
    BY <1>1, <2>1, <2>2
  <2>5. Copy(cells, r, Len(s) + Len(staged)) = s \o staged
    BY <1>2, <2>1, <2>3, <2>4, CopyConcat
  <2> QED  BY <1>1, <2>1, <2>5 DEF s
<1>11. SubSeq(t, 1, m + k) = Readable \o staged
  <2>1. PICK u : u = SubSeq(t, 1, m + k)  OBVIOUS
  <2>2. m + k \in Nat /\ m + k <= m + n  BY <1>2
  <2>3. u \in Seq(Bytes) /\ Len(u) = m + k /\ \A i \in 1 .. m + k : u[i] = t[i]
    BY <1>9, <2>1, <2>2
  <2>4. \A i \in 1 .. Len(u) : u[i] = cells[r + i - 1]  BY <1>9, <2>2, <2>3
  <2>5. Copy(cells, r, Len(u)) = u  BY <1>2, <2>3, <2>4, CopyIs
  <2> QED  BY <1>10, <2>1, <2>3, <2>5
<1>12. Len(Readable \o staged) = m + k
  BY <1>1, <1>2, ReadableFacts, ConcatProperties DEF IInv
<1>13. SubSeq(t, 1, Len(Readable \o staged)) = Readable \o staged
  BY <1>11, <1>12, Zenon
<1>14. Len(t) > Len(Readable \o staged)  BY <1>2, <1>9, <1>12
<1>15. t \in Seq(Bytes) /\ staged' = <<>> /\ out' = out  BY <1>3, <1>4, <1>9
<1>16. Stream!CommitMore
  BY <1>8, <1>13, <1>14, <1>15, Zenon DEF Stream!CommitMore
<1> QED  BY <1>5, <1>6, <1>16 DEF IInv

\* Reading leaves the cells alone.
LEMMA ReadStep ==
  ASSUME IInv, NEW n \in 0 .. w - r, Read(n)
  PROVE  IInv' /\ Stream!Peek(n)
<1>1. /\ out' = Copy(cells, r, n) /\ size' = size /\ cells' = cells
      /\ r' = r /\ w' = w /\ staged' = staged
  BY DEF Read
<1>2. out' = SubSeq(Readable, 1, n) /\ out' \in Seq(Bytes)
  BY <1>1, Prefix DEF IInv
<1>3. TypeOK' /\ StagedInPlace'
  BY <1>1, <1>2 DEF IInv, TypeOK, StagedInPlace, TailIdleSize
<1>4. Readable' = Readable  BY <1>1 DEF Readable
<1> QED  BY <1>1, <1>2, <1>3, <1>4 DEF IInv, Stream!Peek

LEMMA ReadAndPopStep ==
  ASSUME IInv, NEW n \in 0 .. w - r, ReadAndPop(n)
  PROVE  IInv' /\ Stream!Take(n)
<1>1. /\ out' = Copy(cells, r, n) /\ size' = size /\ cells' = cells
      /\ r' = r + n /\ w' = w /\ staged' = staged
  BY DEF ReadAndPop
<1>2. out' = SubSeq(Readable, 1, n) /\ out' \in Seq(Bytes)
  BY <1>1, Prefix DEF IInv
<1>3. PICK m \in Nat : m = w - r  BY ReadableFacts DEF IInv
<1>4. n \in Nat /\ r \in Nat /\ w \in Nat /\ n <= m /\ r + n <= w
  BY <1>3 DEF IInv, TypeOK
<1>5. TypeOK' /\ StagedInPlace'
  BY <1>1, <1>2, <1>4 DEF IInv, TypeOK, StagedInPlace, TailIdleSize
<1>6. Readable' = SubSeq(Readable, n + 1, Len(Readable))
  <2> DEFINE s == Readable
  <2> DEFINE t == SubSeq(s, n + 1, m)
  <2>1. s \in Seq(Bytes) /\ Len(s) = m
        /\ \A i \in 1 .. m : s[i] = cells[r + i - 1]
    BY <1>3, ReadableFacts DEF IInv
  <2> HIDE DEF s
  <2>2. t \in Seq(Bytes) /\ Len(t) = m - n /\ \A i \in 1 .. m - n : t[i] = s[n + i]
    BY <1>4, <2>1
  <2>3. \A i \in 1 .. m - n : t[i] = cells[(r + n) + i - 1]
    <3>1. TAKE i \in 1 .. m - n
    <3>2. n + i \in 1 .. m /\ r + (n + i) - 1 = (r + n) + i - 1  BY <1>4
    <3>3. s[n + i] = cells[r + (n + i) - 1]  BY <2>1, <3>2
    <3> QED  BY <2>2, <3>2, <3>3
  <2>4. r + n \in Nat /\ w - (r + n) = m - n  BY <1>3, <1>4
  <2> HIDE DEF t
  <2>5. \A i \in 1 .. Len(t) : t[i] = cells[(r + n) + i - 1]  BY <2>2, <2>3
  <2>6. t \in Seq(Bytes)  BY <2>2
  <2>7. Copy(cells, r + n, Len(t)) = t  BY <2>4, <2>5, <2>6, CopyIs
  <2>8. Copy(cells, r + n, w - (r + n)) = t  BY <2>2, <2>4, <2>7
  <2>9. Readable' = t  BY <1>1, <2>8 DEF Readable
  <2> QED  BY <2>1, <2>9 DEF s, t
<1> QED  BY <1>1, <1>2, <1>5, <1>6 DEF IInv, Stream!Take

LEMMA ClearStep ==
  ASSUME IInv, Clear PROVE IInv' /\ Stream!Clear
<1>1. TypeOK' /\ StagedInPlace'
  BY DEF Clear, IInv, TypeOK, StagedInPlace, TailIdleSize, Copy
<1>2. Readable' = <<>>  BY DEF Clear, Readable, Copy
<1> QED  BY <1>1, <1>2 DEF Clear, IInv, Stream!Clear

LEMMA Step ==
  ASSUME IInv, [Next]_vars
  PROVE  IInv' /\ [Stream!Next]_(Stream!vars)
<1> TypeOK  BY DEF IInv
<1>1. ASSUME NEW d \in Writes, Write(d)
      PROVE  IInv' /\ [Stream!Next]_(Stream!vars)
  BY <1>1, WriteStep DEF Stream!Next, Stream!Writes, Writes
<1>2. ASSUME NEW d \in Writes, WriteAndPush(d)
      PROVE  IInv' /\ [Stream!Next]_(Stream!vars)
  BY <1>2, WriteAndPushStep DEF Stream!Next, Stream!Writes, Writes
<1>3. ASSUME NEW n \in 0 .. TailIdleSize, MoveWriteOffset(n)
      PROVE  IInv' /\ [Stream!Next]_(Stream!vars)
  <2>1. Len(staged) \in Nat /\ n \in Nat  BY DEF IInv, TypeOK, TailIdleSize
  <2>2. CASE n <= Len(staged)
    <3>1. n \in 0 .. Len(staged)  BY <2>1, <2>2
    <3> QED  BY <1>3, <3>1, MoveStep DEF Stream!Next
  <2>3. CASE n > Len(staged)  BY <1>3, <2>3, MoveMoreStep DEF Stream!Next
  <2> QED  BY <2>1, <2>2, <2>3
<1>4. ASSUME NEW n \in 0 .. w - r, Read(n) \/ ReadAndPop(n)
      PROVE  IInv' /\ [Stream!Next]_(Stream!vars)
  <2>1. n \in 0 .. Len(Readable)  BY ReadableFacts
  <2> QED  BY <1>4, <2>1, ReadStep, ReadAndPopStep DEF Stream!Next
<1>5. CASE GetLine \/ GetLineAndPop
  <2>1. LineSize \in 0 .. w - r /\ LineSize = Stream!LineLength(Readable)
    BY LineFacts
  <2> QED
    BY <1>5, <2>1, ReadStep, ReadAndPopStep
    DEF GetLine, GetLineAndPop, Stream!Next, Stream!PeekLine, Stream!TakeLine
<1>6. CASE Clear  BY <1>6, ClearStep DEF Stream!Next
<1>7. CASE UNCHANGED vars
  <2>1. IInv'
    BY <1>7 DEF vars, IInv, TypeOK, StagedInPlace, TailIdleSize
  <2>2. UNCHANGED Stream!vars  BY <1>7 DEF vars, Stream!vars, Readable
  <2> QED  BY <2>1, <2>2
<1> QED
  BY <1>1, <1>2, <1>3, <1>4, <1>5, <1>6, <1>7 DEF Next, ReadAbleSize

-----------------------------------------------------------------------------
\* The inductive invariant.
THEOREM Invariance == Spec => []IInv
<1>1. IInv /\ [Next]_vars => IInv'  BY Step
<1> QED  BY <1>1, InitIInv, PTL DEF Spec

\* Positions, cells and results keep their types, and _read_indx <= _write_idx
\* <= buffer.size(), however the buffer was used.
THEOREM TypeCorrect == Spec => []TypeOK
<1>1. IInv => TypeOK  BY DEF IInv
<1> QED  BY <1>1, Invariance, PTL

\* Bytes that were written and not pushed stay in place.
THEOREM StagedStays == Spec => []StagedInPlace
<1>1. IInv => StagedInPlace  BY DEF IInv
<1> QED  BY <1>1, Invariance, PTL

\* The buffer is a byte stream: what it moves and how it grows is invisible.
THEOREM Refinement == Spec => ImplementsByteStream
<1>1. Init => Stream!Init
  BY SizesAssumption DEF Init, Stream!Init, Readable, Copy
<1>2. IInv /\ [Next]_vars => [Stream!Next]_(Stream!vars)  BY Step
<1> QED  BY <1>1, <1>2, Invariance, PTL DEF Spec, ImplementsByteStream

\* The unread bytes are those between the positions, after a step as before.
LengthFact == TypeOK => Len(Readable) = w - r

LEMMA LengthAlways == LengthFact /\ LengthFact'
<1>1. LengthFact  BY ReadableFacts DEF LengthFact
<1> QED  BY <1>1, PTL

\* A write grows the vector only when the unread bytes leave no room for it.
LEMMA GrowthNeeded ==
  ASSUME TypeOK, NEW d \in Writes, NEW pushed, Put(d, pushed), size' > size
  PROVE  w - r + Len(d) > size
<1>1. PICK n \in Nat : n = Len(d)  BY WritesFacts
<1>2. size \in Nat /\ r \in Nat /\ w \in Nat  BY DEF TypeOK
<1>3. size' = EnsureWriteSpace(n).size  BY <1>1 DEF Put
<1>4. CASE w + n < size \/ TailIdleSize + HeadIdleSize >= n
  <2>1. EnsureWriteSpace(n).size = size
    BY <1>4 DEF EnsureWriteSpace, Unmoved, Compacted
  <2> QED  BY <1>2, <1>3, <2>1
<1>5. CASE ~(TailIdleSize + HeadIdleSize >= n)
  BY <1>1, <1>2, <1>5 DEF TailIdleSize, HeadIdleSize
<1> QED  BY <1>4, <1>5

(***************************************************************************)
(* The vector grows only when what it has to hold is more than it is long:  *)
(* every other shortage of room is met by moving the unread bytes.          *)
(***************************************************************************)
THEOREM GrowsOnlyWhenFull == Spec => GrowsWhenFull
<1>1. ASSUME IInv, IInv', [Next]_vars, size' > size
      PROVE  Len(Readable)' + Len(staged)' > size
  <2>0. size \in Nat /\ r \in Nat /\ w \in Nat /\ w' \in Nat /\ r' \in Nat
        /\ Len(Readable)' = w' - r'
    BY <1>1, LengthAlways DEF IInv, TypeOK, LengthFact
  <2>1. ASSUME NEW d \in Writes, Write(d)
        PROVE  Len(Readable)' + Len(staged)' > size
    <3>1. Put(d, 0) /\ staged' = d  BY <2>1 DEF Write
    <3>2. w - r + Len(d) > size  BY <1>1, <3>1, GrowthNeeded DEF IInv
    <3>3. PICK z \in {0, Len(d)} : z = 0 /\ w' - r' = w - r + z
      BY <1>1, <3>1, PutFacts DEF IInv
    <3>4. PICK n \in Nat : n = Len(d)  BY WritesFacts
    <3>5. Len(staged)' = n  BY <3>1, <3>4
    <3>6. PICK m \in Int : m = w - r  BY <2>0
    <3>7. m + n > size  BY <3>2, <3>4, <3>6
    <3>8. w' - r' = m + z  BY <3>3, <3>6, Zenon
    <3>9. m + z + n > size  BY <2>0, <3>3, <3>7
    <3> QED  BY <2>0, <3>5, <3>8, <3>9, Zenon
  <2>2. ASSUME NEW d \in Writes, WriteAndPush(d)
        PROVE  Len(Readable)' + Len(staged)' > size
    <3>1. Put(d, Len(d)) /\ staged' = <<>>  BY <2>2 DEF WriteAndPush
    <3>2. w - r + Len(d) > size  BY <1>1, <3>1, GrowthNeeded DEF IInv
    <3>3. w' - r' = w - r + Len(d)  BY <1>1, <3>1, PutFacts DEF IInv
    <3>4. PICK n \in Nat : n = Len(d)  BY WritesFacts
    <3>5. Len(staged)' = 0  BY <3>1
    <3>6. PICK m \in Int : m = w - r  BY <2>0
    <3>7. m + n > size  BY <3>2, <3>4, <3>6
    <3>8. Len(Readable)' = m + n  BY <2>0, <3>3, <3>4, <3>6
    <3>9. m + n + 0 > size  BY <2>0, <3>7
    <3> QED  BY <3>5, <3>8, <3>9, Zenon
  <2>3. ASSUME UNCHANGED size PROVE FALSE  BY <1>1, <2>0, <2>3
  <2> QED
    BY <1>1, <2>1, <2>2, <2>3
    DEF Next, vars, MoveWriteOffset, Read, ReadAndPop, GetLine, GetLineAndPop, Clear
<1> QED  BY <1>1, Invariance, PTL DEF Spec, GrowsWhenFull

=============================================================================
