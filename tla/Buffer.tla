------------------------------- MODULE Buffer -------------------------------
(***************************************************************************)
(* my_muduo/source/Buffer.hpp: a vector with a read and a write position.   *)
(* Before a write it makes room: by doing nothing, by moving the unread     *)
(* bytes to the front, or by growing.                                       *)
(*                                                                          *)
(* The lengths in Next are those the asserts of the code demand of the      *)
(* caller.  The variable staged is not in the code: it remembers what Write *)
(* put after the write position, for MoveWriteOffset to make readable.      *)
(***************************************************************************)
EXTENDS Naturals, Sequences

CONSTANTS
  Bytes,
  NL,           \* '\n'
  Zero,         \* what std::vector fills new cells with
  DefaultSize,  \* DEFAULT_SIZE_BUFFER
  MaxWrite,     \* bound: the longest single write
  MaxSize       \* bound: writes that would grow the vector beyond it are not made

ASSUME BytesAssumption == NL \in Bytes /\ Zero \in Bytes
ASSUME SizesAssumption == DefaultSize \in Nat /\ MaxWrite \in Nat /\ MaxSize \in Nat

VARIABLES
  size,         \* buffer.size()
  cells,        \* buffer
  r,            \* _read_indx
  w,            \* _write_idx
  staged,       \* written and not pushed
  out           \* what the last read returned

vars == <<size, cells, r, w, staged, out>>

Writes == UNION {[1 .. n -> Bytes] : n \in 1 .. MaxWrite}

\* The n cells from position p on.
Copy(c, p, n) == [i \in 1 .. n |-> c[p + i - 1]]
Readable      == Copy(cells, r, w - r)

TypeOK ==
  /\ size \in Nat /\ r \in Nat /\ w \in Nat
  /\ r <= w /\ w <= size
  /\ cells \in [0 .. size - 1 -> Bytes]
  /\ staged \in Seq(Bytes)
  /\ out \in Seq(Bytes)

Init ==
  /\ size = DefaultSize
  /\ cells = [i \in 0 .. DefaultSize - 1 |-> Zero]
  /\ r = 0 /\ w = 0
  /\ staged = <<>> /\ out = <<>>

-----------------------------------------------------------------------------
(* EnsureWriteSpace(n), as the state it leaves *)

TailIdleSize == size - w
HeadIdleSize == r
ReadAbleSize == w - r

Unmoved == [size |-> size, cells |-> cells, r |-> r, w |-> w]

\* Mutant: the positions move and the bytes do not.
CompactedInPlace == [size |-> size, cells |-> cells, r |-> 0, w |-> ReadAbleSize]

\* std::copy of the unread bytes to the front.
Compacted ==
  [ size  |-> size,
    cells |-> [i \in 0 .. size - 1 |->
                 IF i < ReadAbleSize THEN cells[r + i] ELSE cells[i]],
    r     |-> 0,
    w     |-> ReadAbleSize ]

Grown(n) ==
  [ size  |-> w + n,
    cells |-> [i \in 0 .. w + n - 1 |-> IF i < size THEN cells[i] ELSE Zero],
    r     |-> r,
    w     |-> w ]

\* Mutant: the room in front of the unread bytes is not used.
EnsureEager(n) ==
  IF w + n < size THEN Unmoved
  ELSE Grown(n)

\* Mutant: the read position is not reset after the move.
EnsureKeepsRead(n) ==
  IF w + n < size THEN Unmoved
  ELSE IF TailIdleSize + HeadIdleSize >= n THEN [Compacted EXCEPT !.r = r]
  ELSE Grown(n)

\* Mutant: one byte too many is thought to fit.
EnsureShort(n) ==
  IF w + n < size THEN Unmoved
  ELSE IF TailIdleSize + HeadIdleSize + 1 >= n THEN Compacted
  ELSE Grown(n)

EnsureWriteSpace(n) ==
  IF w + n < size THEN Unmoved
  ELSE IF TailIdleSize + HeadIdleSize >= n THEN Compacted
  ELSE Grown(n)

-----------------------------------------------------------------------------
(* The public operations *)

\* n cells c with d copied over them from position p on.
Overlay(c, n, p, d) ==
  [i \in 0 .. n - 1 |-> IF i \in p .. p + Len(d) - 1 THEN d[i - p + 1] ELSE c[i]]

\* Write puts d after the write position; pushed tells how far w then moves.
Put(d, pushed) ==
  LET b == EnsureWriteSpace(Len(d)) IN
  /\ b.size <= MaxSize
  /\ size' = b.size
  /\ cells' = Overlay(b.cells, b.size, b.w, d)
  /\ r' = b.r
  /\ w' = b.w + pushed
  /\ UNCHANGED out

\* Write, WriteString, WriteBuffer
Write(d) == Put(d, 0) /\ staged' = d

\* WriteAndPush, WriteAndPushString, WriteAndPushBuffer
WriteAndPush(d) == Put(d, Len(d)) /\ staged' = <<>>

\* The assert looks at the vector only: more may be pushed than was written.
MoveWriteOffset(n) ==
  /\ w' = w + n
  /\ staged' = SubSeq(staged, n + 1, Len(staged))
  /\ UNCHANGED <<size, cells, r, out>>

\* Read, ReadAsString
Read(n) ==
  /\ out' = Copy(cells, r, n)
  /\ UNCHANGED <<size, cells, r, w, staged>>

\* ReadAndPop, ReadAsStringAndPop
ReadAndPop(n) ==
  /\ out' = Copy(cells, r, n)
  /\ r' = r + n
  /\ UNCHANGED <<size, cells, w, staged>>

\* FindCRLF: the position of the first newline, if there is one.
LineEnds == {p \in r .. w - 1 : cells[p] = NL /\ \A k \in r .. p - 1 : cells[k] # NL}

\* What GetLine makes of it: up to the newline and with it.
LineSize == IF LineEnds = {} THEN 0 ELSE (CHOOSE p \in LineEnds : TRUE) - r + 1

GetLine       == Read(LineSize)
GetLineAndPop == ReadAndPop(LineSize)

Clear ==
  /\ r' = 0 /\ w' = 0
  /\ staged' = <<>>
  /\ UNCHANGED <<size, cells, out>>

-----------------------------------------------------------------------------
Next ==
  \/ \E d \in Writes : Write(d) \/ WriteAndPush(d)
  \/ \E n \in 0 .. TailIdleSize : MoveWriteOffset(n)
  \/ \E n \in 0 .. ReadAbleSize : Read(n) \/ ReadAndPop(n)
  \/ GetLine \/ GetLineAndPop
  \/ Clear

Spec == Init /\ [][Next]_vars

-----------------------------------------------------------------------------
(***************************************************************************)
(* The bytes come out as they went in, across moves and growth.             *)
(***************************************************************************)
Stream == INSTANCE ByteStream WITH content <- Readable
ImplementsByteStream == Stream!Init /\ [][Stream!Next]_(Stream!vars)

(***************************************************************************)
(* What was written and not pushed yet stays where a push will find it,     *)
(* although reads and pushes happen in between.                             *)
(***************************************************************************)
StagedInPlace ==
  /\ Len(staged) <= TailIdleSize
  /\ Copy(cells, w, Len(staged)) = staged

(***************************************************************************)
(* The vector grows only when the unread bytes and the new ones do not fit. *)
(***************************************************************************)
GrowsWhenFull ==
  [][size' > size => Len(Readable)' + Len(staged)' > size]_vars
=============================================================================
