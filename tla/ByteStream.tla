----------------------------- MODULE ByteStream -----------------------------
(***************************************************************************)
(* What a byte buffer promises: bytes come out in the order they went in,   *)
(* each once, whatever room the buffer had to make in between.  Bytes may   *)
(* be written first (staged) and committed later; who commits more than was *)
(* staged gets bytes nobody wrote behind them.                              *)
(***************************************************************************)
EXTENDS Naturals, Sequences

CONSTANTS
  Bytes,
  NL,          \* the newline
  MaxWrite     \* the longest write that is looked at

VARIABLES
  content,     \* readable bytes, oldest first
  staged,      \* written after them and not committed
  out          \* what the last read returned

vars == <<content, staged, out>>

Writes == UNION {[1 .. n -> Bytes] : n \in 1 .. MaxWrite}

\* Where the first line of s ends: at most one place.
LineEnds(s) == {i \in 1 .. Len(s) : s[i] = NL /\ \A j \in 1 .. i - 1 : s[j] # NL}

\* Its length with the newline, 0 when there is no whole line.
LineLength(s) == IF LineEnds(s) = {} THEN 0 ELSE CHOOSE i \in LineEnds(s) : TRUE

Init == content = <<>> /\ staged = <<>> /\ out = <<>>

Push(d) == content' = content \o d /\ staged' = <<>> /\ UNCHANGED out
Stage(d)   == staged' = d /\ UNCHANGED <<content, out>>

Commit(n) ==
  /\ content' = content \o SubSeq(staged, 1, n)
  /\ staged' = SubSeq(staged, n + 1, Len(staged))
  /\ UNCHANGED out

CommitMore ==
  /\ content' \in Seq(Bytes)
  /\ Len(content') > Len(content \o staged)
  /\ SubSeq(content', 1, Len(content \o staged)) = content \o staged
  /\ staged' = <<>>
  /\ UNCHANGED out

Peek(n) ==
  /\ out' = SubSeq(content, 1, n)
  /\ UNCHANGED <<content, staged>>

Take(n) ==
  /\ out' = SubSeq(content, 1, n)
  /\ content' = SubSeq(content, n + 1, Len(content))
  /\ UNCHANGED staged

PeekLine == Peek(LineLength(content))
TakeLine == Take(LineLength(content))

Clear == content' = <<>> /\ staged' = <<>> /\ UNCHANGED out

Next ==
  \/ \E d \in Writes : Push(d) \/ Stage(d)
  \/ \E n \in 0 .. Len(staged) : Commit(n)
  \/ CommitMore
  \/ \E n \in 0 .. Len(content) : Peek(n) \/ Take(n)
  \/ PeekLine \/ TakeLine
  \/ Clear

Spec == Init /\ [][Next]_vars
=============================================================================
