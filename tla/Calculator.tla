----------------------------- MODULE Calculator -----------------------------
(***************************************************************************)
(* The calculator of protocol/: tcpclient.cpp sends "x op y" to a process   *)
(* that tcpserver.hpp forks for each connection, waits for the answer and   *)
(* sends the next.  A frame is "len\ncontent\n".  TCP keeps the bytes in    *)
(* order and may hand over a frame in pieces; the server looks at each      *)
(* piece alone, as it replaces what it has read by what it answers.         *)
(* Connections share nothing, so there is one, with one client at a time.   *)
(***************************************************************************)
EXTENDS Integers, Sequences, SequencesExt

CONSTANTS
  Xs, Ys, Ops,   \* what rand() gives the client
  TornAnswers    \* TRUE: an answer may reach the client in pieces

ASSUME OperandsAssumption ==
  /\ Xs \subseteq 1 .. 100 /\ Ys \subseteq 0 .. 99
  /\ Ops \subseteq {"+", "-", "*", "/", "%", "=", "&", "^"}
  /\ TornAnswers \in BOOLEAN

VARIABLES
  up, down,      \* bytes written and not yet read, to and from the server
  client,        \* "send": loop again; "read": waits for an answer; "gone"
  child,         \* "read": waits for bytes; "serve": in the inner loop; "exited"
  inbuffer,      \* inbuffer_stream
  req,           \* the request sent last
  buffer,        \* the content the client unpacked in this turn of its loop
  torn           \* history: this request was read in pieces

vars == <<up, down, client, child, inbuffer, req, buffer, torn>>

Requests == [x : Xs, y : Ys, op : Ops]

-----------------------------------------------------------------------------
(* Characters, to_string and atoi. *)

NL == "\n"
SP == " "
Numerals == <<"0", "1", "2", "3", "4", "5", "6", "7", "8", "9">>
Chars == ToSet(Numerals) \cup {NL, SP, "+", "-", "*", "/", "%", "=", "&", "^"}

Digits[n \in Nat] ==
  IF n < 10 THEN <<Numerals[n + 1]>>
            ELSE Append(Digits[n \div 10], Numerals[(n % 10) + 1])

to_string(i) == IF i < 0 THEN <<"-">> \o Digits[-i] ELSE Digits[i]

\* The longest prefix of s over C, and the rest.
Span(s, C) == CHOOSE n \in 0 .. Len(s) :
  /\ \A i \in 1 .. n : s[i] \in C
  /\ n = Len(s) \/ s[n + 1] \notin C
Over(s, C)  == SubSeq(s, 1, Span(s, C))
After(s, C) == SubSeq(s, Span(s, C) + 1, Len(s))

find_first_of(s, c) == SelectInSeq(s, LAMBDA d : d = c)   \* 0: there is none

\* Blanks, a sign, digits; 0 when there are none.
atoi(s) ==
  LET text == After(s, {SP, NL})
      sign == IF IsPrefix(<<"-">>, text) THEN -1 ELSE 1
      body == IF IsPrefix(<<"-">>, text) \/ IsPrefix(<<"+">>, text)
                THEN Tail(text) ELSE text
      digits == Over(body, ToSet(Numerals))
  IN  sign * FoldLeft(LAMBDA n, c : 10 * n + find_first_of(Numerals, c) - 1, 0, digits)

-----------------------------------------------------------------------------
(* Frames and what is in them. *)

Decode(content) == to_string(Len(content)) \o <<NL>> \o content \o <<NL>>

Prefix(package) == SubSeq(package, 1, find_first_of(package, NL) - 1)
total_len(package) == Len(Prefix(package)) + atoi(Prefix(package)) + 2

\* Mutant: the size is not compared with what has arrived.
HoldsSeparator(package) == find_first_of(package, NL) # 0

\* Encode returns true.  total_len is a size_t: below 0 it exceeds every size.
Encodes(package) ==
  /\ find_first_of(package, NL) # 0
  /\ total_len(package) \in 0 .. Len(package)

\* substr is given total_len, not the size: the content keeps its last
\* separator, and what follows the frame if there is something.
Content(package) ==
  LET left == find_first_of(package, NL)
      last == left + total_len(package)
  IN  SubSeq(package, left + 1, IF last < Len(package) THEN last ELSE Len(package))

Serialize(r) == to_string(r.x) \o <<SP, r.op, SP>> \o to_string(r.y)

\* Deserialize returns true: one character between the first space and the last.
Deserializes(in) ==
  LET left == find_first_of(in, SP)
  IN  /\ left # 0 /\ left + 2 \in DOMAIN in /\ in[left + 2] = SP
      /\ \A i \in left + 3 .. Len(in) : in[i] # SP

Deserialize(in) ==
  LET left == find_first_of(in, SP)
  IN  [x |-> atoi(SubSeq(in, 1, left - 1)), op |-> in[left + 1],
       y |-> atoi(SubSeq(in, left + 3, Len(in)))]

-----------------------------------------------------------------------------
(* calculator.hpp.  "/" truncates, which \div does too: nothing is negative. *)

CalculatorHelper(r) ==
  CASE r.op = "+" -> [results |-> r.x + r.y, code |-> 0]
    [] r.op = "-" -> [results |-> r.x - r.y, code |-> 0]
    [] r.op = "*" -> [results |-> r.x * r.y, code |-> 0]
    [] r.op = "/" /\ r.y = 0 -> [results |-> 0, code |-> 1]
    [] r.op = "/" /\ r.y # 0 -> [results |-> r.x \div r.y, code |-> 0]
    [] r.op = "%" /\ r.y = 0 -> [results |-> 0, code |-> 2]
    [] r.op = "%" /\ r.y # 0 -> [results |-> r.x % r.y, code |-> 0]
    [] OTHER -> [results |-> 0, code |-> 3]

\* Response::Serialize
Response(r) == to_string(r.results) \o <<SP>> \o to_string(r.code)

\* Mutant: no answer to an operator the calculator does not know.
CalculatorKnownOnly(package) ==
  IF /\ Encodes(package) /\ Deserializes(Content(package))
     /\ CalculatorHelper(Deserialize(Content(package))).code # 3
    THEN Decode(Response(CalculatorHelper(Deserialize(Content(package)))))
    ELSE <<>>

Calculator(package) ==
  IF Encodes(package) /\ Deserializes(Content(package))
    THEN Decode(Response(CalculatorHelper(Deserialize(Content(package)))))
    ELSE <<>>

-----------------------------------------------------------------------------
TypeOK ==
  /\ up \in Seq(Chars) /\ down \in Seq(Chars) /\ inbuffer \in Seq(Chars)
  /\ client \in {"send", "read", "gone"} /\ child \in {"read", "serve", "exited"}
  /\ req \in Requests /\ buffer \in Seq(Chars) /\ torn \in BOOLEAN
  /\ child = "read" => inbuffer = <<>>
  /\ ~TornAnswers => Len(up) <= 11 /\ Len(down) <= 11   \* the frame of "100 * 99"

Init ==
  /\ up = <<>> /\ down = <<>> /\ inbuffer = <<>>
  /\ client = "send" /\ child = "read"
  /\ req \in Requests
  /\ buffer = <<>> /\ torn = FALSE

(* The client: compose a request, send it, wait for bytes, unpack them. *)

\* Mutant: the client does not wait for an answer.
SendAhead ==
  /\ client \in {"send", "read"}
  /\ req' \in Requests
  /\ up' = up \o Decode(Serialize(req'))
  /\ client' = "read" /\ buffer' = <<>> /\ torn' = FALSE
  /\ UNCHANGED <<down, child, inbuffer>>

Send ==
  /\ client = "send"
  /\ req' \in Requests
  /\ up' = up \o Decode(Serialize(req'))
  /\ client' = "read" /\ buffer' = <<>> /\ torn' = FALSE
  /\ UNCHANGED <<down, child, inbuffer>>

\* The bytes are dropped when they do not encode, as "in" is a local variable.
Unpack ==
  /\ client = "read" /\ down # <<>>
  /\ \E n \in IF TornAnswers THEN 1 .. Len(down) ELSE {Len(down)} :
       LET in == SubSeq(down, 1, n)
       IN  /\ down' = SubSeq(down, n + 1, Len(down))
           /\ buffer' = IF Encodes(in) THEN Content(in) ELSE buffer
  /\ client' = "send"
  /\ UNCHANGED <<up, child, inbuffer, req, torn>>

\* The client is killed: nothing else ends its loop.
Leave ==
  /\ client \in {"send", "read"}
  /\ client' = "gone" /\ down' = <<>>
  /\ UNCHANGED <<up, child, inbuffer, req, buffer, torn>>

-----------------------------------------------------------------------------
(* The server: read what has come, answer until there is nothing to answer. *)

Read ==
  /\ child = "read" /\ up # <<>>
  /\ \E n \in 1 .. Len(up) :
       /\ inbuffer' = inbuffer \o SubSeq(up, 1, n)
       /\ up' = SubSeq(up, n + 1, Len(up))
       /\ torn' = (torn \/ n < Len(up))
  /\ child' = "serve"
  /\ UNCHANGED <<down, client, req, buffer>>

\* The answer is written, and given to Calculator in its turn.
Serve ==
  /\ child = "serve"
  /\ inbuffer' = Calculator(inbuffer)
  /\ child' = IF inbuffer' = <<>> THEN "read" ELSE "serve"
  /\ down' = IF client = "gone" THEN down ELSE down \o inbuffer'
  /\ UNCHANGED <<up, client, req, buffer, torn>>

ReadEnd ==
  /\ child = "read" /\ up = <<>> /\ client = "gone"
  /\ child' = "exited"
  /\ UNCHANGED <<up, down, client, inbuffer, req, buffer, torn>>

\* Another client connects and another child is forked.
Accept ==
  /\ child = "exited"
  /\ client' = "send" /\ child' = "read"
  /\ UNCHANGED <<up, down, inbuffer, req, buffer, torn>>

Run == Read \/ Serve \/ ReadEnd \/ Accept

Next == Send \/ Unpack \/ Leave \/ Run

\* Both programs are scheduled, and nothing makes a user stop the client.  The
\* second conjunct is WF_vars(Serve), which is enabled when child = "serve".
Fairness ==
  /\ WF_vars(Read) /\ WF_vars(ReadEnd) /\ WF_vars(Accept)
  /\ <>[](child = "serve") => []<><<Serve>>_vars
  /\ WF_vars(Send) /\ WF_vars(Unpack)

Spec == Init /\ [][Next]_vars /\ Fairness

-----------------------------------------------------------------------------
(***************************************************************************)
(* Whatever pieces a request arrives in, the server answers what was asked  *)
(* or nothing: a piece is never taken for another request, and no answer is *)
(* left over for the next one.                                              *)
(***************************************************************************)
RightAnswer ==
  [][Unpack => /\ buffer' = Response(CalculatorHelper(req)) \o <<NL>>
               /\ down' = <<>> /\ up = <<>>]_vars

(***************************************************************************)
(* A request that reaches the server in one piece is answered, whatever was *)
(* asked: the client waits for ever only when it was read in pieces.        *)
(***************************************************************************)
Answered == client = "read" ~> client # "read" \/ torn
=============================================================================
