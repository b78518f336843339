------------------------------- MODULE Terminal -------------------------------
(***************************************************************************)
(* What the Python console's standard input promises, as a terminal does   *)
(* (web/python/stdin_channel.js, the comments of write, endOfInput and     *)
(* BlockingStdin.read): what was accepted is read once and in order, a     *)
(* read never goes past an end of input, and each end of input is the      *)
(* empty answer of exactly one read.                                       *)
(***************************************************************************)
EXTENDS Naturals, Sequences

CONSTANT Room       \* how many bytes may wait to be read

VARIABLES
  line,       \* the bytes that were accepted and not read
  accepted,   \* how many bytes were ever accepted
  answer      \* what the last read returned

vars == << line, accepted, answer >>

(* The n-th accepted byte, which is text or an end of input.               *)
Byte(n, eof) == [at |-> n, eof |-> eof]

Init ==
  /\ line = << >>
  /\ accepted = 0
  /\ answer = << >>

(* As much of what is typed as there is room for.                          *)
Accept(eof) ==
  \E n \in 1 .. Room - Len(line) :
    /\ line' = line \o [i \in 1 .. n |-> Byte(accepted + i, eof)]
    /\ accepted' = accepted + n
    /\ UNCHANGED answer

ReadText ==
  \E n \in 1 .. Len(line) :
    /\ \A i \in 1 .. n : ~ line[i].eof
    /\ answer' = SubSeq(line, 1, n)
    /\ line' = SubSeq(line, n + 1, Len(line))
    /\ UNCHANGED accepted

ReadEnd ==
  /\ line # << >>
  /\ Head(line).eof
  /\ answer' = << >>
  /\ line' = Tail(line)
  /\ UNCHANGED accepted

Next ==
  \/ \E eof \in BOOLEAN : Accept(eof)
  \/ ReadText
  \/ ReadEnd

Spec == Init /\ [][Next]_vars
=============================================================================
