-------------------------------- MODULE Text --------------------------------
(* The functions of Go's strings package that the program's own conversions *)
(* call.  A text is a sequence of symbols; a symbol stands for a character, *)
(* or for a piece of text that is never taken apart.                        *)
EXTENDS Integers, Sequences, FiniteSets, SequencesExt

\* strings.Trim, TrimRight: without the symbols of C at both ends, or at the end.
Trim(s, C) ==
  LET first == SelectInSeq(s, LAMBDA c : c \notin C)
      last == SelectLastInSeq(s, LAMBDA c : c \notin C)
  IN IF first = 0 THEN <<>> ELSE SubSeq(s, first, last)

TrimRight(s, C) == SubSeq(s, 1, SelectLastInSeq(s, LAMBDA c : c \notin C))

\* What follows the last c; the whole text when there is none.
AfterLast(s, c) == SubSeq(s, SelectLastInSeq(s, LAMBDA x : x = c) + 1, Len(s))

\* s[:n], the program's way of cutting a text that is too long.
Cut(s, n) == IF Len(s) > n THEN SubSeq(s, 1, n) ELSE s

\* Each symbol changed by Op.
MapText(s, Op(_)) == [i \in DOMAIN s |-> Op(s[i])]

\* The n-th of a set of positions, and the symbols of a text at some positions, in
\* their order: what a loop that passes over the others has copied at its end.
Nth(S, n) == CHOOSE i \in S : Cardinality({j \in S : j <= i}) = n
Selected(s, S) == [n \in 1..Cardinality(S) |-> s[Nth(S, n)]]

\* Runs of c become one c: a c that follows another is not copied.
Collapse(s, c) == Selected(s, {i \in DOMAIN s : i > 1 /\ s[i] = c => s[i - 1] # c})
=============================================================================
