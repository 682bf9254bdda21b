----------------------------- MODULE TextArrays -----------------------------
(***************************************************************************)
(* TextArray, the list of texts in a text[] column: Value writes the array *)
(* literal that PostgreSQL reads, Scan reads the one that it writes.  The  *)
(* two forms differ: Value quotes every element, PostgreSQL quotes those   *)
(* that need it.  A list is written, read back, and written again from     *)
(* what was read when the whole row is updated.                            *)
(***************************************************************************)
EXTENDS Text

CONSTANTS
  Symbols,    \* the characters of texts
  MaxText,    \* bound: the length of a text
  MaxTexts    \* bound: the length of a list

VARIABLES
  asked,   \* the list as the caller gave it
  texts,   \* the list in the program
  row      \* the column: none, or the one list in it

vars == <<asked, texts, row>>

Quote == "\""
Backslash == "\\"

\* A literal without its braces, as the elements with commas between them.
Listed(elements) ==
  FlattenSeq([i \in DOMAIN elements |->
                IF i = 1 THEN elements[i] ELSE <<",">> \o elements[i]])

Quoted(text, Special) ==
  <<Quote>> \o FlattenSeq([i \in DOMAIN text |->
                 IF text[i] \in Special THEN <<Backslash, text[i]>> ELSE <<text[i]>>])
            \o <<Quote>>

-----------------------------------------------------------------------------
(* Reading a literal: what each character of it is.  The loops that read    *)
(* keep the same in two flags, escaped and inQuotes.                        *)

\* The characters after a backslash that is not itself after one.
Escaped(literal) ==
  LET after[i \in Nat] == i > 1 /\ literal[i - 1] = Backslash /\ ~after[i - 1]
  IN {i \in DOMAIN literal : after[i]}

\* The quotes that open and close.
Marks(literal) == {i \in DOMAIN literal : literal[i] = Quote} \ Escaped(literal)
InQuotes(literal, i) == Cardinality({m \in Marks(literal) : m < i}) % 2 = 1

\* What is copied of a part of the literal.
Unescaped(literal, part) ==
  Selected(literal,
           {i \in part : i \in Escaped(literal) \/ literal[i] \notin {Quote, Backslash}})

-----------------------------------------------------------------------------
(* The program *)

Value(list) == Listed([i \in DOMAIN list |-> Quoted(list[i], {Quote, Backslash})])

\* Mutant: a comma ends an element, in quotes or not.
BreaksAnywhere(literal) == {i \in DOMAIN literal : literal[i] = ","} \ Escaped(literal)

\* The commas that end an element.
Breaks(literal) ==
  {i \in DOMAIN literal \ Escaped(literal) : literal[i] = "," /\ ~InQuotes(literal, i)}

Scan(literal) ==
  LET ends == {0, Len(literal) + 1} \cup Breaks(literal)
  IN IF literal = <<>> THEN <<>>
     ELSE [n \in 1..(Cardinality(ends) - 1) |->
             Unescaped(literal, (Nth(ends, n) + 1)..(Nth(ends, n + 1) - 1))]

-----------------------------------------------------------------------------
(* PostgreSQL *)

\* array_in: an element for each pair of quotes, with commas and blanks outside
\* them, as Value writes nothing else there.  A malformed literal has no list, and
\* the statement fails.
ArrayIn(literal) ==
  LET marks == Marks(literal)
      WellFormed ==
        /\ Cardinality(marks) % 2 = 0
        /\ \A i \in DOMAIN literal \ marks : ~InQuotes(literal, i) => literal[i] \in {",", " "}
  IN IF WellFormed
     THEN {[n \in 1..(Cardinality(marks) \div 2) |->
              Unescaped(literal, Nth(marks, 2 * n - 1)..Nth(marks, 2 * n))]}
     ELSE {}

\* array_out quotes an element that is empty or has one of these.
NeedsQuotes(text) ==
  text = <<>> \/ \E i \in DOMAIN text : text[i] \in {Quote, Backslash, "{", "}", ",", " "}

ArrayOut(list) ==
  Listed([i \in DOMAIN list |->
            IF NeedsQuotes(list[i]) THEN Quoted(list[i], {Quote, Backslash}) ELSE list[i]])

-----------------------------------------------------------------------------
Lists == BoundedSeq(BoundedSeq(Symbols, MaxText), MaxTexts)

Init == asked \in Lists /\ texts = asked /\ row = {}

\* Create and Update: the column is written from the list in the program.
Write == /\ ArrayIn(Value(texts)) # {}
         /\ row' = ArrayIn(Value(texts))
         /\ UNCHANGED <<asked, texts>>

\* scanSubscription.
Read == \E list \in row : texts' = Scan(ArrayOut(list)) /\ UNCHANGED <<asked, row>>

Next == Write \/ Read

Spec == Init /\ [][Next]_vars

-----------------------------------------------------------------------------
\* What the column holds, and what is read from it, is the list the caller gave,
\* however often it is read and written back and whatever its texts are made of:
\* Scan undoes array_out, which quotes otherwise than Value does.
TextsComeBack == texts = asked /\ row \subseteq {asked}
=============================================================================
