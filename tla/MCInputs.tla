------------------------------ MODULE MCInputs ------------------------------
(* Instances of Inputs for TLC.                                            *)
EXTENDS Inputs, TLC

\* Titles: two letters in both cases, three other characters.
Letters == {"a", "b"}
Capitals == ("a" :> "A") @@ ("b" :> "B")
Others == {" ", "-", "?"}

\* Names: with separators of both kinds and whatever is cleaned away.
NameSymbols == {"a", "pdf", ".", "/", "\\", " ", "_", "%"}
FileContents == {"pdf", "doc", "other"}

\* Forms: two ids, one of them with and without blanks, an ill-formed one, every
\* type and one that is none.  The types come without blanks.
Word(w) == [word |-> w, blanks |-> FALSE]
Blanked(w) == [word |-> w, blanks |-> TRUE]
OptionLists == {<<>>, <<"">>, <<"red">>, <<"red", "blue">>}
FormFields ==
  {[id |-> id, type |-> Word(type), required |-> required,
    options |-> IF type = "select" THEN options ELSE <<>>] :
     id \in {Word("q"), Blanked("q"), Word("r"), Word("?")},
     type \in {"number", "url", "select", "boolean", "textarea", "date"},
     required \in BOOLEAN, options \in OptionLists}

\* Texts: each character the two formats treat specially, and a plain one.
TextCharacters == {"a", ",", "\"", "\\", "{", "}", " "}

\* Subscriptions: each kind of secret with each kind of list, urls and events that
\* are refused.  The events come without blanks.
JobTopics == {"job.published", "application.created"}
Host == Blanked("http://host")
Absent == Word("absent")
Asked(url, secret, events) == [url |-> url, secret |-> secret, events |-> events]
AskedFor ==
  {Asked(Host, secret, events) :
     secret \in {Absent, Blanked(""), Blanked("s")},
     events \in {{Word("job.published")}, {Word("*")}, {Word(t) : t \in JobTopics}}}
  \cup {Asked(Host, Word("too long"), {Word("*")}), Asked(Word("ftp://host"), Absent, {Word("*")}),
        Asked(Host, Absent, {}), Asked(Host, Absent, {Word("job.deleted")})}
=============================================================================
