-------------------------------- MODULE Slugs --------------------------------
(***************************************************************************)
(* GenerateSlug: the slug of a posting made from its title.  CreateJob     *)
(* uses it when the request has none, and the slug it makes is validated,  *)
(* so a title whose slug were not valid could not be posted at all.        *)
(***************************************************************************)
EXTENDS Text

CONSTANTS
  Lower,      \* the lower-case letters and digits ...
  Upper,      \* ... and the upper-case form of each, a function
  Other,      \* the other characters, " " and "-" among them
  MaxSlug,    \* 255 in the code
  MaxTitle    \* bound: the length of a title

VARIABLES
  title,   \* the title of a request
  slug     \* the slug it gets, <<>> before that

vars == <<title, slug>>

ToLower(c) == IF \E l \in Lower : Upper[l] = c THEN CHOOSE l \in Lower : Upper[l] = c ELSE c

\* The word "job", which stands in where the title has no letter.
Job == <<"job">>

\* slugRegex, ^[a-z0-9]+(?:-[a-z0-9]+)*$, and the limit of the column.
IsValidSlug(s) ==
  /\ Len(s) \in 1..MaxSlug
  /\ ToSet(s) \subseteq Lower \cup {"-", "job"}
  /\ s[1] # "-" /\ s[Len(s)] # "-"
  /\ \A i \in 1..(Len(s) - 1) : ~(s[i] = "-" /\ s[i + 1] = "-")

\* What the loop writes: the letters, and a hyphen for a run of others that follows
\* one; the rest of the run, and a run at the beginning, it passes over.
Hyphenated(text) ==
  Selected([i \in DOMAIN text |-> IF text[i] \in Lower THEN text[i] ELSE "-"],
           {i \in DOMAIN text : text[i] \in Lower \/ (i > 1 /\ text[i - 1] \in Lower)})

\* Mutant: a slug is cut without looking at the hyphen it may end in.
ShortenedOnly(s) == Cut(s, MaxSlug)

Shortened(s) == IF Len(s) > MaxSlug THEN TrimRight(Cut(s, MaxSlug), {"-"}) ELSE s

GenerateSlug(t) ==
  LET letters == MapText(Trim(t, {" "}), ToLower)
      text == Trim(Hyphenated(letters), {"-"})
  IN IF text = <<>> THEN Job ELSE Shortened(text)

-----------------------------------------------------------------------------
Titles == BoundedSeq(Lower \cup {Upper[l] : l \in Lower} \cup Other, MaxTitle)

Init == title \in Titles /\ slug = <<>>

\* CreateJob with no slug in the request.
CreateJob == /\ slug = <<>>
             /\ slug' = GenerateSlug(title)
             /\ UNCHANGED title

Next == CreateJob

Spec == Init /\ [][Next]_vars

-----------------------------------------------------------------------------
\* The letters and digits of the title in words: the longest stretches of them.
IsWord(t, i, j) ==
  /\ i <= j /\ \A k \in i..j : ToLower(t[k]) \in Lower
  /\ i > 1 => ToLower(t[i - 1]) \notin Lower
  /\ j < Len(t) => ToLower(t[j + 1]) \notin Lower

WordsBefore(t, i) == Cardinality({k \in 1..i : \E j \in k..Len(t) : IsWord(t, k, j)})

\* Every generated slug passes the validation that follows in CreateJob, however
\* long the title and wherever it is cut.
IsValid == slug # <<>> => IsValidSlug(slug)

\* The slug keeps the words of the title apart and in order: it is the title's
\* letters, each as many hyphens on as there are words before its own, as far as
\* the limit goes.
KeepsWords ==
  slug \notin {<<>>, Job} =>
    \A i \in DOMAIN title : ToLower(title[i]) \in Lower =>
      LET place == Cardinality({k \in 1..i : ToLower(title[k]) \in Lower})
                   + WordsBefore(title, i) - 1
      IN place <= MaxSlug => place \in DOMAIN slug /\ slug[place] = ToLower(title[i])

\* The slug of a title can be stored, and reads like the title: the loop, the
\* trimming and the cut of GenerateSlug leave both alone.
SlugFitsTitle == IsValid /\ KeepsWords
=============================================================================
