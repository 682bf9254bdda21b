------------------------------- MODULE Inputs -------------------------------
(***************************************************************************)
(* What clients send to be stored, and what is made of it later: titles,   *)
(* names of resumes, forms and answers, lists of texts, subscriptions.     *)
(* The parts share no state, so a behaviour is one of any one of them,     *)
(* chosen at the beginning, while the others stay empty.                   *)
(***************************************************************************)
EXTENDS Naturals, Sequences, FiniteSets

CONSTANTS
  Lower, Upper, Other,    \* the characters of titles
  MaxTitle, MaxSlug,      \* of titles and slugs
  Symbols, Contents,      \* the characters of names, the contents of files
  MaxName, MaxBase,       \* of names of resumes
  Fields, MaxFields,      \* of forms
  Characters,             \* of texts in lists
  MaxText, MaxTexts,      \* of lists of texts
  Topics, Requests,       \* what subscriptions are asked for
  SubIds                  \* of subscriptions

ASSUME FieldsAssumption == \A field \in Fields : field.options \in Seq(STRING)
ASSUME LettersAssumption ==
  {" ", "-"} \cap (Lower \cup {Upper[l] : l \in Lower}) = {}
ASSUME MaxSlugAssumption == MaxSlug \in Nat \ {0}
ASSUME MaxBaseAssumption == MaxBase \in Nat \ {0}
ASSUME MaxFieldsAssumption == MaxFields \in Nat

VARIABLES part, title, slug, upload, outcome, form, given, asked, texts, row,
          rows, tasks, test, made, sent

ofSlugs == <<title, slug>>
ofNames == <<upload, outcome>>
ofForms == <<form, given>>
ofTexts == <<asked, texts, row>>
ofSubscriptions == <<rows, tasks, test, made, sent>>
vars == <<part, ofSlugs, ofNames, ofForms, ofTexts, ofSubscriptions>>

-----------------------------------------------------------------------------
(* The parts *)

Titles == INSTANCE Slugs
Names == INSTANCE FileNames
Forms == INSTANCE CustomForms
Texts == INSTANCE TextArrays WITH Symbols <- Characters
Subs == INSTANCE Subscriptions

-----------------------------------------------------------------------------
(* The behaviours *)

NoTitle == title = <<>> /\ slug = <<>>
NoName == upload = <<>> /\ outcome = Names!Pending
NoTexts == asked = <<>> /\ texts = <<>> /\ row = {}

Init ==
  /\ part \in {"title", "name", "form", "texts", "subscriptions"}
  /\ IF part = "title" THEN Titles!Init ELSE NoTitle
  /\ IF part = "name" THEN Names!Init ELSE NoName
  /\ IF part = "texts" THEN Texts!Init ELSE NoTexts
  /\ Forms!Init /\ Subs!Init

Next ==
  /\ UNCHANGED part
  /\ \/ part = "title" /\ Titles!Next /\ UNCHANGED <<ofNames, ofForms, ofTexts, ofSubscriptions>>
     \/ part = "name" /\ Names!Next /\ UNCHANGED <<ofSlugs, ofForms, ofTexts, ofSubscriptions>>
     \/ part = "form" /\ Forms!Next /\ UNCHANGED <<ofSlugs, ofNames, ofTexts, ofSubscriptions>>
     \/ part = "texts" /\ Texts!Next /\ UNCHANGED <<ofSlugs, ofNames, ofForms, ofSubscriptions>>
     \/ part = "subscriptions" /\ Subs!Next /\ UNCHANGED <<ofSlugs, ofNames, ofForms, ofTexts>>

Spec == Init /\ [][Next]_vars

-----------------------------------------------------------------------------
(* What the parts promise *)

\* A generated slug passes its validation and keeps the words of the title.
SlugFitsTitle == Titles!SlugFitsTitle

\* A stored name of a resume is one path element of safe characters.
AcceptedNameIsSafe == Names!AcceptedNameIsSafe

\* Its extension is that of the content, after the second cleaning as well.
TypeMatchesContent == Names!TypeMatchesContent

\* Stored answers are what the form of their posting asks for.
AnswersMeetForm == Forms!AnswersMeetForm

\* A form that passes its validation has answers that pass theirs.
EveryFormHasAnswers == Forms!EveryFormHasAnswers

\* A list of texts survives any number of trips to the database.
TextsComeBack == Texts!TextsComeBack

\* Messages are signed with the secret the subscription was created with.
SignedAsCreated == Subs!SignedAsCreated

\* An event addresses the active subscriptions that asked for it, and no other.
AddressesSubscribers == Subs!AddressesSubscribers
=============================================================================
