---------------------------- MODULE CustomForms ----------------------------
(***************************************************************************)
(* The custom questions of a posting and the answers of a candidate.       *)
(* ValidateCustomFields admits the form when a posting is created or       *)
(* updated; ValidateCustomAnswers checks an application against the form   *)
(* of the posting it read.  The two are separate functions that have to    *)
(* agree on what a field means.                                            *)
(*                                                                         *)
(* A text is a word, and whether there are blanks around it.  Both         *)
(* functions ignore case.                                                  *)
(***************************************************************************)
EXTENDS Naturals, Sequences

CONSTANTS
  Fields,     \* the field definitions that occur in forms
  MaxFields   \* bound: fields in a form

VARIABLES
  form,   \* the form of the posting, in its row
  given   \* the answers of the application just accepted, a set of none or one

vars == <<form, given>>

Text(word, blanks) == [word |-> word, blanks |-> blanks]
Plain(word) == Text(word, FALSE)
Padded(word) == Text(word, TRUE)
Trimmed(text) == Plain(text.word)

\* A definition; options are compared without their blanks, so they are words.
Field(id, type, required, options) ==
  [id |-> id, type |-> type, required |-> required, options |-> options]

Types == {"text", "number", "url", "select", "textarea", "boolean"}

\* What json.Unmarshal makes of an answer.
Null == [json |-> "null", word |-> ""]
String(word) == [json |-> "string", word |-> word]
Number == [json |-> "number", word |-> "7"]
Boolean == [json |-> "boolean", word |-> "true"]
EmptyList == [json |-> "empty list", word |-> "[]"]
List == [json |-> "list", word |-> "[red]"]

\* The words that mean something to some field, the options among them.
Words == {"", "7", "http://host", "true"}
         \cup UNION {{field.options[i] : i \in DOMAIN field.options} : field \in Fields}
Values == {String(w) : w \in Words} \cup {Null, Number, Boolean, EmptyList, List}

-----------------------------------------------------------------------------
(* The form                                                                 *)

\* customFieldIDRegex; "?" stands for a word with another character.
IsIdWord(word) == word \notin {"", "?"}

\* Mutant: blank options are let through.
AnyOptions(options) == options # <<>>

OptionsAreValid(options) == options # <<>> /\ \A i \in DOMAIN options : options[i] # ""

FieldIsValid(field) ==
  /\ IsIdWord(field.id.word)
  /\ field.type.word \in Types
  /\ field.type.word = "select" => OptionsAreValid(field.options)

\* Ids are compared without blanks.
ValidateCustomFields(fields) ==
  /\ \A i \in DOMAIN fields : FieldIsValid(fields[i])
  /\ \A i, j \in DOMAIN fields : fields[i].id.word = fields[j].id.word => i = j

-----------------------------------------------------------------------------
(* The answers: a function from ids, as they are spelled, to values         *)

IsEmptyValue(value) ==
  value = Null \/ value = EmptyList \/ (value.json = "string" /\ value.word = "")

IsValidNumber(value) == value.json = "number" \/ (value.json = "string" /\ value.word = "7")
IsValidURL(value) == value.json = "string" /\ value.word = "http://host"
IsValidBoolean(value) == value.json = "boolean" \/ (value.json = "string" /\ value.word = "true")

\* fmt.Sprint makes a text of any value.
IsValidOption(value, options) == \E i \in DOMAIN options : options[i] = value.word

\* The switch is over the type as it is stored; a spelling it does not know is
\* checked like a text.
IsValidAnswer(field, value) ==
  \/ IsEmptyValue(value)
  \/ field.type.blanks
  \/ CASE field.type.word = "number"  -> IsValidNumber(value)
       [] field.type.word = "url"     -> IsValidURL(value)
       [] field.type.word = "boolean" -> IsValidBoolean(value)
       [] field.type.word = "select"  -> field.options = <<>> \/ IsValidOption(value, field.options)
       [] OTHER -> TRUE

\* An answer that is not there is like null.
ValueOf(answers, id) == IF id \in DOMAIN answers THEN answers[id] ELSE Null

\* Mutant: an answer of blanks satisfies a required field.
RequiredIsPresent(field, answers) == field.required => ValueOf(answers, field.id) # Null

RequiredIsAnswered(field, answers) == field.required => ~IsEmptyValue(ValueOf(answers, field.id))

ValidateCustomAnswers(fields, answers) ==
  \A i \in DOMAIN fields :
    /\ RequiredIsAnswered(fields[i], answers)
    /\ IsValidAnswer(fields[i], ValueOf(answers, fields[i].id))

-----------------------------------------------------------------------------
Forms == UNION {[1..n -> Fields] : n \in 0..MaxFields}
Ids(fields) == {fields[i].id : i \in DOMAIN fields}
AnswersTo(fields) == UNION {[ids -> Values] : ids \in SUBSET Ids(fields)}

Init == form = <<>> /\ given = {}

\* CreateJob, UpdateJob: the form is stored as it came.  An application keeps to the
\* form it was checked against, so a form is set between two candidates only.
SetForm(fields) == /\ given = {}
                   /\ ValidateCustomFields(fields)
                   /\ form' = fields
                   /\ UNCHANGED given

\* Apply, from reading the posting to inserting the row, which keeps the answers
\* as they came.
Apply(answers) == /\ given = {}
                  /\ ValidateCustomAnswers(form, answers)
                  /\ given' = {answers}
                  /\ UNCHANGED form

\* The next candidate comes.
NextCandidate == given # {} /\ given' = {} /\ UNCHANGED form

Next == \/ \E fields \in Forms : SetForm(fields)
        \/ \E answers \in AnswersTo(form) : Apply(answers)
        \/ NextCandidate

Spec == Init /\ [][Next]_vars

-----------------------------------------------------------------------------
\* What a value of a field has to be, by the type the form names, blanks or not.
HasType(field, value) ==
  CASE field.type.word = "number"  -> value.json = "number" \/ value = String("7")
    [] field.type.word = "url"     -> value = String("http://host")
    [] field.type.word = "boolean" -> value.json = "boolean" \/ value = String("true")
    [] field.type.word = "select"  -> value.word \in {field.options[i] : i \in DOMAIN field.options}
    [] OTHER -> TRUE

\* Stored answers are of the types their form names, and required ones are there:
\* the two validations together, with what each of them lets through.
AnswersMeetForm ==
  \A answers \in given :
    \A i \in DOMAIN form :
      LET value == ValueOf(answers, form[i].id)
      IN IF IsEmptyValue(value) THEN ~form[i].required ELSE HasType(form[i], value)

\* Every form that a posting can get has answers that Apply accepts, whichever of
\* its fields are required: no posting is closed to candidates by its own form.
EveryFormHasAnswers ==
  \E answers \in [Ids(form) -> Values] : ValidateCustomAnswers(form, answers)
=============================================================================
