----------------------------- MODULE FileNames -----------------------------
(***************************************************************************)
(* The name of a resume on its way from the upload to the object store:    *)
(* SanitizeFilename cleans it, ValidateResume compares its extension with  *)
(* the first bytes of the file, and GenerateResumeKey, which cleans it a   *)
(* second time, makes the object's key of it.                              *)
(***************************************************************************)
EXTENDS Text

CONSTANTS
  Symbols,      \* what names are made of
  MaxBase,      \* 100 in the code: the length of a name without extension
  MaxName,      \* bound: the length of an uploaded name
  Contents      \* what the first bytes of a file can be: a format, or "other"

\* Of the symbols "pdf" and "doc" stand for those three letters; ".", "/", "\\",
\* " ", "_" and "-" are themselves, "a" a letter, "%" any other character.

VARIABLES
  upload,    \* the request: the name and the content of the file
  outcome    \* what becomes of it: the name stored in the row, and the key

vars == <<upload, outcome>>

Pending == [state |-> "pending"]
Refused == [state |-> "refused"]
Stored(name, key) == [state |-> "stored", name |-> name, key |-> key]

Safe == {"a", "pdf", "doc", "resume", ".", "_", "-"}
Resume == <<"resume">>

\* filepath.Base: the last element of the path, without the slashes at its end.
Base(path) ==
  LET stem == TrimRight(path, {"/"})
  IN IF stem = <<>> THEN <<"/">> ELSE AfterLast(stem, "/")

\* filepath.Ext: from the last dot on.
Ext(name) == LET dot == SelectLastInSeq(name, LAMBDA c : c = ".")
             IN IF dot = 0 THEN <<>> ELSE SubSeq(name, dot, Len(name))

Stem(name) == SubSeq(name, 1, Len(name) - Len(Ext(name)))

\* The name without directories of either kind of separator.
FileOf(name) ==
  AfterLast(MapText(Base(name), LAMBDA c : IF c = "\\" THEN "/" ELSE c), "/")

\* Mutant: dots and hyphens at the ends are left.
CleanedOnly(stem) ==
  LET safe == MapText(stem, LAMBDA c : IF c \in Safe THEN c ELSE "_")
  IN Cut(IF stem = <<>> THEN Resume ELSE Collapse(safe, "_"), MaxBase)

Cleaned(stem) ==
  LET safe == MapText(stem, LAMBDA c : IF c \in Safe THEN c ELSE "_")
      clean == Trim(Collapse(safe, "_"), {".", "_", "-", " "})
  IN Cut(IF clean = <<>> THEN Resume ELSE clean, MaxBase)

SanitizeFilename(name) ==
  LET file == FileOf(Trim(name, {" "}))
      ext == IF Ext(file) = <<".">> THEN <<>> ELSE Ext(file)
  IN IF Trim(name, {" "}) = <<>> \/ file \in {<<>>, <<".">>} THEN Resume
     ELSE Cleaned(Stem(file)) \o ext

\* Mutant: the extension is not compared with the content.
FormatOfName(name, content) == Ext(name) \in {<<".", "pdf">>, <<".", "doc">>}

\* ValidateResume: an allowed extension, and the magic bytes that go with it.
FormatOf(name, content) == Ext(name) = <<".", content>> /\ content \in {"pdf", "doc"}

\* GenerateResumeKey, of posting and application.
GenerateResumeKey(name) == <<"resumes", "job", "application", SanitizeFilename(name)>>

-----------------------------------------------------------------------------
Init == /\ upload \in [name : BoundedSeq(Symbols, MaxName), content : Contents]
        /\ outcome = Pending

\* Apply: validation, the key, the row.
Accept ==
  LET name == SanitizeFilename(upload.name) IN
  /\ outcome = Pending
  /\ upload.name # <<>> /\ FormatOf(name, upload.content)
  /\ outcome' = Stored(name, GenerateResumeKey(name))
  /\ UNCHANGED upload

\* No file name, or an unsupported type.
Refuse ==
  /\ outcome = Pending
  /\ upload.name = <<>> \/ ~FormatOf(SanitizeFilename(upload.name), upload.content)
  /\ outcome' = Refused
  /\ UNCHANGED upload

Next == Accept \/ Refuse

Spec == Init /\ [][Next]_vars

-----------------------------------------------------------------------------
IsStored == outcome.state = "stored"

\* An accepted name is one element of a path, in safe characters, no longer than
\* the limit and four more; SanitizeFilename leaves the extension as it comes, so
\* this takes the check of the extension too.
AcceptedNameIsSafe ==
  IsStored => /\ ToSet(outcome.name) \subseteq Safe
              /\ outcome.name[1] # "."
              /\ Len(outcome.name) <= MaxBase + 2

\* The extension of the stored name, from which a reader takes the type, is that
\* of the content, after the second cleaning as well.
TypeMatchesContent ==
  IsStored => /\ Ext(outcome.name) = <<".", upload.content>>
              /\ Ext(outcome.key[4]) = <<".", upload.content>>
=============================================================================
