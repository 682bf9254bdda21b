---------------------------- MODULE Applications ----------------------------
(***************************************************************************)
(* Candidate applications: internal/service/application_service.go over    *)
(* the applications and application_notes tables and the object store.     *)
(*                                                                         *)
(* Apply uploads the resume, inserts the row, and deletes the resume again *)
(* when the insert fails.  Row and object are in two systems, so any call  *)
(* may fail, or succeed with its answer lost, and the process may end      *)
(* between two calls.  UpdateStage reads the row, writes the new stage and *)
(* announces the change from the copy it read.  Deleting a posting takes   *)
(* its applications and notes along by cascade, and leaves their objects.  *)
(***************************************************************************)
EXTENDS Naturals, Sequences

CONSTANTS
  Requests,   \* the requests in progress at a time
  JobIds,     \* postings
  AppIds,     \* primary keys, drawn afresh by every Apply
  Stages,     \* the stages of the pipeline
  Reasons,    \* rejection reasons a client can send, "nil" for none
  MaxNotes    \* bound: notes per application

ASSUME StagesAssumption == {"applied", "rejected"} \subseteq Stages /\ "none" \notin Stages
ASSUME ReasonsAssumption == "nil" \in Reasons /\ "none" \notin Reasons
ASSUME MaxNotesAssumption == MaxNotes \in Nat

VARIABLES
  postings,   \* job -> "none", "open" (published), "closed" or "deleted"
  apps,       \* application -> row, NoApp before it exists, Gone after
  notes,      \* application -> number of review notes
  objects,    \* the applications whose resume is in the object store
  handler,    \* request -> where it is and what it holds
  \* history variables, read by the properties only
  told,       \* application -> stage and rejection reason last queued for
              \* the subscribers
  accepted,   \* applications whose candidate was answered 201
  doubtful,   \* applications inserted by a statement whose answer was lost
  leftovers,  \* applications whose object a failed step, a crash or a
              \* cascade may have left behind
  disturbed   \* applications two handlers worked on at once, or with a change
              \* whose event was lost: the handler did not get to announce it,
              \* or DispatchEvent failed

vars == <<postings, apps, notes, objects, handler, told, accepted, doubtful,
          leftovers, disturbed>>
history == <<told, accepted, doubtful, leftovers, disturbed>>

NoApp == [state |-> "none"]
Gone == [state |-> "gone"]
AppRow(j, stage, reason) == [state |-> "row", job |-> j, stage |-> stage, reason |-> reason]

IsApp(a) == apps[a].state = "row"

Idle == [pc |-> "idle"]
Applying(pc, a, j) == [pc |-> pc, app |-> a, job |-> j]    \* uploading, creating, undoing
Staging(a, stage, reason, copy) ==
  [pc |-> "staging", app |-> a, stage |-> stage, reason |-> reason, copy |-> copy]
Noting(a) == [pc |-> "noting", app |-> a]
Announcing(a, events) == [pc |-> "announcing", app |-> a, events |-> events]

CreatedEvent == [event |-> "application.created", stage |-> "applied"]
StageEvent(old, new) ==
  [event |-> "application.stage_updated", old_stage |-> old, stage |-> new]
RejectedEvent(reason) == [event |-> "application.rejected", reason |-> reason]

\* What one handler announces: the new application, or what one update of the
\* stage makes known.
StageNews ==
  {StageEvent(old, new) : old \in Stages, new \in Stages}
  \cup {RejectedEvent(reason) : reason \in Reasons}
Batches ==
  {<<CreatedEvent>>}
  \cup {<<ev>> : ev \in StageNews}
  \cup {<<ev, fv>> : ev \in StageNews, fv \in StageNews}

Rows == {AppRow(j, stage, reason) : j \in JobIds, stage \in Stages, reason \in Reasons}

Handler ==
  {Idle}
  \cup {Applying(pc, a, j) : pc \in {"uploading", "creating", "undoing"}, a \in AppIds, j \in JobIds}
  \cup {Staging(a, stage, reason, copy) :
          a \in AppIds, stage \in Stages, reason \in Reasons, copy \in Rows}
  \cup {Noting(a) : a \in AppIds}
  \cup {Announcing(a, events) : a \in AppIds, events \in Batches}

TypeOK ==
  /\ postings \in [JobIds -> {"none", "open", "closed", "deleted"}]
  /\ apps \in [AppIds -> Rows \cup {NoApp, Gone}]
  /\ notes \in [AppIds -> 0 .. MaxNotes]
  /\ objects \subseteq AppIds
  /\ handler \in [Requests -> Handler]
  /\ told \in [AppIds -> [stage : Stages \cup {"none"}, reason : Reasons \cup {"none"}]]
  /\ accepted \subseteq AppIds
  /\ doubtful \subseteq AppIds
  /\ leftovers \subseteq AppIds
  /\ disturbed \subseteq AppIds

Init ==
  /\ postings = [j \in JobIds |-> "none"]
  /\ apps = [a \in AppIds |-> NoApp]
  /\ notes = [a \in AppIds |-> 0]
  /\ objects = {}
  /\ handler = [r \in Requests |-> Idle]
  /\ told = [a \in AppIds |-> [stage |-> "none", reason |-> "none"]]
  /\ accepted = {}
  /\ doubtful = {}
  /\ leftovers = {}
  /\ disturbed = {}

Answer(r, next) == handler' = [handler EXCEPT ![r] = next]
At(r, pc) == handler[r].pc = pc

\* Request r works on application a.
WorksOn(r, a) == ~ At(r, "idle") /\ handler[r].app = a
Busy(r, a) == \E q \in Requests \ {r} : WorksOn(q, a)

\* NewID: a key nothing uses.
Fresh(a) ==
  /\ apps[a] = NoApp /\ a \notin objects \cup leftovers \cup doubtful \cup disturbed
  /\ \A q \in Requests : ~ WorksOn(q, a)

-----------------------------------------------------------------------------
(* Postings, as far as applications depend on them. *)

\* CreateJob and UpdateJob: a posting is published, or taken off.
SetPosting(j, status) ==
  /\ postings[j] \notin {status, "deleted"}
  /\ postings' = [postings EXCEPT ![j] = status]
  /\ UNCHANGED <<apps, notes, objects, handler, history>>

\* ON DELETE CASCADE, from applications to application_notes.
Cascade(victims) ==
  /\ apps' = [a \in AppIds |-> IF a \in victims THEN Gone ELSE apps[a]]
  /\ notes' = [a \in AppIds |-> IF a \in victims THEN 0 ELSE notes[a]]

DeleteJob(j) ==
  LET victims == {a \in AppIds : IsApp(a) /\ apps[a].job = j} IN
  /\ postings[j] \in {"open", "closed"}
  /\ postings' = [postings EXCEPT ![j] = "deleted"]
  /\ Cascade(victims)
  /\ leftovers' = leftovers \cup victims
  /\ UNCHANGED <<objects, handler, told, accepted, doubtful, disturbed>>

-----------------------------------------------------------------------------
(* Apply. *)

\* The posting is read and is published, the input is valid, the application
\* gets its id, and the object its key, which holds the id.
ReadJob(r, a, j) ==
  /\ At(r, "idle")
  /\ postings[j] = "open"
  /\ Fresh(a)
  /\ Answer(r, Applying("uploading", a, j))
  /\ UNCHANGED <<postings, apps, notes, objects, history>>

Upload(r) ==
  LET h == handler[r] IN
  /\ At(r, "uploading")
  /\ objects' = objects \cup {h.app}
  /\ Answer(r, Applying("creating", h.app, h.job))
  /\ UNCHANGED <<postings, apps, notes, history>>

\* Mutant: the error of Upload is not looked at.
UploadFailsUnseen(r) ==
  LET h == handler[r] IN
  /\ At(r, "uploading")
  /\ Answer(r, Applying("creating", h.app, h.job))
  /\ UNCHANGED <<postings, apps, notes, objects, history>>

\* PutObject returns an error, the object stored or not: Apply ends at once.
UploadFails(r) ==
  LET h == handler[r] IN
  /\ At(r, "uploading")
  /\ \/ UNCHANGED <<objects, leftovers>>
     \/ objects' = objects \cup {h.app} /\ leftovers' = leftovers \cup {h.app}
  /\ Answer(r, Idle)
  /\ UNCHANGED <<postings, apps, notes, told, accepted, doubtful, disturbed>>

\* job_id REFERENCES jobs(id).
InsertApp(a, j) ==
  /\ postings[j] \in {"open", "closed"}
  /\ apps' = [apps EXCEPT ![a] = AppRow(j, "applied", "nil")]

CreateApplication(r) ==
  LET h == handler[r] IN
  /\ At(r, "creating")
  /\ InsertApp(h.app, h.job)
  /\ Answer(r, Announcing(h.app, <<CreatedEvent>>))
  /\ UNCHANGED <<postings, notes, objects, history>>

\* The insert committed, but what Apply gets is an error.
CreateUnanswered(r) ==
  LET h == handler[r] IN
  /\ At(r, "creating")
  /\ InsertApp(h.app, h.job)
  /\ Answer(r, Applying("undoing", h.app, h.job))
  /\ doubtful' = doubtful \cup {h.app}
  /\ disturbed' = disturbed \cup {h.app}
  /\ UNCHANGED <<postings, notes, objects, told, accepted, leftovers>>

\* Mutant: the error of Create returns without the compensation.
CreateFailsForGood(r) ==
  /\ At(r, "creating")
  /\ Answer(r, Idle)
  /\ UNCHANGED <<postings, apps, notes, objects, history>>

\* Mutant: the error of Create is swallowed.
CreateFailsUnseen(r) ==
  /\ At(r, "creating")
  /\ Answer(r, Announcing(handler[r].app, <<CreatedEvent>>))
  /\ UNCHANGED <<postings, apps, notes, objects, history>>

\* The insert fails: the posting is gone, or the database does not answer.
CreateFails(r) ==
  /\ At(r, "creating")
  /\ Answer(r, Applying("undoing", handler[r].app, handler[r].job))
  /\ UNCHANGED <<postings, apps, notes, objects, history>>

\* The compensation; its own error is ignored, as the deletion is asked for
\* with the context that may have made the insert fail.
Undo(r) ==
  LET h == handler[r] IN
  /\ At(r, "undoing")
  /\ \/ objects' = objects \ {h.app} /\ UNCHANGED leftovers
     \/ UNCHANGED objects /\ leftovers' = leftovers \cup {h.app}
  /\ Answer(r, Idle)
  /\ UNCHANGED <<postings, apps, notes, told, accepted, doubtful, disturbed>>

-----------------------------------------------------------------------------
(* UpdateStage and CreateNote. *)

ValidateStageUpdate(stage) == stage \in Stages

ReadForStage(r, a, stage, reason) ==
  /\ At(r, "idle")
  /\ IsApp(a)
  /\ ValidateStageUpdate(stage)
  /\ Answer(r, Staging(a, stage, reason, apps[a]))
  /\ disturbed' = IF Busy(r, a) THEN disturbed \cup {a} ELSE disturbed
  /\ UNCHANGED <<postings, apps, notes, objects, told, accepted, doubtful, leftovers>>

\* Mutant: a rejected candidate's new reason is not announced.
StageEventsOnChange(old, stage, reason) ==
  CASE old.stage = stage -> <<>>
    [] old.stage # stage /\ stage # "rejected" -> <<StageEvent(old.stage, stage)>>
    [] old.stage # stage /\ stage = "rejected" ->
         <<StageEvent(old.stage, stage), RejectedEvent(reason)>>

\* What UpdateStage announces after the write.
StageEvents(old, stage, reason) ==
  CASE old.stage # stage /\ stage # "rejected" -> <<StageEvent(old.stage, stage)>>
    [] old.stage # stage /\ stage = "rejected" ->
         <<StageEvent(old.stage, stage), RejectedEvent(reason)>>
    [] old.stage = stage /\ stage = "rejected" /\ reason # "nil" /\ old.reason # reason ->
         <<RejectedEvent(reason)>>
    [] OTHER -> <<>>

AnnounceAll(a, events) == IF events = <<>> THEN Idle ELSE Announcing(a, events)

\* application_repo.UpdateStage: stage and reason, if the row is still there.
UpdateStageRow(a, stage, reason) ==
  /\ IsApp(a)
  /\ apps' = [apps EXCEPT ![a] = AppRow(@.job, stage, reason)]

WriteStage(r) ==
  LET h == handler[r] IN
  /\ At(r, "staging")
  /\ UpdateStageRow(h.app, h.stage, h.reason)
  /\ Answer(r, AnnounceAll(h.app, StageEvents(h.copy, h.stage, h.reason)))
  /\ UNCHANGED <<postings, notes, objects, history>>

WriteStageUnanswered(r) ==
  LET h == handler[r] IN
  /\ At(r, "staging")
  /\ UpdateStageRow(h.app, h.stage, h.reason)
  /\ Answer(r, Idle)
  /\ disturbed' = disturbed \cup {h.app}
  /\ UNCHANGED <<postings, notes, objects, told, accepted, doubtful, leftovers>>

\* The write changed nothing: the application is gone, or the database fails.
WriteStageFails(r) ==
  /\ At(r, "staging")
  /\ Answer(r, Idle)
  /\ UNCHANGED <<postings, apps, notes, objects, history>>

\* CreateNote: the application is looked up, then the note is inserted.
ReadForNote(r, a) ==
  /\ At(r, "idle")
  /\ IsApp(a) /\ notes[a] < MaxNotes
  /\ Answer(r, Noting(a))
  /\ UNCHANGED <<postings, apps, notes, objects, history>>

\* Mutant: no foreign key, only the look-up before.
InsertNoteUnchecked(a) == notes[a] < MaxNotes /\ notes' = [notes EXCEPT ![a] = @ + 1]

\* application_id REFERENCES applications(id).
InsertNote(a) ==
  IsApp(a) /\ notes[a] < MaxNotes /\ notes' = [notes EXCEPT ![a] = @ + 1]

CreateNote(r) ==
  /\ At(r, "noting")
  /\ \/ InsertNote(handler[r].app)
     \/ UNCHANGED notes              \* the foreign key, or the database, refuses
  /\ Answer(r, Idle)
  /\ UNCHANGED <<postings, apps, objects, history>>

-----------------------------------------------------------------------------
(* Events, restarts. *)

\* What subscribers know after an event.
Tell(known, ev) ==
  IF ev.event = "application.rejected" THEN [known EXCEPT !.reason = ev.reason]
  ELSE [known EXCEPT !.stage = ev.stage]

\* DispatchEvent of the next event: queued, or lost (the subscriptions cannot be
\* listed, the queue is full) with an error that nobody looks at.  Either way the
\* handler goes on; after application.created comes the 201.
Announce(r) ==
  LET h == handler[r]
      ev == Head(h.events) IN
  /\ At(r, "announcing")
  /\ \/ /\ told' = [told EXCEPT ![h.app] = Tell(@, ev)]
        /\ UNCHANGED disturbed
     \/ /\ disturbed' = disturbed \cup {h.app}
        /\ UNCHANGED told
  /\ accepted' = IF ev = CreatedEvent THEN accepted \cup {h.app} ELSE accepted
  /\ Answer(r, AnnounceAll(h.app, Tail(h.events)))
  /\ UNCHANGED <<postings, apps, notes, objects, doubtful, leftovers>>

\* The process ends, with the handlers in it.
Crash ==
  /\ \E r \in Requests : ~ At(r, "idle")
  /\ handler' = [r \in Requests |-> Idle]
  /\ leftovers' = leftovers \cup
       {a \in AppIds : \E r \in Requests :
          (At(r, "creating") \/ At(r, "undoing")) /\ handler[r].app = a}
  /\ disturbed' = disturbed \cup
       {a \in AppIds : \E r \in Requests : At(r, "announcing") /\ handler[r].app = a}
  /\ UNCHANGED <<postings, apps, notes, objects, told, accepted, doubtful>>

Next ==
  \/ \E j \in JobIds :
       \/ DeleteJob(j)
       \/ \E status \in {"open", "closed"} : SetPosting(j, status)
  \/ \E r \in Requests :
       \/ \E a \in AppIds, j \in JobIds : ReadJob(r, a, j)
       \/ Upload(r) \/ UploadFails(r)
       \/ CreateApplication(r) \/ CreateUnanswered(r) \/ CreateFails(r) \/ Undo(r)
       \/ \E a \in AppIds, stage \in Stages \cup {"unknown"}, reason \in Reasons :
            ReadForStage(r, a, stage, reason)
       \/ WriteStage(r) \/ WriteStageUnanswered(r) \/ WriteStageFails(r)
       \/ \E a \in AppIds : ReadForNote(r, a)
       \/ CreateNote(r)
       \/ Announce(r)
  \/ Crash

Spec == Init /\ [][Next]_vars

-----------------------------------------------------------------------------
(* What holds *)

\* A stored application has its resume, unless its INSERT was committed with
\* the answer lost and the compensation took the resume of a live row.
RowHasResume == \A a \in AppIds : IsApp(a) => a \in objects \cup doubtful

\* A candidate answered 201 has an application, with its resume, until the
\* posting is deleted.
AcceptedIsWhole ==
  \A a \in accepted : apps[a] # NoApp /\ a \in objects

\* An object without a row is in the hands of a handler that will insert the
\* row or delete the object, or is left over from a failure or a cascade.
LeftoversExplained ==
  \A a \in objects :
    \/ IsApp(a) \/ a \in leftovers
    \/ \E r \in Requests : (At(r, "creating") \/ At(r, "undoing")) /\ handler[r].app = a

\* Notes belong to applications and applications to postings, although every
\* handler looks its parent up in an earlier statement than it inserts in.
NothingDangles ==
  \A a \in AppIds :
    /\ notes[a] > 0 => IsApp(a)
    /\ IsApp(a) => postings[apps[a].job] \in {"open", "closed"}

\* When no update overlapped another and no event was lost, the last stage and
\* the last rejection reason queued for the subscribers are those of the row.
SubscribersKnowStage ==
  \A a \in AppIds :
    (IsApp(a) /\ a \notin disturbed /\ \A r \in Requests : ~ WorksOn(r, a)) =>
      /\ told[a].stage = apps[a].stage
      /\ (apps[a].stage = "rejected" /\ apps[a].reason # "nil")
           => told[a].reason = apps[a].reason

(* What the documents say and the code does not do *)

\* webhooks.md, section 2: application.stage_updated is sent when the
\* "Candidate stage changes", with "old stage, new stage".  The old stage sent
\* is the one of the copy, which another request may have replaced meanwhile.
OldStageIsReplaced ==
  [][\A r \in Requests :
       (At(r, "staging") /\ handler'[r].pc = "announcing"
          /\ handler'[r].events[1].event = "application.stage_updated")
       => handler'[r].events[1].old_stage = apps[handler[r].app].stage]_vars
=============================================================================
