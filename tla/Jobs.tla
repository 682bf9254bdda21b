-------------------------------- MODULE Jobs --------------------------------
(***************************************************************************)
(* Job postings: the admin handlers of internal/api/v1/admin.go, the job   *)
(* service and the jobs table.  Several requests run at once.  UpdateJob   *)
(* reads the row, merges its patch into the copy and writes the whole row  *)
(* back, with no transaction and no version; the event it announces is     *)
(* decided from the copy it read.                                          *)
(***************************************************************************)
EXTENDS FiniteSets

CONSTANTS
  Requests,     \* the requests in progress at a time
  JobIds,       \* primary keys, drawn afresh by every CreateJob
  Titles,       \* non-blank titles
  Slugs,        \* well-formed slugs
  SlugOf,       \* title -> the slug GenerateSlug makes of it
  NewJobs,      \* the bodies POST /jobs is called with
  Patches,      \* the bodies PATCH /jobs/{id} is called with
  Times         \* what time.Now() answers, told apart by identity

Statuses == {"draft", "published", "archived"}
Fields == {"title", "slug", "status"}

\* What a client can send: also blanks, and a slug that is not well formed.
TitleInputs == Titles \cup {""}
SlugInputs == Slugs \cup {"", "Bad Slug"}
StatusInputs == Statuses \cup {"", "unknown"}

ASSUME SlugOfAssumption == SlugOf \in [Titles -> Slugs]
ASSUME NewJobsAssumption ==
  NewJobs \subseteq [title : TitleInputs, slug : SlugInputs, status : StatusInputs]
ASSUME PatchesAssumption ==
  \A p \in Patches :
    /\ DOMAIN p \subseteq Fields
    /\ "title" \in DOMAIN p => p["title"] \in TitleInputs
    /\ "slug" \in DOMAIN p => p["slug"] \in SlugInputs
    /\ "status" \in DOMAIN p => p["status"] \in StatusInputs
ASSUME TimesAssumption == "nil" \notin Times

VARIABLES
  jobs,       \* id -> row, or NoRow before the job exists, or Deleted
  handler,    \* request -> where it is, its job, its patch, the copy it read
  \* history variables, read by the properties only
  announced,  \* id -> last event queued for the subscribers of the job
  disturbed   \* jobs updated by overlapping requests, or with a change whose
              \* event was lost: the handler died or got an error from a write
              \* that had committed, or DispatchEvent failed

vars == <<jobs, handler, announced, disturbed>>

NoRow == [state |-> "none"]
Deleted == [state |-> "deleted"]
Row == [state : {"row"}, title : Titles, slug : Slugs \cup {""}, status : Statuses,
        published_at : Times \cup {"nil"}]

IsRow(j) == jobs[j].state = "row"

Idle == [pc |-> "idle"]
Updating(j, p, row) == [pc |-> "updating", job |-> j, patch |-> p, copy |-> row]
Announcing(j, event) == [pc |-> "announcing", job |-> j, event |-> event]

Handler ==
  {Idle}
  \cup {Updating(j, p, row) : j \in JobIds, p \in Patches, row \in Row}
  \cup {Announcing(j, ev) : j \in JobIds, ev \in {"job.published", "job.archived"}}

TypeOK ==
  /\ jobs \in [JobIds -> Row \cup {NoRow, Deleted}]
  /\ handler \in [Requests -> Handler]
  /\ announced \in [JobIds -> {"none", "job.published", "job.archived"}]
  /\ disturbed \subseteq JobIds

Init ==
  /\ jobs = [j \in JobIds |-> NoRow]
  /\ handler = [r \in Requests |-> Idle]
  /\ announced = [j \in JobIds |-> "none"]
  /\ disturbed = {}

-----------------------------------------------------------------------------
(* Validation and merging. *)

IsValidSlug(slug) == slug \in Slugs

\* Mutant: a blank title is let through.
ValidateNoTitle(row) ==
  /\ row.slug # "" => IsValidSlug(row.slug)
  /\ row.status # "" => row.status \in Statuses

\* ValidateJobInput checks the slug and the status only when they are not "".
ValidateJobInput(row) ==
  /\ row.title \in Titles
  /\ row.slug # "" => IsValidSlug(row.slug)
  /\ row.status # "" => row.status \in Statuses

\* Mutant: a job created as published gets no publication time.
NewRowNoTime(input, now) ==
  [state |-> "row",
   title |-> input.title,
   slug |-> IF input.slug = "" /\ input.title \in Titles THEN SlugOf[input.title] ELSE input.slug,
   status |-> IF input.status = "" THEN "draft" ELSE input.status,
   published_at |-> "nil"]

\* CreateJob: an omitted slug is made from the title, an omitted status is draft.
NewRow(input, now) ==
  [state |-> "row",
   title |-> input.title,
   slug |-> IF input.slug = "" /\ input.title \in Titles THEN SlugOf[input.title] ELSE input.slug,
   status |-> IF input.status = "" THEN "draft" ELSE input.status,
   published_at |-> IF input.status = "published" THEN now ELSE "nil"]

Pick(p, row, f) == IF f \in DOMAIN p THEN p[f] ELSE row[f]

\* The patch sets the status to published.
Publishes(p) == "status" \in DOMAIN p /\ p["status"] = "published"

\* Mutant: a posting published again gets a new publication time.
MergeRestamps(p, row, now) ==
  [state |-> "row",
   title |-> Pick(p, row, "title"),
   slug |-> Pick(p, row, "slug"),
   status |-> Pick(p, row, "status"),
   published_at |-> IF Publishes(p) THEN now ELSE row.published_at]

\* UpdateJob: the copy with the patched fields replaced; the first time the
\* status is set to published the publication time is taken.
Merge(p, row, now) ==
  [state |-> "row",
   title |-> Pick(p, row, "title"),
   slug |-> Pick(p, row, "slug"),
   status |-> Pick(p, row, "status"),
   published_at |->
     IF Publishes(p) /\ row.published_at = "nil" THEN now ELSE row.published_at]

\* Mutant: the branch for archived postings is missing.
EventOfNoArchive(old, new) ==
  IF old.status # "published" /\ new.status = "published" THEN "job.published" ELSE "none"

\* Which event UpdateJob announces when it changed `old` into `new`.
EventOf(old, new) ==
  CASE old.status # "published" /\ new.status = "published" -> "job.published"
    [] old.status # "archived" /\ new.status = "archived" -> "job.archived"
    [] OTHER -> "none"

\* Another request is between its read and its event on the same job.
Busy(r, j) ==
  \E q \in Requests \ {r} : handler[q].pc \in {"updating", "announcing"} /\ handler[q].job = j

-----------------------------------------------------------------------------
(* The jobs table. *)

\* slug is UNIQUE.
SlugFree(j, slug) == \A k \in JobIds \ {j} : IsRow(k) => jobs[k].slug # slug

\* job_repo.Create: the row, or a conflict.
RepoCreate(j, row) ==
  /\ jobs[j] = NoRow
  /\ SlugFree(j, row.slug)
  /\ jobs' = [jobs EXCEPT ![j] = row]

\* Mutant: an upsert, which inserts the row again when it is gone.
RepoUpsert(j, row) ==
  /\ SlugFree(j, row.slug) /\ row.status \in Statuses
  /\ jobs' = [jobs EXCEPT ![j] = row]

\* job_repo.Update: every column, or no row, or a conflict, or a value the
\* status enum does not have.
RepoUpdate(j, row) ==
  /\ IsRow(j)
  /\ SlugFree(j, row.slug) /\ row.status \in Statuses
  /\ jobs' = [jobs EXCEPT ![j] = row]

RepoDelete(j) == IsRow(j) /\ jobs' = [jobs EXCEPT ![j] = Deleted]

-----------------------------------------------------------------------------
(* The requests. *)

Answer(r, next) == handler' = [handler EXCEPT ![r] = next]

CreateJob(r, j, input, now) ==
  LET row == NewRow(input, now) IN
  /\ handler[r] = Idle
  /\ ValidateJobInput(row)
  /\ RepoCreate(j, row)
  /\ \/ /\ Answer(r, IF row.status = "published" THEN Announcing(j, "job.published") ELSE Idle)
        /\ UNCHANGED disturbed
     \/ /\ Answer(r, Idle)        \* committed, but the answer was lost
        /\ disturbed' = disturbed \cup {j}
  /\ UNCHANGED announced

\* UpdateJob up to its write: the row is read, merged and validated.  Which time
\* it takes shows in WriteUpdate; validation does not look at it.
ReadForUpdate(r, j, p) ==
  /\ handler[r] = Idle
  /\ IsRow(j)
  /\ \E now \in Times : ValidateJobInput(Merge(p, jobs[j], now))
  /\ Answer(r, Updating(j, p, jobs[j]))
  /\ disturbed' = IF Busy(r, j) THEN disturbed \cup {j} ELSE disturbed
  /\ UNCHANGED <<jobs, announced>>

\* After the write: announce a transition, or answer.
AfterWrite(j, old, new) ==
  LET ev == EventOf(old, new) IN
  IF ev = "none" THEN Idle ELSE Announcing(j, ev)

WriteUpdate(r, now) ==
  LET h == handler[r]
      row == Merge(h.patch, h.copy, now) IN
  /\ h.pc = "updating"
  /\ RepoUpdate(h.job, row)
  /\ Answer(r, AfterWrite(h.job, h.copy, row))
  /\ UNCHANGED <<announced, disturbed>>

\* The write committed but its answer was lost with the connection or the
\* request's context: an error to the client, and no event.
WriteUnanswered(r, now) ==
  LET h == handler[r] IN
  /\ h.pc = "updating"
  /\ RepoUpdate(h.job, Merge(h.patch, h.copy, now))
  /\ Answer(r, Idle)
  /\ disturbed' = disturbed \cup {h.job}
  /\ UNCHANGED announced

\* The write is refused or fails, and nothing changed.
Fail(r) ==
  /\ handler[r].pc = "updating"
  /\ Answer(r, Idle)
  /\ UNCHANGED <<jobs, announced, disturbed>>

\* DispatchEvent, after the write and outside any transaction: the event is
\* queued, or lost (the subscriptions cannot be listed, the queue is full) with
\* an error that nobody looks at.
Announce(r) ==
  LET h == handler[r] IN
  /\ h.pc = "announcing"
  /\ \/ /\ announced' = [announced EXCEPT ![h.job] = h.event]
        /\ UNCHANGED disturbed
     \/ /\ disturbed' = disturbed \cup {h.job}
        /\ UNCHANGED announced
  /\ Answer(r, Idle)
  /\ UNCHANGED jobs

DeleteJob(r, j) ==
  /\ handler[r] = Idle
  /\ RepoDelete(j)
  /\ Answer(r, Idle)
  /\ UNCHANGED <<announced, disturbed>>

\* The process ends; the handlers in it are lost, with what they had to announce.
Crash ==
  /\ \E r \in Requests : handler[r].pc \in {"updating", "announcing"}
  /\ handler' = [r \in Requests |-> Idle]
  /\ disturbed' = disturbed \cup
       {j \in JobIds : \E r \in Requests :
          handler[r].pc = "announcing" /\ handler[r].job = j}
  /\ UNCHANGED <<jobs, announced>>

Next ==
  \/ \E r \in Requests, j \in JobIds :
       \/ \E input \in NewJobs, now \in Times : CreateJob(r, j, input, now)
       \/ \E p \in Patches : ReadForUpdate(r, j, p)
       \/ DeleteJob(r, j)
  \/ \E r \in Requests, now \in Times : WriteUpdate(r, now) \/ WriteUnanswered(r, now)
  \/ \E r \in Requests : Fail(r) \/ Announce(r)
  \/ Crash

Spec == Init /\ [][Next]_vars

-----------------------------------------------------------------------------
(* What holds *)

\* A published posting has a publication time, although updates of several
\* requests overwrite one another's rows with copies of different ages.
PublishedHasTime ==
  \A j \in JobIds : IsRow(j) /\ jobs[j].status = "published" => jobs[j].published_at # "nil"

\* A write from a stale copy never brings a deleted posting back.
DeletedStaysDeleted ==
  [][\A j \in JobIds : jobs[j] = Deleted => jobs'[j] = Deleted]_vars

\* r's step wrote its row.
Writes(r) ==
  handler[r].pc = "updating" /\ jobs'[handler[r].job] # jobs[handler[r].job]
    /\ handler'[r] # handler[r]

ChangesOnlyPatch(r) ==
  LET j == handler[r].job IN
  \A f \in Fields : jobs[j][f] # jobs'[j][f] => f \in DOMAIN handler[r].patch

\* The publication time moves only from none to the time of the first
\* publication: one that was taken is the one that is kept.
KeepsTime(r) ==
  LET j == handler[r].job IN
  jobs'[j].published_at # jobs[j].published_at =>
    jobs[j].published_at = "nil" /\ Publishes(handler[r].patch)

\* While the updates of a job do not overlap, each changes only the fields its
\* request names, and archiving a posting, publishing it again or any other
\* update leaves it the time of its first publication.
LoneUpdateIsPartial ==
  [][\A r \in Requests :
       (Writes(r) /\ handler[r].job \notin disturbed) =>
         ChangesOnlyPatch(r) /\ KeepsTime(r)]_vars

\* When no update of a job overlapped another and none of its events was lost,
\* the last event queued for the subscribers agrees with what the row says now.
LastEventAgrees ==
  \A j \in JobIds :
    (IsRow(j) /\ j \notin disturbed
       /\ \A r \in Requests : handler[r] = Idle) =>
      /\ jobs[j].status = "published" => announced[j] = "job.published"
      /\ jobs[j].status = "archived" => announced[j] # "job.published"

(* What the documents say and the code does not do *)

\* job_service.go: "UpdateJob performs partial updates on an existing job".
\* A title changed while another request archives the posting publishes it
\* again: the whole row is written from the copy read before.
PartialUpdate ==
  [][\A r \in Requests : Writes(r) => ChangesOnlyPatch(r)]_vars
=============================================================================
