----------------------------- MODULE JobsProofs -----------------------------
(***************************************************************************)
(* Proofs about job postings, for any number of concurrent requests, any   *)
(* postings, titles, slugs and request bodies.                             *)
(***************************************************************************)
EXTENDS Jobs, TLAPS

USE SlugOfAssumption, NewJobsAssumption, PatchesAssumption, TimesAssumption

\* A row that RepoUpdate accepts is a well-typed row.
LEMMA MergedRow ==
  ASSUME NEW p \in Patches, NEW row \in Row, NEW now \in Times,
         ValidateJobInput(Merge(p, row, now)), Merge(p, row, now).status \in Statuses
  PROVE  Merge(p, row, now) \in Row
  <1>1. Merge(p, row, now).title \in Titles
    BY DEF ValidateJobInput
  <1>2. Merge(p, row, now).slug \in Slugs \cup {""}
    BY DEF ValidateJobInput, IsValidSlug
  <1>3. Merge(p, row, now).published_at \in Times \cup {"nil"}
    BY DEF Merge, Row
  <1>4. QED BY <1>1, <1>2, <1>3 DEF Merge, Row

LEMMA CreatedRow ==
  ASSUME NEW input \in NewJobs, NEW now \in Times, ValidateJobInput(NewRow(input, now))
  PROVE  NewRow(input, now) \in Row
  <1>1. NewRow(input, now).title \in Titles
    BY DEF ValidateJobInput
  <1>2. NewRow(input, now).slug \in Slugs \cup {""}
    BY DEF ValidateJobInput, IsValidSlug
  <1>3. NewRow(input, now).status \in Statuses
    BY DEF ValidateJobInput, NewRow, Statuses
  <1>4. NewRow(input, now).published_at \in Times \cup {"nil"}
    BY DEF NewRow
  <1>5. QED BY <1>1, <1>2, <1>3, <1>4 DEF NewRow, Row

\* What an updating handler holds, and that it is the only kind that holds it.
Holding ==
  \A r \in Requests : handler[r].pc = "updating" =>
    /\ handler[r].job \in JobIds
    /\ handler[r].patch \in Patches
    /\ handler[r].copy \in Row
    /\ \A now \in Times : ValidateJobInput(Merge(handler[r].patch, handler[r].copy, now))

\* A row, or a copy of one, that is published has its time.
Timed(row) == row.status = "published" => row.published_at # "nil"

\* The strengthening of PublishedHasTime: a copy is as good as the row it was
\* read from, so writing it back cannot lose the time of a published posting.
TimeInv ==
  /\ \A j \in JobIds : jobs[j] \in Row => Timed(jobs[j])
  /\ \A r \in Requests : handler[r].pc = "updating" => Timed(handler[r].copy)

LEMMA RowShape ==
  /\ NoRow \notin Row /\ Deleted \notin Row /\ NoRow # Deleted
  /\ \A row \in Row : row.state = "row"
  /\ NoRow.state # "row" /\ Deleted.state # "row"
  <1>1. \A row \in Row : row.state = "row"
    BY DEF Row
  <1>2. NoRow.state = "none" /\ Deleted.state = "deleted"
    BY DEF NoRow, Deleted
  <1>3. QED BY <1>1, <1>2

LEMMA MergeKeepsTime ==
  ASSUME NEW p, NEW row, NEW now \in Times, Timed(row)
  PROVE  Timed(Merge(p, row, now))
  BY DEF Timed, Merge, Pick, Publishes

\* Validation does not look at the time.
LEMMA ValidAtAnyTime ==
  ASSUME NEW p, NEW row, NEW now, ValidateJobInput(Merge(p, row, now)), NEW later
  PROVE  ValidateJobInput(Merge(p, row, later))
  BY DEF ValidateJobInput, Merge

LEMMA HandlerKinds ==
  /\ \A h \in Handler : h.pc = "updating" =>
       h.job \in JobIds /\ h.patch \in Patches /\ h.copy \in Row
  /\ \A h \in Handler : h.pc = "announcing" =>
       h.job \in JobIds /\ h.event \in {"job.published", "job.archived"}
  /\ Idle \in Handler
  /\ \A j \in JobIds, p \in Patches, row \in Row : Updating(j, p, row) \in Handler
  /\ \A j \in JobIds, ev \in {"job.published", "job.archived"} :
       Announcing(j, ev) \in Handler
  <1>1. ASSUME NEW h \in Handler
        PROVE  \/ h = Idle
               \/ \E j \in JobIds, p \in Patches, row \in Row : h = Updating(j, p, row)
               \/ \E j \in JobIds, ev \in {"job.published", "job.archived"} :
                    h = Announcing(j, ev)
    BY ONLY <1>1 DEF Handler
  <1>2. Idle.pc = "idle"
    BY DEF Idle
  <1>3. ASSUME NEW j, NEW p, NEW row
        PROVE  LET h == Updating(j, p, row) IN
               h.pc = "updating" /\ h.job = j /\ h.patch = p /\ h.copy = row
    BY ONLY DEF Updating
  <1>4. ASSUME NEW j, NEW ev
        PROVE  LET h == Announcing(j, ev) IN
               h.pc = "announcing" /\ h.job = j /\ h.event = ev
    BY ONLY DEF Announcing
  <1>5. ASSUME NEW h \in Handler, h.pc = "updating"
        PROVE  h.job \in JobIds /\ h.patch \in Patches /\ h.copy \in Row
    BY ONLY <1>1, <1>2, <1>3, <1>4, <1>5
  <1>6. ASSUME NEW h \in Handler, h.pc = "announcing"
        PROVE  h.job \in JobIds /\ h.event \in {"job.published", "job.archived"}
    BY ONLY <1>1, <1>2, <1>3, <1>4, <1>6
  <1>7. Idle \in Handler
    BY ONLY DEF Handler
  <1>8. \A j \in JobIds, p \in Patches, row \in Row : Updating(j, p, row) \in Handler
    BY ONLY DEF Handler
  <1>9. \A j \in JobIds, ev \in {"job.published", "job.archived"} :
          Announcing(j, ev) \in Handler
    BY ONLY DEF Handler
  <1>10. QED BY ONLY <1>5, <1>6, <1>7, <1>8, <1>9

LEMMA AfterWriteKind ==
  ASSUME NEW j \in JobIds, NEW old, NEW new
  PROVE  AfterWrite(j, old, new) \in Handler /\ AfterWrite(j, old, new).pc # "updating"
  <1>1. EventOf(old, new) \in {"none", "job.published", "job.archived"}
    BY DEF EventOf
  <1>2. QED BY <1>1, HandlerKinds DEF AfterWrite, Idle, Announcing

Inv == TypeOK /\ Holding /\ TimeInv

LEMMA InvInit == Init => Inv
  BY HandlerKinds, RowShape
     DEF Init, Inv, TypeOK, Holding, TimeInv, Idle, IsRow

LEMMA InvStep == Inv /\ [Next]_vars => Inv'
  <1> SUFFICES ASSUME Inv, [Next]_vars PROVE Inv'
    OBVIOUS
  <1>1. ASSUME NEW r \in Requests, NEW j \in JobIds, NEW input \in NewJobs,
               NEW now \in Times, CreateJob(r, j, input, now)
        PROVE  Inv'
    <2> DEFINE row == NewRow(input, now)
    <2>1. row \in Row /\ jobs' = [jobs EXCEPT ![j] = row]
      BY <1>1, CreatedRow DEF CreateJob, RepoCreate
    <2>2. Timed(row)
      BY DEF Timed, NewRow
    <2>3. PICK h \in {Idle, Announcing(j, "job.published")} :
            handler' = [handler EXCEPT ![r] = h]
      BY <1>1 DEF CreateJob, Answer
    <2>4. h \in Handler /\ h.pc # "updating"
      <3>1. Idle \in Handler /\ Announcing(j, "job.published") \in Handler
        BY ONLY HandlerKinds, j \in JobIds
      <3>2. Idle.pc # "updating" /\ Announcing(j, "job.published").pc # "updating"
        BY ONLY DEF Idle, Announcing
      <3>3. QED BY <3>1, <3>2
    <2>5. disturbed' \subseteq JobIds /\ announced' = announced
      BY <1>1 DEF CreateJob, Inv, TypeOK
    <2>6. TypeOK'
      BY <2>1, <2>3, <2>4, <2>5 DEF Inv, TypeOK
    <2>7. Holding'
      BY <2>3, <2>4 DEF Inv, TypeOK, Holding
    <2>8. TimeInv'
      BY <2>1, <2>2, <2>3, <2>4 DEF Inv, TypeOK, TimeInv
    <2>9. QED BY <2>6, <2>7, <2>8 DEF Inv
  <1>2. ASSUME NEW r \in Requests, NEW j \in JobIds, NEW p \in Patches,
               ReadForUpdate(r, j, p)
        PROVE  Inv'
    <2>1. jobs[j] \in Row
      BY <1>2, RowShape DEF ReadForUpdate, IsRow, Inv, TypeOK
    <2> DEFINE h == Updating(j, p, jobs[j])
    <2>2. h \in Handler /\ h.pc = "updating" /\ h.job = j /\ h.patch = p /\ h.copy = jobs[j]
      BY <2>1, HandlerKinds DEF Updating
    <2>3. handler' = [handler EXCEPT ![r] = h] /\ jobs' = jobs /\ announced' = announced
          /\ disturbed' \subseteq JobIds
      BY <1>2 DEF ReadForUpdate, Answer, Inv, TypeOK
    <2>4. TypeOK'
      BY <2>2, <2>3 DEF Inv, TypeOK
    <2>5. Holding'
      <3>1. \A now \in Times : ValidateJobInput(Merge(p, jobs[j], now))
        BY <1>2, ValidAtAnyTime DEF ReadForUpdate
      <3>2. QED BY <2>1, <2>2, <2>3, <3>1 DEF Inv, TypeOK, Holding
    <2>6. TimeInv'
      BY <2>1, <2>2, <2>3 DEF Inv, TypeOK, TimeInv
    <2>7. QED BY <2>4, <2>5, <2>6 DEF Inv
  <1>3. ASSUME NEW r \in Requests, NEW now \in Times,
               WriteUpdate(r, now) \/ WriteUnanswered(r, now)
        PROVE  Inv'
    <2> DEFINE j == handler[r].job
               row == Merge(handler[r].patch, handler[r].copy, now)
    <2>1. handler[r].pc = "updating" /\ RepoUpdate(j, row) /\ announced' = announced
      BY <1>3 DEF WriteUpdate, WriteUnanswered
    <2>2. j \in JobIds /\ row \in Row
      BY <2>1, MergedRow DEF Inv, Holding, RepoUpdate
    <2>3. Timed(row)
      BY <2>1, MergeKeepsTime DEF Inv, TimeInv
    <2>4. PICK h \in {Idle, AfterWrite(j, handler[r].copy, row)} :
            handler' = [handler EXCEPT ![r] = h]
      BY <1>3 DEF WriteUpdate, WriteUnanswered, Answer
    <2>5. h \in Handler /\ h.pc # "updating"
      BY <2>2, <2>4, HandlerKinds, AfterWriteKind DEF Idle
    <2>6. jobs' = [jobs EXCEPT ![j] = row] /\ disturbed' \subseteq JobIds
      BY <1>3, <2>1, <2>2 DEF WriteUpdate, WriteUnanswered, RepoUpdate, Inv, TypeOK
    <2>7. TypeOK'
      BY <2>1, <2>2, <2>4, <2>5, <2>6 DEF Inv, TypeOK
    <2>8. Holding'
      BY <2>4, <2>5 DEF Inv, TypeOK, Holding
    <2>9. TimeInv'
      BY <2>2, <2>3, <2>4, <2>5, <2>6 DEF Inv, TypeOK, TimeInv
    <2>10. QED BY <2>7, <2>8, <2>9 DEF Inv
  <1>4. ASSUME NEW r \in Requests, Fail(r) \/ Announce(r)
        PROVE  Inv'
    <2>1. handler' = [handler EXCEPT ![r] = Idle] /\ jobs' = jobs
          /\ disturbed' \subseteq JobIds
      BY <1>4, HandlerKinds DEF Fail, Announce, Answer, Inv, TypeOK
    <2>2. announced' \in [JobIds -> {"none", "job.published", "job.archived"}]
      BY <1>4, HandlerKinds DEF Fail, Announce, Inv, TypeOK
    <2>3. TypeOK'
      BY <2>1, <2>2, HandlerKinds DEF Inv, TypeOK
    <2>4. Holding' /\ TimeInv'
      BY <2>1 DEF Inv, TypeOK, Holding, TimeInv, Idle
    <2>5. QED BY <2>3, <2>4 DEF Inv
  <1>5. ASSUME NEW r \in Requests, NEW j \in JobIds, DeleteJob(r, j)
        PROVE  Inv'
    <2>1. jobs' = [jobs EXCEPT ![j] = Deleted] /\ handler' = [handler EXCEPT ![r] = Idle]
          /\ announced' = announced /\ disturbed' = disturbed
      BY <1>5 DEF DeleteJob, RepoDelete, Answer
    <2>2. TypeOK'
      BY <2>1, HandlerKinds DEF Inv, TypeOK
    <2>3. Holding'
      BY <2>1 DEF Inv, TypeOK, Holding, Idle
    <2>4. TimeInv'
      BY <2>1, RowShape DEF Inv, TypeOK, TimeInv, Idle
    <2>5. QED BY <2>2, <2>3, <2>4 DEF Inv
  <1>6. CASE Crash
    <2>1. jobs' = jobs /\ handler' = [r \in Requests |-> Idle]
          /\ announced' = announced /\ disturbed' \subseteq JobIds
      BY <1>6 DEF Crash, Inv, TypeOK
    <2>2. TypeOK'
      BY <2>1, HandlerKinds DEF Inv, TypeOK
    <2>3. Holding' /\ TimeInv'
      BY <2>1 DEF Inv, TypeOK, Holding, TimeInv, Idle
    <2>4. QED BY <2>2, <2>3 DEF Inv
  <1>7. CASE UNCHANGED vars
    BY <1>7 DEF vars, Inv, TypeOK, Holding, TimeInv, IsRow
  <1>8. QED
    BY <1>1, <1>2, <1>3, <1>4, <1>5, <1>6, <1>7 DEF Next

LEMMA InvHolds == Spec => []Inv
  BY InvInit, InvStep, PTL DEF Spec

\* Rows, copies and events keep their types: what validation lets through and
\* the store accepts is a row.
THEOREM JobsTyped == Spec => []TypeOK
  <1>1. Inv => TypeOK
    BY DEF Inv
  <1>2. QED BY <1>1, InvHolds, PTL

\* However requests overlap and overwrite one another, a published posting
\* has a publication time.
THEOREM PublishedIsTimed == Spec => []PublishedHasTime
  <1>1. Inv => PublishedHasTime
    BY RowShape DEF Inv, TypeOK, TimeInv, Timed, PublishedHasTime, IsRow
  <1>2. QED BY <1>1, InvHolds, PTL

\* A stale write never brings a deleted posting back.
THEOREM DeletedForGood == Spec => DeletedStaysDeleted
  <1>1. Inv /\ [Next]_vars =>
          [\A j \in JobIds : jobs[j] = Deleted => jobs'[j] = Deleted]_vars
    <2> SUFFICES ASSUME Inv, Next, NEW j \in JobIds, jobs[j] = Deleted
                 PROVE  jobs'[j] = Deleted
      BY DEF vars
    <2>1. ~IsRow(j) /\ jobs[j] # NoRow
      BY RowShape DEF IsRow
    <2>2. ASSUME NEW k \in JobIds, NEW row, RepoCreate(k, row) \/ RepoUpdate(k, row)
          PROVE  jobs'[j] = Deleted
      BY <2>1, <2>2 DEF RepoCreate, RepoUpdate, Inv, TypeOK
    <2>3. ASSUME NEW r \in Requests, NEW now \in Times,
                 WriteUpdate(r, now) \/ WriteUnanswered(r, now)
          PROVE  jobs'[j] = Deleted
      <3>1. handler[r].job \in JobIds
        BY <2>3 DEF WriteUpdate, WriteUnanswered, Inv, Holding
      <3>2. QED BY <2>2, <2>3, <3>1 DEF WriteUpdate, WriteUnanswered
    <2>4. ASSUME NEW r \in Requests, NEW k \in JobIds,
                 \/ \E input \in NewJobs, now \in Times : CreateJob(r, k, input, now)
                 \/ \E p \in Patches : ReadForUpdate(r, k, p)
                 \/ DeleteJob(r, k)
          PROVE  jobs'[j] = Deleted
      BY <2>2, <2>4 DEF CreateJob, ReadForUpdate, DeleteJob, RepoDelete, Inv, TypeOK
    <2>5. ASSUME Crash \/ \E r \in Requests : Fail(r) \/ Announce(r)
          PROVE  jobs'[j] = Deleted
      BY <2>5 DEF Crash, Fail, Announce
    <2>6. QED BY <2>3, <2>4, <2>5 DEF Next
  <1>2. QED BY <1>1, InvHolds, PTL DEF Spec, DeletedStaysDeleted

-----------------------------------------------------------------------------
(* Events and lone updates *)

\* What the last event about a posting has to be for a row with this status.
Agrees(status, event) ==
  /\ status = "published" => event = "job.published"
  /\ status = "archived" => event # "job.published"

BusyWith(r, j) == handler[r].pc \in {"updating", "announcing"} /\ handler[r].job = j
Announcer(r, j) == handler[r].pc = "announcing" /\ handler[r].job = j

\* Requests hold postings that were created; events are about those.
Existing ==
  /\ \A r \in Requests, j \in JobIds : BusyWith(r, j) => jobs[j] # NoRow
  /\ \A j \in JobIds : jobs[j] = NoRow => announced[j] = "none"

\* A posting that nothing disturbed is held by one request at most: its copy is
\* the row, its event agrees with the row, and so does the last event when there is
\* none to come.
Calm(j) ==
  /\ \A q, r \in Requests : BusyWith(q, j) /\ BusyWith(r, j) => q = r
  /\ IsRow(j) =>
       /\ \A r \in Requests :
            BusyWith(r, j) /\ handler[r].pc = "updating" => handler[r].copy = jobs[j]
       /\ \A r \in Requests : Announcer(r, j) => Agrees(jobs[j].status, handler[r].event)
       /\ (\A r \in Requests : ~Announcer(r, j)) => Agrees(jobs[j].status, announced[j])

Undisturbed == \A j \in JobIds \ disturbed : Calm(j)

EventInv == Existing /\ Undisturbed

LEMMA EventInit == Init => EventInv
  BY RowShape DEF Init, EventInv, Existing, Undisturbed, Calm, BusyWith, Announcer, Idle, IsRow

\* What a handler becomes after a write agrees with the new row, if the last
\* event agreed with the old one.
LEMMA EventAgrees ==
  ASSUME NEW old, NEW new, NEW last, Agrees(old.status, last)
  PROVE  LET ev == EventOf(old, new)
         IN  IF ev = "none" THEN Agrees(new.status, last) ELSE Agrees(new.status, ev)
  BY DEF EventOf, Agrees

LEMMA EventStep == Inv /\ EventInv /\ [Next]_vars => EventInv'
  <1> SUFFICES ASSUME Inv, EventInv, [Next]_vars PROVE EventInv'
    OBVIOUS
  <1> USE DEF Inv, TypeOK, EventInv
  <1>1. ASSUME NEW r \in Requests, NEW j \in JobIds, NEW input \in NewJobs,
               NEW now \in Times, CreateJob(r, j, input, now)
        PROVE  EventInv'
    <2> DEFINE row == NewRow(input, now)
    <2>1. /\ row \in Row /\ row.state = "row" /\ jobs' = [jobs EXCEPT ![j] = row]
          /\ jobs[j] = NoRow /\ announced' = announced /\ announced[j] = "none"
      BY <1>1, CreatedRow, RowShape DEF CreateJob, RepoCreate, Existing
    <2>2. PICK h \in {Idle, Announcing(j, "job.published")} :
            /\ handler' = [handler EXCEPT ![r] = h]
            /\ \/ h = Idle /\ disturbed' = disturbed \cup {j}
               \/ h = Idle /\ row.status # "published" /\ disturbed' = disturbed
               \/ h = Announcing(j, "job.published") /\ row.status = "published"
                  /\ disturbed' = disturbed
      BY <1>1 DEF CreateJob, Answer
    <2>3. h = Idle => h.pc = "idle"
      BY DEF Idle
    <2>4. h = Announcing(j, "job.published") =>
            h.pc = "announcing" /\ h.job = j /\ h.event = "job.published"
      BY DEF Announcing
    <2>5. \A q \in Requests : ~BusyWith(q, j)
      BY <2>1 DEF Existing
    <2>6. Existing'
      BY <2>1, <2>2, <2>3, <2>4, RowShape DEF Existing, BusyWith
    <2>7. ASSUME NEW k \in JobIds \ disturbed' PROVE Calm(k)'
      <3>1. Calm(k)
        BY <2>2, <2>7 DEF Undisturbed
      <3>2. CASE k # j
        <4>1. h.pc = "idle" \/ (h.pc = "announcing" /\ h.job = j)
          BY <2>2, <2>3, <2>4
        <4>2. handler' = [handler EXCEPT ![r] = h] /\ jobs'[k] = jobs[k] /\ IsRow(k)' = IsRow(k)
          BY <3>2, <2>1, <2>2 DEF IsRow
        <4>3. \A q \in Requests : BusyWith(q, k)' => q # r /\ handler'[q] = handler[q]
          BY <3>2, <4>1, <4>2 DEF BusyWith
        <4>4. \A q \in Requests : handler[q] = handler'[q] \/ ~BusyWith(q, k)
          BY <1>1, <4>2 DEF CreateJob, BusyWith, Idle
        <4> QED
          BY <3>1, <4>2, <4>3, <4>4, <2>1 DEF Calm, BusyWith, Announcer
      <3>3. CASE k = j
        <4>1. h.pc = "idle" \/ (h.pc = "announcing" /\ h.job = j /\ h.event = "job.published"
                                 /\ row.status = "published")
          BY <2>2, <2>3, <2>4
        <4>2. h.pc = "idle" => row.status # "published"
          BY <2>2, <2>3, <2>4, <2>7, <3>3
        <4> QED
          BY <3>3, <4>1, <4>2, <2>1, <2>2, <2>5 DEF Calm, BusyWith, Announcer, IsRow, Agrees
      <3> QED BY <3>2, <3>3
    <2> QED BY <2>6, <2>7 DEF Undisturbed
  <1>2. ASSUME NEW r \in Requests, NEW j \in JobIds, NEW p \in Patches,
               ReadForUpdate(r, j, p)
        PROVE  EventInv'
    <2> DEFINE h == Updating(j, p, jobs[j])
    <2>1. h.pc = "updating" /\ h.job = j /\ h.copy = jobs[j]
      BY DEF Updating
    <2>2. /\ handler' = [handler EXCEPT ![r] = h] /\ jobs' = jobs /\ announced' = announced
          /\ IsRow(j) /\ handler[r].pc = "idle"
          /\ disturbed' = IF Busy(r, j) THEN disturbed \cup {j} ELSE disturbed
      BY <1>2 DEF ReadForUpdate, Answer, Idle
    <2> HIDE DEF h
    <2>3. Existing'
      BY <2>1, <2>2, RowShape DEF Existing, BusyWith, IsRow
    <2>4. ASSUME NEW k \in JobIds \ disturbed' PROVE Calm(k)'
      <3>1. Calm(k) /\ (k = j => ~Busy(r, j))
        BY <2>2, <2>4 DEF Undisturbed
      <3>2. CASE k # j
        BY <3>1, <3>2, <2>1, <2>2 DEF Calm, BusyWith, Announcer, IsRow
      <3>3. CASE k = j
        BY <3>1, <3>3, <2>1, <2>2 DEF Calm, BusyWith, Announcer, IsRow, Busy
      <3> QED BY <3>2, <3>3
    <2> QED BY <2>3, <2>4 DEF Undisturbed
  <1>3. ASSUME NEW r \in Requests, NEW now \in Times, WriteUpdate(r, now) PROVE EventInv'
    <2> DEFINE j == handler[r].job
               row == Merge(handler[r].patch, handler[r].copy, now)
               h == AfterWrite(j, handler[r].copy, row)
               ev == EventOf(handler[r].copy, row)
    <2>1. /\ handler[r].pc = "updating" /\ IsRow(j) /\ jobs' = [jobs EXCEPT ![j] = row]
          /\ handler' = [handler EXCEPT ![r] = h]
          /\ announced' = announced /\ disturbed' = disturbed
      BY <1>3 DEF WriteUpdate, RepoUpdate, Answer
    <2>2. j \in JobIds /\ row.state = "row"
      BY <2>1 DEF Holding, Merge
    <2>3. \/ ev = "none" /\ h.pc = "idle"
          \/ ev # "none" /\ h.pc = "announcing" /\ h.job = j /\ h.event = ev
      BY DEF AfterWrite, Idle, Announcing
    <2> HIDE DEF row, h, ev
    <2>4. Existing'
      BY <2>1, <2>2, <2>3, RowShape DEF Existing, BusyWith, IsRow
    <2>5. ASSUME NEW k \in JobIds \ disturbed' PROVE Calm(k)'
      <3>1. Calm(k)
        BY <2>1, <2>5 DEF Undisturbed
      <3>2. CASE k # j
        BY <3>1, <3>2, <2>1, <2>2, <2>3 DEF Calm, BusyWith, Announcer, IsRow
      <3>3. CASE k = j
        <4>1. \A q \in Requests : BusyWith(q, j) => q = r
          BY <3>1, <3>3, <2>1 DEF Calm, BusyWith
        <4>2. handler[r].copy = jobs[j] /\ Agrees(jobs[j].status, announced[j])
          BY <3>1, <3>3, <4>1, <2>1 DEF Calm, BusyWith, Announcer
        <4>3. IF ev = "none" THEN Agrees(row.status, announced[j]) ELSE Agrees(row.status, ev)
          BY <4>2, EventAgrees DEF ev, row
        <4> QED
          BY <3>3, <4>1, <4>3, <2>1, <2>2, <2>3 DEF Calm, BusyWith, Announcer, IsRow
      <3> QED BY <3>2, <3>3
    <2> QED BY <2>4, <2>5 DEF Undisturbed
  <1>4. ASSUME NEW r \in Requests, NEW now \in Times, WriteUnanswered(r, now) PROVE EventInv'
    <2> DEFINE j == handler[r].job
               row == Merge(handler[r].patch, handler[r].copy, now)
    <2>1. /\ handler[r].pc = "updating" /\ IsRow(j) /\ jobs' = [jobs EXCEPT ![j] = row]
          /\ handler' = [handler EXCEPT ![r] = Idle] /\ Idle.pc = "idle"
          /\ announced' = announced /\ disturbed' = disturbed \cup {j}
      BY <1>4 DEF WriteUnanswered, RepoUpdate, Answer, Idle
    <2>2. j \in JobIds /\ row.state = "row"
      BY <2>1 DEF Holding, Merge
    <2> HIDE DEF row
    <2>3. Existing'
      BY <2>1, <2>2, RowShape DEF Existing, BusyWith, IsRow
    <2>4. ASSUME NEW k \in JobIds \ disturbed' PROVE Calm(k)'
      BY <2>1, <2>2, <2>4 DEF Undisturbed, Calm, BusyWith, Announcer, IsRow
    <2> QED BY <2>3, <2>4 DEF Undisturbed
  <1>5. ASSUME NEW r \in Requests, Fail(r) PROVE EventInv'
    <2>1. /\ handler[r].pc = "updating" /\ handler' = [handler EXCEPT ![r] = Idle]
          /\ Idle.pc = "idle"
          /\ jobs' = jobs /\ announced' = announced /\ disturbed' = disturbed
      BY <1>5 DEF Fail, Answer, Idle
    <2>2. Existing'
      BY <2>1 DEF Existing, BusyWith
    <2>3. ASSUME NEW k \in JobIds \ disturbed' PROVE Calm(k)'
      BY <2>1, <2>3 DEF Undisturbed, Calm, BusyWith, Announcer, IsRow
    <2> QED BY <2>2, <2>3 DEF Undisturbed
  <1>6. ASSUME NEW r \in Requests, Announce(r) PROVE EventInv'
    <2> DEFINE j == handler[r].job
    <2>1. /\ handler[r].pc = "announcing" /\ handler' = [handler EXCEPT ![r] = Idle]
          /\ Idle.pc = "idle" /\ jobs' = jobs
          /\ \/ /\ announced' = [announced EXCEPT ![j] = handler[r].event]
                /\ disturbed' = disturbed
             \/ announced' = announced /\ disturbed' = disturbed \cup {j}
      BY <1>6 DEF Announce, Answer, Idle
    <2>2. j \in JobIds
      BY <2>1, HandlerKinds
    <2>3. Existing'
      BY <2>1, <2>2 DEF Existing, BusyWith
    <2>4. ASSUME NEW k \in JobIds \ disturbed' PROVE Calm(k)'
      BY <2>1, <2>2, <2>4 DEF Undisturbed, Calm, BusyWith, Announcer, IsRow
    <2> QED BY <2>3, <2>4 DEF Undisturbed
  <1>7. ASSUME NEW r \in Requests, NEW j \in JobIds, DeleteJob(r, j) PROVE EventInv'
    <2>1. /\ jobs' = [jobs EXCEPT ![j] = Deleted] /\ handler' = [handler EXCEPT ![r] = Idle]
          /\ handler[r] = Idle
          /\ announced' = announced /\ disturbed' = disturbed
      BY <1>7 DEF DeleteJob, RepoDelete, Answer
    <2>2. handler' = handler
      BY <2>1
    <2>3. Existing'
      BY <2>1, <2>2, RowShape DEF Existing, BusyWith
    <2>4. ASSUME NEW k \in JobIds \ disturbed' PROVE Calm(k)'
      BY <2>1, <2>2, <2>4, RowShape DEF Undisturbed, Calm, BusyWith, Announcer, IsRow
    <2> QED BY <2>3, <2>4 DEF Undisturbed
  <1>8. CASE Crash
    <2>1. /\ jobs' = jobs /\ announced' = announced
          /\ \A r \in Requests : handler'[r].pc = "idle"
          /\ \A k \in JobIds \ disturbed' :
               k \notin disturbed /\ \A r \in Requests : ~Announcer(r, k)
      BY <1>8 DEF Crash, Idle, Announcer
    <2>2. Existing'
      BY <2>1 DEF Existing, BusyWith
    <2>3. ASSUME NEW k \in JobIds \ disturbed' PROVE Calm(k)'
      BY <2>1, <2>3 DEF Undisturbed, Calm, BusyWith, Announcer, IsRow
    <2> QED BY <2>2, <2>3 DEF Undisturbed
  <1>9. CASE UNCHANGED vars
    BY <1>9 DEF vars, Existing, Undisturbed, Calm, BusyWith, Announcer, IsRow
  <1> QED
    BY <1>1, <1>2, <1>3, <1>4, <1>5, <1>6, <1>7, <1>8, <1>9 DEF Next

LEMMA EventHolds == Spec => []EventInv
  BY EventInit, EventStep, InvHolds, PTL DEF Spec

\* However many requests follow one another, while those of one posting do not
\* overlap and none of its events is lost (no handler is cut off, no DispatchEvent
\* fails), the last event queued about the posting agrees with its row whenever
\* nothing is in progress.
THEOREM EventsFollowRows == Spec => []LastEventAgrees
  <1>1. Inv /\ EventInv => LastEventAgrees
    BY DEF EventInv, Undisturbed, Calm, Agrees, Announcer, Idle, LastEventAgrees
  <1>2. QED BY <1>1, InvHolds, EventHolds, PTL

\* An update that no other overlapped changes nothing but what its request names,
\* and the publication time only when the posting had none and is published: a
\* posting that is archived and published again keeps the time of the first.
THEOREM LoneUpdatesArePartial == Spec => LoneUpdateIsPartial
  <1>1. Inv /\ EventInv /\ [Next]_vars =>
          [\A r \in Requests :
             (Writes(r) /\ handler[r].job \notin disturbed) =>
               ChangesOnlyPatch(r) /\ KeepsTime(r)]_vars
    <2> SUFFICES ASSUME Inv, EventInv, Next, NEW r \in Requests,
                        Writes(r), handler[r].job \notin disturbed
                 PROVE  ChangesOnlyPatch(r) /\ KeepsTime(r)
      BY DEF vars
    <2> DEFINE j == handler[r].job
               row(now) == Merge(handler[r].patch, handler[r].copy, now)
    <2>1. handler[r].pc = "updating" /\ handler[r] # Idle /\ jobs' # jobs
          /\ handler'[r] # handler[r]
      BY DEF Writes, Idle
    <2>2. j \in JobIds
      BY <2>1 DEF Inv, Holding
    <2>3. ASSUME NEW q \in Requests, q # r, NEW h, handler' = [handler EXCEPT ![q] = h]
          PROVE  FALSE
      BY <2>1, <2>3 DEF Inv, TypeOK
    <2>4. PICK now \in Times : WriteUpdate(r, now) \/ WriteUnanswered(r, now)
      <3>1. ASSUME NEW q \in Requests, NEW k \in JobIds, NEW input \in NewJobs,
                   NEW now \in Times, CreateJob(q, k, input, now)
            PROVE  FALSE
        BY <2>1, <2>3, <3>1 DEF CreateJob, Answer
      <3>2. ASSUME NEW q \in Requests, NEW k \in JobIds, DeleteJob(q, k) PROVE FALSE
        BY <2>1, <2>3, <3>2 DEF DeleteJob, Answer
      <3>3. ASSUME NEW q \in Requests, q # r, NEW now \in Times,
                   WriteUpdate(q, now) \/ WriteUnanswered(q, now)
            PROVE  FALSE
        BY <2>3, <3>3 DEF WriteUpdate, WriteUnanswered, Answer
      <3>4. ~Crash /\ \A q \in Requests : ~Fail(q) /\ ~Announce(q)
        BY <2>1 DEF Crash, Fail, Announce
      <3>5. \A q \in Requests, k \in JobIds, p \in Patches : ~ReadForUpdate(q, k, p)
        BY <2>1 DEF ReadForUpdate
      <3> QED BY <3>1, <3>2, <3>3, <3>4, <3>5 DEF Next
    <2>5. jobs'[j] = row(now) /\ IsRow(j)
      BY <2>2, <2>4 DEF WriteUpdate, WriteUnanswered, RepoUpdate, Inv, TypeOK
    <2>6. handler[r].copy = jobs[j]
      BY <2>1, <2>2, <2>5 DEF EventInv, Undisturbed, Calm, BusyWith
    <2>7. \A f \in Fields : f \notin DOMAIN handler[r].patch => row(now)[f] = jobs[j][f]
      BY <2>6 DEF Merge, Pick, Fields
    <2>8. row(now).published_at # jobs[j].published_at =>
            jobs[j].published_at = "nil" /\ Publishes(handler[r].patch)
      BY <2>6 DEF Merge
    <2> QED BY <2>5, <2>7, <2>8 DEF ChangesOnlyPatch, KeepsTime
  <1>2. QED BY <1>1, InvHolds, EventHolds, PTL DEF Spec, LoneUpdateIsPartial
=============================================================================
