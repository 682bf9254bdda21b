------------------------- MODULE ApplicationsProofs -------------------------
(***************************************************************************)
(* Proofs about applications, for any number of concurrent requests, any   *)
(* postings, applications, stages and reasons.                             *)
(***************************************************************************)
EXTENDS Applications, TLAPS

USE StagesAssumption, ReasonsAssumption, MaxNotesAssumption

-----------------------------------------------------------------------------
(* What rows, events and handlers look like. *)

LEMMA RowFacts ==
  /\ \A row \in Rows : row.state = "row" /\ row.job \in JobIds
                         /\ row.stage \in Stages /\ row.reason \in Reasons
  /\ NoApp.state # "row" /\ Gone.state # "row" /\ NoApp # Gone
  /\ NoApp \notin Rows /\ Gone \notin Rows
  /\ \A j \in JobIds, stage \in Stages, reason \in Reasons : AppRow(j, stage, reason) \in Rows
  <1>1. \A row \in Rows : row.state = "row" /\ row.job \in JobIds
                            /\ row.stage \in Stages /\ row.reason \in Reasons
    BY ONLY DEF Rows, AppRow
  <1>2. NoApp.state = "none" /\ Gone.state = "gone"
    BY ONLY DEF NoApp, Gone
  <1>3. \A j \in JobIds, stage \in Stages, reason \in Reasons :
          AppRow(j, stage, reason) \in Rows
    BY ONLY DEF Rows
  <1>4. QED BY ONLY <1>1, <1>2, <1>3

LEMMA NewsFacts ==
  ASSUME NEW ev \in StageNews
  PROVE  /\ ev # CreatedEvent
         /\ ev.event = "application.rejected" => ev.reason \in Reasons
         /\ ev.event # "application.rejected" => ev.stage \in Stages
  <1>1. CASE \E old \in Stages, new \in Stages : ev = StageEvent(old, new)
    BY ONLY <1>1 DEF StageEvent, CreatedEvent
  <1>2. CASE \E reason \in Reasons : ev = RejectedEvent(reason)
    BY ONLY <1>2 DEF RejectedEvent, CreatedEvent
  <1>3. QED BY <1>1, <1>2 DEF StageNews

LEMMA BatchFacts ==
  ASSUME NEW b \in Batches
  PROVE  /\ b # <<>>
         /\ b = <<CreatedEvent>> \/ Head(b) \in StageNews
         /\ b = <<CreatedEvent>> => Head(b) = CreatedEvent /\ Tail(b) = <<>>
         /\ Tail(b) = <<>> \/ (Tail(b) \in Batches /\ Tail(b) # <<CreatedEvent>>)
  <1>1. CASE b = <<CreatedEvent>>
    BY <1>1
  <1>2. CASE \E ev \in StageNews : b = <<ev>>
    BY <1>2, NewsFacts
  <1>3. CASE \E ev \in StageNews, fv \in StageNews : b = <<ev, fv>>
    <2>1. PICK ev \in StageNews, fv \in StageNews : b = <<ev, fv>>
      BY <1>3
    <2>2. Head(b) = ev /\ Tail(b) = <<fv>> /\ b # <<>> /\ b # <<CreatedEvent>>
      BY <2>1
    <2>3. <<fv>> \in Batches /\ <<fv>> # <<CreatedEvent>>
      BY NewsFacts DEF Batches
    <2>4. QED BY <2>2, <2>3
  <1>4. QED BY <1>1, <1>2, <1>3 DEF Batches

LEMMA UpdateBatch ==
  ASSUME NEW old \in Rows, NEW stage \in Stages, NEW reason \in Reasons
  PROVE  LET b == StageEvents(old, stage, reason) IN
         b = <<>> \/ (b \in Batches /\ b # <<CreatedEvent>>)
  <1>1. old.stage \in Stages
    BY RowFacts
  <1>2. StageEvent(old.stage, stage) \in StageNews /\ RejectedEvent(reason) \in StageNews
    BY <1>1 DEF StageNews
  <1> DEFINE se == StageEvent(old.stage, stage)
             re == RejectedEvent(reason)
  <1>3. StageEvents(old, stage, reason) \in {<<>>, <<se>>, <<re>>, <<se, re>>}
    BY DEF StageEvents
  <1>4. <<se>> \in Batches /\ <<re>> \in Batches /\ <<se, re>> \in Batches
    BY <1>2 DEF Batches
  <1>5. se # CreatedEvent /\ re # CreatedEvent
    BY <1>2, NewsFacts
  <1> HIDE DEF se, re
  <1>6. <<se>> # <<CreatedEvent>> /\ <<re>> # <<CreatedEvent>> /\ <<se, re>> # <<CreatedEvent>>
    BY <1>5
  <1>7. QED BY <1>3, <1>4, <1>6

LEMMA HandlerKinds ==
  ASSUME NEW h \in Handler
  PROVE  /\ h.pc \in {"idle", "uploading", "creating", "undoing", "staging", "noting",
                      "announcing"}
         /\ h.pc = "idle" => h = Idle
         /\ h.pc # "idle" => h.app \in AppIds
         /\ h.pc \in {"uploading", "creating", "undoing"} => h.job \in JobIds
         /\ h.pc = "staging" => h.stage \in Stages /\ h.reason \in Reasons /\ h.copy \in Rows
         /\ h.pc = "announcing" => h.events \in Batches
  <1>1. CASE h = Idle
    BY ONLY <1>1 DEF Idle
  <1>2. CASE \E pc \in {"uploading", "creating", "undoing"}, a \in AppIds, j \in JobIds :
               h = Applying(pc, a, j)
    BY ONLY <1>2 DEF Applying
  <1>3. CASE \E a \in AppIds, stage \in Stages, reason \in Reasons, copy \in Rows :
               h = Staging(a, stage, reason, copy)
    BY ONLY <1>3 DEF Staging
  <1>4. CASE \E a \in AppIds : h = Noting(a)
    BY ONLY <1>4 DEF Noting
  <1>5. CASE \E a \in AppIds, events \in Batches : h = Announcing(a, events)
    BY ONLY <1>5 DEF Announcing
  <1>6. QED BY <1>1, <1>2, <1>3, <1>4, <1>5 DEF Handler

LEMMA HandlerMade ==
  /\ Idle \in Handler /\ Idle.pc = "idle"
  /\ \A pc \in {"uploading", "creating", "undoing"}, a \in AppIds, j \in JobIds :
       Applying(pc, a, j) \in Handler /\ Applying(pc, a, j).pc = pc
         /\ Applying(pc, a, j).app = a /\ Applying(pc, a, j).job = j
  /\ \A a \in AppIds, stage \in Stages, reason \in Reasons, copy \in Rows :
       LET h == Staging(a, stage, reason, copy) IN
       h \in Handler /\ h.pc = "staging" /\ h.app = a
  /\ \A a \in AppIds : Noting(a) \in Handler /\ Noting(a).pc = "noting" /\ Noting(a).app = a
  /\ \A a \in AppIds, b \in Batches :
       LET h == Announcing(a, b) IN
       h \in Handler /\ h.pc = "announcing" /\ h.app = a /\ h.events = b
  <1>1. Idle \in Handler /\ Idle.pc = "idle"
    BY ONLY DEF Handler, Idle
  <1>2. \A pc \in {"uploading", "creating", "undoing"}, a \in AppIds, j \in JobIds :
          Applying(pc, a, j) \in Handler
    BY ONLY DEF Handler
  <1>3. \A pc, a, j : Applying(pc, a, j).pc = pc /\ Applying(pc, a, j).app = a
                        /\ Applying(pc, a, j).job = j
    BY ONLY DEF Applying
  <1>4. \A a \in AppIds, stage \in Stages, reason \in Reasons, copy \in Rows :
          Staging(a, stage, reason, copy) \in Handler
    BY ONLY DEF Handler
  <1>5. \A a, stage, reason, copy :
          LET h == Staging(a, stage, reason, copy) IN h.pc = "staging" /\ h.app = a
    BY ONLY DEF Staging
  <1>6. \A a \in AppIds : Noting(a) \in Handler
    BY ONLY DEF Handler
  <1>7. \A a : Noting(a).pc = "noting" /\ Noting(a).app = a
    BY ONLY DEF Noting
  <1>8. \A a \in AppIds, b \in Batches : Announcing(a, b) \in Handler
    BY ONLY DEF Handler
  <1>9. \A a, b : LET h == Announcing(a, b) IN h.pc = "announcing" /\ h.app = a /\ h.events = b
    BY ONLY DEF Announcing
  <1>10. QED BY ONLY <1>1, <1>2, <1>3, <1>4, <1>5, <1>6, <1>7, <1>8, <1>9

-----------------------------------------------------------------------------
(* Type correctness. *)

\* What a step that moves one handler owes to TypeOK.
LEMMA Moved ==
  ASSUME TypeOK, NEW r \in Requests, NEW h \in Handler, Answer(r, h)
  PROVE  handler' \in [Requests -> Handler]
  BY DEF TypeOK, Answer

LEMMA TypeOKInit == Init => TypeOK
  BY HandlerMade DEF Init, TypeOK

LEMMA TypeOKStep == TypeOK /\ [Next]_vars => TypeOK'
  <1> SUFFICES ASSUME TypeOK, [Next]_vars PROVE TypeOK'
    OBVIOUS
  <1>h. ASSUME NEW r \in Requests PROVE handler[r] \in Handler
    BY DEF TypeOK
  <1>1. ASSUME NEW j \in JobIds, DeleteJob(j) PROVE TypeOK'
    BY <1>1 DEF DeleteJob, Cascade, TypeOK
  <1>2. ASSUME NEW j \in JobIds, NEW status \in {"open", "closed"}, SetPosting(j, status)
        PROVE  TypeOK'
    BY <1>2 DEF SetPosting, TypeOK, history
  <1>3. ASSUME NEW r \in Requests, NEW a \in AppIds, NEW j \in JobIds, ReadJob(r, a, j)
        PROVE  TypeOK'
    <2>1. handler' \in [Requests -> Handler]
      BY <1>3, Moved, HandlerMade DEF ReadJob
    <2>2. QED BY <1>3, <2>1 DEF ReadJob, TypeOK, history
  <1>4. ASSUME NEW r \in Requests, Upload(r) PROVE TypeOK'
    <2>1. handler[r].app \in AppIds /\ handler[r].job \in JobIds
      BY <1>4, <1>h, HandlerKinds DEF Upload, At
    <2>2. handler' \in [Requests -> Handler]
      BY <1>4, <2>1, Moved, HandlerMade DEF Upload
    <2>3. QED BY <1>4, <2>1, <2>2 DEF Upload, TypeOK, history
  <1>5. ASSUME NEW r \in Requests, UploadFails(r) PROVE TypeOK'
    <2>1. handler[r].app \in AppIds
      BY <1>5, <1>h, HandlerKinds DEF UploadFails, At
    <2>2. handler' \in [Requests -> Handler]
      BY <1>5, Moved, HandlerMade DEF UploadFails
    <2>3. QED BY <1>5, <2>1, <2>2 DEF UploadFails, TypeOK
  <1>6. ASSUME NEW r \in Requests, CreateApplication(r) PROVE TypeOK'
    <2>1. handler[r].app \in AppIds /\ handler[r].job \in JobIds
      BY <1>6, <1>h, HandlerKinds DEF CreateApplication, At
    <2>2. handler' \in [Requests -> Handler]
      BY <1>6, <2>1, Moved, HandlerMade DEF CreateApplication, Batches
    <2>3. AppRow(handler[r].job, "applied", "nil") \in Rows
      BY <2>1, RowFacts
    <2>4. QED BY <1>6, <2>1, <2>2, <2>3 DEF CreateApplication, InsertApp, TypeOK, history
  <1>7. ASSUME NEW r \in Requests, CreateUnanswered(r) PROVE TypeOK'
    <2>1. handler[r].app \in AppIds /\ handler[r].job \in JobIds
      BY <1>7, <1>h, HandlerKinds DEF CreateUnanswered, At
    <2>2. handler' \in [Requests -> Handler]
      BY <1>7, <2>1, Moved, HandlerMade DEF CreateUnanswered
    <2>3. AppRow(handler[r].job, "applied", "nil") \in Rows
      BY <2>1, RowFacts
    <2>4. QED BY <1>7, <2>1, <2>2, <2>3 DEF CreateUnanswered, InsertApp, TypeOK
  <1>8. ASSUME NEW r \in Requests, CreateFails(r) PROVE TypeOK'
    <2>1. handler[r].app \in AppIds /\ handler[r].job \in JobIds
      BY <1>8, <1>h, HandlerKinds DEF CreateFails, At
    <2>2. handler' \in [Requests -> Handler]
      BY <1>8, <2>1, Moved, HandlerMade DEF CreateFails
    <2>3. QED BY <1>8, <2>2 DEF CreateFails, TypeOK, history
  <1>9. ASSUME NEW r \in Requests, Undo(r) PROVE TypeOK'
    <2>1. handler[r].app \in AppIds
      BY <1>9, <1>h, HandlerKinds DEF Undo, At
    <2>2. handler' \in [Requests -> Handler]
      BY <1>9, Moved, HandlerMade DEF Undo
    <2>3. QED BY <1>9, <2>1, <2>2 DEF Undo, TypeOK
  <1>10. ASSUME NEW r \in Requests, NEW a \in AppIds, NEW stage, NEW reason \in Reasons,
                ReadForStage(r, a, stage, reason)
         PROVE  TypeOK'
    <2>1. stage \in Stages /\ apps[a] \in Rows
      BY <1>10, RowFacts DEF ReadForStage, ValidateStageUpdate, IsApp, TypeOK
    <2>2. handler' \in [Requests -> Handler]
      BY <1>10, <2>1, Moved, HandlerMade DEF ReadForStage
    <2>3. QED BY <1>10, <2>2 DEF ReadForStage, TypeOK
  <1>11. ASSUME NEW r \in Requests, WriteStage(r) PROVE TypeOK'
    <2> DEFINE h == handler[r]
    <2>1. h.app \in AppIds /\ h.stage \in Stages /\ h.reason \in Reasons /\ h.copy \in Rows
      BY <1>11, <1>h, HandlerKinds DEF WriteStage, At
    <2>2. AnnounceAll(h.app, StageEvents(h.copy, h.stage, h.reason)) \in Handler
      BY <2>1, UpdateBatch, HandlerMade DEF AnnounceAll
    <2>3. handler' \in [Requests -> Handler]
      BY <1>11, <2>2, Moved DEF WriteStage
    <2>4. apps' \in [AppIds -> Rows \cup {NoApp, Gone}]
      <3>1. apps[h.app] \in Rows
        BY <1>11, <2>1, RowFacts DEF WriteStage, UpdateStageRow, IsApp, TypeOK
      <3>2. AppRow(apps[h.app].job, h.stage, h.reason) \in Rows
        BY <2>1, <3>1, RowFacts
      <3>3. QED BY <1>11, <2>1, <3>2 DEF WriteStage, UpdateStageRow, TypeOK
    <2>5. QED BY <1>11, <2>3, <2>4 DEF WriteStage, TypeOK, history
  <1>12. ASSUME NEW r \in Requests, WriteStageUnanswered(r) PROVE TypeOK'
    <2> DEFINE h == handler[r]
    <2>1. h.app \in AppIds /\ h.stage \in Stages /\ h.reason \in Reasons
      BY <1>12, <1>h, HandlerKinds DEF WriteStageUnanswered, At
    <2>2. handler' \in [Requests -> Handler]
      BY <1>12, HandlerMade, Moved DEF WriteStageUnanswered
    <2>3. apps' \in [AppIds -> Rows \cup {NoApp, Gone}]
      <3>1. apps[h.app] \in Rows
        BY <1>12, <2>1, RowFacts DEF WriteStageUnanswered, UpdateStageRow, IsApp, TypeOK
      <3>2. AppRow(apps[h.app].job, h.stage, h.reason) \in Rows
        BY <2>1, <3>1, RowFacts
      <3>3. QED BY <1>12, <2>1, <3>2 DEF WriteStageUnanswered, UpdateStageRow, TypeOK
    <2>4. QED BY <1>12, <2>1, <2>2, <2>3 DEF WriteStageUnanswered, TypeOK
  <1>13. ASSUME NEW r \in Requests, WriteStageFails(r) PROVE TypeOK'
    <2>1. handler' \in [Requests -> Handler]
      BY <1>13, HandlerMade, Moved DEF WriteStageFails
    <2>2. QED BY <1>13, <2>1 DEF WriteStageFails, TypeOK, history
  <1>14. ASSUME NEW r \in Requests, NEW a \in AppIds, ReadForNote(r, a) PROVE TypeOK'
    <2>1. handler' \in [Requests -> Handler]
      BY <1>14, HandlerMade, Moved DEF ReadForNote
    <2>2. QED BY <1>14, <2>1 DEF ReadForNote, TypeOK, history
  <1>15. ASSUME NEW r \in Requests, CreateNote(r) PROVE TypeOK'
    <2>1. handler' \in [Requests -> Handler]
      BY <1>15, HandlerMade, Moved DEF CreateNote
    <2>2. handler[r].app \in AppIds
      BY <1>15, <1>h, HandlerKinds DEF CreateNote, At
    <2>3. notes' \in [AppIds -> 0 .. MaxNotes]
      BY <1>15, <2>2 DEF CreateNote, InsertNote, TypeOK
    <2>4. QED BY <1>15, <2>1, <2>3 DEF CreateNote, TypeOK, history
  <1>16. ASSUME NEW r \in Requests, Announce(r) PROVE TypeOK'
    <2> DEFINE h == handler[r]
               ev == Head(h.events)
    <2>1. h.app \in AppIds /\ h.events \in Batches
      BY <1>16, <1>h, HandlerKinds DEF Announce, At
    <2>2. AnnounceAll(h.app, Tail(h.events)) \in Handler
      BY <2>1, BatchFacts, HandlerMade DEF AnnounceAll
    <2>3. handler' \in [Requests -> Handler]
      BY <1>16, <2>2, Moved DEF Announce
    <2>4. ev = CreatedEvent \/ ev \in StageNews
      BY <2>1, BatchFacts
    <2>5. /\ ev.event = "application.rejected" => ev.reason \in Reasons
          /\ ev.event # "application.rejected" => ev.stage \in Stages
      BY <2>4, NewsFacts DEF CreatedEvent
    <2>6. told' \in [AppIds -> [stage : Stages \cup {"none"}, reason : Reasons \cup {"none"}]]
      BY <1>16, <2>1, <2>5 DEF Announce, Tell, TypeOK
    <2>7. disturbed' \subseteq AppIds
      BY <1>16, <2>1 DEF Announce, TypeOK
    <2>8. QED BY <1>16, <2>1, <2>3, <2>6, <2>7 DEF Announce, TypeOK
  <1>17. ASSUME Crash PROVE TypeOK'
    BY <1>17, HandlerMade DEF Crash, TypeOK
  <1>18. ASSUME UNCHANGED vars PROVE TypeOK'
    BY <1>18 DEF vars, TypeOK
  <1>19. QED
    BY <1>1, <1>2, <1>3, <1>4, <1>5, <1>6, <1>7, <1>8, <1>9, <1>10, <1>11, <1>12,
       <1>13, <1>14, <1>15, <1>16, <1>17, <1>18 DEF Next

\* Rows, notes, handlers and events keep their types: what validation lets
\* through and the tables accept is an application.
THEOREM ApplicationsTyped == Spec => []TypeOK
  BY TypeOKInit, TypeOKStep, PTL DEF Spec

-----------------------------------------------------------------------------
(* A resume is in the hands of one Apply until it is answered.  None of the *)
(* safety properties is inductive without this.                             *)

\* The handler of the Apply that drew the application's key.
Owner(h) ==
  \/ h.pc \in {"uploading", "creating", "undoing"}
  \/ h.pc = "announcing" /\ h.events = <<CreatedEvent>>

InHand ==
  \A r \in Requests :
    LET h == handler[r] IN
    /\ h.pc \in {"uploading", "creating"} => apps[h.app] = NoApp
    /\ h.pc = "undoing" => apps[h.app] = NoApp \/ h.app \in doubtful
    /\ h.pc \in {"staging", "noting", "announcing"} => apps[h.app] # NoApp
    /\ Owner(h) => h.app \notin accepted
    /\ Owner(h) /\ h.pc # "uploading" => h.app \in objects

OneOwner ==
  \A r, q \in Requests :
    Owner(handler[r]) /\ Owner(handler[q]) /\ handler[r].app = handler[q].app => r = q

Custody == InHand /\ OneOwner

Kept == RowHasResume /\ AcceptedIsWhole /\ LeftoversExplained

\* A step of a handler that owns nothing, and that creates and removes nothing.
LEMMA Bystander ==
  ASSUME TypeOK, Custody, Kept,
         NEW r \in Requests, NEW h \in Handler, Answer(r, h),
         ~ Owner(handler[r]), ~ Owner(h),
         h.pc # "idle" => apps'[h.app] # NoApp,
         \A a \in AppIds : (apps'[a] = NoApp <=> apps[a] = NoApp)
                             /\ (apps'[a].state = "row" <=> apps[a].state = "row"),
         UNCHANGED <<objects, accepted, doubtful, leftovers>>
  PROVE  Custody' /\ Kept'
  <1>1. handler' = [handler EXCEPT ![r] = h] /\ handler \in [Requests -> Handler]
    BY DEF Answer, TypeOK
  <1>2. \A q \in Requests : q # r => handler'[q] = handler[q]
    BY <1>1
  <1>3. handler'[r] = h
    BY <1>1
  <1>4. ASSUME NEW q \in Requests PROVE handler[q].pc # "idle" => handler[q].app \in AppIds
    BY <1>1, HandlerKinds
  <1>5. InHand'
    <2> SUFFICES ASSUME NEW q \in Requests
                 PROVE  LET g == handler'[q] IN
                   /\ g.pc \in {"uploading", "creating"} => apps'[g.app] = NoApp
                   /\ g.pc = "undoing" => apps'[g.app] = NoApp \/ g.app \in doubtful
                   /\ g.pc \in {"staging", "noting", "announcing"} => apps'[g.app] # NoApp
                   /\ Owner(g) => g.app \notin accepted
                   /\ Owner(g) /\ g.pc # "uploading" => g.app \in objects
      BY DEF InHand, Owner
    <2>1. CASE q = r
      BY <2>1, <1>3 DEF Owner
    <2>2. CASE q # r
      BY <2>2, <1>2, <1>4 DEF Custody, InHand, Owner
    <2>3. QED BY <2>1, <2>2
  <1>6. OneOwner'
    BY <1>2, <1>3 DEF Custody, OneOwner, Owner
  <1>7. RowHasResume' /\ AcceptedIsWhole'
    BY DEF Kept, RowHasResume, AcceptedIsWhole, IsApp, TypeOK
  <1>8. LeftoversExplained'
    BY <1>2 DEF Kept, LeftoversExplained, IsApp, At, Owner, TypeOK
  <1>9. QED BY <1>5, <1>6, <1>7, <1>8 DEF Custody, Kept

\* After an update, and after all but the first event, a handler owns nothing.
LEMMA AnnouncerOwnsNothing ==
  ASSUME NEW a \in AppIds, NEW b, b = <<>> \/ (b \in Batches /\ b # <<CreatedEvent>>)
  PROVE  LET h == AnnounceAll(a, b) IN
         /\ h \in Handler /\ ~ Owner(h) /\ (h.pc # "idle" => h.app = a)
         /\ b = <<>> => h.pc = "idle"
  <1>1. CASE b = <<>>
    BY <1>1, HandlerMade DEF AnnounceAll, Owner
  <1>2. CASE b # <<>>
    <2> DEFINE h == Announcing(a, b)
    <2>1. h \in Handler /\ h.pc = "announcing" /\ h.app = a /\ h.events = b
      BY <1>2, HandlerMade
    <2>2. AnnounceAll(a, b) = h
      BY <1>2 DEF AnnounceAll
    <2> HIDE DEF h
    <2>3. QED BY <1>2, <2>1, <2>2 DEF Owner
  <1>3. QED BY <1>1, <1>2

\* What the other requests hold when r, which owns an application, moves.
LEMMA Others ==
  ASSUME TypeOK, Custody, NEW r \in Requests, NEW h \in Handler, Answer(r, h)
  PROVE  /\ handler'[r] = h
         /\ \A q \in Requests : q # r => handler'[q] = handler[q]
         /\ Owner(handler[r]) =>
              \A q \in Requests : q # r /\ Owner(handler[q]) => handler[q].app # handler[r].app
         /\ \A q \in Requests : handler[q].pc # "idle" => handler[q].app \in AppIds
  <1>1. \A q \in Requests : handler[q] \in Handler
    BY DEF TypeOK
  <1>2. \A q \in Requests : handler[q].pc # "idle" => handler[q].app \in AppIds
    BY <1>1, HandlerKinds
  <1>3. handler'[r] = h /\ \A q \in Requests : q # r => handler'[q] = handler[q]
    BY DEF TypeOK, Answer
  <1>4. QED BY <1>2, <1>3 DEF Custody, OneOwner

LEMMA CustodyInit == Init => Custody /\ Kept
  BY HandlerMade, RowFacts
  DEF Init, Custody, InHand, OneOwner, Owner, Kept, RowHasResume, AcceptedIsWhole,
      LeftoversExplained, IsApp

LEMMA CustodyStep ==
  ASSUME TypeOK, Custody, Kept, [Next]_vars
  PROVE  Custody' /\ Kept'
  <1> USE DEF Custody, Kept
  <1>h. ASSUME NEW r \in Requests PROVE handler[r] \in Handler
    BY DEF TypeOK
  <1>1. ASSUME NEW j \in JobIds, DeleteJob(j) PROVE Custody' /\ Kept'
    <2>1. \A r \in Requests : handler[r].pc # "idle" => handler[r].app \in AppIds
      BY <1>h, HandlerKinds
    <2>2. \A a \in AppIds : /\ apps'[a] = NoApp <=> apps[a] = NoApp
                            /\ apps'[a].state = "row" => apps[a].state = "row"
                            /\ apps'[a] = apps[a] \/ a \in leftovers'
      BY <1>1, RowFacts DEF DeleteJob, Cascade, IsApp, TypeOK
    <2>3. UNCHANGED <<objects, handler, accepted, doubtful>> /\ leftovers \subseteq leftovers'
      BY <1>1 DEF DeleteJob
    <2>4. InHand'
      BY <2>1, <2>2, <2>3, HandlerKinds, <1>h DEF InHand, Owner
    <2>5. OneOwner'
      BY <2>3 DEF OneOwner, Owner
    <2>6. RowHasResume' /\ AcceptedIsWhole' /\ LeftoversExplained'
      BY <2>2, <2>3 DEF RowHasResume, AcceptedIsWhole, LeftoversExplained, IsApp, At, TypeOK
    <2>7. QED BY <2>4, <2>5, <2>6
  <1>2. ASSUME NEW j \in JobIds, NEW status \in {"open", "closed"}, SetPosting(j, status)
        PROVE  Custody' /\ Kept'
    BY <1>2 DEF SetPosting, history, InHand, OneOwner, Owner, RowHasResume,
                AcceptedIsWhole, LeftoversExplained, IsApp, At
  <1>3. ASSUME NEW r \in Requests, NEW a \in AppIds, NEW j \in JobIds, ReadJob(r, a, j)
        PROVE  Custody' /\ Kept'
    <2>1. PICK h \in Handler : Answer(r, h) /\ h.pc = "uploading" /\ h.app = a
      BY <1>3, HandlerMade DEF ReadJob
    <2>2. /\ handler[r].pc = "idle" /\ apps[a] = NoApp
          /\ \A q \in Requests : handler[q].pc # "idle" => handler[q].app # a
      BY <1>3 DEF ReadJob, Fresh, WorksOn, At
    <2>3. handler'[r] = h /\ \A q \in Requests : q # r => handler'[q] = handler[q]
      BY <2>1, Others
    <2>4. UNCHANGED <<apps, objects, accepted, doubtful, leftovers>>
      BY <1>3 DEF ReadJob, history
    <2>5. InHand'
      BY <2>1, <2>2, <2>3, <2>4 DEF InHand, Owner, AcceptedIsWhole
    <2>6. OneOwner'
      BY <2>1, <2>2, <2>3 DEF OneOwner, Owner
    <2>7. RowHasResume' /\ AcceptedIsWhole'
      BY <2>4 DEF RowHasResume, AcceptedIsWhole, IsApp
    <2>8. LeftoversExplained'
      BY <2>2, <2>3, <2>4 DEF LeftoversExplained, IsApp, At
    <2>9. QED BY <2>5, <2>6, <2>7, <2>8
  <1>4. ASSUME NEW r \in Requests, Upload(r) PROVE Custody' /\ Kept'
    <2> DEFINE a == handler[r].app
               j == handler[r].job
    <2>1. a \in AppIds /\ j \in JobIds /\ Owner(handler[r]) /\ handler[r].pc = "uploading"
      BY <1>4, <1>h, HandlerKinds DEF Upload, At, Owner
    <2> HIDE DEF a, j
    <2>2. PICK h \in Handler : Answer(r, h) /\ h.pc = "creating" /\ h.app = a
      BY <1>4, <2>1, HandlerMade DEF Upload, a, j
    <2>3. /\ handler'[r] = h /\ \A q \in Requests : q # r => handler'[q] = handler[q]
          /\ \A q \in Requests : q # r /\ Owner(handler[q]) => handler[q].app # a
          /\ \A q \in Requests : handler[q].pc # "idle" => handler[q].app \in AppIds
      BY <2>1, <2>2, Others DEF a
    <2>4. UNCHANGED <<apps, accepted, doubtful, leftovers>> /\ objects' = objects \cup {a}
      BY <1>4, <2>1, RowFacts DEF Upload, history, a, j, TypeOK
    <2>5. InHand'
      BY <2>1, <2>2, <2>3, <2>4 DEF InHand, Owner, a, TypeOK
    <2>6. OneOwner'
      BY <2>1, <2>2, <2>3 DEF OneOwner, Owner, a
    <2>7. RowHasResume' /\ AcceptedIsWhole'
      BY <2>1, <2>4 DEF RowHasResume, AcceptedIsWhole, InHand, Owner, IsApp, a, TypeOK
    <2>8. LeftoversExplained'
      BY <2>1, <2>2, <2>3, <2>4 DEF LeftoversExplained, IsApp, At, a, Owner, TypeOK
    <2>9. QED BY <2>5, <2>6, <2>7, <2>8
  <1>5. ASSUME NEW r \in Requests, UploadFails(r) PROVE Custody' /\ Kept'
    <2> DEFINE a == handler[r].app
               j == handler[r].job
    <2>1. a \in AppIds /\ j \in JobIds /\ Owner(handler[r]) /\ handler[r].pc = "uploading"
      BY <1>5, <1>h, HandlerKinds DEF UploadFails, At, Owner
    <2> HIDE DEF a, j
    <2>2. PICK h \in Handler : Answer(r, h) /\ h.pc = "idle"
      BY <1>5, <2>1, HandlerMade DEF UploadFails, a, j
    <2>3. /\ handler'[r] = h /\ \A q \in Requests : q # r => handler'[q] = handler[q]
          /\ \A q \in Requests : q # r /\ Owner(handler[q]) => handler[q].app # a
          /\ \A q \in Requests : handler[q].pc # "idle" => handler[q].app \in AppIds
      BY <2>1, <2>2, Others DEF a
    <2>4. /\ UNCHANGED <<apps, accepted, doubtful>>
          /\ \/ UNCHANGED <<objects, leftovers>>
             \/ objects' = objects \cup {a} /\ leftovers' = leftovers \cup {a}
      BY <1>5, <2>1, RowFacts DEF UploadFails, history, a, j, TypeOK
    <2>5. InHand'
      BY <2>1, <2>2, <2>3, <2>4 DEF InHand, Owner, a, TypeOK
    <2>6. OneOwner'
      BY <2>1, <2>2, <2>3 DEF OneOwner, Owner, a
    <2>7. RowHasResume' /\ AcceptedIsWhole'
      BY <2>1, <2>4 DEF RowHasResume, AcceptedIsWhole, InHand, Owner, IsApp, a, TypeOK
    <2>8. LeftoversExplained'
      BY <2>1, <2>2, <2>3, <2>4 DEF LeftoversExplained, IsApp, At, a, Owner, TypeOK
    <2>9. QED BY <2>5, <2>6, <2>7, <2>8
  <1>6. ASSUME NEW r \in Requests, CreateApplication(r) PROVE Custody' /\ Kept'
    <2> DEFINE a == handler[r].app
               j == handler[r].job
    <2>1. a \in AppIds /\ j \in JobIds /\ Owner(handler[r]) /\ handler[r].pc = "creating"
      BY <1>6, <1>h, HandlerKinds DEF CreateApplication, At, Owner
    <2> HIDE DEF a, j
    <2>2. PICK h \in Handler : Answer(r, h) /\ h.pc = "announcing" /\ h.app = a /\ h.events = <<CreatedEvent>>
      BY <1>6, <2>1, HandlerMade DEF CreateApplication, a, j, Batches
    <2>3. /\ handler'[r] = h /\ \A q \in Requests : q # r => handler'[q] = handler[q]
          /\ \A q \in Requests : q # r /\ Owner(handler[q]) => handler[q].app # a
          /\ \A q \in Requests : handler[q].pc # "idle" => handler[q].app \in AppIds
      BY <2>1, <2>2, Others DEF a
    <2>4. /\ apps' = [apps EXCEPT ![a] = AppRow(j, "applied", "nil")]
          /\ AppRow(j, "applied", "nil").state = "row" /\ AppRow(j, "applied", "nil") # NoApp
          /\ UNCHANGED <<objects, accepted, doubtful, leftovers>>
      BY <1>6, <2>1, RowFacts DEF CreateApplication, history, a, j, TypeOK, InsertApp
    <2>5. InHand'
      BY <2>1, <2>2, <2>3, <2>4 DEF InHand, Owner, a, TypeOK
    <2>6. OneOwner'
      BY <2>1, <2>2, <2>3 DEF OneOwner, Owner, a
    <2>7. RowHasResume' /\ AcceptedIsWhole'
      BY <2>1, <2>4 DEF RowHasResume, AcceptedIsWhole, InHand, Owner, IsApp, a, TypeOK
    <2>8. LeftoversExplained'
      BY <2>1, <2>2, <2>3, <2>4 DEF LeftoversExplained, IsApp, At, a, Owner, TypeOK
    <2>9. QED BY <2>5, <2>6, <2>7, <2>8
  <1>7. ASSUME NEW r \in Requests, CreateUnanswered(r) PROVE Custody' /\ Kept'
    <2> DEFINE a == handler[r].app
               j == handler[r].job
    <2>1. a \in AppIds /\ j \in JobIds /\ Owner(handler[r]) /\ handler[r].pc = "creating"
      BY <1>7, <1>h, HandlerKinds DEF CreateUnanswered, At, Owner
    <2> HIDE DEF a, j
    <2>2. PICK h \in Handler : Answer(r, h) /\ h.pc = "undoing" /\ h.app = a
      BY <1>7, <2>1, HandlerMade DEF CreateUnanswered, a, j
    <2>3. /\ handler'[r] = h /\ \A q \in Requests : q # r => handler'[q] = handler[q]
          /\ \A q \in Requests : q # r /\ Owner(handler[q]) => handler[q].app # a
          /\ \A q \in Requests : handler[q].pc # "idle" => handler[q].app \in AppIds
      BY <2>1, <2>2, Others DEF a
    <2>4. /\ apps' = [apps EXCEPT ![a] = AppRow(j, "applied", "nil")]
          /\ AppRow(j, "applied", "nil").state = "row" /\ AppRow(j, "applied", "nil") # NoApp
          /\ UNCHANGED <<objects, accepted, leftovers>> /\ doubtful' = doubtful \cup {a}
      BY <1>7, <2>1, RowFacts DEF CreateUnanswered, history, a, j, TypeOK, InsertApp
    <2>5. InHand'
      BY <2>1, <2>2, <2>3, <2>4 DEF InHand, Owner, a, TypeOK
    <2>6. OneOwner'
      BY <2>1, <2>2, <2>3 DEF OneOwner, Owner, a
    <2>7. RowHasResume' /\ AcceptedIsWhole'
      BY <2>1, <2>4 DEF RowHasResume, AcceptedIsWhole, InHand, Owner, IsApp, a, TypeOK
    <2>8. LeftoversExplained'
      BY <2>1, <2>2, <2>3, <2>4 DEF LeftoversExplained, IsApp, At, a, Owner, TypeOK
    <2>9. QED BY <2>5, <2>6, <2>7, <2>8
  <1>8. ASSUME NEW r \in Requests, CreateFails(r) PROVE Custody' /\ Kept'
    <2> DEFINE a == handler[r].app
               j == handler[r].job
    <2>1. a \in AppIds /\ j \in JobIds /\ Owner(handler[r]) /\ handler[r].pc = "creating"
      BY <1>8, <1>h, HandlerKinds DEF CreateFails, At, Owner
    <2> HIDE DEF a, j
    <2>2. PICK h \in Handler : Answer(r, h) /\ h.pc = "undoing" /\ h.app = a
      BY <1>8, <2>1, HandlerMade DEF CreateFails, a, j
    <2>3. /\ handler'[r] = h /\ \A q \in Requests : q # r => handler'[q] = handler[q]
          /\ \A q \in Requests : q # r /\ Owner(handler[q]) => handler[q].app # a
          /\ \A q \in Requests : handler[q].pc # "idle" => handler[q].app \in AppIds
      BY <2>1, <2>2, Others DEF a
    <2>4. UNCHANGED <<apps, objects, accepted, doubtful, leftovers>>
      BY <1>8, <2>1, RowFacts DEF CreateFails, history, a, j, TypeOK
    <2>5. InHand'
      BY <2>1, <2>2, <2>3, <2>4 DEF InHand, Owner, a, TypeOK
    <2>6. OneOwner'
      BY <2>1, <2>2, <2>3 DEF OneOwner, Owner, a
    <2>7. RowHasResume' /\ AcceptedIsWhole'
      BY <2>1, <2>4 DEF RowHasResume, AcceptedIsWhole, InHand, Owner, IsApp, a, TypeOK
    <2>8. LeftoversExplained'
      BY <2>1, <2>2, <2>3, <2>4 DEF LeftoversExplained, IsApp, At, a, Owner, TypeOK
    <2>9. QED BY <2>5, <2>6, <2>7, <2>8
  <1>9. ASSUME NEW r \in Requests, Undo(r) PROVE Custody' /\ Kept'
    <2> DEFINE a == handler[r].app
               j == handler[r].job
    <2>1. a \in AppIds /\ j \in JobIds /\ Owner(handler[r]) /\ handler[r].pc = "undoing"
      BY <1>9, <1>h, HandlerKinds DEF Undo, At, Owner
    <2> HIDE DEF a, j
    <2>2. PICK h \in Handler : Answer(r, h) /\ h.pc = "idle"
      BY <1>9, <2>1, HandlerMade DEF Undo, a, j
    <2>3. /\ handler'[r] = h /\ \A q \in Requests : q # r => handler'[q] = handler[q]
          /\ \A q \in Requests : q # r /\ Owner(handler[q]) => handler[q].app # a
          /\ \A q \in Requests : handler[q].pc # "idle" => handler[q].app \in AppIds
      BY <2>1, <2>2, Others DEF a
    <2>4. /\ UNCHANGED <<apps, accepted, doubtful>>
          /\ \/ objects' = objects \ {a} /\ UNCHANGED leftovers
             \/ UNCHANGED objects /\ leftovers' = leftovers \cup {a}
      BY <1>9, <2>1, RowFacts DEF Undo, history, a, j, TypeOK
    <2>5. InHand'
      BY <2>1, <2>2, <2>3, <2>4 DEF InHand, Owner, a, TypeOK
    <2>6. OneOwner'
      BY <2>1, <2>2, <2>3 DEF OneOwner, Owner, a
    <2>7. RowHasResume' /\ AcceptedIsWhole'
      <3>1. (apps[a] = NoApp \/ a \in doubtful) /\ a \notin accepted
        BY <2>1 DEF InHand, a
      <3>2. RowHasResume'
        BY <2>4, <3>1, RowFacts DEF RowHasResume, IsApp
      <3>3. AcceptedIsWhole'
        BY <2>4, <3>1 DEF AcceptedIsWhole
      <3>4. QED BY <3>2, <3>3
    <2>8. LeftoversExplained'
      BY <2>1, <2>2, <2>3, <2>4 DEF LeftoversExplained, IsApp, At, a, Owner, TypeOK
    <2>9. QED BY <2>5, <2>6, <2>7, <2>8
  <1>10. ASSUME NEW r \in Requests, NEW a \in AppIds, NEW stage, NEW reason \in Reasons,
                ReadForStage(r, a, stage, reason)
         PROVE  Custody' /\ Kept'
    <2>1. stage \in Stages /\ apps[a] \in Rows /\ apps[a] # NoApp
      BY <1>10, RowFacts DEF ReadForStage, ValidateStageUpdate, IsApp, TypeOK
    <2>2. PICK h \in Handler : Answer(r, h) /\ h.pc = "staging" /\ h.app = a
      BY <1>10, <2>1, HandlerMade DEF ReadForStage
    <2>3. QED BY <1>10, <2>1, <2>2, Bystander DEF ReadForStage, Owner, At
  <1>11. ASSUME NEW r \in Requests, WriteStage(r) PROVE Custody' /\ Kept'
    <2> DEFINE g == handler[r]
    <2>1. g.app \in AppIds /\ g.stage \in Stages /\ g.reason \in Reasons /\ g.copy \in Rows
      BY <1>11, <1>h, HandlerKinds DEF WriteStage, At
    <2>2. PICK h \in Handler : Answer(r, h) /\ ~ Owner(h) /\ (h.pc # "idle" => h.app = g.app)
      BY <1>11, <2>1, UpdateBatch, AnnouncerOwnsNothing DEF WriteStage
    <2>3. apps[g.app] \in Rows /\ AppRow(apps[g.app].job, g.stage, g.reason) \in Rows
      BY <1>11, <2>1, RowFacts DEF WriteStage, UpdateStageRow, IsApp, TypeOK
    <2>4. \A a \in AppIds : (apps'[a] = NoApp <=> apps[a] = NoApp)
                            /\ (apps'[a].state = "row" <=> apps[a].state = "row")
      BY <1>11, <2>1, <2>3, RowFacts DEF WriteStage, UpdateStageRow, TypeOK
    <2>5. apps'[g.app] # NoApp
      BY <2>1, <2>3, <2>4, RowFacts
    <2>6. QED BY <1>11, <2>2, <2>4, <2>5, Bystander DEF WriteStage, Owner, At, history
  <1>12. ASSUME NEW r \in Requests, WriteStageUnanswered(r) PROVE Custody' /\ Kept'
    <2> DEFINE g == handler[r]
    <2>1. g.app \in AppIds /\ g.stage \in Stages /\ g.reason \in Reasons /\ g.copy \in Rows
      BY <1>12, <1>h, HandlerKinds DEF WriteStageUnanswered, At
    <2>2. PICK h \in Handler : Answer(r, h) /\ ~ Owner(h) /\ (h.pc # "idle" => h.app = g.app)
      BY <1>12, HandlerMade DEF WriteStageUnanswered, Owner
    <2>3. apps[g.app] \in Rows /\ AppRow(apps[g.app].job, g.stage, g.reason) \in Rows
      BY <1>12, <2>1, RowFacts DEF WriteStageUnanswered, UpdateStageRow, IsApp, TypeOK
    <2>4. \A a \in AppIds : (apps'[a] = NoApp <=> apps[a] = NoApp)
                            /\ (apps'[a].state = "row" <=> apps[a].state = "row")
      BY <1>12, <2>1, <2>3, RowFacts DEF WriteStageUnanswered, UpdateStageRow, TypeOK
    <2>5. apps'[g.app] # NoApp
      BY <2>1, <2>3, <2>4, RowFacts
    <2>6. QED BY <1>12, <2>2, <2>4, <2>5, Bystander DEF WriteStageUnanswered, Owner, At, history
  <1>13. ASSUME NEW r \in Requests, WriteStageFails(r) PROVE Custody' /\ Kept'
    BY <1>13, Bystander, HandlerMade DEF WriteStageFails, Owner, At, history
  <1>14. ASSUME NEW r \in Requests, NEW a \in AppIds, ReadForNote(r, a)
         PROVE  Custody' /\ Kept'
    <2>1. PICK h \in Handler : Answer(r, h) /\ h.pc = "noting" /\ h.app = a
      BY <1>14, HandlerMade DEF ReadForNote
    <2>2. apps[a] # NoApp
      BY <1>14, RowFacts DEF ReadForNote, IsApp
    <2>3. QED BY <1>14, <2>1, <2>2, Bystander DEF ReadForNote, Owner, At, history
  <1>15. ASSUME NEW r \in Requests, CreateNote(r) PROVE Custody' /\ Kept'
    BY <1>15, Bystander, HandlerMade DEF CreateNote, Owner, At, history
  <1>16. ASSUME NEW r \in Requests, Announce(r) PROVE Custody' /\ Kept'
    <2> DEFINE g == handler[r]
    <2>1. g.pc = "announcing" /\ g.app \in AppIds /\ g.events \in Batches
      BY <1>16, <1>h, HandlerKinds DEF Announce, At
    <2>2. PICK h \in Handler : Answer(r, h) /\ ~ Owner(h) /\ (h.pc # "idle" => h.app = g.app)
                                /\ (g.events = <<CreatedEvent>> => h.pc = "idle")
      BY <1>16, <2>1, BatchFacts, AnnouncerOwnsNothing DEF Announce
    <2>3. UNCHANGED <<apps, objects, doubtful, leftovers>> /\ apps[g.app] # NoApp
      BY <1>16, <2>1 DEF Announce, InHand
    <2>4. CASE g.events = <<CreatedEvent>>
      <3>1. accepted' = accepted \cup {g.app} /\ Owner(g) /\ g.app \in objects
        BY <1>16, <2>1, <2>4, BatchFacts DEF Announce, Owner, InHand
      <3>2. /\ handler'[r] = h /\ \A q \in Requests : q # r => handler'[q] = handler[q]
            /\ \A q \in Requests : q # r /\ Owner(handler[q]) => handler[q].app # g.app
        BY <2>2, <3>1, Others
      <3>3. h.pc = "idle"
        BY <2>2, <2>4
      <3> HIDE DEF g
      <3>4. InHand'
        BY <2>3, <3>1, <3>2, <3>3 DEF InHand, Owner
      <3>5. OneOwner'
        BY <3>2, <3>3 DEF OneOwner, Owner
      <3>6. RowHasResume' /\ AcceptedIsWhole'
        BY <2>3, <3>1 DEF RowHasResume, AcceptedIsWhole, IsApp
      <3>7. LeftoversExplained'
        BY <2>1, <2>3, <3>2 DEF LeftoversExplained, IsApp, At, g
      <3>8. QED BY <3>4, <3>5, <3>6, <3>7
    <2>5. CASE g.events # <<CreatedEvent>>
      <3>1. ~ Owner(g) /\ UNCHANGED accepted
        BY <1>16, <2>1, <2>5, BatchFacts, NewsFacts DEF Announce, Owner
      <3>2. QED BY <2>1, <2>2, <2>3, <3>1, Bystander
    <2>6. QED BY <2>4, <2>5
  <1>17. ASSUME Crash PROVE Custody' /\ Kept'
    <2>1. \A q \in Requests : handler'[q].pc = "idle"
      BY <1>17, HandlerMade DEF Crash
    <2>2. UNCHANGED <<apps, objects, accepted, doubtful>>
      BY <1>17 DEF Crash
    <2>3. InHand' /\ OneOwner'
      BY <2>1 DEF InHand, OneOwner, Owner
    <2>4. RowHasResume' /\ AcceptedIsWhole'
      BY <2>2 DEF RowHasResume, AcceptedIsWhole, IsApp
    <2>5. LeftoversExplained'
      BY <1>17, <2>2 DEF Crash, LeftoversExplained, IsApp, At, TypeOK
    <2>6. QED BY <2>3, <2>4, <2>5
  <1>18. ASSUME UNCHANGED vars PROVE Custody' /\ Kept'
    BY <1>18 DEF vars, InHand, OneOwner, Owner, RowHasResume, AcceptedIsWhole,
                 LeftoversExplained, IsApp, At
  <1>19. QED
    BY <1>1, <1>2, <1>3, <1>4, <1>5, <1>6, <1>7, <1>8, <1>9, <1>10, <1>11, <1>12,
       <1>13, <1>14, <1>15, <1>16, <1>17, <1>18 DEF Next

LEMMA CustodyAlways == Spec => [](TypeOK /\ Custody /\ Kept)
  <1>1. Init => TypeOK /\ Custody /\ Kept
    BY TypeOKInit, CustodyInit
  <1>2. TypeOK /\ Custody /\ Kept /\ [Next]_vars => (TypeOK /\ Custody /\ Kept)'
    BY TypeOKStep, CustodyStep
  <1>3. QED BY <1>1, <1>2, PTL DEF Spec

\* Whatever fails, is answered late or is cut off by a restart, a stored
\* application has its resume, except one whose INSERT committed unanswered.
THEOREM ResumeIsKept == Spec => []RowHasResume
  <1>1. TypeOK /\ Custody /\ Kept => RowHasResume
    BY DEF Kept
  <1>2. QED BY <1>1, CustodyAlways, PTL

\* A candidate whose Apply was answered 201 has both row and resume until the
\* posting is deleted, and no compensation takes the resume afterwards.
THEOREM AcceptedForGood == Spec => []AcceptedIsWhole
  <1>1. TypeOK /\ Custody /\ Kept => AcceptedIsWhole
    BY DEF Kept
  <1>2. QED BY <1>1, CustodyAlways, PTL

\* Every object without a row is in the hands of an Apply, or was left behind
\* by a failure, a crash or a cascade: Apply itself forgets none.
THEOREM NoSilentLeftovers == Spec => []LeftoversExplained
  <1>1. TypeOK /\ Custody /\ Kept => LeftoversExplained
    BY DEF Kept
  <1>2. QED BY <1>1, CustodyAlways, PTL

-----------------------------------------------------------------------------
(* Parents and children. *)

\* A change of one row that leaves it a row of the same posting.
LEMMA RowRewritten ==
  ASSUME TypeOK, NothingDangles, NEW a \in AppIds, NEW stage, NEW reason,
         UpdateStageRow(a, stage, reason), UNCHANGED <<postings, notes>>
  PROVE  NothingDangles'
  <1> DEFINE row == AppRow(apps[a].job, stage, reason)
  <1>1. row.state = "row" /\ row.job = apps[a].job
    BY DEF AppRow
  <1> HIDE DEF row
  <1>2. IsApp(a) /\ apps' = [apps EXCEPT ![a] = row]
    BY DEF UpdateStageRow, row
  <1>3. QED BY <1>1, <1>2 DEF NothingDangles, IsApp, TypeOK

\* A new row refers to a posting that exists.
LEMMA RowInserted ==
  ASSUME TypeOK, NothingDangles, NEW a \in AppIds, NEW j \in JobIds,
         InsertApp(a, j), UNCHANGED <<postings, notes>>
  PROVE  NothingDangles'
  <1> DEFINE row == AppRow(j, "applied", "nil")
  <1>1. row.state = "row" /\ row.job = j
    BY DEF AppRow
  <1> HIDE DEF row
  <1>2. postings[j] \in {"open", "closed"} /\ apps' = [apps EXCEPT ![a] = row]
    BY DEF InsertApp, row
  <1>3. QED BY <1>1, <1>2 DEF NothingDangles, IsApp, TypeOK

LEMMA ParentsStep ==
  ASSUME TypeOK, NothingDangles, [Next]_vars
  PROVE  NothingDangles'
  <1>h. ASSUME NEW r \in Requests
        PROVE  /\ handler[r].pc # "idle" => handler[r].app \in AppIds
               /\ handler[r].pc = "creating" => handler[r].job \in JobIds
    BY HandlerKinds DEF TypeOK
  <1>1. ASSUME NEW j \in JobIds, DeleteJob(j) PROVE NothingDangles'
    <2>1. \A a \in AppIds : /\ apps'[a].state = "row" => apps'[a] = apps[a] /\ apps[a].job # j
                            /\ apps'[a].state # "row" => notes'[a] = 0 \/ apps[a].state # "row"
                            /\ notes'[a] \in {0, notes[a]}
      BY <1>1, RowFacts DEF DeleteJob, Cascade, IsApp, TypeOK
    <2>2. postings' = [postings EXCEPT ![j] = "deleted"]
      BY <1>1 DEF DeleteJob
    <2>3. QED BY <2>1, <2>2 DEF NothingDangles, IsApp, TypeOK
  <1>2. ASSUME NEW j \in JobIds, NEW status \in {"open", "closed"}, SetPosting(j, status)
        PROVE  NothingDangles'
    BY <1>2 DEF SetPosting, NothingDangles, IsApp, TypeOK
  <1>3. ASSUME UNCHANGED <<postings, apps, notes>> PROVE NothingDangles'
    BY <1>3 DEF NothingDangles, IsApp
  <1>4. ASSUME NEW r \in Requests, CreateApplication(r) \/ CreateUnanswered(r)
        PROVE  NothingDangles'
    BY <1>4, <1>h, RowInserted DEF CreateApplication, CreateUnanswered, At
  <1>5. ASSUME NEW r \in Requests, WriteStage(r) \/ WriteStageUnanswered(r)
        PROVE  NothingDangles'
    BY <1>5, <1>h, RowRewritten DEF WriteStage, WriteStageUnanswered, At
  <1>6. ASSUME NEW r \in Requests, CreateNote(r) PROVE NothingDangles'
    BY <1>6, <1>h DEF CreateNote, InsertNote, At, NothingDangles, IsApp, TypeOK
  <1>7. ASSUME NEW r \in Requests,
               \/ \E a \in AppIds, j \in JobIds : ReadJob(r, a, j)
               \/ Upload(r) \/ UploadFails(r) \/ CreateFails(r) \/ Undo(r)
               \/ \E a \in AppIds, stage \in Stages \cup {"unknown"}, reason \in Reasons :
                    ReadForStage(r, a, stage, reason)
               \/ WriteStageFails(r) \/ \E a \in AppIds : ReadForNote(r, a)
               \/ Announce(r)
        PROVE  UNCHANGED <<postings, apps, notes>>
    BY <1>7 DEF ReadJob, Upload, UploadFails, CreateFails, Undo, ReadForStage,
                WriteStageFails, ReadForNote, Announce
  <1>8. CASE Crash \/ UNCHANGED vars
    BY <1>3, <1>8 DEF Crash, vars
  <1>9. QED BY <1>1, <1>2, <1>3, <1>4, <1>5, <1>6, <1>7, <1>8 DEF Next

\* The foreign keys hold at every moment, although each handler looks its
\* parent up in an earlier statement than it inserts in.
THEOREM ParentsExist == Spec => []NothingDangles
  <1>1. Init => NothingDangles
    BY RowFacts DEF Init, NothingDangles, IsApp
  <1>2. TypeOK /\ NothingDangles /\ [Next]_vars => NothingDangles'
    BY ParentsStep
  <1>3. QED BY <1>1, <1>2, ApplicationsTyped, PTL DEF Spec

-----------------------------------------------------------------------------
(* What subscribers know. *)

\* What a subscriber knows after one event, and after all events of a handler.
TellAll(t, b) == IF Tail(b) = <<>> THEN Tell(t, Head(b)) ELSE Tell(Tell(t, Head(b)), Head(Tail(b)))

Knows(t, row) ==
  /\ t.stage = row.stage
  /\ (row.stage = "rejected" /\ row.reason # "nil") => t.reason = row.reason

Writes(h, a) == h.pc \notin {"idle", "noting"} /\ h.app = a
Announces(h, a) == h.pc = "announcing" /\ h.app = a

\* Of the handlers that work on an undisturbed application one at most writes
\* it: its copy is the row, its events bring subscribers to what the row says,
\* and when there are none to come, subscribers are there already.
Informed(a) ==
  /\ \A q, r \in Requests : Writes(handler[q], a) /\ Writes(handler[r], a) => q = r
  /\ IsApp(a) =>
       /\ \A r \in Requests :
            handler[r].pc = "staging" /\ handler[r].app = a => handler[r].copy = apps[a]
       /\ \A r \in Requests :
            Announces(handler[r], a) => Knows(TellAll(told[a], handler[r].events), apps[a])
       /\ (\A r \in Requests : ~ Announces(handler[r], a)) => Knows(told[a], apps[a])

NewsInv == \A a \in AppIds \ disturbed : Informed(a)

Knowledge == [stage : Stages \cup {"none"}, reason : Reasons \cup {"none"}]

\* A handler that moves without writing the row or sending an event of a.
LEMMA Unheard ==
  ASSUME TypeOK, NEW r \in Requests, NEW h \in Handler, Answer(r, h),
         NEW a \in AppIds, Informed(a), ~ Announces(handler[r], a),
         h.app = a => h.pc \notin {"staging", "announcing"},
         Writes(h, a) => \A q \in Requests \ {r} : ~ Writes(handler[q], a),
         IsApp(a)' => IsApp(a) /\ apps'[a] = apps[a], told'[a] = told[a]
  PROVE  Informed(a)'
  <1>1. handler'[r] = h /\ \A q \in Requests \ {r} : handler'[q] = handler[q]
    BY DEF Answer, TypeOK
  <1>2. (\A q, s \in Requests : Writes(handler[q], a) /\ Writes(handler[s], a) => q = s)'
    BY <1>1 DEF Informed, Writes
  <1>3. ASSUME IsApp(a)', NEW q \in Requests, handler'[q].app = a,
               handler'[q].pc \in {"staging", "announcing"}
        PROVE  handler'[q] = handler[q]
    BY <1>1, <1>3
  <1>4. (\A q \in Requests : ~ Announces(handler[q], a))'
          <=> \A q \in Requests : ~ Announces(handler[q], a)
    BY <1>1 DEF Announces
  <1>5. QED BY <1>2, <1>3, <1>4 DEF Informed, Announces

LEMMA TwoEventsAtMost ==
  ASSUME NEW b \in Batches, Tail(b) # <<>>
  PROVE  Tail(Tail(b)) = <<>>
  <1>1. CASE \E ev : b = <<ev>>
    BY <1>1
  <1>2. CASE \E ev, fv : b = <<ev, fv>>
    <2>1. PICK ev, fv : b = <<ev, fv>>
      BY <1>2
    <2>2. Tail(b) = <<fv>>
      BY <2>1
    <2>3. QED BY <2>2
  <1>3. QED BY <1>1, <1>2 DEF Batches

\* The events of an update tell what it wrote.
LEMMA UpdateIsTold ==
  ASSUME NEW t \in Knowledge, NEW old, NEW stage, NEW reason, NEW job, Knows(t, old)
  PROVE  LET b == StageEvents(old, stage, reason)
             row == AppRow(job, stage, reason)
         IN  IF b = <<>> THEN Knows(t, row) ELSE Knows(TellAll(t, b), row)
  <1> DEFINE se == StageEvent(old.stage, stage)
             re == RejectedEvent(reason)
             row == AppRow(job, stage, reason)
  <1>1. se.event = "application.stage_updated" /\ se.stage = stage
    BY DEF StageEvent
  <1>2. re.event = "application.rejected" /\ re.reason = reason
    BY DEF RejectedEvent
  <1>3. row.stage = stage /\ row.reason = reason
    BY DEF AppRow
  <1> HIDE DEF se, re, row
  <1>4. TellAll(t, <<se>>) = [t EXCEPT !.stage = stage]
    BY <1>1 DEF TellAll, Tell
  <1>5. TellAll(t, <<re>>) = [t EXCEPT !.reason = reason]
    BY <1>2 DEF TellAll, Tell
  <1>6. TellAll(t, <<se, re>>) = [[t EXCEPT !.stage = stage] EXCEPT !.reason = reason]
    <2>1. Head(<<se, re>>) = se /\ Tail(<<se, re>>) = <<re>> /\ Head(<<re>>) = re
          /\ <<re>> # <<>>
      OBVIOUS
    <2>2. QED BY ONLY <1>1, <1>2, <2>1 DEF TellAll, Tell
  <1>7. CASE old.stage # stage /\ stage # "rejected"
    <2>1. StageEvents(old, stage, reason) = <<se>>
      BY <1>7 DEF StageEvents, se
    <2>2. Knows(TellAll(t, <<se>>), row)
      BY ONLY <1>3, <1>4, <1>7, t \in Knowledge DEF Knows, Knowledge
    <2>3. QED BY <2>1, <2>2, <<se>> # <<>> DEF row
  <1>8. CASE old.stage # stage /\ stage = "rejected"
    <2>1. StageEvents(old, stage, reason) = <<se, re>>
      BY <1>8 DEF StageEvents, se, re
    <2>2. Knows(TellAll(t, <<se, re>>), row)
      BY ONLY <1>3, <1>6, t \in Knowledge DEF Knows, Knowledge
    <2>3. QED BY <2>1, <2>2, <<se, re>> # <<>> DEF row
  <1>9. CASE old.stage = stage /\ stage = "rejected" /\ reason # "nil" /\ old.reason # reason
    <2>1. StageEvents(old, stage, reason) = <<re>>
      BY <1>9 DEF StageEvents, re
    <2>2. Knows(TellAll(t, <<re>>), row)
      BY <1>3, <1>5, <1>9 DEF Knows, Knowledge
    <2>3. QED BY <2>1, <2>2, <<re>> # <<>> DEF row
  <1>10. CASE old.stage = stage /\ ~ (stage = "rejected" /\ reason # "nil" /\ old.reason # reason)
    <2>1. StageEvents(old, stage, reason) = <<>>
      BY <1>10 DEF StageEvents
    <2>2. QED BY <1>3, <1>10, <2>1 DEF Knows, row
  <1>11. QED BY <1>7, <1>8, <1>9, <1>10

LEMMA NewsInit == Init => NewsInv
  BY RowFacts, HandlerMade DEF Init, NewsInv, Informed, Writes, Announces, IsApp

LEMMA NewsStep ==
  ASSUME TypeOK, NewsInv, [Next]_vars
  PROVE  NewsInv'
  <1>h. ASSUME NEW r \in Requests
        PROVE  handler[r] \in Handler /\ (handler[r].pc # "idle" => handler[r].app \in AppIds)
    BY HandlerKinds DEF TypeOK
  <1>i. Idle \in Handler /\ Idle.pc = "idle"
    BY HandlerMade
  <1>t. \A a \in AppIds : told[a] \in Knowledge
    BY DEF TypeOK, Knowledge
  \* Steps of one handler that are silent about every application.
  <1>1. ASSUME NEW r \in Requests, NEW h \in Handler, Answer(r, h),
               handler[r].pc # "announcing", h.pc \notin {"staging", "announcing"},
               disturbed \subseteq disturbed', UNCHANGED <<apps, told>>,
               \A a \in AppIds \ disturbed' :
                  Writes(h, a) => \A q \in Requests \ {r} : ~ Writes(handler[q], a)
        PROVE  NewsInv'
    <2> SUFFICES ASSUME NEW a \in AppIds \ disturbed' PROVE Informed(a)'
      BY DEF NewsInv
    <2> QED BY <1>1, Unheard DEF NewsInv, Announces, IsApp
  <1>2. ASSUME NEW j \in JobIds, DeleteJob(j) PROVE NewsInv'
    <2>1. \A a \in AppIds : apps'[a].state = "row" => apps'[a] = apps[a]
      BY <1>2, RowFacts DEF DeleteJob, Cascade, TypeOK
    <2>2. UNCHANGED <<handler, told, disturbed>>
      BY <1>2 DEF DeleteJob
    <2>3. QED BY <2>1, <2>2 DEF NewsInv, Informed, Writes, Announces, IsApp
  <1>3. ASSUME NEW j \in JobIds, NEW status, SetPosting(j, status) PROVE NewsInv'
    BY <1>3 DEF SetPosting, history, NewsInv, Informed, Writes, Announces, IsApp
  <1>4. ASSUME NEW r \in Requests, NEW a \in AppIds, NEW j \in JobIds, ReadJob(r, a, j)
        PROVE  NewsInv'
    <2>1. PICK h \in Handler : Answer(r, h) /\ h.pc = "uploading" /\ h.app = a
      BY <1>4, HandlerMade DEF ReadJob
    <2>2. \A q \in Requests : ~ Writes(handler[q], a)
      BY <1>4 DEF ReadJob, Fresh, WorksOn, At, Writes
    <2>3. QED BY <1>1, <1>4, <2>1, <2>2 DEF ReadJob, At, history, Writes
  <1>5. ASSUME NEW r \in Requests, Upload(r) \/ CreateFails(r) PROVE NewsInv'
    <2>1. handler[r].pc \in {"uploading", "creating"} /\ handler[r].app \in AppIds
          /\ handler[r].job \in JobIds
      BY <1>5, <1>h, HandlerKinds DEF Upload, CreateFails, At
    <2>2. PICK h \in Handler : Answer(r, h) /\ h.pc \in {"creating", "undoing"}
                                 /\ h.app = handler[r].app
      BY <1>5, <2>1, HandlerMade DEF Upload, CreateFails
    <2>3. UNCHANGED <<apps, told, disturbed>>
      BY <1>5 DEF Upload, CreateFails, history
    <2>4. ASSUME NEW a \in AppIds \ disturbed', Writes(h, a), NEW q \in Requests \ {r}
          PROVE  ~ Writes(handler[q], a)
      <3>1. Informed(a)
        BY <2>3, <2>4 DEF NewsInv
      <3>2. Writes(handler[r], a)
        BY <2>1, <2>2, <2>4 DEF Writes
      <3>3. QED BY <3>1, <3>2, <2>4 DEF Informed
    <2>5. QED BY <1>1, <2>1, <2>2, <2>3, <2>4
  <1>6. ASSUME NEW r \in Requests,
               UploadFails(r) \/ Undo(r) \/ WriteStageFails(r) \/ CreateNote(r)
        PROVE  NewsInv'
    <2>1. Answer(r, Idle) /\ handler[r].pc # "announcing" /\ UNCHANGED <<apps, told, disturbed>>
      BY <1>6 DEF UploadFails, Undo, WriteStageFails, CreateNote, At, history
    <2>2. QED BY <1>1, <1>i, <2>1 DEF Writes
  <1>7. ASSUME NEW r \in Requests, NEW a \in AppIds, ReadForNote(r, a) PROVE NewsInv'
    <2>1. PICK h \in Handler : Answer(r, h) /\ h.pc = "noting"
      BY <1>7, HandlerMade DEF ReadForNote
    <2>2. QED BY <1>1, <1>7, <2>1 DEF ReadForNote, At, history, Writes
  <1>8. ASSUME NEW r \in Requests, CreateApplication(r) PROVE NewsInv'
    <2> DEFINE a == handler[r].app
               j == handler[r].job
               h == Announcing(a, <<CreatedEvent>>)
               row == AppRow(j, "applied", "nil")
    <2>1. handler[r].pc = "creating" /\ a \in AppIds
      BY <1>8, <1>h DEF CreateApplication, At
    <2>2. h \in Handler /\ h.pc = "announcing" /\ h.app = a /\ h.events = <<CreatedEvent>>
      BY <2>1, HandlerMade DEF Batches
    <2>3. Answer(r, h) /\ apps' = [apps EXCEPT ![a] = row] /\ UNCHANGED <<told, disturbed>>
      BY <1>8 DEF CreateApplication, InsertApp, history
    <2>4. row.stage = "applied"
      BY DEF AppRow
    <2>5. Knows(TellAll(told[a], <<CreatedEvent>>), row)
      <3>1. TellAll(told[a], <<CreatedEvent>>) = [told[a] EXCEPT !.stage = "applied"]
        BY DEF TellAll, Tell, CreatedEvent
      <3>2. QED BY <1>t, <2>1, <2>4, <3>1 DEF Knows, Knowledge
    <2>6. handler'[r] = h /\ \A q \in Requests \ {r} : handler'[q] = handler[q]
      BY <2>3 DEF Answer, TypeOK
    <2> HIDE DEF h, row
    <2> SUFFICES ASSUME NEW b \in AppIds \ disturbed PROVE Informed(b)'
      BY <2>3 DEF NewsInv
    <2>7. Informed(b)
      BY DEF NewsInv
    <2>8. CASE b # a
      BY <2>1, <2>2, <2>3, <2>7, <2>8, Unheard DEF Writes, Announces, IsApp, TypeOK
    <2>9. CASE b = a
      <3>1. \A q \in Requests \ {r} : ~ Writes(handler[q], a)
        BY <2>1, <2>7, <2>9 DEF Informed, Writes
      <3>2. \A q \in Requests \ {r} : ~ Writes(handler'[q], a)
        BY <2>6, <3>1 DEF Writes
      <3>3. apps'[a] = row /\ told'[a] = told[a]
        BY <2>1, <2>3 DEF TypeOK
      <3>4. QED
        BY <2>2, <2>5, <2>6, <2>9, <3>2, <3>3 DEF Informed, Writes, Announces
    <2>10. QED BY <2>8, <2>9
  <1>9. ASSUME NEW r \in Requests, CreateUnanswered(r) \/ WriteStageUnanswered(r)
        PROVE  NewsInv'
    <2> DEFINE a == handler[r].app
    <2>1. handler[r].pc \in {"creating", "staging"} /\ a \in AppIds
          /\ (handler[r].pc = "creating" => handler[r].job \in JobIds)
      BY <1>9, <1>h, HandlerKinds DEF CreateUnanswered, WriteStageUnanswered, At
    <2>2. PICK h \in Handler : Answer(r, h) /\ h.pc \in {"idle", "undoing"}
                                 /\ (h.pc # "idle" => h.app = a)
      BY <1>9, <2>1, HandlerMade DEF CreateUnanswered, WriteStageUnanswered, At
    <2>3. disturbed' = disturbed \cup {a} /\ told' = told
      BY <1>9 DEF CreateUnanswered, WriteStageUnanswered
    <2>4. \A b \in AppIds : b # a => apps'[b] = apps[b]
      BY <1>9, <2>1 DEF CreateUnanswered, WriteStageUnanswered, InsertApp, UpdateStageRow, TypeOK
    <2> SUFFICES ASSUME NEW b \in AppIds \ disturbed' PROVE Informed(b)'
      BY DEF NewsInv
    <2>5. b # a /\ Informed(b)
      BY <2>3 DEF NewsInv
    <2>6. QED BY <2>1, <2>2, <2>3, <2>4, <2>5, Unheard DEF Writes, Announces, IsApp
  <1>10. ASSUME NEW r \in Requests, NEW a \in AppIds, NEW stage, NEW reason \in Reasons,
                ReadForStage(r, a, stage, reason)
         PROVE  NewsInv'
    <2> DEFINE h == Staging(a, stage, reason, apps[a])
    <2>1. stage \in Stages /\ apps[a] \in Rows
      BY <1>10, RowFacts DEF ReadForStage, ValidateStageUpdate, IsApp, TypeOK
    <2>2. h \in Handler /\ h.pc = "staging" /\ h.app = a
      BY <2>1, HandlerMade
    <2>3. h.copy = apps[a]
      BY DEF Staging
    <2>4. /\ Answer(r, h) /\ handler[r].pc = "idle" /\ UNCHANGED <<apps, told>>
          /\ disturbed' = IF Busy(r, a) THEN disturbed \cup {a} ELSE disturbed
      BY <1>10 DEF ReadForStage, At
    <2>5. handler'[r] = h /\ \A q \in Requests \ {r} : handler'[q] = handler[q]
      BY <2>4 DEF Answer, TypeOK
    <2> HIDE DEF h
    <2> SUFFICES ASSUME NEW b \in AppIds \ disturbed' PROVE Informed(b)'
      BY DEF NewsInv
    <2>6. Informed(b) /\ (b = a => ~ Busy(r, a))
      BY <2>4 DEF NewsInv
    <2>7. CASE b # a
      BY <2>2, <2>4, <2>6, <2>7, Unheard DEF Writes, Announces, IsApp
    <2>8. CASE b = a
      <3>1. \A q \in Requests \ {r} : ~ Writes(handler'[q], a)
        BY <2>5, <2>6, <2>8 DEF Busy, WorksOn, At, Writes
      <3>2. \A q \in Requests : ~ Announces(handler[q], a)
        BY <2>4, <2>6, <2>8 DEF Busy, WorksOn, At, Announces
      <3>3. \A q \in Requests : ~ Announces(handler'[q], a)
        BY <2>2, <2>5, <3>1 DEF Writes, Announces
      <3>4. \A q \in Requests : handler'[q].pc = "staging" /\ handler'[q].app = a => q = r
        BY <3>1 DEF Writes
      <3>5. QED
        BY <2>3, <2>4, <2>5, <2>6, <2>8, <3>1, <3>2, <3>3, <3>4
           DEF Informed, Writes, IsApp
    <2>9. QED BY <2>7, <2>8
  <1>11. ASSUME NEW r \in Requests, WriteStage(r) PROVE NewsInv'
    <2> DEFINE g == handler[r]
               a == g.app
               b == StageEvents(g.copy, g.stage, g.reason)
               h == AnnounceAll(a, b)
               row == AppRow(apps[a].job, g.stage, g.reason)
    <2>1. /\ g.pc = "staging" /\ a \in AppIds
          /\ g.stage \in Stages /\ g.reason \in Reasons /\ g.copy \in Rows
      BY <1>11, <1>h, HandlerKinds DEF WriteStage, At
    <2>2. b = <<>> \/ b \in Batches
      BY <2>1, UpdateBatch
    <2>3. /\ h \in Handler
          /\ b = <<>> => h.pc = "idle"
          /\ b # <<>> => h.pc = "announcing" /\ h.app = a /\ h.events = b
      BY <2>1, <2>2, HandlerMade DEF AnnounceAll
    <2>4. /\ Answer(r, h) /\ IsApp(a) /\ apps' = [apps EXCEPT ![a] = row]
          /\ UNCHANGED <<told, disturbed>>
      BY <1>11, <2>1 DEF WriteStage, UpdateStageRow, history, TypeOK
    <2>5. handler'[r] = h /\ \A q \in Requests \ {r} : handler'[q] = handler[q]
      BY <2>4 DEF Answer, TypeOK
    <2>6. ASSUME Knows(told[a], g.copy)
          PROVE  IF b = <<>> THEN Knows(told[a], row) ELSE Knows(TellAll(told[a], b), row)
      BY <1>t, <2>1, <2>6, UpdateIsTold
    <2> HIDE DEF b, h, row
    <2> SUFFICES ASSUME NEW c \in AppIds \ disturbed PROVE Informed(c)'
      BY <2>4 DEF NewsInv
    <2>7. Informed(c)
      BY DEF NewsInv
    <2>8. CASE c # a
      BY <2>1, <2>3, <2>4, <2>7, <2>8, Unheard DEF Writes, Announces, IsApp, TypeOK
    <2>9. CASE c = a
      <3>1. \A q \in Requests \ {r} : ~ Writes(handler[q], a)
        BY <2>1, <2>7, <2>9 DEF Informed, Writes
      <3>2. g.copy = apps[a] /\ Knows(told[a], apps[a])
        BY <2>1, <2>4, <2>7, <2>9, <3>1 DEF Informed, Writes, Announces
      <3>3. \A q \in Requests \ {r} : ~ Writes(handler'[q], a)
        BY <2>5, <3>1 DEF Writes
      <3>4. apps'[a] = row /\ told'[a] = told[a]
        BY <2>1, <2>4 DEF TypeOK
      <3>5. IF b = <<>> THEN Knows(told[a], row) ELSE Knows(TellAll(told[a], b), row)
        BY <2>6, <3>2
      <3>6. QED
        BY <2>3, <2>5, <2>9, <3>3, <3>4, <3>5 DEF Informed, Writes, Announces
    <2>10. QED BY <2>8, <2>9
  <1>12. ASSUME NEW r \in Requests, Announce(r) PROVE NewsInv'
    <2> DEFINE g == handler[r]
               a == g.app
               h == AnnounceAll(a, Tail(g.events))
    <2>1. g.pc = "announcing" /\ a \in AppIds /\ g.events \in Batches
      BY <1>12, <1>h, HandlerKinds DEF Announce, At
    <2>2. Tail(g.events) = <<>> \/ Tail(g.events) \in Batches
      BY <2>1, BatchFacts
    <2>3. /\ h \in Handler
          /\ Tail(g.events) = <<>> => h.pc = "idle"
          /\ Tail(g.events) # <<>> =>
               h.pc = "announcing" /\ h.app = a /\ h.events = Tail(g.events)
      <3>1. CASE Tail(g.events) = <<>>
        BY <1>i, <3>1 DEF AnnounceAll
      <3>2. CASE Tail(g.events) # <<>>
        <4>1. h = Announcing(a, Tail(g.events)) /\ Tail(g.events) \in Batches
          BY <2>2, <3>2 DEF AnnounceAll
        <4> HIDE DEF h
        <4>2. QED BY <2>1, <3>2, <4>1, HandlerMade
      <3>3. QED BY <3>1, <3>2
    <2>4. /\ Answer(r, h) /\ UNCHANGED apps
          /\ \/ /\ told' = [told EXCEPT ![a] = Tell(told[a], Head(g.events))]
                /\ disturbed' = disturbed
             \/ told' = told /\ disturbed' = disturbed \cup {a}
      BY <1>12, <2>1 DEF Announce, TypeOK
    <2>5. handler'[r] = h /\ \A q \in Requests \ {r} : handler'[q] = handler[q]
      BY <2>4 DEF Answer, TypeOK
    <2>6. Tail(g.events) # <<>> =>
            TellAll(told[a], g.events) = TellAll(Tell(told[a], Head(g.events)), Tail(g.events))
      <3>1. ASSUME Tail(g.events) # <<>> PROVE Tail(Tail(g.events)) = <<>>
        BY <2>1, <3>1, TwoEventsAtMost
      <3>2. QED BY <3>1 DEF TellAll
    <2>7. Tail(g.events) = <<>> =>
            TellAll(told[a], g.events) = Tell(told[a], Head(g.events))
      BY DEF TellAll
    <2> HIDE DEF h
    <2> SUFFICES ASSUME NEW c \in AppIds \ disturbed' PROVE Informed(c)'
      BY DEF NewsInv
    <2>8. Informed(c) /\ (c = a => told' = [told EXCEPT ![a] = Tell(told[a], Head(g.events))])
      BY <2>4 DEF NewsInv
    <2>9. CASE c # a
      BY <2>1, <2>3, <2>4, <2>8, <2>9, Unheard DEF Writes, Announces, IsApp, TypeOK
    <2>10. CASE c = a
      <3>1. \A q \in Requests \ {r} : ~ Writes(handler'[q], a)
        BY <2>1, <2>5, <2>8, <2>10 DEF Informed, Writes
      <3>2. apps'[a] = apps[a] /\ told'[a] = Tell(told[a], Head(g.events))
        BY <2>1, <2>4, <2>8, <2>10 DEF TypeOK
      <3>3. IsApp(a) => Knows(TellAll(told[a], g.events), apps[a])
        BY <2>1, <2>8, <2>10 DEF Informed, Announces
      <3>4. IsApp(c)' = IsApp(c)
        BY <2>4 DEF IsApp
      <3>5. IsApp(a) => IF Tail(g.events) = <<>> THEN Knows(told'[a], apps[a])
                        ELSE Knows(TellAll(told'[a], h.events), apps[a])
        BY <2>3, <2>6, <2>7, <3>2, <3>3
      <3> HIDE DEF g
      <3>6. QED
        BY <2>3, <2>5, <2>10, <3>1, <3>2, <3>4, <3>5 DEF Informed, Writes, Announces
    <2>11. QED BY <2>9, <2>10
  <1>13. CASE Crash
    <2>1. \A r \in Requests : handler'[r].pc = "idle"
      BY <1>13, <1>i DEF Crash
    <2>2. UNCHANGED <<apps, told>>
      BY <1>13 DEF Crash
    <2>3. ASSUME NEW a \in AppIds \ disturbed'
          PROVE  Informed(a) /\ \A r \in Requests : ~ Announces(handler[r], a)
      BY <1>13, <2>3 DEF Crash, NewsInv, At, Announces
    <2>4. QED BY <2>1, <2>2, <2>3 DEF NewsInv, Informed, Writes, Announces, IsApp
  <1>14. CASE UNCHANGED vars
    BY <1>14 DEF vars, history, NewsInv, Informed, Writes, Announces, IsApp
  <1>15. QED
    BY <1>2, <1>3, <1>4, <1>5, <1>6, <1>7, <1>8, <1>9, <1>10, <1>11, <1>12, <1>13, <1>14
       DEF Next

\* While the updates of one application do not overlap and none of its events is
\* lost (no handler is cut off, no DispatchEvent fails), its stage and the reason of
\* its rejection are what was last queued for the subscribers, whenever no request
\* is at work on it.
THEOREM NewsIsComplete == Spec => []SubscribersKnowStage
  <1>1. TypeOK /\ NewsInv => SubscribersKnowStage
    BY DEF NewsInv, Informed, Knows, Announces, WorksOn, At, SubscribersKnowStage
  <1>2. TypeOK /\ NewsInv /\ [Next]_vars => NewsInv'
    BY NewsStep
  <1>3. QED BY <1>1, <1>2, NewsInit, ApplicationsTyped, PTL DEF Spec
=============================================================================
