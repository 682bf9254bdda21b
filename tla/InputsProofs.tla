---------------------------- MODULE InputsProofs ----------------------------
(***************************************************************************)
(* Proofs about the parts that Inputs composes.  A behaviour is one of one *)
(* part, so each invariant is kept by the steps of its own part and left   *)
(* alone by those of the others.                                           *)
(***************************************************************************)
EXTENDS Inputs, Text, FiniteSetTheorems, SequenceTheorems, WellFoundedInduction, TLAPS

\* A step is one of a part, and leaves the others alone.
LEMMA OnePartMoves ==
  ASSUME [Next]_vars
  PROVE  /\ Titles!Next \/ UNCHANGED ofSlugs
         /\ Names!Next \/ UNCHANGED ofNames
         /\ Forms!Next \/ UNCHANGED ofForms
         /\ Texts!Next \/ UNCHANGED ofTexts
         /\ Subs!Next \/ UNCHANGED ofSubscriptions
         /\ UNCHANGED part
  BY DEF Next, vars

-----------------------------------------------------------------------------
(* Subscriptions *)

\* What can be in a row, and in a copy of one the dispatcher holds.
Urls == {request.url.word : request \in Requests}
Secrets == {Subs!Given(request.secret.word) : request \in Requests}
           \cup {Subs!Generated(id) : id \in SubIds}
EventSets == {request.events : request \in Requests}

Copies == [id : SubIds, url : Urls, secret : Secrets, events : EventSets, active : BOOLEAN]
Tasks == [sub : Copies, failed : BOOLEAN]

SubsTyped ==
  /\ \A r \in DOMAIN rows : rows[r] \in Copies
  /\ tasks \in SUBSET Tasks
  /\ test \in SUBSET Copies
  /\ \A id \in DOMAIN made : made[id] \in [events : EventSets, sub : Copies]

\* A row, or a copy of one, whatever its state, is otherwise as it was made.
AsMade(sub) ==
  /\ sub.id \in DOMAIN made
  /\ sub.url = made[sub.id].sub.url
  /\ sub.secret = made[sub.id].sub.secret
  /\ sub.events = made[sub.id].events

SubsRight ==
  /\ \A id \in DOMAIN made : made[id].sub.secret # Subs!Given("")
  /\ \A r \in DOMAIN rows : rows[r].id = r /\ AsMade(rows[r])
  /\ \A t \in tasks : AsMade(t.sub)
  /\ \A sub \in test : AsMade(sub)
  /\ \A m \in sent : /\ m.id \in DOMAIN made
                     /\ m.url = made[m.id].sub.url
                     /\ m.secret = made[m.id].sub.secret

\* Deactivation leaves all of a row but its state, a failed attempt all of a copy.
LEMMA DeactivatedCopy ==
  ASSUME NEW sub \in Copies
  PROVE  /\ Subs!Deactivated(sub) \in Copies /\ Subs!Deactivated(sub).id = sub.id
         /\ Subs!Deactivated(sub).url = sub.url /\ Subs!Deactivated(sub).secret = sub.secret
         /\ Subs!Deactivated(sub).events = sub.events
  BY DEF Subs!Deactivated, Copies

LEMMA FailedTask ==
  ASSUME NEW t \in Tasks
  PROVE  [t EXCEPT !.failed = TRUE] \in Tasks /\ [t EXCEPT !.failed = TRUE].sub = t.sub
  BY DEF Tasks

\* What a subscription is made of.
LEMMA NewSubscription ==
  ASSUME NEW request \in Requests, NEW id \in SubIds
  PROVE  /\ Subs!Subscription(id, request) \in Copies
         /\ Subs!Subscription(id, request).id = id
         /\ Subs!Subscription(id, request).events = request.events
         /\ Subs!Subscription(id, request).secret # Subs!Given("")
<1> DEFINE secret == IF request.secret.word \in {"absent", ""} THEN Subs!Generated(id)
                     ELSE Subs!Given(request.secret.word)
<1>1. secret \in Secrets
  BY DEF Secrets
<1>2. secret # Subs!Given("")
  BY DEF Subs!Given, Subs!Generated
<1>3. Subs!Subscription(id, request) =
        [id |-> id, url |-> request.url.word, secret |-> secret, events |-> request.events,
         active |-> TRUE]
  BY DEF Subs!Subscription
<1>4. request.url.word \in Urls /\ request.events \in EventSets
  BY DEF Urls, EventSets
<1> HIDE DEF secret
<1>5. Subs!Subscription(id, request) \in Copies
  BY <1>1, <1>3, <1>4 DEF Copies
<1>6. /\ Subs!Subscription(id, request).id = id
      /\ Subs!Subscription(id, request).events = request.events
      /\ Subs!Subscription(id, request).secret = secret
  BY <1>3
<1> QED BY <1>2, <1>5, <1>6

\* Creating a subscription adds a row and its history, and changes no other.
Added(id, sub) ==
  /\ sub.id = id /\ sub.secret # Subs!Given("")
  /\ id \notin DOMAIN made /\ UNCHANGED <<tasks, test, sent>>
  /\ DOMAIN made' = DOMAIN made \cup {id} /\ DOMAIN rows' = DOMAIN rows \cup {id}
  /\ made'[id] \in [events : EventSets, sub : Copies]
  /\ made'[id].sub = sub /\ made'[id].events = sub.events /\ rows'[id] = sub
  /\ \A i \in DOMAIN made : i # id /\ made'[i] = made[i]
  /\ \A i \in DOMAIN rows : i # id => rows'[i] = rows[i]

LEMMA CreationAdds ==
  ASSUME NEW request \in Requests, NEW id \in SubIds, Subs!Created(id, request)
  PROVE  \E sub \in Copies : Added(id, sub)
<1>1. PICK sub \in Copies :
        /\ sub = Subs!Subscription(id, request)
        /\ sub.id = id /\ sub.events = request.events /\ sub.secret # Subs!Given("")
  BY NewSubscription
<1>2. /\ id \notin DOMAIN made /\ UNCHANGED <<tasks, test, sent>>
      /\ made' = Subs!With(made, id, [events |-> request.events, sub |-> sub])
      /\ rows' = Subs!With(rows, id, sub)
  BY <1>1 DEF Subs!Created
<1>3. /\ DOMAIN made' = DOMAIN made \cup {id} /\ DOMAIN rows' = DOMAIN rows \cup {id}
      /\ made'[id] = [events |-> request.events, sub |-> sub] /\ rows'[id] = sub
      /\ \A i \in DOMAIN rows : i # id => rows'[i] = rows[i]
  BY <1>2 DEF Subs!With
<1>4. \A i \in DOMAIN made : i # id /\ made'[i] = made[i]
  BY <1>2 DEF Subs!With
<1>5. request.events \in EventSets
  BY DEF EventSets
<1>6. made'[id] \in [events : EventSets, sub : Copies]
  BY <1>3, <1>5
<1>7. made'[id].sub = sub /\ made'[id].events = sub.events
  <2>1. made'[id].sub = sub /\ made'[id].events = request.events
    BY <1>3
  <2> QED BY <1>1, <2>1
<1> QED BY <1>1, <1>2, <1>3, <1>4, <1>6, <1>7 DEF Added

LEMMA SubsTypedInductive ==
  ASSUME SubsTyped, Subs!Next
  PROVE  SubsTyped'
<1>1. ASSUME NEW request \in Requests, NEW id \in SubIds, Subs!Created(id, request)
      PROVE  SubsTyped'
  <2>1. PICK sub \in Copies : Added(id, sub)
    BY <1>1, CreationAdds
  <2>2. \A i \in DOMAIN made' : made'[i] \in [events : EventSets, sub : Copies]
    <3> SUFFICES ASSUME NEW i \in DOMAIN made'
                 PROVE  made'[i] \in [events : EventSets, sub : Copies]
      OBVIOUS
    <3>1. CASE i = id
      BY <2>1, <3>1 DEF Added
    <3>2. CASE i # id
      BY <2>1, <3>2 DEF SubsTyped, Added
    <3> QED BY <3>1, <3>2
  <2>3. \A i \in DOMAIN rows' : rows'[i] \in Copies
    <3> SUFFICES ASSUME NEW i \in DOMAIN rows' PROVE rows'[i] \in Copies
      OBVIOUS
    <3>1. CASE i = id
      BY <2>1, <3>1 DEF Added
    <3>2. CASE i # id
      BY <2>1, <3>2 DEF SubsTyped, Added
    <3> QED BY <3>1, <3>2
  <2> QED BY <2>1, <2>2, <2>3 DEF SubsTyped, Added
<1>2. ASSUME NEW id \in SubIds, Subs!DeleteWebhook(id)
      PROVE  SubsTyped'
  <2>1. /\ \A r \in DOMAIN rows' : r \in DOMAIN rows /\ rows'[r] = rows[r]
        /\ UNCHANGED <<tasks, test, made>>
    BY <1>2 DEF Subs!DeleteWebhook
  <2> QED BY <2>1 DEF SubsTyped
<1>3. ASSUME NEW id \in SubIds, Subs!TestReads(id)
      PROVE  SubsTyped'
  BY <1>3 DEF Subs!TestReads, SubsTyped
<1>4. CASE Subs!TestSends
  BY <1>4 DEF Subs!TestSends, SubsTyped
<1>5. ASSUME NEW topic \in Topics, Subs!Dispatch(topic)
      PROVE  SubsTyped'
  <2>1. \A t \in tasks' :
          t \in tasks \/ \E r \in DOMAIN rows : t = [sub |-> rows[r], failed |-> FALSE]
    BY <1>5 DEF Subs!Dispatch, Subs!ListActiveByEvent
  <2>2. \A r \in DOMAIN rows : [sub |-> rows[r], failed |-> FALSE] \in Tasks
    BY DEF SubsTyped, Tasks
  <2>3. tasks' \in SUBSET Tasks
    BY <2>1, <2>2 DEF SubsTyped
  <2> QED BY <1>5, <2>3 DEF SubsTyped, Subs!Dispatch
<1>6. ASSUME NEW t \in tasks, Subs!Deliver(t)
      PROVE  SubsTyped'
  <2>1. \A u \in tasks' : u \in tasks \/ u = [t EXCEPT !.failed = TRUE]
    BY <1>6 DEF Subs!Deliver
  <2>2. t \in Tasks
    BY DEF SubsTyped
  <2>3. tasks' \in SUBSET Tasks
    BY <2>1, <2>2, FailedTask DEF SubsTyped
  <2> QED BY <1>6, <2>3 DEF SubsTyped, Subs!Deliver
<1>7. ASSUME NEW t \in tasks, Subs!Deactivate(t)
      PROVE  SubsTyped'
  <2>1. /\ DOMAIN rows' = DOMAIN rows /\ tasks' \subseteq tasks /\ UNCHANGED <<test, made>>
        /\ \A r \in DOMAIN rows :
             rows'[r] = IF r = t.sub.id THEN Subs!Deactivated(t.sub) ELSE rows[r]
    BY <1>7 DEF Subs!Deactivate
  <2>2. t.sub \in Copies
    BY DEF SubsTyped, Tasks
  <2>3. \A r \in DOMAIN rows' : rows'[r] \in Copies
    BY <2>1, <2>2, DeactivatedCopy DEF SubsTyped
  <2> QED BY <2>1, <2>3 DEF SubsTyped
<1> QED BY <1>1, <1>2, <1>3, <1>4, <1>5, <1>6, <1>7 DEF Subs!Next

LEMMA SubsRightInductive ==
  ASSUME SubsTyped, SubsRight, Subs!Next
  PROVE  SubsRight'
<1>1. ASSUME NEW request \in Requests, NEW id \in SubIds, Subs!Created(id, request)
      PROVE  SubsRight'
  <2>1. PICK sub \in Copies : Added(id, sub)
    BY <1>1, CreationAdds
  <2>3. AsMade(sub)'
    BY <2>1 DEF AsMade, Added
  <2>4. \A copy : AsMade(copy) => AsMade(copy)'
    BY <2>1 DEF AsMade, Added
  <2>5. \A i \in DOMAIN made' : made'[i].sub.secret # Subs!Given("")
    <3> SUFFICES ASSUME NEW i \in DOMAIN made' PROVE made'[i].sub.secret # Subs!Given("")
      OBVIOUS
    <3>1. CASE i = id
      BY <2>1, <3>1 DEF Added
    <3>2. CASE i # id
      BY <2>1, <3>2 DEF SubsRight, Added
    <3> QED BY <3>1, <3>2
  <2>6. ASSUME NEW r \in DOMAIN rows' PROVE (rows[r].id = r /\ AsMade(rows[r]))'
    <3>1. CASE r = id
      BY <2>1, <2>3, <3>1 DEF Added
    <3>2. CASE r # id
      BY <2>1, <2>4, <3>2 DEF SubsRight, Added
    <3> QED BY <3>1, <3>2
  <2>7. /\ \A t \in tasks' : AsMade(t.sub)'
        /\ \A copy \in test' : AsMade(copy)'
    BY <2>1, <2>4 DEF SubsRight, Added
  <2>8. \A m \in sent' : /\ m.id \in DOMAIN made'
                         /\ m.url = made'[m.id].sub.url
                         /\ m.secret = made'[m.id].sub.secret
    <3> SUFFICES ASSUME NEW message \in sent'
                 PROVE  /\ message.id \in DOMAIN made'
                        /\ message.url = made'[message.id].sub.url
                        /\ message.secret = made'[message.id].sub.secret
      OBVIOUS
    <3>1. /\ message.id \in DOMAIN made
          /\ message.url = made[message.id].sub.url
          /\ message.secret = made[message.id].sub.secret
      BY <2>1 DEF SubsRight, Added
    <3>2. message.id \in DOMAIN made' /\ made'[message.id] = made[message.id]
      BY <2>1, <3>1 DEF Added
    <3> QED BY <3>1, <3>2
  <2> QED BY <2>5, <2>6, <2>7, <2>8 DEF SubsRight
<1>2. ASSUME NEW id \in SubIds, Subs!DeleteWebhook(id)
      PROVE  SubsRight'
  <2>1. /\ \A r \in DOMAIN rows' : r \in DOMAIN rows /\ rows'[r] = rows[r]
        /\ UNCHANGED <<tasks, test, made, sent>>
    BY <1>2 DEF Subs!DeleteWebhook
  <2>2. \A r \in DOMAIN rows' : rows'[r].id = r /\ AsMade(rows'[r])
    BY <2>1 DEF SubsRight
  <2> QED BY <2>1, <2>2 DEF SubsRight, AsMade
<1>3. ASSUME NEW id \in SubIds, Subs!TestReads(id)
      PROVE  SubsRight'
  <2>1. UNCHANGED <<rows, tasks, made, sent>> /\ test' = {rows[id]} /\ id \in DOMAIN rows
    BY <1>3 DEF Subs!TestReads
  <2>2. \A sub \in test' : AsMade(sub)
    BY <2>1 DEF SubsRight
  <2> QED BY <2>1, <2>2 DEF SubsRight, AsMade
<1>4. CASE Subs!TestSends
  <2>1. PICK sub \in test : sent' = {Subs!Message(sub)}
    BY <1>4 DEF Subs!TestSends
  <2>2. test' = {} /\ UNCHANGED <<rows, tasks, made>>
    BY <1>4 DEF Subs!TestSends
  <2>3. AsMade(sub)
    BY DEF SubsRight
  <2>4. \A m \in sent' : m.id = sub.id /\ m.url = sub.url /\ m.secret = sub.secret
    BY <2>1 DEF Subs!Message
  <2> QED BY <2>2, <2>3, <2>4 DEF SubsRight, AsMade
<1>5. ASSUME NEW topic \in Topics, Subs!Dispatch(topic)
      PROVE  SubsRight'
  <2>1. \A t \in tasks' :
          t \in tasks \/ \E r \in DOMAIN rows : t = [sub |-> rows[r], failed |-> FALSE]
    BY <1>5 DEF Subs!Dispatch, Subs!ListActiveByEvent
  <2>2. UNCHANGED <<rows, test, made, sent>>
    BY <1>5 DEF Subs!Dispatch
  <2>3. \A t \in tasks' : AsMade(t.sub)
    <3> SUFFICES ASSUME NEW t \in tasks', t \notin tasks PROVE AsMade(t.sub)
      BY DEF SubsRight
    <3>1. PICK r \in DOMAIN rows : t = [sub |-> rows[r], failed |-> FALSE]
      BY <2>1
    <3>2. \A sub : [sub |-> sub, failed |-> FALSE].sub = sub
      OBVIOUS
    <3>3. t.sub = rows[r]
      BY ONLY <3>1, <3>2
    <3>4. AsMade(rows[r])
      BY DEF SubsRight
    <3> QED BY <3>3, <3>4
  <2> QED BY <2>2, <2>3 DEF SubsRight, AsMade
<1>6. ASSUME NEW t \in tasks, Subs!Deliver(t)
      PROVE  SubsRight'
  <2>1. \A u \in tasks' : u \in tasks \/ u = [t EXCEPT !.failed = TRUE]
    BY <1>6 DEF Subs!Deliver
  <2>2. UNCHANGED <<rows, test, made>> /\ sent' = {Subs!Message(t.sub)}
    BY <1>6 DEF Subs!Deliver
  <2>3. t \in Tasks /\ AsMade(t.sub)
    BY DEF SubsTyped, SubsRight
  <2>4. \A u \in tasks' : AsMade(u.sub)
    BY <2>1, <2>3, FailedTask DEF SubsRight
  <2>5. \A m \in sent' : m.id = t.sub.id /\ m.url = t.sub.url /\ m.secret = t.sub.secret
    BY <2>2 DEF Subs!Message
  <2> QED BY <2>2, <2>3, <2>4, <2>5 DEF SubsRight, AsMade
<1>7. ASSUME NEW t \in tasks, Subs!Deactivate(t)
      PROVE  SubsRight'
  <2>1. UNCHANGED <<test, made, sent>> /\ tasks' \subseteq tasks
    BY <1>7 DEF Subs!Deactivate
  <2>2. /\ DOMAIN rows' = DOMAIN rows
        /\ \A r \in DOMAIN rows :
             rows'[r] = IF r = t.sub.id THEN Subs!Deactivated(t.sub) ELSE rows[r]
    BY <1>7 DEF Subs!Deactivate
  <2>3. t.sub \in Copies /\ AsMade(t.sub)
    BY DEF SubsTyped, SubsRight, Tasks
  <2>4. AsMade(Subs!Deactivated(t.sub)) /\ Subs!Deactivated(t.sub).id = t.sub.id
    BY <2>3, DeactivatedCopy DEF AsMade
  <2>5. \A r \in DOMAIN rows' : rows'[r].id = r /\ AsMade(rows'[r])
    BY <2>2, <2>4 DEF SubsRight
  <2> QED BY <2>1, <2>5 DEF SubsRight, AsMade
<1> QED BY <1>1, <1>2, <1>3, <1>4, <1>5, <1>6, <1>7 DEF Subs!Next

LEMMA SubsInvariant == Spec => [](SubsTyped /\ SubsRight)
<1>1. Init => SubsTyped /\ SubsRight
  <2> SUFFICES ASSUME Init PROVE SubsTyped /\ SubsRight
    OBVIOUS
  <2>1. rows = <<>> /\ made = <<>> /\ tasks = {} /\ test = {} /\ sent = {}
    BY DEF Init, Subs!Init
  <2>2. DOMAIN rows = {} /\ DOMAIN made = {}
    BY <2>1
  <2> QED BY <2>1, <2>2 DEF SubsTyped, SubsRight
<1>2. SubsTyped /\ SubsRight /\ [Next]_vars => (SubsTyped /\ SubsRight)'
  <2> SUFFICES ASSUME SubsTyped, SubsRight, [Next]_vars
               PROVE  (SubsTyped /\ SubsRight)'
    OBVIOUS
  <2>1. CASE Subs!Next
    BY <2>1, SubsTypedInductive, SubsRightInductive
  <2>2. CASE UNCHANGED ofSubscriptions
    BY <2>2 DEF ofSubscriptions, SubsTyped, SubsRight, AsMade
  <2> QED BY <2>1, <2>2, OnePartMoves
<1> QED BY <1>1, <1>2, PTL DEF Spec

\* Every message goes to the address and is signed with the secret the subscription
\* was created with: the insert, the copies the dispatcher holds and writes back, and
\* the copy of a test keep both, for any number of subscriptions.
THEOREM MessagesAreSigned == Spec => []SignedAsCreated
<1>1. SubsRight => SignedAsCreated
  <2> SUFFICES ASSUME SubsRight, NEW message \in sent
               PROVE  /\ message.secret # Subs!Given("")
                      /\ message.url = made[message.id].sub.url
                      /\ message.secret = made[message.id].sub.secret
    BY DEF SignedAsCreated, Subs!SignedAsCreated
  <2>1. /\ message.id \in DOMAIN made
        /\ message.url = made[message.id].sub.url
        /\ message.secret = made[message.id].sub.secret
    BY DEF SubsRight
  <2>2. made[message.id].sub.secret # Subs!Given("")
    BY <2>1 DEF SubsRight
  <2> QED BY <2>1, <2>2
<1> QED BY <1>1, SubsInvariant, PTL

\* Events reach the column without blanks around them.
PlainEvents == \A request \in Requests : \A e \in request.events : e = Subs!Plain(e.word)

\* When events come without blanks, a dispatch addresses the active subscriptions
\* that asked for its topic when they were created, and no other, whatever copies
\* were written back since.
THEOREM SubscribersAreAddressed ==
  ASSUME PlainEvents
  PROVE  Spec => []AddressesSubscribers
<1>1. SubsTyped /\ SubsRight => AddressesSubscribers
  <2> SUFFICES ASSUME SubsTyped, SubsRight, NEW topic \in Topics
               PROVE  Subs!ListActiveByEvent(topic) =
                        {r \in DOMAIN rows : rows[r].active /\ Subs!AsksFor(r, topic)}
    BY DEF AddressesSubscribers, Subs!AddressesSubscribers
  <2>1. ASSUME NEW r \in DOMAIN rows
        PROVE  rows[r].events \cap {Subs!Plain(topic), Subs!Plain(Subs!EventAll)} # {}
                 <=> Subs!AsksFor(r, topic)
    <3>1. rows[r].events = made[r].events
      BY DEF SubsRight, AsMade
    <3>2. \A e \in rows[r].events : e = Subs!Plain(e.word)
      <4>1. rows[r].events \in EventSets
        BY DEF SubsTyped, Copies
      <4> QED BY <4>1 DEF EventSets, PlainEvents
    <3>3. \A word : Subs!Plain(word).word = word
      BY DEF Subs!Plain, Subs!Text
    <3> QED BY <3>1, <3>2, <3>3 DEF Subs!AsksFor
  <2> QED BY <2>1 DEF Subs!ListActiveByEvent
<1> QED BY <1>1, SubsInvariant, PTL

-----------------------------------------------------------------------------
(* Forms *)

\* The form of the posting is one that passes its validation, and the answers of
\* the application were checked against it.
FormsRight ==
  /\ form \in Forms!Forms /\ Forms!ValidateCustomFields(form)
  /\ \A answers \in given :
       answers \in Forms!AnswersTo(form) /\ Forms!ValidateCustomAnswers(form, answers)

LEMMA FormsInvariant == Spec => []FormsRight
<1>1. Init => FormsRight
  <2> SUFFICES ASSUME Init PROVE FormsRight
    OBVIOUS
  <2>1. form = <<>> /\ given = {}
    BY DEF Init, Forms!Init
  <2>2. form \in [1..0 -> Fields]
    BY <2>1
  <2>3. 0 \in 0..MaxFields
    BY MaxFieldsAssumption
  <2>4. form \in Forms!Forms
    BY <2>2, <2>3 DEF Forms!Forms
  <2>5. DOMAIN form = {}
    BY <2>1
  <2> QED BY <2>1, <2>4, <2>5 DEF FormsRight, Forms!ValidateCustomFields
<1>2. FormsRight /\ [Next]_vars => FormsRight'
  <2> SUFFICES ASSUME FormsRight, [Next]_vars PROVE FormsRight'
    OBVIOUS
  <2>1. ASSUME NEW fields \in Forms!Forms, Forms!SetForm(fields) PROVE FormsRight'
    BY <2>1 DEF FormsRight, Forms!SetForm
  <2>2. ASSUME NEW answers \in Forms!AnswersTo(form), Forms!Apply(answers) PROVE FormsRight'
    BY <2>2 DEF FormsRight, Forms!Apply
  <2>3. CASE Forms!NextCandidate
    BY <2>3 DEF FormsRight, Forms!NextCandidate
  <2>4. CASE UNCHANGED ofForms
    BY <2>4 DEF FormsRight, ofForms
  <2> QED BY <2>1, <2>2, <2>3, <2>4, OnePartMoves DEF Forms!Next
<1> QED BY <1>1, <1>2, PTL DEF Spec

\* Each field of a form is one of the definitions, and each is answered by a value.
LEMMA FormFields ==
  ASSUME FormsRight
  PROVE  /\ \A i \in DOMAIN form : form[i] \in Fields /\ Forms!FieldIsValid(form[i])
         /\ \A answers \in given : \A id : Forms!ValueOf(answers, id) \in Forms!Values
<1>1. PICK n \in 0..MaxFields : form \in [1..n -> Fields]
  BY DEF FormsRight, Forms!Forms
<1>2. ASSUME NEW answers \in given, NEW id
      PROVE  Forms!ValueOf(answers, id) \in Forms!Values
  <2>1. PICK ids \in SUBSET Forms!Ids(form) : answers \in [ids -> Forms!Values]
    BY DEF FormsRight, Forms!AnswersTo
  <2>2. Forms!Null \in Forms!Values
    BY DEF Forms!Values
  <2> QED BY <2>1, <2>2 DEF Forms!ValueOf
<1> QED BY <1>1, <1>2 DEF FormsRight, Forms!ValidateCustomFields

\* A value of type string is its word.
LEMMA StringsAreWords ==
  ASSUME NEW value \in Forms!Values, value.json = "string"
  PROVE  value = Forms!String(value.word)
<1>1. value \notin {Forms!Null, Forms!Number, Forms!Boolean, Forms!EmptyList, Forms!List}
  <2>1. /\ Forms!Null.json # "string" /\ Forms!Number.json # "string"
        /\ Forms!Boolean.json # "string" /\ Forms!EmptyList.json # "string"
        /\ Forms!List.json # "string"
    BY DEF Forms!Null, Forms!Number, Forms!Boolean, Forms!EmptyList, Forms!List
  <2> QED BY <2>1
<1>2. PICK word \in Forms!Words : value = Forms!String(word)
  BY <1>1 DEF Forms!Values
<1>3. value.word = word
  BY <1>2 DEF Forms!String
<1> QED BY <1>2, <1>3

\* Types reach the posting without blanks around them.
PlainTypes == \A field \in Fields : ~field.type.blanks

\* When types come without blanks, stored answers are of the types their form
\* names, and the required ones are there: what the one validation lets through is
\* what the other understands, for forms of any fields and any length.
THEOREM AnswersFit ==
  ASSUME PlainTypes
  PROVE  Spec => []AnswersMeetForm
<1>1. FormsRight => AnswersMeetForm
  <2> SUFFICES ASSUME FormsRight, NEW answers \in given, NEW i \in DOMAIN form
               PROVE  LET value == Forms!ValueOf(answers, form[i].id)
                      IN IF Forms!IsEmptyValue(value) THEN ~form[i].required
                         ELSE Forms!HasType(form[i], value)
    BY DEF AnswersMeetForm, Forms!AnswersMeetForm
  <2> DEFINE value == Forms!ValueOf(answers, form[i].id)
             type == form[i].type.word
  <2>1. value \in Forms!Values /\ Forms!FieldIsValid(form[i]) /\ ~form[i].type.blanks
    BY FormFields DEF PlainTypes
  <2>2. /\ form[i].required => ~Forms!IsEmptyValue(value)
        /\ Forms!IsValidAnswer(form[i], value)
    BY DEF FormsRight, Forms!ValidateCustomAnswers, Forms!RequiredIsAnswered
  <2>3. value.json = "string" => value = Forms!String(value.word)
    BY <2>1, StringsAreWords
  <2> HIDE DEF value
  <2>4. ASSUME ~Forms!IsEmptyValue(value) PROVE Forms!HasType(form[i], value)
    <3>1. CASE type = "number"
      BY <2>1, <2>2, <2>3, <2>4, <3>1
         DEF Forms!IsValidAnswer, Forms!IsValidNumber, Forms!HasType
    <3>2. CASE type = "url"
      BY <2>1, <2>2, <2>3, <2>4, <3>2
         DEF Forms!IsValidAnswer, Forms!IsValidURL, Forms!HasType
    <3>3. CASE type = "boolean"
      BY <2>1, <2>2, <2>3, <2>4, <3>3
         DEF Forms!IsValidAnswer, Forms!IsValidBoolean, Forms!HasType
    <3>4. CASE type = "select"
      <4>1. form[i].options # <<>>
        BY <2>1, <3>4 DEF Forms!FieldIsValid, Forms!OptionsAreValid
      <4>2. Forms!IsValidOption(value, form[i].options)
        BY <2>1, <2>2, <2>4, <3>4, <4>1 DEF Forms!IsValidAnswer
      <4> QED BY <3>4, <4>2 DEF Forms!IsValidOption, Forms!HasType
    <3>5. CASE type \notin {"number", "url", "boolean", "select"}
      BY <3>5 DEF Forms!HasType
    <3> QED BY <3>1, <3>2, <3>3, <3>4, <3>5
  <2> QED BY <2>2, <2>4 DEF value
<1> QED BY <1>1, FormsInvariant, PTL

\* An answer that suits a field.
Suitable(field) ==
  CASE field.type.word = "number"  -> Forms!Number
    [] field.type.word = "url"     -> Forms!String("http://host")
    [] field.type.word = "boolean" -> Forms!Boolean
    [] field.type.word = "select"  -> Forms!String(field.options[1])
    [] OTHER -> Forms!String("7")

LEMMA HasFirst ==
  ASSUME NEW S, NEW s \in Seq(S), s # <<>>
  PROVE  1 \in DOMAIN s
  OBVIOUS

LEMMA SuitableSuits ==
  ASSUME NEW field \in Fields, Forms!FieldIsValid(field)
  PROVE  /\ Suitable(field) \in Forms!Values
         /\ ~Forms!IsEmptyValue(Suitable(field))
         /\ Forms!IsValidAnswer(field, Suitable(field))
<1> DEFINE type == field.type.word
           value == Suitable(field)
<1>1. /\ Forms!Number \in Forms!Values /\ Forms!Boolean \in Forms!Values
      /\ \A word \in Forms!Words : Forms!String(word) \in Forms!Values
      /\ {"7", "http://host"} \subseteq Forms!Words
  BY DEF Forms!Values, Forms!Words
<1>2. /\ ~Forms!IsEmptyValue(Forms!Number) /\ Forms!IsValidNumber(Forms!Number)
      /\ ~Forms!IsEmptyValue(Forms!Boolean) /\ Forms!IsValidBoolean(Forms!Boolean)
  BY DEF Forms!IsEmptyValue, Forms!Number, Forms!Boolean, Forms!Null, Forms!EmptyList,
         Forms!IsValidNumber, Forms!IsValidBoolean
<1>3. \A word : word # "" => ~Forms!IsEmptyValue(Forms!String(word))
  BY DEF Forms!IsEmptyValue, Forms!String, Forms!Null, Forms!EmptyList
<1>4. Forms!IsValidURL(Forms!String("http://host"))
  BY DEF Forms!IsValidURL, Forms!String
<1>5. CASE type = "number"
  <2>1. value = Forms!Number
    BY <1>5 DEF Suitable
  <2>2. Forms!IsValidAnswer(field, Forms!Number)
    BY <1>2, <1>5 DEF Forms!IsValidAnswer
  <2> QED BY <1>1, <1>2, <2>1, <2>2
<1>6. CASE type = "url"
  <2>1. value = Forms!String("http://host")
    BY <1>6 DEF Suitable
  <2>2. Forms!IsValidAnswer(field, Forms!String("http://host"))
    BY <1>4, <1>6 DEF Forms!IsValidAnswer
  <2> QED BY <1>1, <1>3, <2>1, <2>2
<1>7. CASE type = "boolean"
  <2>1. value = Forms!Boolean
    BY <1>7 DEF Suitable
  <2>2. Forms!IsValidAnswer(field, Forms!Boolean)
    BY <1>2, <1>7 DEF Forms!IsValidAnswer
  <2> QED BY <1>1, <1>2, <2>1, <2>2
<1>8. CASE type = "select"
  <2> DEFINE option == field.options[1]
  <2>1. value = Forms!String(option)
    BY <1>8 DEF Suitable
  <2>2. field.options # <<>> /\ \A i \in DOMAIN field.options : field.options[i] # ""
    BY <1>8 DEF Forms!FieldIsValid, Forms!OptionsAreValid
  <2>3. 1 \in DOMAIN field.options
    <3>1. field.options \in Seq(STRING)
      BY FieldsAssumption
    <3> QED BY <2>2, <3>1, HasFirst
  <2>4. option \in Forms!Words /\ option # ""
    <3>1. option \in UNION {{f.options[i] : i \in DOMAIN f.options} : f \in Fields}
      BY <2>3
    <3> QED BY <2>2, <2>3, <3>1 DEF Forms!Words
  <2>5. Forms!String(option).word = option
    BY DEF Forms!String
  <2>6. Forms!IsValidOption(Forms!String(option), field.options)
    BY <2>3, <2>5 DEF Forms!IsValidOption
  <2>7. Forms!IsValidAnswer(field, Forms!String(option))
    BY <1>8, <2>6 DEF Forms!IsValidAnswer
  <2> HIDE DEF option
  <2> QED BY <1>1, <1>3, <2>1, <2>4, <2>7
<1>9. CASE type \notin {"number", "url", "boolean", "select"}
  <2>1. value = Forms!String("7")
    BY <1>9 DEF Suitable
  <2>2. Forms!IsValidAnswer(field, Forms!String("7"))
    BY <1>9 DEF Forms!IsValidAnswer
  <2> QED BY <1>1, <1>3, <2>1, <2>2
<1> QED BY <1>5, <1>6, <1>7, <1>8, <1>9

\* Whatever form a posting gets, some answers pass the check of Apply, blanks around
\* types or not: no posting is closed to candidates by its own form.
THEOREM FormsAreAnswerable == Spec => []EveryFormHasAnswers
<1>1. FormsRight => EveryFormHasAnswers
  <2> SUFFICES ASSUME FormsRight
               PROVE  \E answers \in [Forms!Ids(form) -> Forms!Values] :
                        Forms!ValidateCustomAnswers(form, answers)
    BY DEF EveryFormHasAnswers, Forms!EveryFormHasAnswers
  <2> DEFINE index(id) == CHOOSE i \in DOMAIN form : form[i].id = id
             answers == [id \in Forms!Ids(form) |-> Suitable(form[index(id)])]
  <2>1. \A id \in Forms!Ids(form) : index(id) \in DOMAIN form
    BY DEF Forms!Ids
  <2>2. \A i \in DOMAIN form : form[i] \in Fields /\ Forms!FieldIsValid(form[i])
    BY FormFields
  <2>3. answers \in [Forms!Ids(form) -> Forms!Values]
    BY <2>1, <2>2, SuitableSuits
  <2>4. ASSUME NEW i \in DOMAIN form
        PROVE  Forms!ValueOf(answers, form[i].id) = Suitable(form[i])
    <3>1. form[i].id \in Forms!Ids(form)
      BY DEF Forms!Ids
    <3>2. index(form[i].id) \in DOMAIN form /\ form[index(form[i].id)].id = form[i].id
      OBVIOUS
    <3>3. index(form[i].id) = i
      BY <3>2 DEF FormsRight, Forms!ValidateCustomFields
    <3> QED BY <3>1, <3>3 DEF Forms!ValueOf
  <2> HIDE DEF answers
  <2>5. Forms!ValidateCustomAnswers(form, answers)
    BY <2>2, <2>4, SuitableSuits DEF Forms!ValidateCustomAnswers, Forms!RequiredIsAnswered
  <2> QED BY <2>3, <2>5
<1> QED BY <1>1, FormsInvariant, PTL

-----------------------------------------------------------------------------
(* Positions *)

\* A set of natural numbers has a least one, and a set of positions a greatest.
LEMMA LeastExists ==
  ASSUME NEW I \in SUBSET Nat, I # {}
  PROVE  \E m \in I : \A i \in I : m <= i
<1>1. PICK m \in I : \A i \in I : ~(<<i, m>> \in OpToRel(<, Nat))
  <2>1. IsWellFoundedOn(OpToRel(<, Nat), Nat)
    BY NatLessThanWellFounded
  <2> QED BY <2>1, WFMin
<1>2. ASSUME NEW i \in I PROVE m <= i
  <2>1. ~(i < m)
    BY <1>1 DEF OpToRel
  <2> QED BY <2>1
<1> QED BY <1>2

LEMMA GreatestExists ==
  ASSUME NEW n \in Nat, NEW I \in SUBSET (1..n), I # {}
  PROVE  \E m \in I : \A i \in I : m >= i
<1> DEFINE J == {n - i : i \in I}
<1>1. J \in SUBSET Nat /\ J # {}
  <2>1. \A i \in I : n - i \in Nat
    OBVIOUS
  <2> QED BY <2>1
<1>2. PICK k \in J : \A j \in J : k <= j
  <2> HIDE DEF J
  <2> QED BY <1>1, LeastExists
<1>3. PICK m \in I : k = n - m
  OBVIOUS
<1>4. ASSUME NEW i \in I PROVE m >= i
  <2>1. n - m <= n - i
    BY <1>2, <1>3
  <2> QED BY <2>1
<1> QED BY <1>4

LEMMA PositionsAreFinite ==
  ASSUME NEW n \in Nat, NEW S \in SUBSET (1..n)
  PROVE  IsFiniteSet(S) /\ Cardinality(S) \in Nat
<1>1. IsFiniteSet(1..n)
  BY FS_Interval
<1> QED BY <1>1, FS_Subset, FS_CardinalityType

\* The n-th of a set of positions is one of them, and has n of them up to it.
LEMMA PlaceIs ==
  ASSUME NEW m \in Nat, NEW S \in SUBSET (0..m)
  PROVE  /\ IsFiniteSet(S) /\ Cardinality(S) \in Nat
         /\ \A n \in 1..Cardinality(S) :
              Nth(S, n) \in S /\ Cardinality({j \in S : j <= Nth(S, n)}) = n
         /\ \A i \in S : /\ Cardinality({j \in S : j <= i}) \in 1..Cardinality(S)
                         /\ Nth(S, Cardinality({j \in S : j <= i})) = i
<1> DEFINE upTo(i) == {j \in S : j <= i}
           f == [i \in S |-> Cardinality(upTo(i))]
           c == Cardinality(S)
<1>2. IsFiniteSet(S) /\ c \in Nat
  <2>1. IsFiniteSet(0..m)
    BY FS_Interval
  <2> QED BY <2>1, FS_Subset, FS_CardinalityType
<1>3. ASSUME NEW i \in S
      PROVE  IsFiniteSet(upTo(i)) /\ Cardinality(upTo(i)) \in 1..c
  <2>1. upTo(i) \in SUBSET S /\ i \in upTo(i)
    OBVIOUS
  <2> HIDE DEF upTo
  <2>2. IsFiniteSet(upTo(i)) /\ Cardinality(upTo(i)) <= c /\ Cardinality(upTo(i)) \in Nat
    BY <1>2, <2>1, FS_Subset, FS_CardinalityType
  <2>3. Cardinality(upTo(i)) # 0
    BY <2>1, <2>2, FS_EmptySet
  <2> QED BY <1>2, <2>2, <2>3
<1>4. ASSUME NEW i \in S, NEW k \in S, i < k
      PROVE  Cardinality(upTo(i)) # Cardinality(upTo(k))
  <2>1. upTo(i) \in SUBSET upTo(k) /\ k \in upTo(k) /\ k \notin upTo(i)
    <3>1. \A j \in S : j \in Int
      OBVIOUS
    <3>2. \A j \in S : j <= i => j <= k
      BY <1>4, <3>1
    <3>3. k <= k /\ ~(k <= i)
      BY <1>4, <3>1
    <3> QED BY <3>2, <3>3
  <2> HIDE DEF upTo
  <2> QED BY <1>3, <2>1, FS_Subset
<1>5. f \in Injection(S, 1..c)
  <2>1. f \in [S -> 1..c]
    BY <1>3
  <2>2. ASSUME NEW i \in S, NEW k \in S, f[i] = f[k] PROVE i = k
    <3>1. ~(i < k) /\ ~(k < i)
      BY <1>4, <2>2
    <3> QED BY <3>1
  <2> QED BY <2>1, <2>2 DEF Injection, IsInjective
<1>6. IsFiniteSet(1..c) /\ Cardinality(1..c) = c
  BY <1>2, FS_Interval
<1>7. f \in Surjection(S, 1..c)
  <2> HIDE DEF f
  <2> QED BY <1>5, <1>6, FS_Injection
<1>8. ASSUME NEW n \in 1..c PROVE Nth(S, n) \in S /\ Cardinality(upTo(Nth(S, n))) = n
  <2>1. \E i \in S : f[i] = n
    <3> HIDE DEF f
    <3> QED BY <1>7 DEF Surjection
  <2>2. \E i \in S : Cardinality({j \in S : j <= i}) = n
    BY <2>1
  <2> QED BY <2>2 DEF Nth
<1>9. ASSUME NEW i \in S PROVE Nth(S, Cardinality(upTo(i))) = i
  <2> DEFINE k == Nth(S, Cardinality(upTo(i)))
  <2>1. k \in S /\ Cardinality(upTo(k)) = Cardinality(upTo(i))
    BY <1>3, <1>8
  <2> HIDE DEF k, upTo
  <2>2. ~(k < i) /\ ~(i < k)
    BY <1>4, <2>1
  <2>3. k \in Int /\ i \in Int
    BY <2>1
  <2>4. k = i
    BY <2>2, <2>3
  <2> QED BY <2>4 DEF k
<1> QED BY <1>2, <1>3, <1>8, <1>9

LEMMA NthIs ==
  ASSUME NEW m \in Nat, NEW S \in SUBSET (1..m), NEW n \in 1..Cardinality(S)
  PROVE  /\ Nth(S, n) \in S
         /\ Cardinality({j \in S : j <= Nth(S, n)}) = n
<1>1. S \in SUBSET (0..m)
  OBVIOUS
<1> QED BY <1>1, PlaceIs

\* The conversions are those of Text in each of the parts.
LEMMA NamesAreTexts ==
  ASSUME NEW s, NEW C, NEW c, NEW n
  PROVE  /\ Names!Trim(s, C) = Trim(s, C) /\ Names!TrimRight(s, C) = TrimRight(s, C)
         /\ Names!AfterLast(s, c) = AfterLast(s, c) /\ Names!Cut(s, n) = Cut(s, n)
         /\ Names!Collapse(s, c) = Collapse(s, c)
         /\ Names!ToSet(s) = ToSet(s)
<1>1. Names!Trim(s, C) = Trim(s, C)
  BY DEF Names!Trim, Names!SelectInSeq, Names!SelectLastInSeq, Names!Max, Names!Min,
         Trim, SelectInSeq, SelectLastInSeq, Max, Min
<1>2. Names!TrimRight(s, C) = TrimRight(s, C)
  BY DEF Names!TrimRight, Names!SelectLastInSeq, Names!Max, TrimRight, SelectLastInSeq, Max
<1>3. Names!AfterLast(s, c) = AfterLast(s, c)
  BY DEF Names!AfterLast, Names!SelectLastInSeq, Names!Max, AfterLast, SelectLastInSeq, Max
<1>4. Names!Cut(s, n) = Cut(s, n)
  BY DEF Names!Cut, Cut
<1>5. Names!Collapse(s, c) = Collapse(s, c)
  BY DEF Names!Collapse, Collapse, Names!Selected, Selected, Names!Nth, Nth,
         Names!Cardinality, Cardinality
<1>6. Names!ToSet(s) = ToSet(s)
  BY DEF Names!ToSet, ToSet
<1> QED BY <1>1, <1>2, <1>3, <1>4, <1>5, <1>6

-----------------------------------------------------------------------------
(* What the conversions make of a text *)

\* The greatest and the least of some positions.
LEMMA MaxIs ==
  ASSUME NEW n \in Nat, NEW I \in SUBSET (1..n), I # {}
  PROVE  \E m \in I : m = Max(I) /\ \A i \in I : i <= m
<1>1. PICK m \in I : \A i \in I : m >= i
  BY GreatestExists
<1>2. Max(I) \in I /\ \A i \in I : Max(I) >= i
  BY <1>1 DEF Max
<1>3. PICK k \in I : k = Max(I)
  BY <1>2
<1>4. \A i \in I : k >= i
  BY <1>2, <1>3
<1>5. \A i \in I : i \in Int
  OBVIOUS
<1> QED BY <1>3, <1>4, <1>5

LEMMA MinIs ==
  ASSUME NEW n \in Nat, NEW I \in SUBSET (1..n), I # {}
  PROVE  \E m \in I : m = Min(I) /\ \A i \in I : m <= i
<1>1. I \in SUBSET Nat
  OBVIOUS
<1>2. \E m \in I : \A i \in I : m <= i
  BY <1>1, LeastExists
<1>3. Min(I) \in I /\ \A i \in I : Min(I) <= i
  BY <1>2 DEF Min
<1> QED BY <1>3

\* The last position of some, or 0 when there is none.
LEMMA LastIs ==
  ASSUME NEW n \in Nat, NEW I \in SUBSET (1..n)
  PROVE  \E m \in 0..n :
           /\ m = IF I # {} THEN Max(I) ELSE 0
           /\ m # 0 => m \in I
           /\ \A i \in I : i <= m
<1>1. CASE I = {}
  BY <1>1
<1>2. CASE I # {}
  <2>1. PICK m \in I : m = Max(I) /\ \A i \in I : i <= m
    BY <1>2, MaxIs
  <2>2. m \in 0..n
    OBVIOUS
  <2> QED BY <1>2, <2>1, <2>2
<1> QED BY <1>1, <1>2

LEMMA RestIs ==
  ASSUME NEW T, NEW s \in Seq(T), NEW a \in 1..Len(s)
  PROVE  LET r == SubSeq(s, a, Len(s))
         IN /\ r \in Seq(T) /\ Len(r) = Len(s) - a + 1
            /\ \A i \in 1..Len(r) : r[i] = s[a + i - 1]
  OBVIOUS

TrimsTo(s, C, r) ==
  \/ r = <<>> /\ \A i \in 1..Len(s) : s[i] \in C
  \/ \E a, b \in 1..Len(s) :
       /\ a <= b /\ s[a] \notin C /\ s[b] \notin C
       /\ \A i \in 1..Len(s) : s[i] \notin C => a <= i /\ i <= b
       /\ r = SubSeq(s, a, b)

LEMMA TrimIs ==
  ASSUME NEW T, NEW s \in Seq(T), NEW C
  PROVE  TrimsTo(s, C, Trim(s, C))
<1> DEFINE I == {i \in 1..Len(s) : s[i] \notin C}
<1>1. Trim(s, C) = IF (IF I # {} THEN Min(I) ELSE 0) = 0 THEN <<>>
                   ELSE SubSeq(s, IF I # {} THEN Min(I) ELSE 0, IF I # {} THEN Max(I) ELSE 0)
  BY DEF Trim, SelectInSeq, SelectLastInSeq
<1>2. Len(s) \in Nat /\ I \in SUBSET (1..Len(s))
  OBVIOUS
<1>3. CASE I = {}
  BY <1>1, <1>3 DEF TrimsTo
<1>4. CASE I # {}
  <2>1. PICK a \in I : a = Min(I) /\ \A i \in I : a <= i
    <3> HIDE DEF I
    <3> QED BY <1>2, <1>4, MinIs
  <2>2. PICK b \in I : b = Max(I) /\ \A i \in I : i <= b
    <3> HIDE DEF I
    <3> QED BY <1>2, <1>4, MaxIs
  <2>3. a # 0 /\ a <= b
    BY <2>1, <2>2
  <2>4. Trim(s, C) = SubSeq(s, a, b)
    <3> HIDE DEF I
    <3> QED BY <1>1, <1>4, <2>1, <2>2, <2>3
  <2> QED BY <2>1, <2>2, <2>3, <2>4 DEF TrimsTo
<1> QED BY <1>3, <1>4

LEMMA TrimRightIs ==
  ASSUME NEW T, NEW s \in Seq(T), NEW C
  PROVE  \E b \in 0..Len(s) :
           /\ b # 0 => s[b] \notin C
           /\ \A i \in 1..Len(s) : i > b => s[i] \in C
           /\ TrimRight(s, C) = SubSeq(s, 1, b)
<1> DEFINE I == {i \in 1..Len(s) : s[i] \notin C}
<1>1. TrimRight(s, C) = SubSeq(s, 1, IF I # {} THEN Max(I) ELSE 0)
  BY DEF TrimRight, SelectLastInSeq
<1>2. Len(s) \in Nat /\ I \in SUBSET (1..Len(s))
  OBVIOUS
<1>3. PICK b \in 0..Len(s) :
        /\ b = IF I # {} THEN Max(I) ELSE 0
        /\ b # 0 => b \in I
        /\ \A i \in I : i <= b
  <2> HIDE DEF I
  <2> QED BY <1>2, LastIs
<1>4. TrimRight(s, C) = SubSeq(s, 1, b)
  <2> HIDE DEF I
  <2> QED BY <1>1, <1>3
<1>5. ASSUME NEW i \in 1..Len(s), i > b PROVE s[i] \in C
  <2>1. i \notin I
    BY <1>3, <1>5
  <2> QED BY <2>1
<1> QED BY <1>3, <1>4, <1>5

LEMMA AfterLastIs ==
  ASSUME NEW T, NEW s \in Seq(T), NEW c
  PROVE  \E d \in 0..Len(s) :
           /\ d # 0 => s[d] = c
           /\ \A i \in 1..Len(s) : i > d => s[i] # c
           /\ AfterLast(s, c) = SubSeq(s, d + 1, Len(s))
<1> DEFINE I == {i \in 1..Len(s) : s[i] = c}
<1>1. AfterLast(s, c) = SubSeq(s, (IF I # {} THEN Max(I) ELSE 0) + 1, Len(s))
  BY DEF AfterLast, SelectLastInSeq
<1>2. Len(s) \in Nat /\ I \in SUBSET (1..Len(s))
  OBVIOUS
<1>3. PICK d \in 0..Len(s) :
        /\ d = IF I # {} THEN Max(I) ELSE 0
        /\ d # 0 => d \in I
        /\ \A i \in I : i <= d
  <2> HIDE DEF I
  <2> QED BY <1>2, LastIs
<1>4. AfterLast(s, c) = SubSeq(s, d + 1, Len(s))
  <2> HIDE DEF I
  <2> QED BY <1>1, <1>3
<1>5. ASSUME NEW i \in 1..Len(s), i > d PROVE s[i] # c
  <2>1. i \notin I
    BY <1>3, <1>5
  <2> QED BY <2>1
<1> QED BY <1>3, <1>4, <1>5

\* What is left of a text is a text of the same symbols.
LEMMA PartsAreTexts ==
  ASSUME NEW T, NEW s \in Seq(T), NEW C, NEW c
  PROVE  Trim(s, C) \in Seq(T) /\ TrimRight(s, C) \in Seq(T) /\ AfterLast(s, c) \in Seq(T)
<1>1. \A a \in 1..(Len(s) + 1), b \in 0..Len(s) : SubSeq(s, a, b) \in Seq(T)
  OBVIOUS
<1>2. <<>> \in Seq(T) /\ Len(s) \in Nat
  OBVIOUS
<1>3. Trim(s, C) \in Seq(T)
  <2> SUFFICES ASSUME NEW a \in 1..Len(s), NEW b \in 1..Len(s), Trim(s, C) = SubSeq(s, a, b)
               PROVE  Trim(s, C) \in Seq(T)
    <3>1. TrimsTo(s, C, Trim(s, C))
      BY TrimIs
    <3> QED BY <1>2, <3>1 DEF TrimsTo
  <2>1. a \in 1..(Len(s) + 1) /\ b \in 0..Len(s)
    BY <1>2
  <2> QED BY <1>1, <2>1
<1>4. TrimRight(s, C) \in Seq(T)
  <2>1. PICK b \in 0..Len(s) : TrimRight(s, C) = SubSeq(s, 1, b)
    BY TrimRightIs
  <2>2. 1 \in 1..(Len(s) + 1)
    BY <1>2
  <2> QED BY <1>1, <2>1, <2>2
<1>5. AfterLast(s, c) \in Seq(T)
  <2>1. PICK d \in 0..Len(s) : AfterLast(s, c) = SubSeq(s, d + 1, Len(s))
    BY AfterLastIs
  <2>2. d + 1 \in 1..(Len(s) + 1) /\ Len(s) \in 0..Len(s)
    BY <1>2
  <2> QED BY <1>1, <2>1, <2>2
<1> QED BY <1>3, <1>4, <1>5

\* What is selected of a text is in it.
LEMMA SelectedTyped ==
  ASSUME NEW T, NEW s \in Seq(T), NEW S \in SUBSET (1..Len(s))
  PROVE  Selected(s, S) \in Seq(T) /\ Len(Selected(s, S)) = Cardinality(S)
<1>1. Len(s) \in Nat /\ IsFiniteSet(1..Len(s))
  BY FS_Interval
<1>2. Cardinality(S) \in Nat
  BY <1>1, FS_Subset, FS_CardinalityType
<1>3. ASSUME NEW n \in 1..Cardinality(S) PROVE s[Nth(S, n)] \in T
  <2>1. Nth(S, n) \in S
    BY <1>1, NthIs
  <2>2. \A i \in 1..Len(s) : s[i] \in T
    OBVIOUS
  <2> QED BY <2>1, <2>2

<1> DEFINE c == Cardinality(S)
           f == [n \in 1..c |-> s[Nth(S, n)]]
<1>4. f \in [1..c -> T] /\ c \in Nat
  BY <1>2, <1>3
<1>5. f \in Seq(T) /\ Len(f) = c
  <2> HIDE DEF f, c
  <2> QED BY <1>4
<1> QED BY <1>5 DEF Selected

-----------------------------------------------------------------------------
(* Names of resumes *)

LEMMA ExtIs ==
  ASSUME NEW T, NEW s \in Seq(T)
  PROVE  \E d \in 0..Len(s) :
           /\ d # 0 => s[d] = "."
           /\ \A i \in 1..Len(s) : i > d => s[i] # "."
           /\ Names!Ext(s) = IF d = 0 THEN <<>> ELSE SubSeq(s, d, Len(s))
<1> DEFINE I == {i \in 1..Len(s) : s[i] = "."}
           last == IF I # {} THEN Max(I) ELSE 0
<1>1. Names!Ext(s) = IF last = 0 THEN <<>> ELSE SubSeq(s, last, Len(s))
  BY DEF Names!Ext, Names!SelectLastInSeq, Names!Max, Max
<1>2. Len(s) \in Nat /\ I \in SUBSET (1..Len(s))
  OBVIOUS
<1>3. PICK d \in 0..Len(s) : d = last /\ (d # 0 => d \in I) /\ \A i \in I : i <= d
  <2> HIDE DEF I
  <2> QED BY <1>2, LastIs
<1>4. ASSUME NEW i \in 1..Len(s), i > d PROVE s[i] # "."
  <2>1. i \notin I
    BY <1>3, <1>4
  <2> QED BY <2>1
<1>5. d # 0 => s[d] = "."
  BY <1>3
<1> HIDE DEF last
<1> QED BY <1>1, <1>3, <1>4, <1>5

\* An extension: a dot and what follows, without another dot.
Extensions(T) == {e \in Seq(T) : /\ e # <<>> /\ e[1] = "."
                                 /\ \A i \in 1..Len(e) : e[i] = "." => i = 1}

LEMMA ExtShape ==
  ASSUME NEW T, NEW s \in Seq(T)
  PROVE  /\ Names!Ext(s) \in Seq(T) /\ Len(Names!Ext(s)) \in 0..Len(s)
         /\ Names!Ext(s) = <<>> \/ Names!Ext(s) \in Extensions(T)
<1>1. PICK d \in 0..Len(s) :
        /\ d # 0 => s[d] = "."
        /\ \A i \in 1..Len(s) : i > d => s[i] # "."
        /\ Names!Ext(s) = IF d = 0 THEN <<>> ELSE SubSeq(s, d, Len(s))
  BY ExtIs
<1>2. CASE d = 0
  <2>1. Names!Ext(s) = <<>> /\ <<>> \in Seq(T) /\ Len(<<>>) = 0 /\ Len(s) \in Nat
    BY <1>1, <1>2
  <2> QED BY <2>1
<1>3. CASE d # 0
  <2> DEFINE e == SubSeq(s, d, Len(s))
  <2>1. /\ e \in Seq(T) /\ Len(e) = Len(s) - d + 1
        /\ \A i \in 1..Len(e) : e[i] = s[d + i - 1]
    BY <1>3
  <2>2. Names!Ext(s) = e
    BY <1>1, <1>3
  <2> HIDE DEF e
  <2>3. Len(e) >= 1 /\ e[1] = "."
    BY <1>1, <1>3, <2>1
  <2>4. ASSUME NEW i \in 1..Len(e), e[i] = "." PROVE i = 1
    <3>1. d + i - 1 \in 1..Len(s)
      BY <1>3, <2>1
    <3>2. s[d + i - 1] = "."
      BY <2>1, <2>4
    <3>3. ~(d + i - 1 > d)
      BY <1>1, <3>1, <3>2
    <3> QED BY <3>3
  <2>5. e # <<>> /\ Len(e) \in 0..Len(s)
    BY <1>3, <2>1, <2>3
  <2> QED BY <2>1, <2>2, <2>3, <2>4, <2>5 DEF Extensions
<1> QED BY <1>2, <1>3

\* The extension of a name is the one put at its end.
LEMMA ExtOfAppended ==
  ASSUME NEW T, NEW u \in Seq(T), NEW e \in Extensions(T)
  PROVE  Names!Ext(u \o e) = e
<1> DEFINE s == u \o e
           n == Len(u)
<1>1. e \in Seq(T) /\ e # <<>> /\ e[1] = "." /\ \A i \in 1..Len(e) : e[i] = "." => i = 1
  BY DEF Extensions
<1>2. /\ s \in Seq(T) /\ n \in Nat /\ Len(e) \in Nat /\ Len(s) = n + Len(e)
      /\ \A i \in 1..Len(e) : s[n + i] = e[i]
  BY <1>1
<1>3. Len(e) >= 1
  BY <1>1
<1> HIDE DEF s, n
<1>4. PICK d \in 0..Len(s) :
        /\ d # 0 => s[d] = "."
        /\ \A i \in 1..Len(s) : i > d => s[i] # "."
        /\ Names!Ext(s) = IF d = 0 THEN <<>> ELSE SubSeq(s, d, Len(s))
  BY <1>2, ExtIs
<1>5. d = n + 1
  <2>1. s[n + 1] = "." /\ n + 1 \in 1..Len(s)
    BY <1>1, <1>2, <1>3
  <2>2. ~(n + 1 > d)
    BY <1>4, <2>1
  <2>3. d - n \in 1..Len(e) /\ s[d] = e[d - n]
    <3>1. d - n \in 1..Len(e)
      BY <1>2, <2>2
    <3>2. s[n + (d - n)] = e[d - n]
      BY <1>2, <3>1
    <3>3. n + (d - n) = d
      BY <1>2
    <3> QED BY <3>1, <3>2, <3>3
  <2>4. e[d - n] = "."
    <3>1. d # 0
      BY <1>2, <2>3
    <3> QED BY <1>4, <2>3, <3>1
  <2>5. d - n = 1
    BY <1>1, <2>3, <2>4
  <2> QED BY <1>2, <2>5
<1>6. SubSeq(s, n + 1, Len(s)) = e
  <2> DEFINE r == SubSeq(s, n + 1, Len(s))
  <2>1. /\ r \in Seq(T) /\ Len(r) = Len(e)
        /\ \A i \in 1..Len(r) : r[i] = s[n + i]
    <3>1. n + 1 \in 1..Len(s) /\ Len(s) - (n + 1) + 1 = Len(e)
      BY <1>2, <1>3
    <3>2. /\ r \in Seq(T) /\ Len(r) = Len(s) - (n + 1) + 1
          /\ \A i \in 1..Len(r) : r[i] = s[(n + 1) + i - 1]
      BY <1>2, <3>1, RestIs
    <3>3. \A i \in 1..Len(e) : (n + 1) + i - 1 = n + i
      BY <1>2
    <3> HIDE DEF r
    <3> QED BY <3>1, <3>2, <3>3
  <2>2. \A i \in 1..Len(e) : r[i] = e[i]
    <3> HIDE DEF r
    <3> QED BY <1>2, <2>1
  <2> HIDE DEF r
  <2>3. r = e
    BY <1>1, <2>1, <2>2
  <2> QED BY <2>3 DEF r
<1>7. Names!Ext(s) = e
  BY <1>2, <1>4, <1>5, <1>6
<1> QED BY <1>7 DEF s

\* What is cleaned is safe, not empty, not too long, and begins with none of the
\* symbols that are trimmed.
LEMMA CleanedIs ==
  ASSUME NEW T, NEW stem \in Seq(T)
  PROVE  /\ Names!Cleaned(stem) \in Seq(Names!Safe)
         /\ Len(Names!Cleaned(stem)) \in 1..MaxBase
         /\ Names!Cleaned(stem)[1] # "."
<1> DEFINE Safe == Names!Safe
           safe == [i \in DOMAIN stem |-> IF stem[i] \in Safe THEN stem[i] ELSE "_"]
           collapsed == Collapse(safe, "_")
           C == {".", "_", "-", " "}
           clean == Trim(collapsed, C)
           name == IF clean = <<>> THEN <<"resume">> ELSE clean
<1>1. Names!Cleaned(stem) = Cut(name, MaxBase)
  BY NamesAreTexts DEF Names!Cleaned, Names!MapText, Names!Resume
<1>2. safe \in Seq(Safe)
  <2>1. "_" \in Safe
    BY DEF Names!Safe
  <2>2. DOMAIN stem = 1..Len(stem) /\ Len(stem) \in Nat
    OBVIOUS
  <2> HIDE DEF Safe
  <2>3. safe \in [1..Len(stem) -> Safe]
    BY <2>1, <2>2
  <2> HIDE DEF safe
  <2> QED BY <2>2, <2>3
<1> HIDE DEF safe
<1>3. collapsed \in Seq(Safe)
  <2>1. {i \in DOMAIN safe : i > 1 /\ safe[i] = "_" => safe[i - 1] # "_"}
          \in SUBSET (1..Len(safe))
    <3>1. DOMAIN safe = 1..Len(safe)
      BY <1>2
    <3> QED BY <3>1
  <2> QED BY <1>2, <2>1, SelectedTyped DEF Collapse
<1> HIDE DEF collapsed
<1>4. clean = <<>> \/ (clean \in Seq(Safe) /\ clean # <<>> /\ clean[1] \notin C)
  <2> SUFFICES ASSUME NEW a \in 1..Len(collapsed), NEW b \in 1..Len(collapsed),
                      a <= b, collapsed[a] \notin C, clean = SubSeq(collapsed, a, b)
               PROVE  clean \in Seq(Safe) /\ clean # <<>> /\ clean[1] \notin C
    <3> HIDE DEF C
    <3>1. TrimsTo(collapsed, C, clean)
      BY <1>3, TrimIs
    <3> QED BY <1>3, <3>1 DEF TrimsTo
  <2> HIDE DEF C, clean
  <2>1. clean \in Seq(Safe) /\ Len(clean) = b - a + 1 /\ clean[1] = collapsed[a]
    BY <1>3
  <2> QED BY <2>1
<1> HIDE DEF clean
<1>5. name \in Seq(Safe) /\ name # <<>> /\ name[1] # "."
  <2>1. <<"resume">> \in Seq(Safe) /\ <<"resume">> # <<>> /\ <<"resume">>[1] = "resume"
    BY DEF Names!Safe
  <2>2. "resume" # "."
    OBVIOUS
  <2>3. CASE clean = <<>>
    BY <2>1, <2>2, <2>3
  <2>4. CASE clean # <<>>
    BY <1>4, <2>4
  <2> QED BY <2>3, <2>4
<1> HIDE DEF name
<1>6. MaxBase \in Nat /\ MaxBase >= 1
  BY MaxBaseAssumption
<1>7. CASE Len(name) > MaxBase
  <2>1. Cut(name, MaxBase) = SubSeq(name, 1, MaxBase)
    BY <1>7 DEF Cut
  <2>2. /\ SubSeq(name, 1, MaxBase) \in Seq(Safe) /\ Len(SubSeq(name, 1, MaxBase)) = MaxBase
        /\ SubSeq(name, 1, MaxBase)[1] = name[1]
    BY <1>5, <1>6, <1>7
  <2> QED BY <1>1, <1>5, <1>6, <2>1, <2>2
<1>8. CASE ~(Len(name) > MaxBase)
  <2>1. Cut(name, MaxBase) = name
    BY <1>8 DEF Cut
  <2>2. Len(name) \in 1..MaxBase
    BY <1>5, <1>6, <1>8
  <2> QED BY <1>1, <1>5, <2>1, <2>2
<1> QED BY <1>7, <1>8

\* A name of safe symbols is the file it names, whole.
LEMMA SafeFile ==
  ASSUME NEW name \in Seq(Names!Safe), name # <<>>
  PROVE  Names!Trim(name, {" "}) = name /\ Names!FileOf(name) = name
<1> DEFINE n == Len(name)
<1>1. n \in Nat /\ n >= 1 /\ \A i \in 1..n : name[i] \in Names!Safe
  OBVIOUS
<1>2. \A i \in 1..n : name[i] # " " /\ name[i] # "/" /\ name[i] # "\\"
  <2>1. \A c \in Names!Safe : c # " " /\ c # "/" /\ c # "\\"
    BY DEF Names!Safe
  <2> QED BY <1>1, <2>1
<1>3. SubSeq(name, 1, n) = name /\ DOMAIN name = 1..n
  OBVIOUS
<1> HIDE DEF n
<1>4. Trim(name, {" "}) = name
  <2>1. name[1] \notin {" "} /\ name[n] \notin {" "} /\ 1 \in 1..n /\ n \in 1..n
    <3>1. 1 \in 1..n /\ n \in 1..n
      BY <1>1
    <3> QED BY <1>2, <3>1
  <2>2. PICK a \in 1..n, b \in 1..n :
          /\ \A i \in 1..n : name[i] \notin {" "} => a <= i /\ i <= b
          /\ Trim(name, {" "}) = SubSeq(name, a, b)
    <3>1. ~ \A i \in 1..n : name[i] \in {" "}
      BY <2>1
    <3>2. TrimsTo(name, {" "}, Trim(name, {" "}))
      BY TrimIs
    <3> QED BY <3>1, <3>2 DEF TrimsTo, n
  <2>3. a <= 1 /\ n <= b
    BY <2>1, <2>2
  <2>4. a = 1 /\ b = n
    BY <1>1, <2>3
  <2> QED BY <1>3, <2>2, <2>4
<1>5. TrimRight(name, {"/"}) = name
  <2>1. PICK b \in 0..n : /\ \A i \in 1..n : i > b => name[i] \in {"/"}
                          /\ TrimRight(name, {"/"}) = SubSeq(name, 1, b)
    BY TrimRightIs DEF n
  <2>2. n \in 1..n /\ name[n] \notin {"/"}
    <3>1. n \in 1..n
      BY <1>1
    <3> QED BY <1>2, <3>1
  <2>3. ~(n > b)
    BY <2>1, <2>2
  <2>4. b = n
    BY <1>1, <2>3
  <2> QED BY <1>3, <2>1, <2>4
<1>6. AfterLast(name, "/") = name
  <2>1. PICK d \in 0..n : /\ d # 0 => name[d] = "/"
                          /\ AfterLast(name, "/") = SubSeq(name, d + 1, n)
    BY AfterLastIs DEF n
  <2>2. d \in 1..n => name[d] # "/"
    BY <1>2
  <2>3. d = 0
    BY <1>1, <2>1, <2>2
  <2>4. d + 1 = 1
    BY <2>3
  <2> QED BY <1>3, <2>1, <2>4
<1>7. Names!Base(name) = name
  BY <1>5, <1>6, NamesAreTexts DEF Names!Base
<1>8. [i \in DOMAIN name |-> IF name[i] = "\\" THEN "/" ELSE name[i]] = name
  <2>1. \A i \in DOMAIN name : name[i] # "\\"
    BY <1>2, <1>3
  <2>2. name = [i \in DOMAIN name |-> name[i]]
    OBVIOUS
  <2> QED BY <2>1, <2>2
<1>9. Names!FileOf(name) = name
  BY <1>6, <1>7, <1>8, NamesAreTexts DEF Names!FileOf, Names!MapText
<1> QED BY <1>4, <1>9, NamesAreTexts

\* The format of an accepted name is one of two.
LEMMA AcceptedExt ==
  ASSUME NEW name, NEW content, Names!FormatOf(name, content)
  PROVE  /\ Names!Ext(name) = <<".", content>>
         /\ <<".", content>> \in Extensions(Names!Safe)
<1>1. Names!Ext(name) = <<".", content>> /\ content \in {"pdf", "doc"}
  BY DEF Names!FormatOf
<1>2. {".", "pdf", "doc"} \subseteq Names!Safe
  BY DEF Names!Safe
<1>3. <<".", content>> \in Seq(Names!Safe)
  BY <1>1, <1>2
<1>4. content # "."
  BY <1>1
<1> QED BY <1>1, <1>3, <1>4 DEF Extensions

\* What becomes of a name of a file: a cleaned stem, and an extension or none.
LEMMA SanitizedIs ==
  ASSUME NEW T, NEW name \in Seq(T)
  PROVE  \/ Names!SanitizeFilename(name) = <<"resume">>
         \/ \E stem \in Seq(T \cup {"/"}) :
              \/ Names!SanitizeFilename(name) = Names!Cleaned(stem)
              \/ \E e \in Extensions(T \cup {"/"}) :
                   Names!SanitizeFilename(name) = Names!Cleaned(stem) \o e
<1> DEFINE U == T \cup {"/"}
           trimmed == Trim(name, {" "})
           path == TrimRight(trimmed, {"/"})
           base == IF path = <<>> THEN <<"/">> ELSE AfterLast(path, "/")
           turned == [i \in DOMAIN base |-> IF base[i] = "\\" THEN "/" ELSE base[i]]
           file == AfterLast(turned, "/")
           ext == IF Names!Ext(file) = <<".">> THEN <<>> ELSE Names!Ext(file)
<1>1. /\ Names!Trim(name, {" "}) = trimmed
      /\ Names!FileOf(trimmed) = file
  <2>1. Names!Trim(name, {" "}) = trimmed
    BY NamesAreTexts
  <2>2. Names!Base(trimmed) = base
    BY NamesAreTexts DEF Names!Base
  <2> HIDE DEF trimmed, base
  <2>3. Names!FileOf(trimmed) = Names!AfterLast(turned, "/")
    BY <2>2 DEF Names!FileOf, Names!MapText
  <2> HIDE DEF turned
  <2> QED BY <2>1, <2>3, NamesAreTexts
<1>2. name \in Seq(U)
  <2>1. \A i \in 1..Len(name) : name[i] \in U
    OBVIOUS
  <2> QED BY <2>1
<1>3. trimmed \in Seq(U)
  <2> HIDE DEF U
  <2> QED BY <1>2, PartsAreTexts
<1>4. path \in Seq(U)
  <2> HIDE DEF U, trimmed
  <2> QED BY <1>3, PartsAreTexts
<1>5. base \in Seq(U)
  <2>1. "/" \in U
    OBVIOUS
  <2> HIDE DEF U, path
  <2>2. AfterLast(path, "/") \in Seq(U)
    BY <1>4, PartsAreTexts
  <2> QED BY <2>1, <2>2
<1>6. turned \in Seq(U)
  <2>1. "/" \in U
    OBVIOUS
  <2> HIDE DEF U, base
  <2>2. DOMAIN base = 1..Len(base) /\ Len(base) \in Nat /\ \A i \in 1..Len(base) : base[i] \in U
    BY <1>5
  <2>3. turned \in [1..Len(base) -> U]
    BY <2>1, <2>2
  <2> HIDE DEF turned
  <2> QED BY <2>2, <2>3
<1>7. file \in Seq(U)
  <2> HIDE DEF U, turned
  <2> QED BY <1>6, PartsAreTexts
<1> HIDE DEF file, U
<1>8. /\ Names!Ext(file) \in Seq(U) /\ Len(Names!Ext(file)) \in 0..Len(file)
      /\ Names!Ext(file) = <<>> \/ Names!Ext(file) \in Extensions(U)
  BY <1>7, ExtShape
<1>9. Names!Stem(file) \in Seq(U)
  <2> DEFINE k == Len(file) - Len(Names!Ext(file))
  <2>1. k \in 0..Len(file)
    BY <1>7, <1>8
  <2> HIDE DEF k
  <2>2. SubSeq(file, 1, k) \in Seq(U)
    BY <1>7, <2>1
  <2> QED BY <2>2 DEF Names!Stem, k
<1>10. \/ Names!SanitizeFilename(name) = <<"resume">>
       \/ Names!SanitizeFilename(name) = Names!Cleaned(Names!Stem(file)) \o ext
  BY <1>1 DEF Names!SanitizeFilename, Names!Resume
<1>11. ext = <<>> \/ ext \in Extensions(U)
  BY <1>8
<1>12. ext = <<>> => Names!Cleaned(Names!Stem(file)) \o ext = Names!Cleaned(Names!Stem(file))
  <2>1. Names!Cleaned(Names!Stem(file)) \in Seq(Names!Safe)
    BY <1>9, CleanedIs
  <2> QED BY <2>1
<1> HIDE DEF ext
<1> QED BY <1>9, <1>10, <1>11, <1>12 DEF U

\* A name that is accepted is safe, short and of the type of the content.
LEMMA AcceptedName ==
  ASSUME NEW T, NEW upload_name \in Seq(T), NEW content,
         Names!FormatOf(Names!SanitizeFilename(upload_name), content)
  PROVE  LET name == Names!SanitizeFilename(upload_name)
         IN /\ name \in Seq(Names!Safe) /\ name[1] # "." /\ Len(name) <= MaxBase + 2
            /\ Names!Ext(name) = <<".", content>>
<1> DEFINE name == Names!SanitizeFilename(upload_name)
           U == T \cup {"/"}
<1>1. /\ Names!Ext(name) = <<".", content>>
      /\ <<".", content>> \in Extensions(Names!Safe)
  BY AcceptedExt
<1>2. PICK stem \in Seq(U) :
        name = Names!Cleaned(stem) \/ \E e \in Extensions(U) : name = Names!Cleaned(stem) \o e
  <2>1. name # <<"resume">>
    <3> SUFFICES ASSUME name = <<"resume">> PROVE FALSE
      OBVIOUS
    <3>1. <<"resume">> \in Seq({"resume"}) /\ Len(<<"resume">>) = 1
      OBVIOUS
    <3>2. Len(Names!Ext(<<"resume">>)) \in 0..1
      BY <3>1, ExtShape
    <3> HIDE DEF name
    <3>3. Len(<<".", content>>) \in 0..1
      BY <1>1, <3>2
    <3> QED BY <3>3
  <2> QED BY <2>1, SanitizedIs
<1> DEFINE clean == Names!Cleaned(stem)
<1>3. clean \in Seq(Names!Safe) /\ Len(clean) \in 1..MaxBase /\ clean[1] # "."
  BY CleanedIs
<1>4. MaxBase \in Nat
  BY MaxBaseAssumption
<1> HIDE DEF name, clean
<1>5. ASSUME name = clean
      PROVE  name \in Seq(Names!Safe) /\ name[1] # "." /\ Len(name) <= MaxBase + 2
  BY <1>3, <1>4, <1>5
<1>6. ASSUME NEW e \in Extensions(U), name = clean \o e
      PROVE  /\ name \in Seq(Names!Safe) /\ name[1] # "." /\ Len(name) <= MaxBase + 2
  <2>1. e = <<".", content>>
    <3> DEFINE V == Names!Safe \cup U
    <3>1. clean \in Seq(V)
      <4>1. \A i \in 1..Len(clean) : clean[i] \in V
        BY <1>3
      <4> QED BY <1>3, <4>1
    <3>2. e \in Extensions(V)
      <4>1. e \in Seq(U)
        BY DEF Extensions
      <4>2. \A i \in 1..Len(e) : e[i] \in V
        BY <4>1
      <4>3. e \in Seq(V)
        BY <4>1, <4>2
      <4> QED BY <4>3 DEF Extensions
    <3> HIDE DEF V
    <3>3. Names!Ext(clean \o e) = e
      BY <3>1, <3>2, ExtOfAppended
    <3> QED BY <1>1, <1>6, <3>3
  <2>2. <<".", content>> \in Seq(Names!Safe) /\ Len(<<".", content>>) = 2
    BY <1>1 DEF Extensions
  <2>3. name = clean \o <<".", content>>
    BY <1>6, <2>1
  <2>4. /\ name \in Seq(Names!Safe) /\ Len(name) = Len(clean) + 2 /\ name[1] = clean[1]
    BY <1>3, <2>2, <2>3
  <2> QED BY <1>3, <1>4, <2>4
<1>7. name \in Seq(Names!Safe) /\ name[1] # "." /\ Len(name) <= MaxBase + 2
  BY <1>2, <1>5, <1>6 DEF clean
<1> QED BY <1>1, <1>7 DEF name

\* Cleaning a safe name again leaves its extension.
LEMMA CleanedAgain ==
  ASSUME NEW name \in Seq(Names!Safe), NEW content,
         Names!Ext(name) = <<".", content>>, <<".", content>> \in Extensions(Names!Safe)
  PROVE  Names!Ext(Names!SanitizeFilename(name)) = <<".", content>>
<1> DEFINE e == <<".", content>>
<1>1. Len(e) = 2 /\ Len(e) \in 0..Len(name)
  BY ExtShape
<1>2. name # <<>> /\ name # <<".">> /\ e # <<".">>
  <2>1. Len(<<>>) = 0 /\ Len(<<".">>) = 1
    OBVIOUS
  <2> QED BY <1>1, <2>1
<1>3. Names!Trim(name, {" "}) = name /\ Names!FileOf(name) = name
  BY <1>2, SafeFile
<1>4. Names!SanitizeFilename(name) = Names!Cleaned(Names!Stem(name)) \o e
  BY <1>2, <1>3 DEF Names!SanitizeFilename
<1>5. Names!Stem(name) \in Seq(Names!Safe)
  <2> DEFINE k == Len(name) - Len(e)
  <2>1. k \in 0..Len(name)
    BY <1>1
  <2> HIDE DEF k
  <2>2. SubSeq(name, 1, k) \in Seq(Names!Safe)
    BY <2>1
  <2> QED BY <2>2 DEF Names!Stem, k
<1>6. Names!Cleaned(Names!Stem(name)) \in Seq(Names!Safe)
  BY <1>5, CleanedIs
<1> QED BY <1>4, <1>6, ExtOfAppended

\* The upload is a request, and the stored name is as the two properties say.
NamesRight ==
  /\ part = "name" => upload.name \in Seq(Symbols)
  /\ AcceptedNameIsSafe /\ TypeMatchesContent

LEMMA NamesInvariant == Spec => []NamesRight
<1>1. Init => NamesRight
  <2> SUFFICES ASSUME Init PROVE NamesRight
    OBVIOUS
  <2>1. outcome = Names!Pending
    BY DEF Init, Names!Init, NoName
  <2>2. ~Names!IsStored
    BY <2>1 DEF Names!IsStored, Names!Pending
  <2>3. ASSUME part = "name" PROVE upload.name \in Seq(Symbols)
    <3>1. upload \in [name : Names!BoundedSeq(Symbols, MaxName), content : Contents]
      BY <2>3 DEF Init, Names!Init
    <3>2. PICK m \in 0..MaxName : upload.name \in [1..m -> Symbols]
      BY <3>1 DEF Names!BoundedSeq, Names!SeqOf
    <3> QED BY <3>2
  <2> QED BY <2>2, <2>3 DEF NamesRight, AcceptedNameIsSafe, TypeMatchesContent,
                            Names!AcceptedNameIsSafe, Names!TypeMatchesContent
<1>2. NamesRight /\ [Next]_vars => NamesRight'
  <2> SUFFICES ASSUME NamesRight, [Next]_vars PROVE NamesRight'
    OBVIOUS
  <2>1. ASSUME part = "name", Names!Accept, UNCHANGED part PROVE NamesRight'
    <3> DEFINE name == Names!SanitizeFilename(upload.name)
    <3>1. /\ Names!FormatOf(name, upload.content) /\ UNCHANGED upload
          /\ outcome' = Names!Stored(name, Names!GenerateResumeKey(name))
      BY <2>1 DEF Names!Accept
    <3>2. upload.name \in Seq(Symbols)
      BY <2>1 DEF NamesRight
    <3>3. /\ name \in Seq(Names!Safe) /\ name[1] # "." /\ Len(name) <= MaxBase + 2
          /\ Names!Ext(name) = <<".", upload.content>>
      BY <3>1, <3>2, AcceptedName
    <3>4. <<".", upload.content>> \in Extensions(Names!Safe)
      BY <3>1, AcceptedExt
    <3>5. Names!Ext(Names!SanitizeFilename(name)) = <<".", upload.content>>
      <4> HIDE DEF name
      <4> QED BY <3>3, <3>4, CleanedAgain
    <3> HIDE DEF name
    <3>6. outcome'.name = name /\ outcome'.key[4] = Names!SanitizeFilename(name)
      BY <3>1 DEF Names!Stored, Names!GenerateResumeKey
    <3>7. AcceptedNameIsSafe'
      <4>1. Names!ToSet(name) \subseteq Names!Safe
        BY <3>3 DEF Names!ToSet
      <4> QED BY <3>3, <3>6, <4>1 DEF AcceptedNameIsSafe, Names!AcceptedNameIsSafe
    <3>8. TypeMatchesContent'
      BY <3>1, <3>3, <3>5, <3>6 DEF TypeMatchesContent, Names!TypeMatchesContent
    <3> QED BY <2>1, <3>1, <3>7, <3>8 DEF NamesRight
  <2>2. ASSUME Names!Refuse, UNCHANGED part PROVE NamesRight'
    <3>1. outcome' = Names!Refused /\ UNCHANGED upload
      BY <2>2 DEF Names!Refuse
    <3>2. ~Names!IsStored'
      BY <3>1 DEF Names!IsStored, Names!Refused
    <3> QED BY <2>2, <3>1, <3>2
            DEF NamesRight, AcceptedNameIsSafe, TypeMatchesContent,
                Names!AcceptedNameIsSafe, Names!TypeMatchesContent
  <2>3. CASE UNCHANGED <<part, ofNames>>
    BY <2>3 DEF NamesRight, ofNames, AcceptedNameIsSafe, TypeMatchesContent, Names!IsStored,
                Names!AcceptedNameIsSafe, Names!TypeMatchesContent
  <2>4. \/ part = "name" /\ Names!Next /\ UNCHANGED part
        \/ UNCHANGED <<part, ofNames>>
    BY DEF Next, vars
  <2> QED BY <2>1, <2>2, <2>3, <2>4 DEF Names!Next
<1> QED BY <1>1, <1>2, PTL DEF Spec

\* Whatever a resume is called, the name that is stored for it is one path element of
\* safe characters, not hidden and of a length the columns take: what cleaning leaves
\* as it comes, the extension, the check of the type makes safe.
THEOREM StoredNamesAreSafe == Spec => []AcceptedNameIsSafe
  BY NamesInvariant, PTL DEF NamesRight

\* The stored name and the object's key, which is cleaned once more, end in the
\* extension of the content: cleaning does not change what is clean.
THEOREM StoredTypesMatch == Spec => []TypeMatchesContent
  BY NamesInvariant, PTL DEF NamesRight

-----------------------------------------------------------------------------
(* Slugs *)

\* How many of some positions are up to i.
Upto(S, i) == Cardinality({j \in S : j <= i})

LEMMA UptoGrows ==
  ASSUME NEW n \in Nat, NEW S \in SUBSET (1..n)
  PROVE  /\ \A i \in 0..n : Upto(S, i) \in Nat
         /\ Upto(S, 0) = 0
         /\ \A i \in 1..n : Upto(S, i) = Upto(S, i - 1) + IF i \in S THEN 1 ELSE 0
         /\ \A i, k \in 0..n : i <= k => Upto(S, i) <= Upto(S, k)
<1> DEFINE upTo(i) == {j \in S : j <= i}
<1>1. IsFiniteSet(S) /\ \A j \in S : j \in 1..n
  BY PositionsAreFinite
<1>2. ASSUME NEW i \in 0..n PROVE IsFiniteSet(upTo(i)) /\ Cardinality(upTo(i)) \in Nat
  <2>1. upTo(i) \in SUBSET S
    OBVIOUS
  <2> HIDE DEF upTo
  <2> QED BY <1>1, <2>1, FS_Subset, FS_CardinalityType
<1>3. Upto(S, 0) = 0
  <2>1. upTo(0) = {}
    <3>1. \A j \in S : ~(j <= 0)
      BY <1>1
    <3> QED BY <3>1
  <2> QED BY <2>1, FS_EmptySet DEF Upto
<1>4. ASSUME NEW i \in 1..n
      PROVE  Upto(S, i) = Upto(S, i - 1) + IF i \in S THEN 1 ELSE 0
  <2>1. i - 1 \in 0..n
    OBVIOUS
  <2>2. IsFiniteSet(upTo(i - 1)) /\ Cardinality(upTo(i - 1)) \in Nat /\ i \notin upTo(i - 1)
    <3>1. ~(i <= i - 1)
      OBVIOUS
    <3> QED BY <1>2, <2>1, <3>1
  <2>3. CASE i \in S
    <3>1. upTo(i) = upTo(i - 1) \cup {i}
      <4>1. \A j \in S : j <= i <=> j <= i - 1 \/ j = i
        BY <1>1
      <4> QED BY <2>3, <4>1
    <3> HIDE DEF upTo
    <3>2. Cardinality(upTo(i)) = Cardinality(upTo(i - 1)) + 1
      BY <2>2, <3>1, FS_AddElement
    <3> QED BY <2>3, <3>2 DEF Upto, upTo
  <2>4. CASE i \notin S
    <3>1. upTo(i) = upTo(i - 1)
      <4>1. \A j \in S : j <= i <=> j <= i - 1
        BY <1>1, <2>4
      <4> QED BY <4>1
    <3> HIDE DEF upTo
    <3>2. Cardinality(upTo(i)) = Cardinality(upTo(i - 1)) + 0
      BY <2>2, <3>1
    <3> QED BY <2>4, <3>2 DEF Upto, upTo
  <2> QED BY <2>3, <2>4
<1>5. ASSUME NEW i \in 0..n, NEW k \in 0..n, i <= k PROVE Upto(S, i) <= Upto(S, k)
  <2>1. upTo(i) \in SUBSET upTo(k)
    <3>1. \A j \in S : j <= i => j <= k
      BY <1>1, <1>5
    <3> QED BY <3>1
  <2> HIDE DEF upTo
  <2>2. Cardinality(upTo(i)) <= Cardinality(upTo(k))
    BY <1>2, <2>1, FS_Subset
  <2> QED BY <2>2 DEF Upto, upTo
<1>6. \A i \in 0..n : Upto(S, i) \in Nat
  BY <1>2 DEF Upto
<1> QED BY <1>3, <1>4, <1>5, <1>6

LEMMA UptoNext ==
  ASSUME NEW n \in Nat, NEW S \in SUBSET (1..n), NEW i \in 1..n
  PROVE  Upto(S, i) = Upto(S, i - 1) + IF i \in S THEN 1 ELSE 0
<1>1. \A k \in 1..n : Upto(S, k) = Upto(S, k - 1) + IF k \in S THEN 1 ELSE 0
  BY UptoGrows
<1> QED BY <1>1

\* A position is the one its number names.
LEMMA NthOfUpto ==
  ASSUME NEW n \in Nat, NEW S \in SUBSET (1..n), NEW i \in S
  PROVE  Upto(S, i) \in 1..Cardinality(S) /\ Nth(S, Upto(S, i)) = i
<1>1. \A j \in S : j \in 1..n
  OBVIOUS
<1>2. IsFiniteSet(S) /\ Cardinality(S) \in Nat
  BY PositionsAreFinite
<1>3. \A j, k \in S : j < k => Upto(S, j) < Upto(S, k)
  <2> SUFFICES ASSUME NEW j \in S, NEW k \in S, j < k PROVE Upto(S, j) < Upto(S, k)
    OBVIOUS
  <2>1. k \in 1..n /\ k - 1 \in 0..n /\ j \in 0..n /\ j <= k - 1 /\ k \in 0..n
    BY <1>1
  <2>2. /\ Upto(S, j) <= Upto(S, k - 1) /\ Upto(S, k) = Upto(S, k - 1) + 1
        /\ Upto(S, j) \in Nat /\ Upto(S, k - 1) \in Nat
    BY <2>1, UptoGrows
  <2> QED BY <2>2
<1>4. Upto(S, i) \in 1..Cardinality(S)
  <2>1. i \in 1..n /\ i - 1 \in 0..n
    BY <1>1
  <2>2. Upto(S, i) = Upto(S, i - 1) + 1 /\ Upto(S, i - 1) \in Nat
    BY <2>1, UptoGrows
  <2>3. Upto(S, i) <= Cardinality(S)
    <3> DEFINE upTo == {j \in S : j <= i}
    <3>1. upTo \in SUBSET S
      OBVIOUS
    <3> HIDE DEF upTo
    <3>2. Cardinality(upTo) <= Cardinality(S)
      BY <1>2, <3>1, FS_Subset
    <3> QED BY <3>2 DEF Upto, upTo
  <2> QED BY <1>2, <2>2, <2>3
<1>5. PICK k \in S : k = Nth(S, Upto(S, i)) /\ Upto(S, k) = Upto(S, i)
  BY <1>4, NthIs DEF Upto
<1>6. ~(k < i) /\ ~(i < k)
  <2>1. Upto(S, i) \in Nat /\ Upto(S, k) \in Nat
    <3>1. i \in 0..n /\ k \in 0..n
      BY <1>1
    <3> QED BY <3>1, UptoGrows
  <2> QED BY <1>3, <1>5, <2>1
<1> QED BY <1>1, <1>4, <1>5, <1>6

\* Of the letters of a text, at the positions A: what the loop keeps is those and the
\* position after each stretch; a word starts where the position before is no letter.
Kept(A, n) == {k \in 1..n : k \in A \/ k - 1 \in A}
Starts(A) == {k \in A : k - 1 \notin A}

\* Up to a letter the loop has kept as many hyphens as words started, but one.
LEMMA KeptAre ==
  ASSUME NEW n \in Nat, NEW A \in SUBSET (1..n)
  PROVE  \A i \in 0..n : Upto(Kept(A, n), i)
                           = Upto(A, i) + Upto(Starts(A), i) - IF i \in A THEN 1 ELSE 0
<1> DEFINE K == Kept(A, n)
           W == Starts(A)
           Right(i) == Upto(K, i) = Upto(A, i) + Upto(W, i) - IF i \in A THEN 1 ELSE 0
           Wrong == {i \in 0..n : ~Right(i)}
<1>1. K \in SUBSET (1..n) /\ W \in SUBSET (1..n)
  BY DEF Kept, Starts
<1>2. \A i \in 1..n : /\ i \in K <=> i \in A \/ i - 1 \in A
                      /\ i \in W <=> i \in A /\ i - 1 \notin A
  BY DEF Kept, Starts
<1>3. 0 \notin A
  OBVIOUS
<1> HIDE DEF K, W
<1>4. Right(0)
  BY <1>1, <1>3, UptoGrows
<1>5. ASSUME NEW i \in 1..n, Right(i - 1) PROVE Right(i)
  <2>1. /\ Upto(K, i) = Upto(K, i - 1) + IF i \in K THEN 1 ELSE 0
        /\ Upto(A, i) = Upto(A, i - 1) + IF i \in A THEN 1 ELSE 0
        /\ Upto(W, i) = Upto(W, i - 1) + IF i \in W THEN 1 ELSE 0
    BY <1>1, UptoNext
  <2>2. i - 1 \in 0..n
    OBVIOUS
  <2>3. Upto(K, i - 1) \in Nat /\ Upto(A, i - 1) \in Nat /\ Upto(W, i - 1) \in Nat
    BY <1>1, <2>2, UptoGrows
  <2> QED BY <1>2, <1>5, <2>1, <2>3
<1>6. Wrong = {}
  <2> SUFFICES ASSUME Wrong # {} PROVE FALSE
    OBVIOUS
  <2>1. Wrong \in SUBSET Nat
    OBVIOUS
  <2>2. PICK m \in Wrong : \A i \in Wrong : m <= i
    <3> HIDE DEF Wrong
    <3> QED BY <2>1, LeastExists
  <2>3. m \in 1..n
    BY <1>4
  <2>4. Right(m - 1)
    <3>1. m - 1 \in 0..n /\ ~(m <= m - 1)
      BY <2>3
    <3>2. m - 1 \notin Wrong
      BY <2>2, <3>1
    <3> HIDE DEF Right
    <3> QED BY <3>1, <3>2
  <2> HIDE DEF Right
  <2> QED BY <1>5, <2>3, <2>4
<1>7. \A i \in 0..n : Right(i)
  <2> HIDE DEF Right
  <2> QED BY <1>6
<1> QED BY <1>7 DEF K, W

\* Leaving out what is around the letters changes no number.
LEMMA KeptShift ==
  ASSUME NEW m \in Nat, NEW a \in 1..m, NEW b \in 1..m, a <= b,
         NEW A \in SUBSET (a..b), NEW i \in a..b
  PROVE  LET B == {k \in 1..(b - a + 1) : k + a - 1 \in A}
         IN Upto(Kept(B, b - a + 1), i - a + 1) = Upto(Kept(A, m), i)
<1> DEFINE n == b - a + 1
           B == {k \in 1..n : k + a - 1 \in A}
           P == {j \in Kept(B, n) : j <= i - a + 1}
           Q == {j \in Kept(A, m) : j <= i}
           f == [j \in P |-> j + a - 1]
<1>1. n \in Nat /\ P \in SUBSET (1..n)
  BY DEF Kept
<1>2. \A j \in 1..n : /\ j + a - 1 \in 1..m
                      /\ j \in B <=> j + a - 1 \in A
                      /\ j - 1 \in B <=> j + a - 2 \in A
  <2> SUFFICES ASSUME NEW j \in 1..n
               PROVE  /\ j + a - 1 \in 1..m
                      /\ j \in B <=> j + a - 1 \in A
                      /\ j - 1 \in B <=> j + a - 2 \in A
    OBVIOUS
  <2>1. j + a - 1 \in 1..m /\ (j \in B <=> j + a - 1 \in A)
    OBVIOUS
  <2>2. CASE j = 1
    <3>1. j - 1 \notin B /\ j + a - 2 \notin A
      BY <2>2
    <3> QED BY <2>1, <3>1
  <2>3. CASE j # 1
    <3>1. j - 1 \in 1..n /\ (j - 1) + a - 1 = j + a - 2
      BY <2>3
    <3>2. j - 1 \in B <=> j + a - 2 \in A
      BY <3>1
    <3> QED BY <2>1, <3>2
  <2> QED BY <2>2, <2>3
<1>3. \A j \in 1..n : j \in P <=> j + a - 1 \in Q
  <2> SUFFICES ASSUME NEW j \in 1..n PROVE j \in P <=> j + a - 1 \in Q
    OBVIOUS
  <2>1. j \in P <=> (j \in B \/ j - 1 \in B) /\ j <= i - a + 1
    BY DEF Kept
  <2>2. j + a - 1 \in Q <=> (j + a - 1 \in A \/ (j + a - 1) - 1 \in A) /\ j + a - 1 <= i
    BY <1>2 DEF Kept
  <2>3. (j + a - 1) - 1 = j + a - 2 /\ (j <= i - a + 1 <=> j + a - 1 <= i)
    OBVIOUS
  <2> HIDE DEF P, Q, B
  <2> QED BY <1>2, <2>1, <2>2, <2>3
<1>4. \A k \in Q : k - a + 1 \in 1..n /\ (k - a + 1) + a - 1 = k
  <2> SUFFICES ASSUME NEW k \in Q PROVE k - a + 1 \in 1..n /\ (k - a + 1) + a - 1 = k
    OBVIOUS
  <2>1. k \in 1..m /\ k <= i /\ (k \in A \/ k - 1 \in A)
    BY DEF Kept
  <2>2. k >= a
    BY <2>1
  <2> QED BY <2>1, <2>2
<1> HIDE DEF P, Q, B, n
<1>5. f \in Bijection(P, Q)
  <2>1. f \in [P -> Q]
    BY <1>1, <1>3
  <2>2. \A j, k \in P : f[j] = f[k] => j = k
    <3>1. \A j \in P : j \in Int
      BY <1>1
    <3> QED BY <3>1
  <2>3. \A k \in Q : \E j \in P : f[j] = k
    <3> SUFFICES ASSUME NEW k \in Q PROVE \E j \in P : f[j] = k
      OBVIOUS
    <3>1. k - a + 1 \in P
      BY <1>3, <1>4
    <3> QED BY <1>4, <3>1
  <2> QED BY <2>1, <2>2, <2>3 DEF Bijection, Injection, Surjection, IsInjective
<1>6. IsFiniteSet(P)
  BY <1>1, PositionsAreFinite
<1>7. ExistsBijection(P, Q)
  BY <1>5 DEF ExistsBijection
<1>8. Cardinality(P) = Cardinality(Q)
  BY <1>6, <1>7, FS_Bijection
<1> QED BY <1>8 DEF Upto, P, Q, B, n

\* What the loop writes of a text with letters at A: at the number of each letter that
\* letter, no hyphen at the beginning, and no two together.
LEMMA HyphenatedIs ==
  ASSUME NEW T, NEW s \in Seq(T)
  PROVE  LET n == Len(s)
             A == {i \in 1..n : s[i] \in Lower}
             h == Titles!Hyphenated(s)
         IN /\ h \in Seq(Lower \cup {"-"})
            /\ h # <<>> => h[1] # "-"
            /\ \A k \in 1..(Len(h) - 1) : ~(h[k] = "-" /\ h[k + 1] = "-")
            /\ \A i \in A : /\ Upto(Kept(A, n), i) \in 1..Len(h)
                            /\ h[Upto(Kept(A, n), i)] = s[i]
<1> DEFINE n == Len(s)
           A == {i \in 1..n : s[i] \in Lower}
           K == Kept(A, n)
           c == Cardinality(K)
           g == [i \in DOMAIN s |-> IF s[i] \in Lower THEN s[i] ELSE "-"]
           h == [k \in 1..c |-> g[Nth(K, k)]]
<1>1. Titles!Hyphenated(s) = h
  <2>1. {i \in DOMAIN s : s[i] \in Lower \/ (i > 1 /\ s[i - 1] \in Lower)} = K
    <3>1. DOMAIN s = 1..n /\ n \in Nat
      OBVIOUS
    <3>2. \A i \in 1..n : i \in K <=> i \in A \/ i - 1 \in A
      BY DEF Kept
    <3>3. \A i \in 1..n : i - 1 \in A <=> i > 1 /\ s[i - 1] \in Lower
      BY <3>1
    <3>4. K \subseteq 1..n
      BY DEF Kept
    <3> HIDE DEF n, K
    <3> QED BY <3>1, <3>2, <3>3, <3>4 DEF A
  <2>2. Titles!Hyphenated(s) = Titles!Selected(g, K)
    BY <2>1 DEF Titles!Hyphenated
  <2>3. Titles!Selected(g, K) = Selected(g, K)
    BY DEF Titles!Selected, Selected, Titles!Nth, Nth, Titles!Cardinality, Cardinality
  <2> HIDE DEF g, K
  <2> QED BY <2>2, <2>3 DEF Selected
<1>2. n \in Nat /\ DOMAIN s = 1..n /\ A \in SUBSET (1..n) /\ K \in SUBSET (1..n)
  BY DEF Kept
<1>3. \A i \in 1..n : i \in A <=> s[i] \in Lower
  OBVIOUS
<1>4. \A i \in 1..n : i \in K <=> i \in A \/ i - 1 \in A
  BY DEF Kept
<1>5. \A i \in 1..n : g[i] = IF i \in A THEN s[i] ELSE "-"
  BY <1>2, <1>3
<1> HIDE DEF n, A, K, g
<1>6. c \in Nat
  BY <1>2, PositionsAreFinite
<1>7. ASSUME NEW k \in 1..c
      PROVE  Nth(K, k) \in K /\ Nth(K, k) \in 1..n /\ Upto(K, Nth(K, k)) = k
  BY <1>2, NthIs DEF Upto
<1>8. \A i \in K : Upto(K, i) \in 1..c /\ Nth(K, Upto(K, i)) = i
  BY <1>2, NthOfUpto
<1> HIDE DEF c
<1>9. ASSUME NEW i \in 1..n PROVE g[i] \in Lower \cup {"-"}
  BY <1>3, <1>5
<1>10. h \in Seq(Lower \cup {"-"}) /\ Len(h) = c /\ \A k \in 1..c : h[k] = g[Nth(K, k)]
  <2>1. h \in [1..c -> Lower \cup {"-"}]
    BY <1>7, <1>9
  <2>2. \A k \in 1..c : h[k] = g[Nth(K, k)]
    OBVIOUS
  <2> HIDE DEF h
  <2> QED BY <1>6, <2>1, <2>2
<1> HIDE DEF h
<1>11. ASSUME NEW k \in 1..c, h[k] = "-"
       PROVE  k > 1 /\ h[k - 1] # "-"
  <2> DEFINE i == Nth(K, k)
  <2>1. i \in K /\ i \in 1..n /\ Upto(K, i) = k
    BY <1>7
  <2> HIDE DEF i
  <2>2. i \notin A
    <3>1. g[i] = "-"
      BY <1>10, <1>11 DEF i
    <3> QED BY <1>3, <1>5, <2>1, <3>1, LettersAssumption
  <2>3. i - 1 \in A /\ i - 1 \in 1..n
    BY <1>2, <1>4, <2>1, <2>2
  <2>4. i - 1 \in K
    BY <1>4, <2>3
  <2>5. Upto(K, i) = Upto(K, i - 1) + 1 /\ Upto(K, i - 1) \in 1..c
    BY <1>2, <1>8, <2>1, <2>4, UptoGrows
  <2>6. Upto(K, i - 1) = k - 1
    BY <1>6, <2>1, <2>5
  <2>7. k - 1 \in 1..c /\ Nth(K, k - 1) = i - 1
    BY <1>8, <2>4, <2>5, <2>6
  <2>8. h[k - 1] = s[i - 1] /\ s[i - 1] \in Lower
    BY <1>3, <1>5, <1>10, <2>3, <2>7
  <2>9. "-" \notin Lower
    BY LettersAssumption
  <2>10. k > 1
    BY <1>6, <2>7
  <2> QED BY <2>8, <2>9, <2>10
<1>12. h # <<>> => h[1] # "-"
  <2> SUFFICES ASSUME h # <<>>, h[1] = "-" PROVE FALSE
    OBVIOUS
  <2>1. 1 \in 1..c
    BY <1>6, <1>10
  <2>2. ~(1 > 1)
    OBVIOUS
  <2> QED BY <1>11, <2>1, <2>2
<1>13. \A k \in 1..(c - 1) : ~(h[k] = "-" /\ h[k + 1] = "-")
  <2> SUFFICES ASSUME NEW k \in 1..(c - 1), h[k] = "-", h[k + 1] = "-" PROVE FALSE
    OBVIOUS
  <2>1. k + 1 \in 1..c /\ (k + 1) - 1 = k
    BY <1>6
  <2> QED BY <1>11, <2>1
<1>14. \A i \in A : Upto(K, i) \in 1..c /\ h[Upto(K, i)] = s[i]
  <2> SUFFICES ASSUME NEW i \in A PROVE Upto(K, i) \in 1..c /\ h[Upto(K, i)] = s[i]
    OBVIOUS
  <2>1. i \in 1..n /\ i \in K
    BY <1>2, <1>4
  <2> QED BY <1>5, <1>8, <1>10, <2>1
<1> QED BY <1>1, <1>10, <1>12, <1>13, <1>14 DEF n, A, K

\* The conversions are those of Text.
LEMMA TitlesAreTexts ==
  ASSUME NEW s, NEW C, NEW n
  PROVE  /\ Titles!Trim(s, C) = Trim(s, C) /\ Titles!TrimRight(s, C) = TrimRight(s, C)
         /\ Titles!Cut(s, n) = Cut(s, n) /\ Titles!ToSet(s) = ToSet(s)
<1>1. Titles!Trim(s, C) = Trim(s, C)
  BY DEF Titles!Trim, Titles!SelectInSeq, Titles!SelectLastInSeq, Titles!Max, Titles!Min,
         Trim, SelectInSeq, SelectLastInSeq, Max, Min
<1>2. Titles!TrimRight(s, C) = TrimRight(s, C)
  BY DEF Titles!TrimRight, Titles!SelectLastInSeq, Titles!Max, TrimRight, SelectLastInSeq, Max
<1>3. Titles!Cut(s, n) = Cut(s, n)
  BY DEF Titles!Cut, Cut
<1>4. Titles!ToSet(s) = ToSet(s)
  BY DEF Titles!ToSet, ToSet
<1> QED BY <1>1, <1>2, <1>3, <1>4

\* A text that s begins with, as far as the limit goes, and that ends in no hyphen.
Begins(r, s) ==
  /\ r \in Seq(Lower \cup {"-"}) /\ Len(r) \in 1..Len(s) /\ Len(r) <= MaxSlug
  /\ \A k \in 1..Len(r) : r[k] = s[k]
  /\ r[Len(r)] # "-"
  /\ \A k \in 1..Len(s) : k <= MaxSlug /\ s[k] # "-" => k <= Len(r)

\* Trimming and shortening take hyphens from the end and what is over the limit.
LEMMA ShortenedBegins ==
  ASSUME NEW s \in Seq(Lower \cup {"-"}), s # <<>>, s[1] # "-"
  PROVE  Trim(s, {"-"}) # <<>> /\ Begins(Titles!Shortened(Trim(s, {"-"})), s)
<1> DEFINE text == Trim(s, {"-"})
           U == Lower \cup {"-"}
           n == Len(s)
<1>1. n \in Nat /\ 1 \in 1..n /\ MaxSlug \in Nat /\ MaxSlug >= 1
  BY MaxSlugAssumption
<1>2. PICK b \in 1..n : /\ s[b] # "-" /\ text = SubSeq(s, 1, b)
                        /\ \A k \in 1..n : s[k] # "-" => k <= b
  <2>1. PICK a \in 1..n, b \in 1..n :
          /\ s[b] \notin {"-"} /\ \A i \in 1..n : s[i] \notin {"-"} => a <= i /\ i <= b
          /\ text = SubSeq(s, a, b)
    <3>1. ~ \A i \in 1..n : s[i] \in {"-"}
      BY <1>1
    <3>2. TrimsTo(s, {"-"}, text)
      BY TrimIs
    <3> QED BY <3>1, <3>2 DEF TrimsTo
  <2>2. s[1] \notin {"-"}
    OBVIOUS
  <2>3. a <= 1
    BY <1>1, <2>1, <2>2
  <2>4. a = 1
    BY <2>3
  <2>5. \A k \in 1..n : s[k] # "-" => k <= b
    BY <2>1
  <2> QED BY <2>1, <2>4, <2>5
<1>3. text \in Seq(U) /\ Len(text) = b /\ \A k \in 1..b : text[k] = s[k]
  <2> HIDE DEF U, text
  <2> QED BY <1>2 DEF U
<1>4. text # <<>>
  BY <1>3
<1> HIDE DEF text, U, n
<1>5. CASE ~(b > MaxSlug)
  <2>1. Titles!Shortened(text) = text
    BY <1>3, <1>5 DEF Titles!Shortened
  <2>2. Begins(text, s)
    <3>1. Len(text) \in 1..Len(s) /\ Len(text) <= MaxSlug
      BY <1>1, <1>3, <1>5 DEF n
    <3> QED BY <1>2, <1>3, <3>1 DEF Begins, U, n
  <2> QED BY <1>4, <2>1, <2>2 DEF text
<1>6. CASE b > MaxSlug
  <2> DEFINE cut == SubSeq(text, 1, MaxSlug)
  <2>1. Titles!Shortened(text) = TrimRight(cut, {"-"})
    BY <1>3, <1>6, TitlesAreTexts DEF Titles!Shortened, Cut
  <2>2. cut \in Seq(U) /\ Len(cut) = MaxSlug /\ \A k \in 1..MaxSlug : cut[k] = s[k]
    <3>1. cut \in Seq(U) /\ Len(cut) = MaxSlug /\ \A k \in 1..MaxSlug : cut[k] = text[k]
      BY <1>1, <1>3, <1>6
    <3>2. \A k \in 1..MaxSlug : k \in 1..b
      BY <1>1, <1>6
    <3> HIDE DEF cut
    <3> QED BY <1>3, <3>1, <3>2
  <2> HIDE DEF cut
  <2>3. PICK e \in 0..MaxSlug : /\ e # 0 => cut[e] \notin {"-"}
                                /\ \A i \in 1..MaxSlug : i > e => cut[i] \in {"-"}
                                /\ TrimRight(cut, {"-"}) = SubSeq(cut, 1, e)
    <3> DEFINE C == {"-"}
    <3> HIDE DEF C
    <3>1. cut \in Seq(U)
      BY <2>2
    <3>2. PICK e \in 0..Len(cut) : /\ e # 0 => cut[e] \notin C
                                   /\ \A i \in 1..Len(cut) : i > e => cut[i] \in C
                                   /\ TrimRight(cut, C) = SubSeq(cut, 1, e)
      BY <3>1, TrimRightIs
    <3> QED BY <2>2, <3>2 DEF C
  <2>4. e # 0
    <3>1. 1 \in 1..MaxSlug
      BY <1>1
    <3>2. cut[1] \notin {"-"}
      BY <2>2, <3>1
    <3>3. ~(1 > e)
      BY <2>3, <3>1, <3>2
    <3> QED BY <3>3
  <2> DEFINE r == SubSeq(cut, 1, e)
  <2>5. r \in Seq(U) /\ Len(r) = e /\ \A k \in 1..e : r[k] = cut[k]
    BY <1>1, <2>2
  <2>6. \A k \in 1..e : k \in 1..MaxSlug
    <3>1. e \in Nat /\ e <= MaxSlug
      BY <1>1
    <3> QED BY <1>1, <3>1
  <2> HIDE DEF r
  <2>7. Begins(r, s)
    <3>1. e \in 1..n /\ e <= MaxSlug
      BY <1>1, <1>6, <2>4
    <3>2. \A k \in 1..e : r[k] = s[k]
      BY <2>2, <2>5, <2>6
    <3>3. r[e] # "-"
      BY <2>3, <2>4, <2>5, <3>1
    <3>4. ASSUME NEW k \in 1..n, k <= MaxSlug, s[k] # "-" PROVE k <= e
      <4>1. k \in 1..MaxSlug /\ cut[k] \notin {"-"}
        BY <1>1, <2>2, <3>4
      <4> QED BY <2>3, <4>1
    <3> QED BY <2>5, <3>1, <3>2, <3>3, <3>4 DEF Begins, U, n
  <2> QED BY <1>4, <2>1, <2>3, <2>7 DEF text, r
<1> QED BY <1>5, <1>6

\* A generated slug is valid and keeps the words, whatever the title.
LEMMA GeneratedSlug ==
  ASSUME NEW T, title \in Seq(T), slug = Titles!GenerateSlug(title)
  PROVE  SlugFitsTitle
<1> DEFINE m == Len(title)
           trimmed == Trim(title, {" "})
           text == [i \in DOMAIN trimmed |-> Titles!ToLower(trimmed[i])]
           h == Titles!Hyphenated(text)
           U == Lower \cup {"-"}
           Letters == {i \in 1..m : Titles!ToLower(title[i]) \in Lower}
<1>1. slug = IF Trim(h, {"-"}) = <<>> THEN <<"job">> ELSE Titles!Shortened(Trim(h, {"-"}))
  BY TitlesAreTexts DEF Titles!GenerateSlug, Titles!MapText, Titles!Job
<1>2. m \in Nat /\ Letters \in SUBSET (1..m) /\ MaxSlug \in Nat /\ MaxSlug >= 1
  BY MaxSlugAssumption
<1>3. Titles!ToLower(" ") = " " /\ " " \notin Lower
  BY LettersAssumption DEF Titles!ToLower
<1>4. trimmed \in Seq(T)
  BY PartsAreTexts
<1> HIDE DEF trimmed
<1>5. DOMAIN text = 1..Len(trimmed) /\ text \in Seq({Titles!ToLower(c) : c \in T})
  <2> DEFINE V == {Titles!ToLower(c) : c \in T}
  <2>1. DOMAIN trimmed = 1..Len(trimmed) /\ Len(trimmed) \in Nat
    BY <1>4
  <2>2. \A i \in 1..Len(trimmed) : Titles!ToLower(trimmed[i]) \in V
    BY <1>4
  <2> HIDE DEF V
  <2>3. text \in [1..Len(trimmed) -> V]
    BY <2>1, <2>2
  <2> HIDE DEF text
  <2>4. text \in Seq(V) /\ DOMAIN text = 1..Len(trimmed)
    BY <2>1, <2>3
  <2> QED BY <2>4 DEF V
<1>6. \A i \in 1..Len(trimmed) : text[i] = Titles!ToLower(trimmed[i])
  BY <1>5
<1> HIDE DEF text
<1> DEFINE n == Len(text)
           A == {i \in 1..n : text[i] \in Lower}
<1>7. n = Len(trimmed) /\ n \in Nat
  BY <1>4, <1>5
<1>8. /\ h \in Seq(U)
      /\ h # <<>> => h[1] # "-"
      /\ \A k \in 1..(Len(h) - 1) : ~(h[k] = "-" /\ h[k + 1] = "-")
      /\ \A i \in A : /\ Upto(Kept(A, n), i) \in 1..Len(h)
                      /\ h[Upto(Kept(A, n), i)] = text[i]
  BY <1>5, HyphenatedIs
<1> HIDE DEF h
<1>9. CASE h = <<>>
  <2>1. Trim(h, {"-"}) = <<>>
    <3>1. Len(h) = 0 /\ ~ \E a \in 1..Len(h) : TRUE
      BY <1>9
    <3>2. TrimsTo(h, {"-"}, Trim(h, {"-"}))
      BY <1>8, TrimIs
    <3> QED BY <3>1, <3>2 DEF TrimsTo
  <2>2. slug = <<"job">>
    BY <1>1, <2>1
  <2>3. Len(<<"job">>) = 1 /\ <<"job">>[1] = "job" /\ DOMAIN <<"job">> = {1} /\ "job" # "-"
    OBVIOUS
  <2>4. Titles!IsValidSlug(<<"job">>)
    <3>1. Len(<<"job">>) \in 1..MaxSlug
      BY <1>2, <2>3
    <3>2. Titles!ToSet(<<"job">>) \subseteq Lower \cup {"-", "job"}
      BY <2>3 DEF Titles!ToSet
    <3>3. 1..(Len(<<"job">>) - 1) = {}
      BY <2>3
    <3> QED BY <2>3, <3>1, <3>2, <3>3 DEF Titles!IsValidSlug
  <2> QED BY <2>2, <2>4
          DEF SlugFitsTitle, Titles!SlugFitsTitle, Titles!IsValid, Titles!KeepsWords, Titles!Job
<1>10. CASE h # <<>>
  <2>1. Begins(slug, h)
    BY <1>1, <1>8, <1>10, ShortenedBegins
  <2> DEFINE e == Len(slug)
  <2>2. /\ slug \in Seq(U) /\ e \in 1..Len(h) /\ e <= MaxSlug /\ slug[e] # "-"
        /\ \A k \in 1..e : slug[k] = h[k]
        /\ \A k \in 1..Len(h) : k <= MaxSlug /\ h[k] # "-" => k <= e
    BY <2>1 DEF Begins
  <2>3. Titles!IsValidSlug(slug)
    <3>1. e \in 1..MaxSlug /\ 1 \in 1..e
      BY <1>2, <2>2
    <3>2. Titles!ToSet(slug) \subseteq Lower \cup {"-", "job"}
      <4>1. \A k \in DOMAIN slug : slug[k] \in U
        BY <2>2
      <4> QED BY <4>1 DEF Titles!ToSet
    <3>3. slug[1] # "-"
      BY <1>8, <1>10, <2>2, <3>1
    <3>4. ASSUME NEW k \in 1..(e - 1) PROVE ~(slug[k] = "-" /\ slug[k + 1] = "-")
      <4>1. k \in 1..e /\ k + 1 \in 1..e /\ k \in 1..(Len(h) - 1)
        BY <2>2
      <4> QED BY <1>8, <2>2, <4>1
    <3> QED BY <2>2, <3>1, <3>2, <3>3, <3>4 DEF Titles!IsValidSlug
  <2>4. ASSUME NEW i \in Letters,
               Upto(Letters, i) + Upto(Starts(Letters), i) - 1 <= MaxSlug
        PROVE  LET place == Upto(Letters, i) + Upto(Starts(Letters), i) - 1
               IN place \in DOMAIN slug /\ slug[place] = Titles!ToLower(title[i])
    <3> DEFINE place == Upto(Letters, i) + Upto(Starts(Letters), i) - 1
    <3>1. PICK a \in 1..m, b \in 1..m :
            /\ a <= b /\ trimmed = SubSeq(title, a, b)
            /\ \A k \in 1..m : title[k] \notin {" "} => a <= k /\ k <= b
      <4>1. i \in 1..m /\ title[i] \notin {" "}
        BY <1>3
      <4>2. ~ \A k \in 1..m : title[k] \in {" "}
        BY <4>1
      <4>3. TrimsTo(title, {" "}, trimmed)
        BY TrimIs DEF trimmed
      <4> QED BY <4>2, <4>3 DEF TrimsTo
    <3>0. /\ a \in Nat /\ b \in Nat /\ 1 <= a /\ a <= b /\ b <= m
      <4>1. a <= b
        BY <3>1
      <4> HIDE DEF m
      <4> QED BY <1>2, <4>1
    <3>2. \A k \in Letters : k \in a..b
      <4> SUFFICES ASSUME NEW k \in Letters PROVE k \in a..b
        OBVIOUS
      <4>1. k \in 1..m /\ title[k] \notin {" "}
        BY <1>3
      <4>2. a <= k /\ k <= b
        BY <3>1, <4>1
      <4>3. k \in Int /\ a \in Int /\ b \in Int
        <5>1. k \in 1..m
          BY <4>1
        <5> HIDE DEF Letters, m
        <5> QED BY <3>0, <5>1
      <4> QED BY <4>2, <4>3
    <3>3. n = b - a + 1 /\ \A k \in 1..n : trimmed[k] = title[k + a - 1]
      <4>1. /\ Len(SubSeq(title, a, b)) = b - a + 1
            /\ \A k \in 1..(b - a + 1) : SubSeq(title, a, b)[k] = title[a + k - 1]
        BY <1>2, <3>0
      <4>2. \A k \in 1..(b - a + 1) : a + k - 1 = k + a - 1
        BY <3>0
      <4> QED BY <1>7, <3>1, <4>1, <4>2
    <3>4. A = {k \in 1..n : k + a - 1 \in Letters}
      <4>1. ASSUME NEW k \in 1..n PROVE k \in A <=> k + a - 1 \in Letters
        <5>1. k + a - 1 \in 1..m
          BY <1>2, <3>0, <3>3
        <5>2. text[k] = Titles!ToLower(title[k + a - 1])
          BY <1>6, <1>7, <3>3
        <5> QED BY <5>1, <5>2
      <4> HIDE DEF Letters, n
      <4> QED BY <4>1
    <3> DEFINE j == i - a + 1
    <3>5. i \in a..b /\ j \in 1..n /\ j + a - 1 = i
      <4>1. i \in a..b
        BY <3>2
      <4> HIDE DEF Letters, n, m
      <4> QED BY <3>0, <3>3, <4>1
    <3> HIDE DEF Letters, A, n, m
    <3>6. Upto(Kept(A, n), j) = Upto(Kept(Letters, m), i)
      <4>1. Letters \in SUBSET (a..b)
        BY <3>2
      <4> QED BY <1>2, <3>1, <3>3, <3>4, <3>5, <4>1, KeptShift
    <3>7. Upto(Kept(Letters, m), i) = place
      <4>1. i \in 0..m
        BY <1>2
      <4> QED BY <1>2, <4>1, KeptAre
    <3> HIDE DEF j
    <3>8. j \in A /\ text[j] = Titles!ToLower(title[i])
      <4>1. j \in A
        BY <3>4, <3>5
      <4>2. text[j] = Titles!ToLower(title[j + a - 1])
        BY <1>6, <1>7, <3>3, <3>5
      <4> QED BY <3>5, <4>1, <4>2
    <3>9. place \in 1..Len(h) /\ h[place] = Titles!ToLower(title[i])
      BY <1>8, <3>6, <3>7, <3>8
    <3>10. h[place] # "-"
      <4>1. Titles!ToLower(title[i]) \in Lower
        BY DEF Letters
      <4> QED BY <3>9, <4>1, LettersAssumption
    <3> HIDE DEF place
    <3>11. place <= e
      BY <2>2, <2>4, <3>9, <3>10 DEF place
    <3>12. place \in 1..e /\ DOMAIN slug = 1..e
      BY <2>2, <3>9, <3>11
    <3>13. slug[place] = h[place]
      BY <2>2, <3>12
    <3> QED BY <3>9, <3>12, <3>13 DEF place
  <2>5. ASSUME NEW i \in 1..m
        PROVE  /\ Cardinality({k \in 1..i : Titles!ToLower(title[k]) \in Lower})
                    = Upto(Letters, i)
               /\ Titles!WordsBefore(title, i) = Upto(Starts(Letters), i)
    <3>1. {k \in 1..i : Titles!ToLower(title[k]) \in Lower} = {k \in Letters : k <= i}
      BY <1>2
    <3>2. ASSUME NEW k \in 1..i
          PROVE  (\E j \in k..m : Titles!IsWord(title, k, j)) <=> k \in Starts(Letters)
      <4>1. k \in 1..m /\ (k > 1 => k - 1 \in 1..m) /\ (k > 1 <=> k - 1 # 0)
        BY <1>2
      <4>2. 0 \notin Letters
        OBVIOUS
      <4>3. k \in Starts(Letters) <=> k \in Letters /\ (k > 1 => k - 1 \notin Letters)
        <5>1. k - 1 \in Letters => k > 1
          BY <4>1, <4>2
        <5> QED BY <5>1 DEF Starts
      <4>4. ASSUME NEW j \in k..m, Titles!IsWord(title, k, j) PROVE k \in Starts(Letters)
        <5>1. k \in k..j
          BY <4>1 DEF Titles!IsWord
        <5>2. /\ Titles!ToLower(title[k]) \in Lower
              /\ k > 1 => Titles!ToLower(title[k - 1]) \notin Lower
          BY <4>4, <5>1 DEF Titles!IsWord
        <5> QED BY <4>1, <4>3, <5>2
      <4>5. ASSUME k \in Starts(Letters) PROVE \E j \in k..m : Titles!IsWord(title, k, j)
        <5> DEFINE J == {j \in k..m : \A l \in k..j : l \in Letters}
        <5>1. J \in SUBSET (1..m) /\ k \in J
          <6>1. \A l \in k..k : l = k
            BY <4>1
          <6>2. k \in k..m
            BY <4>1
          <6> QED BY <4>1, <4>3, <4>5, <6>1, <6>2
        <5>2. PICK j \in J : \A l \in J : j >= l
          <6> HIDE DEF J
          <6> QED BY <1>2, <5>1, GreatestExists
        <5>3. j \in k..m /\ k <= j /\ \A l \in k..j : Titles!ToLower(title[l]) \in Lower
          <6>1. j \in k..m /\ \A l \in k..j : l \in Letters
            OBVIOUS
          <6> QED BY <4>1, <6>1
        <5>4. ASSUME j < m PROVE Titles!ToLower(title[j + 1]) \notin Lower
          <6>1. j + 1 \in k..m /\ j + 1 \in 1..m /\ ~(j >= j + 1)
            BY <4>1, <5>3, <5>4
          <6>2. j + 1 \notin J
            BY <5>2, <6>1
          <6>3. PICK l \in k..(j + 1) : l \notin Letters
            BY <6>1, <6>2
          <6>4. l = j + 1
            <7>1. l \notin k..j
              BY <6>3
            <7> QED BY <5>3, <7>1
          <6> QED BY <6>1, <6>3, <6>4
        <5>5. k > 1 => Titles!ToLower(title[k - 1]) \notin Lower
          BY <4>1, <4>3, <4>5
        <5>6. Titles!IsWord(title, k, j)
          BY <5>3, <5>4, <5>5 DEF Titles!IsWord
        <5> QED BY <5>3, <5>6
      <4> QED BY <4>4, <4>5
    <3>3. {k \in 1..i : \E j \in k..m : Titles!IsWord(title, k, j)}
            = {k \in Starts(Letters) : k <= i}
      <4>1. \A k \in Starts(Letters) : k \in 1..m
        BY DEF Starts
      <4> QED BY <3>2, <4>1
    <3>4. \A S : Titles!Cardinality(S) = Cardinality(S)
      BY DEF Titles!Cardinality, Cardinality
    <3> QED BY <3>1, <3>3, <3>4 DEF Titles!WordsBefore, Upto
  <2>6. Titles!KeepsWords
    <3> SUFFICES ASSUME NEW i \in DOMAIN title, Titles!ToLower(title[i]) \in Lower,
                        NEW place, place <= MaxSlug,
                        place = Titles!Cardinality({k \in 1..i : Titles!ToLower(title[k]) \in Lower})
                                + Titles!WordsBefore(title, i) - 1
                 PROVE  place \in DOMAIN slug /\ slug[place] = Titles!ToLower(title[i])
      BY DEF Titles!KeepsWords
    <3>1. i \in 1..m /\ i \in Letters
      OBVIOUS
    <3>2. Titles!Cardinality({k \in 1..i : Titles!ToLower(title[k]) \in Lower})
            = Cardinality({k \in 1..i : Titles!ToLower(title[k]) \in Lower})
      BY DEF Titles!Cardinality, Cardinality
    <3>3. place = Upto(Letters, i) + Upto(Starts(Letters), i) - 1
      BY <2>5, <3>1, <3>2
    <3> QED BY <2>4, <3>1, <3>3
  <2> QED BY <2>3, <2>6 DEF SlugFitsTitle, Titles!SlugFitsTitle, Titles!IsValid
<1> QED BY <1>9, <1>10

\* The title is a request's, and the slug is none yet or the one it gets.
TitlesRight ==
  /\ part = "title" => title \in Titles!Titles
  /\ slug = <<>> \/ (part = "title" /\ slug = Titles!GenerateSlug(title))

LEMMA TitlesInvariant == Spec => []TitlesRight
<1>1. Init => TitlesRight
  BY DEF Init, Titles!Init, NoTitle, TitlesRight
<1>2. TitlesRight /\ [Next]_vars => TitlesRight'
  <2> SUFFICES ASSUME TitlesRight, [Next]_vars PROVE TitlesRight'
    OBVIOUS
  <2>1. ASSUME part = "title", Titles!Next, UNCHANGED part PROVE TitlesRight'
    BY <2>1 DEF TitlesRight, Titles!Next, Titles!CreateJob
  <2>2. CASE UNCHANGED <<part, ofSlugs>>
    BY <2>2 DEF TitlesRight, ofSlugs
  <2>3. \/ part = "title" /\ Titles!Next /\ UNCHANGED part
        \/ UNCHANGED <<part, ofSlugs>>
    BY DEF Next, vars
  <2> QED BY <2>1, <2>2, <2>3
<1> QED BY <1>1, <1>2, PTL DEF Spec

\* The slug of any title passes the validation that CreateJob makes next and has the
\* title's letters where its words put them: of any length, and wherever it is cut.
THEOREM SlugsFit == Spec => []SlugFitsTitle
<1>1. TitlesRight => SlugFitsTitle
  <2> SUFFICES ASSUME TitlesRight PROVE SlugFitsTitle
    OBVIOUS
  <2>1. CASE slug = <<>>
    BY <2>1 DEF SlugFitsTitle, Titles!SlugFitsTitle, Titles!IsValid, Titles!KeepsWords
  <2>2. CASE part = "title" /\ slug = Titles!GenerateSlug(title)
    <3> DEFINE T == Lower \cup {Upper[l] : l \in Lower} \cup Other
    <3>1. PICK k \in 0..MaxTitle : title \in [1..k -> T]
      BY <2>2 DEF TitlesRight, Titles!Titles, Titles!BoundedSeq, Titles!SeqOf
    <3>2. title \in Seq(T)
      BY <3>1
    <3> QED BY <2>2, <3>2, GeneratedSlug
  <2> QED BY <2>1, <2>2 DEF TitlesRight
<1> QED BY <1>1, TitlesInvariant, PTL

-----------------------------------------------------------------------------
(* Lists of texts: sequences put together, and symbols selected of one *)

\* Induction over positions, from the least one where a set is left.
LEMMA UpFrom ==
  ASSUME NEW n \in Nat, NEW I \in SUBSET (0..n), 0 \in I,
         \A i \in 1..n : i - 1 \in I => i \in I
  PROVE  I = 0..n
<1> DEFINE J == (0..n) \ I
<1> SUFFICES ASSUME J # {} PROVE FALSE
  OBVIOUS
<1>1. J \in SUBSET Nat
  OBVIOUS
<1>2. PICK m \in J : \A j \in J : m <= j
  <2> HIDE DEF J
  <2> QED BY <1>1, LeastExists
<1>3. m \in 1..n /\ m - 1 \in 0..n /\ ~(m <= m - 1)
  OBVIOUS
<1> QED BY <1>2, <1>3

\* FlattenSeq puts the sequences together from the left.
LEMMA FlattenSteps ==
  ASSUME NEW T, NEW ss \in Seq(Seq(T))
  PROVE  \E g \in [0..Len(ss) -> Seq(T)] :
           /\ g[0] = <<>>
           /\ \A i \in 1..Len(ss) : g[i] = g[i - 1] \o ss[i]
           /\ Texts!FlattenSeq(ss) = g[Len(ss)]
<1> DEFINE n == Len(ss)
           F(m) == {f \in [0..m -> Seq(T)] :
                      f[0] = <<>> /\ \A i \in 1..m : f[i] = f[i - 1] \o ss[i]}
<1>1. n \in Nat /\ \A i \in 1..n : ss[i] \in Seq(T)
  OBVIOUS
<1> HIDE DEF n
<1>2. F(n) # {}
  <2> DEFINE I == {m \in 0..n : F(m) # {}}
  <2>1. 0 \in I
    <3> DEFINE f == [i \in 0..0 |-> <<>>]
    <3>1. f \in F(0)
      OBVIOUS
    <3> HIDE DEF f, F
    <3>2. 0 \in 0..n /\ F(0) # {}
      BY <1>1, <3>1
    <3> QED BY <3>2
  <2>2. ASSUME NEW m \in 1..n, m - 1 \in I PROVE m \in I
    <3>1. PICK f \in F(m - 1) : TRUE
      BY <2>2
    <3>2. f[m - 1] \in Seq(T) /\ ss[m] \in Seq(T) /\ m \in 0..n
      BY <1>1, <3>1
    <3>3. f[m - 1] \o ss[m] \in Seq(T)
      BY <3>2, ConcatProperties
    <3>4. f \in [0..(m - 1) -> Seq(T)] /\ m \in Nat \ {0}
      OBVIOUS
    <3>5. PICK h \in [0..m -> Seq(T)] :
            h[m] = f[m - 1] \o ss[m] /\ \A i \in 0..(m - 1) : h[i] = f[i]
      <4> DEFINE D == Seq(T)
                 longer == f[m - 1] \o ss[m]
      <4>1. longer \in D /\ f \in [0..(m - 1) -> D]
        BY <3>3, <3>4
      <4> HIDE DEF D, longer, F
      <4> DEFINE h == [i \in 0..m |-> IF i = m THEN longer ELSE f[i]]
      <4>2. \A i \in 0..(m - 1) : i \in 0..m /\ i # m
        BY <3>4
      <4>3. \A i \in 0..m : i # m => i \in 0..(m - 1)
        BY <3>4
      <4>4. m \in 0..m
        BY <3>4
      <4>5. h \in [0..m -> D] /\ h[m] = longer
        BY <4>1, <4>3, <4>4
      <4>6. \A i \in 0..(m - 1) : h[i] = f[i]
        BY <4>2
      <4> HIDE DEF h
      <4> QED BY <4>5, <4>6 DEF D, longer
    <3>6. \A i \in 1..m : h[i] = h[i - 1] \o ss[i]
      <4> SUFFICES ASSUME NEW i \in 1..m PROVE h[i] = h[i - 1] \o ss[i]
        OBVIOUS
      <4>1. i - 1 \in 0..(m - 1) /\ (i # m => i \in 0..(m - 1) /\ i \in 1..(m - 1))
        BY <3>4
      <4>2. h[i - 1] = f[i - 1]
        BY <3>5, <4>1
      <4>3. CASE i = m
        BY <3>5, <4>2, <4>3
      <4>4. CASE i # m
        <5>1. f[i] = f[i - 1] \o ss[i]
          BY <4>1, <4>4
        <5>2. h[i] = f[i]
          BY <3>5, <4>1, <4>4
        <5> QED BY <4>2, <5>1, <5>2
      <4> QED BY <4>3, <4>4
    <3>8. h[0] = <<>>
      <4>1. f[0] = <<>> /\ 0 \in 0..(m - 1)
        BY <3>4
      <4> HIDE DEF F
      <4> QED BY <3>5, <4>1
    <3>7. h \in F(m)
      BY <3>6, <3>8
    <3> QED BY <3>2, <3>7
  <2>3. I \in SUBSET (0..n)
    OBVIOUS
  <2> HIDE DEF I
  <2>4. I = 0..n
    BY <1>1, <2>1, <2>2, <2>3, UpFrom
  <2>5. n \in I
    BY <1>1, <2>4
  <2> QED BY <2>5 DEF I
<1>3. PICK f \in F(n) : TRUE
  BY <1>2
<1>4. CASE n = 0
  <2>1. Texts!FlattenSeq(ss) = ss /\ ss = <<>>
    BY <1>4 DEF Texts!FlattenSeq, n
  <2> QED BY <1>3, <1>4, <2>1 DEF n
<1>5. CASE n # 0
  <2> DEFINE Flat(g) == g = [i \in 1..n |-> IF i = 1 THEN ss[i] ELSE g[i - 1] \o ss[i]]
             flat == CHOOSE g : Flat(g)
             g0 == [i \in 1..n |-> f[i]]
             g1 == [i \in 0..n |-> IF i = 0 THEN <<>> ELSE flat[i]]
  <2>1. Texts!FlattenSeq(ss) = flat[n]
    BY <1>5 DEF Texts!FlattenSeq, n
  <2>2. Flat(g0)
    <3> SUFFICES ASSUME NEW i \in 1..n
                 PROVE  f[i] = IF i = 1 THEN ss[i] ELSE g0[i - 1] \o ss[i]
      OBVIOUS
    <3>1. f[i] = f[i - 1] \o ss[i]
      BY <1>3
    <3>2. CASE i = 1
      <4>1. f[i - 1] = <<>> /\ ss[i] \in Seq(T)
        BY <1>1, <1>3, <3>2
      <4> QED BY <3>1, <3>2, <4>1, ConcatEmptySeq
    <3>3. CASE i # 1
      <4>1. i - 1 \in 1..n
        BY <1>1, <3>3
      <4> QED BY <3>1, <3>3, <4>1
    <3> QED BY <3>2, <3>3
  <2>3. Flat(flat)
    <3> HIDE DEF Flat, g0
    <3> QED BY <2>2
  <2> HIDE DEF flat
  <2>4. /\ DOMAIN flat = 1..n
        /\ \A i \in 1..n : flat[i] = IF i = 1 THEN ss[i] ELSE flat[i - 1] \o ss[i]
    <3> DEFINE e == [i \in 1..n |-> IF i = 1 THEN ss[i] ELSE flat[i - 1] \o ss[i]]
    <3>1. flat = e
      BY <2>3
    <3>2. DOMAIN e = 1..n
      OBVIOUS
    <3>3. \A i \in 1..n : e[i] = IF i = 1 THEN ss[i] ELSE flat[i - 1] \o ss[i]
      OBVIOUS
    <3> HIDE DEF e
    <3> QED BY <3>1, <3>2, <3>3
  <2> DEFINE I == {m \in 0..n : m # 0 => flat[m] = f[m]}
  <2>5. \A i \in 1..n : i - 1 \in I => i \in I
    <3> SUFFICES ASSUME NEW i \in 1..n, i - 1 \in I PROVE flat[i] = f[i]
      BY <1>1
    <3>1. f[i] = f[i - 1] \o ss[i]
      BY <1>3
    <3>2. CASE i = 1
      <4>1. f[i - 1] = <<>> /\ ss[i] \in Seq(T)
        BY <1>1, <1>3, <3>2
      <4> QED BY <2>4, <3>1, <3>2, <4>1, ConcatEmptySeq
    <3>3. CASE i # 1
      <4>1. i - 1 \in 1..n /\ i - 1 # 0
        BY <1>1, <3>3
      <4> QED BY <2>4, <3>1, <3>3, <4>1
    <3> QED BY <3>2, <3>3
  <2>6. I \in SUBSET (0..n) /\ 0 \in I
    BY <1>1
  <2> HIDE DEF I
  <2>7. I = 0..n
    BY <1>1, <2>5, <2>6, UpFrom
  <2>8. flat[n] = f[n]
    <3>1. n \in I
      BY <1>1, <2>7
    <3> QED BY <1>5, <3>1 DEF I
  <2> QED BY <1>3, <2>1, <2>8 DEF n
<1> QED BY <1>4, <1>5

\* A character is escaped when a backslash that is not is before it.
LEMMA EscapedAre ==
  ASSUME NEW T, NEW s \in Seq(T)
  PROVE  /\ Texts!Escaped(s) \in SUBSET (1..Len(s))
         /\ \A i \in 1..Len(s) :
              i \in Texts!Escaped(s) <=>
                i > 1 /\ s[i - 1] = Texts!Backslash /\ i - 1 \notin Texts!Escaped(s)
<1> DEFINE B(i) == s[i] = Texts!Backslash
           Run(k, i) == /\ k < i /\ \A j \in k..(i - 1) : B(j)
                        /\ k = 1 \/ ~B(k - 1)
           Odd(k, i) == (i - k) % 2 = 1
           Rec(f) == f = [i \in Nat |-> i > 1 /\ s[i - 1] = Texts!Backslash /\ ~f[i - 1]]
           h == [i \in Nat |-> \E k \in 1..(i - 1) : Run(k, i) /\ Odd(k, i)]
           after == CHOOSE f : Rec(f)
<1>1. Texts!Escaped(s) = {i \in DOMAIN s : after[i]}
  BY DEF Texts!Escaped
<1>2. ASSUME NEW i \in Nat
      PROVE  h[i] <=> i > 1 /\ s[i - 1] = Texts!Backslash /\ ~h[i - 1]
  <2>1. h[i] <=> \E k \in 1..(i - 1) : Run(k, i) /\ Odd(k, i)
    OBVIOUS
  <2>2. CASE i <= 1
    <3>1. 1..(i - 1) = {}
      BY <2>2
    <3> QED BY <2>1, <2>2, <3>1
  <2>3. CASE i > 1 /\ ~B(i - 1)
    <3>1. ASSUME NEW k \in 1..(i - 1), Run(k, i) PROVE FALSE
      <4>1. i - 1 \in k..(i - 1)
        BY <2>3
      <4> QED BY <2>3, <3>1, <4>1
    <3> QED BY <2>1, <2>3, <3>1
  <2>4. CASE i > 1 /\ B(i - 1)
    <3>1. i - 1 \in Nat
      BY <2>4
    <3>2. h[i - 1] <=> \E k \in 1..(i - 2) : Run(k, i - 1) /\ Odd(k, i - 1)
      BY <3>1
    <3> DEFINE K == {k \in 1..(i - 1) : \A j \in k..(i - 1) : B(j)}
    <3>3. K \in SUBSET Nat /\ i - 1 \in K
      BY <2>4
    <3>4. PICK k \in K : \A j \in K : k <= j
      <4> HIDE DEF K
      <4> QED BY <3>3, LeastExists
    <3>5. k \in 1..(i - 1) /\ k < i /\ \A j \in k..(i - 1) : B(j)
      BY <3>4
    <3>6. k = 1 \/ ~B(k - 1)
      <4> SUFFICES ASSUME k # 1, B(k - 1) PROVE FALSE
        OBVIOUS
      <4>1. k - 1 \in 1..(i - 1) /\ ~(k <= k - 1)
        BY <3>5
      <4>2. \A j \in (k - 1)..(i - 1) : j = k - 1 \/ j \in k..(i - 1)
        BY <3>5
      <4>3. k - 1 \in K
        BY <3>5, <4>1, <4>2
      <4> QED BY <3>4, <4>1, <4>3
    <3> HIDE DEF K
    <3>7. ASSUME NEW l \in 1..(i - 1), Run(l, i) PROVE l = k
      <4>1. ASSUME l < k PROVE FALSE
        <5>1. k - 1 \in l..(i - 1) /\ k # 1
          BY <3>5, <4>1
        <5> QED BY <3>6, <3>7, <5>1
      <4>2. ASSUME k < l PROVE FALSE
        <5>1. l - 1 \in k..(i - 1) /\ l # 1
          BY <3>5, <4>2
        <5> QED BY <3>5, <3>7, <5>1
      <4> QED BY <3>5, <4>1, <4>2
    <3>8. ASSUME NEW l \in 1..(i - 2), Run(l, i - 1) PROVE l = k
      <4>1. l \in 1..(i - 1) /\ l < i
        OBVIOUS
      <4>2. \A j \in l..(i - 1) : j = i - 1 \/ j \in l..((i - 1) - 1)
        OBVIOUS
      <4>3. Run(l, i)
        BY <2>4, <3>8, <4>1, <4>2
      <4> HIDE DEF Run
      <4> QED BY <3>7, <4>1, <4>3
    <3>9. Run(k, i)
      BY <3>5, <3>6
    <3>10. ASSUME k # i - 1 PROVE k \in 1..(i - 2) /\ Run(k, i - 1)
      <4>1. k \in 1..(i - 2) /\ k < i - 1
        BY <3>5, <3>10
      <4>2. \A j \in k..((i - 1) - 1) : j \in k..(i - 1)
        BY <3>5
      <4> QED BY <3>5, <3>6, <4>1, <4>2
    <3> HIDE DEF Run, B, h
    <3>11. h[i] <=> Odd(k, i)
      <4> HIDE DEF Odd
      <4> QED BY <2>1, <3>5, <3>7, <3>9
    <3>12. h[i - 1] <=> k # i - 1 /\ Odd(k, i - 1)
      <4>1. k # i - 1 \/ k \notin 1..(i - 2)
        OBVIOUS
      <4> HIDE DEF Odd
      <4> QED BY <3>2, <3>8, <3>10, <4>1
    <3>13. Odd(k, i) <=> ~(k # i - 1 /\ Odd(k, i - 1))
      BY <3>5
    <3> HIDE DEF Odd
    <3> QED BY <2>4, <3>11, <3>12, <3>13 DEF B
  <2> QED BY <2>2, <2>3, <2>4
<1>3. Rec(h)
  <2> DEFINE e == [i \in Nat |-> i > 1 /\ s[i - 1] = Texts!Backslash /\ ~h[i - 1]]
  <2>1. \A i \in Nat : h[i] \in BOOLEAN /\ e[i] \in BOOLEAN
    OBVIOUS
  <2>2. \A i \in Nat : h[i] <=> e[i]
    <3> HIDE DEF h
    <3> QED BY <1>2
  <2>3. \A i \in Nat : h[i] = e[i]
    <3> HIDE DEF h, e
    <3> QED BY <2>1, <2>2
  <2>4. h = [i \in Nat |-> h[i]] /\ e = [i \in Nat |-> e[i]]
    OBVIOUS
  <2>5. h = e
    <3> HIDE DEF h, e
    <3> QED BY <2>3, <2>4
  <2> QED BY <2>5
<1>4. Rec(after)
  <2> HIDE DEF Rec, h
  <2> QED BY <1>3
<1> HIDE DEF after, h
<1>5. ASSUME NEW i \in Nat
      PROVE  after[i] <=> i > 1 /\ s[i - 1] = Texts!Backslash /\ ~after[i - 1]
  <2> DEFINE e == [j \in Nat |-> j > 1 /\ s[j - 1] = Texts!Backslash /\ ~after[j - 1]]
  <2>1. after = e
    BY <1>4
  <2>2. e[i] <=> i > 1 /\ s[i - 1] = Texts!Backslash /\ ~after[i - 1]
    OBVIOUS
  <2> HIDE DEF e
  <2> QED BY <2>1, <2>2
<1>6. DOMAIN s = 1..Len(s) /\ Len(s) \in Nat
  OBVIOUS
<1>7. ASSUME NEW i \in 1..Len(s)
      PROVE  i \in Texts!Escaped(s) <=>
               i > 1 /\ s[i - 1] = Texts!Backslash /\ i - 1 \notin Texts!Escaped(s)
  <2>1. i \in Nat /\ (i > 1 => i - 1 \in 1..Len(s))
    BY <1>6
  <2>2. i \in Texts!Escaped(s) <=> after[i]
    BY <1>1, <1>6
  <2>3. i > 1 => (i - 1 \in Texts!Escaped(s) <=> after[i - 1])
    BY <1>1, <1>6, <2>1
  <2> QED BY <1>5, <2>1, <2>2, <2>3
<1> QED BY <1>1, <1>6, <1>7

\* The positions of S keep their numbers when k comes after them.
Follows(k, S) ==
  /\ Cardinality(S \cup {k}) = Cardinality(S) + 1
  /\ Nth(S \cup {k}, Cardinality(S) + 1) = k
  /\ \A j \in 1..Cardinality(S) : Nth(S, j) \in S /\ Nth(S \cup {k}, j) = Nth(S, j)

LEMMA LaterFollows ==
  ASSUME NEW n \in Nat, NEW S \in SUBSET (0..n), NEW k \in Nat, k > n
  PROVE  Follows(k, S)
<1> DEFINE R == S \cup {k}
           upTo(i) == {j \in R : j <= i}
<1>1. /\ R \in SUBSET (0..k) /\ k \notin S
      /\ \A i \in S : i <= n /\ i <= k /\ i \in Nat
  OBVIOUS
<1>2. IsFiniteSet(S) /\ Cardinality(S) \in Nat
  BY PlaceIs
<1>3. Cardinality(R) = Cardinality(S) + 1
  BY <1>1, <1>2, FS_AddElement
<1>4. \A i \in R : Nth(R, Cardinality(upTo(i))) = i
  <2> HIDE DEF R
  <2> QED BY <1>1, PlaceIs
<1>5. Nth(R, Cardinality(R)) = k
  <2>1. upTo(k) = R
    <3>1. k <= k /\ \A i \in S : i <= k
      BY <1>1
    <3> QED BY <3>1
  <2>2. k \in R
    OBVIOUS
  <2> QED BY <1>4, <2>1, <2>2
<1>6. ASSUME NEW j \in 1..Cardinality(S) PROVE Nth(S, j) \in S /\ Nth(R, j) = Nth(S, j)
  <2>1. Nth(S, j) \in S /\ Cardinality({i \in S : i <= Nth(S, j)}) = j
    BY PlaceIs
  <2>2. PICK m \in S : m = Nth(S, j)
    BY <2>1
  <2>3. upTo(m) = {i \in S : i <= m}
    <3>1. ~(k <= m)
      BY <1>1
    <3> QED BY <3>1
  <2>4. m \in R /\ Cardinality(upTo(m)) = j
    BY <2>1, <2>2, <2>3
  <2> HIDE DEF upTo, R
  <2> QED BY <1>4, <2>1, <2>2, <2>4
<1> QED BY <1>3, <1>5, <1>6 DEF Follows

\* Sequences may be put together in any order.
Associate(a, b, c) == (a \o b) \o c = a \o (b \o c)

LEMMA SequencesAssociate ==
  ASSUME NEW T, NEW a \in Seq(T), NEW b \in Seq(T), NEW c \in Seq(T)
  PROVE  Associate(a, b, c)
BY ConcatAssociative DEF Associate

\* One more symbol at the end of a text.
LEMMA OneMoreIs ==
  ASSUME NEW T, NEW s \in Seq(T), NEW c \in T
  PROVE  /\ s \o <<c>> \in Seq(T) /\ Len(s \o <<c>>) = Len(s) + 1
         /\ (s \o <<c>>)[Len(s) + 1] = c
         /\ \A i \in 1..Len(s) : (s \o <<c>>)[i] = s[i]
<1>1. <<c>> \in Seq(T) /\ Len(<<c>>) = 1 /\ <<c>>[1] = c /\ Len(s) \in Nat
  OBVIOUS
<1>2. /\ s \o <<c>> \in Seq(T) /\ Len(s \o <<c>>) = Len(s) + Len(<<c>>)
      /\ \A i \in 1..(Len(s) + Len(<<c>>)) :
           (s \o <<c>>)[i] = IF i <= Len(s) THEN s[i] ELSE <<c>>[i - Len(s)]
  BY <1>1, ConcatProperties
<1>3. Len(s) + 1 \in 1..(Len(s) + Len(<<c>>)) /\ ~(Len(s) + 1 <= Len(s))
      /\ (Len(s) + 1) - Len(s) = 1
  BY <1>1
<1>4. \A i \in 1..Len(s) : i \in 1..(Len(s) + Len(<<c>>)) /\ i <= Len(s)
  BY <1>1
<1> QED BY <1>1, <1>2, <1>3, <1>4

\* What is selected of s is the same in r, and what is last in r can be added to it.
Keeps(s, r) == \A S \in SUBSET (1..Len(s)) : Selected(r, S) = Selected(s, S)

KeepsMore(s, r, c) ==
  \A S \in SUBSET (1..Len(s)) : Selected(r, S \cup {Len(r)}) = Selected(s, S) \o <<c>>

\* So it is when a text goes on.
LEMMA SelectedMore ==
  ASSUME NEW T, NEW s \in Seq(T), NEW c \in T
  PROVE  Keeps(s, s \o <<c>>) /\ KeepsMore(s, s \o <<c>>, c)
<1> SUFFICES ASSUME NEW S \in SUBSET (1..Len(s))
             PROVE  /\ Selected(s \o <<c>>, S) = Selected(s, S)
                    /\ Selected(s \o <<c>>, S \cup {Len(s) + 1}) = Selected(s, S) \o <<c>>
  <2>1. Len(s \o <<c>>) = Len(s) + 1
    BY OneMoreIs
  <2> QED BY <2>1 DEF Keeps, KeepsMore
<1> DEFINE n == Len(s)
           r == s \o <<c>>
           m == Cardinality(S)
           R == S \cup {n + 1}
<1>1. n \in Nat /\ n + 1 \in Nat /\ n + 1 > n /\ \A i \in 1..n : s[i] \in T
  OBVIOUS
<1>2. r[n + 1] = c /\ \A i \in 1..n : r[i] = s[i]
  BY OneMoreIs
<1>3. IsFiniteSet(S) /\ m \in Nat /\ S \in SUBSET (1..n)
  BY <1>1, PositionsAreFinite
<1> HIDE DEF n, r
<1>4. /\ Cardinality(R) = m + 1 /\ Nth(R, m + 1) = n + 1
      /\ \A j \in 1..m : Nth(S, j) \in S /\ Nth(R, j) = Nth(S, j)
  <2> DEFINE k == n + 1
  <2>1. k \in Nat /\ k > n /\ n \in Nat
    BY <1>1
  <2> HIDE DEF k
  <2>3. S \in SUBSET (0..n)
    BY <1>3
  <2>2. /\ Cardinality(S \cup {k}) = Cardinality(S) + 1
        /\ Nth(S \cup {k}, Cardinality(S) + 1) = k
        /\ \A j \in 1..Cardinality(S) : Nth(S, j) \in S /\ Nth(S \cup {k}, j) = Nth(S, j)
    <3>1. Follows(k, S)
      BY <2>1, <2>3, LaterFollows
    <3> QED BY <3>1 DEF Follows
  <2> QED BY <2>2 DEF k
<1> HIDE DEF R, m
<1>5. Selected(r, S) = Selected(s, S)
  <2>1. \A j \in 1..m : r[Nth(S, j)] = s[Nth(S, j)]
    BY <1>2, <1>3, <1>4
  <2> QED BY <2>1 DEF Selected, m
<1>6. Selected(r, R) = Selected(s, S) \o <<c>>
  <2> DEFINE a == Selected(s, S)
             b == Selected(r, R)
  <2>1. a \in Seq(T) /\ Len(a) = m /\ \A j \in 1..m : a[j] = s[Nth(S, j)]
    <3>1. a = [j \in 1..m |-> s[Nth(S, j)]]
      BY DEF Selected, m
    <3>2. \A j \in 1..m : s[Nth(S, j)] \in T
      BY <1>1, <1>3, <1>4
    <3> HIDE DEF a
    <3> QED BY <1>3, <3>1, <3>2
  <2>2. b = [j \in 1..(m + 1) |-> r[Nth(R, j)]]
    BY <1>4 DEF Selected
  <2>3. \A j \in 1..m : b[j] = a[j]
    <3> SUFFICES ASSUME NEW j \in 1..m PROVE b[j] = a[j]
      OBVIOUS
    <3> HIDE DEF a, b
    <3>1. j \in 1..(m + 1)
      BY <1>3
    <3>2. Nth(S, j) \in 1..n
      BY <1>3, <1>4
    <3> QED BY <1>2, <1>4, <2>1, <2>2, <3>1, <3>2
  <2>4. b[m + 1] = c
    <3>1. m + 1 \in 1..(m + 1)
      BY <1>3
    <3> HIDE DEF b
    <3> QED BY <1>2, <1>4, <2>2, <3>1
  <2> HIDE DEF a, b
  <2>5. /\ a \o <<c>> \in Seq(T) /\ Len(a \o <<c>>) = m + 1
        /\ (a \o <<c>>)[m + 1] = c /\ \A j \in 1..m : (a \o <<c>>)[j] = a[j]
    BY <2>1, OneMoreIs
  <2>6. b \in Seq(T) /\ Len(b) = m + 1
    <3>1. \A j \in 1..(m + 1) : j \in 1..m \/ j = m + 1
      BY <1>3
    <3>2. \A j \in 1..m : a[j] \in T
      BY <2>1
    <3>3. \A j \in 1..(m + 1) : b[j] \in T
      BY <2>3, <2>4, <3>1, <3>2
    <3>4. b = [j \in 1..(m + 1) |-> b[j]]
      BY <2>2
    <3>5. b \in [1..(m + 1) -> T] /\ m + 1 \in Nat
      BY <1>3, <3>3, <3>4
    <3> QED BY <3>5
  <2>7. \A j \in 1..(m + 1) : b[j] = (a \o <<c>>)[j]
    <3>1. \A j \in 1..(m + 1) : j \in 1..m \/ j = m + 1
      BY <1>3
    <3> QED BY <2>3, <2>4, <2>5, <3>1
  <2>8. b = a \o <<c>>
    BY <2>5, <2>6, <2>7, SeqEqual
  <2> QED BY <2>8 DEF a, b
<1> QED BY <1>5, <1>6 DEF r, R, n

-----------------------------------------------------------------------------
(* How a literal is read, a symbol at a time *)

\* The signs of the format.
Signs == {Texts!Quote, Texts!Backslash}

\* A text that ends in a backslash which escapes what comes next.
Pending(s) == /\ s # <<>> /\ s[Len(s)] = Texts!Backslash
              /\ Len(s) \notin Texts!Escaped(s)

\* What a text stands for: its symbols but for the signs of the format.
Written(s) == {i \in 1..Len(s) : i \in Texts!Escaped(s) \/ s[i] \notin Signs}

\* The symbol that ends an element.
IsComma(c) == c = ","

LEMMA SignsDiffer ==
  /\ Texts!Quote # Texts!Backslash
  /\ ~IsComma(Texts!Quote) /\ ~IsComma(Texts!Backslash) /\ "," \notin Signs
  BY DEF Texts!Quote, Texts!Backslash, IsComma, Signs

\* After s, c opens or closes quotes, stands for itself, ends an element.
IsMark(s, c) == c = Texts!Quote /\ ~Pending(s)
IsWritten(s, c) == Pending(s) \/ c \notin Signs
IsBreak(s, c) == /\ IsComma(c) /\ ~Pending(s)
                 /\ Cardinality(Texts!Marks(s)) % 2 # 1

\* What the next symbol of a literal is depends on what was read before.
LEMMA OneMore ==
  ASSUME NEW T, NEW s \in Seq(T), NEW c \in T
  PROVE  LET n == Len(s) + 1
             r == s \o <<c>>
         IN /\ Texts!Escaped(r) = IF Pending(s) THEN Texts!Escaped(s) \cup {n}
                                               ELSE Texts!Escaped(s)
            /\ Pending(r) <=> c = Texts!Backslash /\ ~Pending(s)
            /\ Texts!Marks(r) = IF IsMark(s, c) THEN Texts!Marks(s) \cup {n} ELSE Texts!Marks(s)
            /\ Written(r) = IF IsWritten(s, c) THEN Written(s) \cup {n} ELSE Written(s)
            /\ Texts!Breaks(r) = IF IsBreak(s, c) THEN Texts!Breaks(s) \cup {n} ELSE Texts!Breaks(s)
<1> DEFINE n == Len(s) + 1
           r == s \o <<c>>
           E == Texts!Escaped(s)
           F == Texts!Escaped(r)
           B == Texts!Backslash
<1>1. /\ Len(s) \in Nat /\ n \in Nat \ {0} /\ n - 1 = Len(s) /\ n > Len(s)
      /\ 1..n = 1..(n - 1) \cup {n} /\ n \notin 1..(n - 1)
      /\ DOMAIN s = 1..(n - 1)
  OBVIOUS
<1>2. /\ r \in Seq(T) /\ Len(r) = n /\ r[n] = c /\ \A i \in 1..(n - 1) : r[i] = s[i]
  BY <1>1, OneMoreIs
<1>3. DOMAIN r = 1..n
  BY <1>2
<1> HIDE DEF r
<1>4. /\ E \in SUBSET (1..(n - 1))
      /\ \A i \in 1..(n - 1) : i \in E <=> i > 1 /\ s[i - 1] = B /\ i - 1 \notin E
  <2>1. Len(s) = n - 1
    BY <1>1
  <2> QED BY <2>1, EscapedAre
<1>5. /\ F \in SUBSET (1..n)
      /\ \A i \in 1..n : i \in F <=> i > 1 /\ r[i - 1] = B /\ i - 1 \notin F
  BY <1>2, EscapedAre
<1>6. Pending(s) <=> n > 1 /\ s[n - 1] = B /\ n - 1 \notin E
  <2>1. s # <<>> <=> n > 1
    OBVIOUS
  <2> QED BY <1>1, <2>1 DEF Pending
<1>7. Pending(r) <=> c = B /\ n \notin F
  <2>1. r # <<>>
    BY <1>1, <1>2
  <2> QED BY <1>2, <2>1 DEF Pending
<1> HIDE DEF n, E, F, B
<1>8. \A i \in 1..(n - 1) : i \in F <=> i \in E
  <2> DEFINE I == {i \in 0..(n - 1) : i # 0 => (i \in F <=> i \in E)}
  <2>1. ASSUME NEW i \in 1..(n - 1), i - 1 \in I PROVE i \in I
    <3>1. i \in 1..n /\ i \in 0..(n - 1)
      BY <1>1
    <3>2. i \in F <=> i > 1 /\ r[i - 1] = B /\ i - 1 \notin F
      BY <1>5, <3>1
    <3>3. i \in E <=> i > 1 /\ s[i - 1] = B /\ i - 1 \notin E
      BY <1>4
    <3>4. i > 1 => r[i - 1] = s[i - 1] /\ (i - 1 \in F <=> i - 1 \in E)
      <4> SUFFICES ASSUME i > 1 PROVE r[i - 1] = s[i - 1] /\ (i - 1 \in F <=> i - 1 \in E)
        OBVIOUS
      <4>1. i - 1 \in 1..(n - 1) /\ i - 1 # 0
        BY <1>1
      <4> QED BY <1>2, <2>1, <4>1
    <3> QED BY <3>1, <3>2, <3>3, <3>4
  <2>2. I \in SUBSET (0..(n - 1)) /\ 0 \in I /\ n - 1 \in Nat
    BY <1>1
  <2> HIDE DEF I
  <2>3. I = 0..(n - 1)
    BY <2>1, <2>2, UpFrom
  <2>4. \A i \in 1..(n - 1) : i \in I /\ i # 0
    BY <1>1, <2>3
  <2> QED BY <2>4 DEF I
<1>9. n \in F <=> Pending(s)
  <2>1. n \in 1..n
    BY <1>1
  <2>2. n \in F <=> n > 1 /\ r[n - 1] = B /\ n - 1 \notin F
    BY <1>5, <2>1
  <2>3. n > 1 => n - 1 \in 1..(n - 1)
    BY <1>1
  <2> QED BY <1>2, <1>6, <1>8, <2>2, <2>3
<1>10. F = IF Pending(s) THEN E \cup {n} ELSE E
  <2>1. \A i \in 1..n : i \in 1..(n - 1) \/ i = n
    BY <1>1
  <2>2. \A i : i \in F <=> i \in E \/ (i = n /\ Pending(s))
    BY <1>1, <1>4, <1>5, <1>8, <1>9, <2>1
  <2> QED BY <2>2
<1>11. Texts!Marks(s) = {i \in 1..(n - 1) : s[i] = Texts!Quote} \ E
  BY <1>1 DEF Texts!Marks, E
<1>12. Texts!Marks(r) = {i \in 1..n : r[i] = Texts!Quote} \ F
  BY <1>3 DEF Texts!Marks, F
<1>13. Texts!Marks(r) = IF IsMark(s, c) THEN Texts!Marks(s) \cup {n} ELSE Texts!Marks(s)
  BY <1>1, <1>2, <1>8, <1>9, <1>11, <1>12 DEF IsMark
<1>14. Written(r) = IF IsWritten(s, c) THEN Written(s) \cup {n} ELSE Written(s)
  <2>1. Written(s) = {i \in 1..(n - 1) : i \in E \/ s[i] \notin Signs}
    BY <1>1 DEF Written, E
  <2>2. Written(r) = {i \in 1..n : i \in F \/ r[i] \notin Signs}
    BY <1>2 DEF Written, F
  <2> QED BY <1>1, <1>2, <1>8, <1>9, <2>1, <2>2 DEF IsWritten
<1>15. \A i \in 1..(n - 1) : Texts!InQuotes(r, i) <=> Texts!InQuotes(s, i)
  <2> SUFFICES ASSUME NEW i \in 1..(n - 1)
               PROVE  Texts!InQuotes(r, i) <=> Texts!InQuotes(s, i)
    OBVIOUS
  <2>1. ~(n < i)
    BY <1>1
  <2>2. {m \in Texts!Marks(r) : m < i} = {m \in Texts!Marks(s) : m < i}
    BY <1>13, <2>1
  <2> QED BY <2>2 DEF Texts!InQuotes
<1>16. Texts!InQuotes(r, n) <=> Cardinality(Texts!Marks(s)) % 2 = 1
  <2>1. ~(n < n) /\ \A m \in 1..(n - 1) : m < n
    BY <1>1
  <2>2. {m \in Texts!Marks(r) : m < n} = Texts!Marks(s)
    BY <1>11, <1>13, <2>1
  <2>3. Texts!Cardinality(Texts!Marks(s)) = Cardinality(Texts!Marks(s))
    BY DEF Texts!Cardinality, Cardinality
  <2> QED BY <2>2, <2>3 DEF Texts!InQuotes
<1>17. Texts!Breaks(r) = IF IsBreak(s, c) THEN Texts!Breaks(s) \cup {n} ELSE Texts!Breaks(s)
  <2>1. Texts!Breaks(s) = {i \in 1..(n - 1) \ E : IsComma(s[i]) /\ ~Texts!InQuotes(s, i)}
    BY <1>1 DEF Texts!Breaks, E, IsComma
  <2>2. Texts!Breaks(r) = {i \in 1..n \ F : IsComma(r[i]) /\ ~Texts!InQuotes(r, i)}
    BY <1>3 DEF Texts!Breaks, F, IsComma
  <2> QED BY <1>1, <1>2, <1>8, <1>9, <1>15, <1>16, <2>1, <2>2 DEF IsBreak
<1> QED BY <1>7, <1>9, <1>10, <1>13, <1>14, <1>17 DEF n, r, E, F, B

\* How a symbol of a text is written in quotes.
Symbol(c) == IF c \in Signs THEN <<Texts!Backslash, c>> ELSE <<c>>

\* A comma only goes on with a text in quotes.
Continues(s, c) == IsComma(c) => Cardinality(Texts!Marks(s)) % 2 = 1

\* The same, one by one.
LEMMA PendingMore ==
  ASSUME NEW T, NEW s \in Seq(T), NEW c \in T
  PROVE  Pending(s \o <<c>>) <=> c = Texts!Backslash /\ ~Pending(s)
  BY OneMore

LEMMA MarksMore ==
  ASSUME NEW T, NEW s \in Seq(T), NEW c \in T
  PROVE  Texts!Marks(s \o <<c>>) = IF IsMark(s, c) THEN Texts!Marks(s) \cup {Len(s) + 1}
                                                    ELSE Texts!Marks(s)
  BY OneMore

LEMMA WrittenMore ==
  ASSUME NEW T, NEW s \in Seq(T), NEW c \in T
  PROVE  Written(s \o <<c>>) = IF IsWritten(s, c) THEN Written(s) \cup {Len(s) + 1} ELSE Written(s)
  BY OneMore

LEMMA BreaksMore ==
  ASSUME NEW T, NEW s \in Seq(T), NEW c \in T
  PROVE  Texts!Breaks(s \o <<c>>) = IF IsBreak(s, c) THEN Texts!Breaks(s) \cup {Len(s) + 1}
                                                     ELSE Texts!Breaks(s)
  BY OneMore

\* What is read next, one kind of symbol at a time.
LEMMA PlainIsRead ==
  ASSUME NEW T, NEW s \in Seq(T), NEW c \in T, c \notin Signs, ~Pending(s), Continues(s, c)
  PROVE  /\ ~Pending(s \o <<c>>) /\ Texts!Marks(s \o <<c>>) = Texts!Marks(s)
         /\ Texts!Breaks(s \o <<c>>) = Texts!Breaks(s)
         /\ Written(s \o <<c>>) = Written(s) \cup {Len(s) + 1}
<1>1. c # Texts!Quote /\ c # Texts!Backslash
  BY DEF Signs
<1>2. ~Pending(s \o <<c>>)
  BY <1>1, PendingMore
<1>3. Texts!Marks(s \o <<c>>) = Texts!Marks(s)
  BY <1>1, MarksMore DEF IsMark
<1>4. Texts!Breaks(s \o <<c>>) = Texts!Breaks(s)
  BY BreaksMore DEF IsBreak, Continues
<1>5. Written(s \o <<c>>) = Written(s) \cup {Len(s) + 1}
  BY WrittenMore DEF IsWritten
<1> QED BY <1>2, <1>3, <1>4, <1>5

LEMMA MarkIsRead ==
  ASSUME NEW T, NEW s \in Seq(T), NEW c \in T, c = Texts!Quote, ~Pending(s)
  PROVE  /\ ~Pending(s \o <<c>>)
         /\ Texts!Marks(s \o <<c>>) = Texts!Marks(s) \cup {Len(s) + 1}
         /\ Texts!Breaks(s \o <<c>>) = Texts!Breaks(s)
         /\ Written(s \o <<c>>) = Written(s)
<1>1. c # Texts!Backslash /\ ~IsComma(c) /\ c \in Signs
  BY SignsDiffer DEF Signs
<1>2. ~Pending(s \o <<c>>)
  BY <1>1, PendingMore
<1>3. Texts!Marks(s \o <<c>>) = Texts!Marks(s) \cup {Len(s) + 1}
  BY MarksMore DEF IsMark
<1>4. Texts!Breaks(s \o <<c>>) = Texts!Breaks(s)
  BY <1>1, BreaksMore DEF IsBreak
<1>5. Written(s \o <<c>>) = Written(s)
  BY <1>1, WrittenMore DEF IsWritten
<1> QED BY <1>2, <1>3, <1>4, <1>5

LEMMA BackslashIsRead ==
  ASSUME NEW T, NEW s \in Seq(T), NEW c \in T, c = Texts!Backslash, ~Pending(s)
  PROVE  /\ Pending(s \o <<c>>) /\ Texts!Marks(s \o <<c>>) = Texts!Marks(s)
         /\ Texts!Breaks(s \o <<c>>) = Texts!Breaks(s)
         /\ Written(s \o <<c>>) = Written(s)
<1>1. c # Texts!Quote /\ ~IsComma(c) /\ c \in Signs
  BY SignsDiffer DEF Signs
<1>2. Pending(s \o <<c>>)
  BY PendingMore
<1>3. Texts!Marks(s \o <<c>>) = Texts!Marks(s)
  BY <1>1, MarksMore DEF IsMark
<1>4. Texts!Breaks(s \o <<c>>) = Texts!Breaks(s)
  BY <1>1, BreaksMore DEF IsBreak
<1>5. Written(s \o <<c>>) = Written(s)
  BY <1>1, WrittenMore DEF IsWritten
<1> QED BY <1>2, <1>3, <1>4, <1>5

LEMMA EscapedIsRead ==
  ASSUME NEW T, NEW s \in Seq(T), NEW c \in T, Pending(s)
  PROVE  /\ ~Pending(s \o <<c>>) /\ Texts!Marks(s \o <<c>>) = Texts!Marks(s)
         /\ Texts!Breaks(s \o <<c>>) = Texts!Breaks(s)
         /\ Written(s \o <<c>>) = Written(s) \cup {Len(s) + 1}
<1>2. ~Pending(s \o <<c>>)
  BY PendingMore
<1>3. Texts!Marks(s \o <<c>>) = Texts!Marks(s)
  BY MarksMore DEF IsMark
<1>4. Texts!Breaks(s \o <<c>>) = Texts!Breaks(s)
  BY BreaksMore DEF IsBreak
<1>5. Written(s \o <<c>>) = Written(s) \cup {Len(s) + 1}
  BY WrittenMore DEF IsWritten
<1> QED BY <1>2, <1>3, <1>4, <1>5

LEMMA CommaIsRead ==
  ASSUME NEW T, NEW s \in Seq(T), NEW c \in T, IsComma(c), ~Pending(s),
         Cardinality(Texts!Marks(s)) % 2 # 1
  PROVE  /\ ~Pending(s \o <<c>>) /\ Texts!Marks(s \o <<c>>) = Texts!Marks(s)
         /\ Texts!Breaks(s \o <<c>>) = Texts!Breaks(s) \cup {Len(s) + 1}
         /\ Written(s \o <<c>>) = Written(s) \cup {Len(s) + 1}
<1>1. c # Texts!Quote /\ c # Texts!Backslash /\ c \notin Signs
  BY SignsDiffer DEF Signs
<1>2. ~Pending(s \o <<c>>)
  BY <1>1, PendingMore
<1>3. Texts!Marks(s \o <<c>>) = Texts!Marks(s)
  BY <1>1, MarksMore DEF IsMark
<1>4. Texts!Breaks(s \o <<c>>) = Texts!Breaks(s) \cup {Len(s) + 1}
  BY BreaksMore DEF IsBreak
<1>5. Written(s \o <<c>>) = Written(s) \cup {Len(s) + 1}
  BY <1>1, WrittenMore DEF IsWritten
<1> QED BY <1>2, <1>3, <1>4, <1>5

\* A literal r that goes on from s, by a symbol, or by a text.
GoesOn(s, r) ==
  /\ Len(r) >= Len(s) /\ \A i \in 1..Len(s) : r[i] = s[i]
  /\ ~Pending(r)
  /\ Keeps(s, r)

AddsSymbol(s, r, c) ==
  /\ GoesOn(s, r) /\ Len(r) > Len(s)
  /\ Texts!Marks(r) = Texts!Marks(s) /\ Texts!Breaks(r) = Texts!Breaks(s)
  /\ Written(r) = Written(s) \cup {Len(r)}
  /\ KeepsMore(s, r, c)

AddsText(s, r, text) ==
  /\ GoesOn(s, r)
  /\ Texts!Breaks(r) = Texts!Breaks(s)
  /\ \E W \in SUBSET ((Len(s) + 1)..Len(r)) :
       Written(r) = Written(s) \cup W /\ Selected(r, W) = text

\* A symbol that is written is read as itself, and as nothing else.
LEMMA SymbolIsRead ==
  ASSUME NEW T, Signs \subseteq T, NEW s \in Seq(T), NEW c \in T, ~Pending(s),
         Continues(s, c)
  PROVE  s \o Symbol(c) \in Seq(T) /\ AddsSymbol(s, s \o Symbol(c), c)
<1> DEFINE r == s \o Symbol(c)
           B == Texts!Backslash
<1>1. CASE c \notin Signs
  <2>1. r = s \o <<c>>
    BY <1>1 DEF Symbol
  <2>3. r \in Seq(T) /\ Len(r) = Len(s) + 1 /\ \A i \in 1..Len(s) : r[i] = s[i]
    BY <2>1, OneMoreIs
  <2>4. /\ ~Pending(r) /\ Texts!Marks(r) = Texts!Marks(s)
        /\ Texts!Breaks(r) = Texts!Breaks(s)
        /\ Written(r) = Written(s) \cup {Len(s) + 1}
    BY <1>1, <2>1, PlainIsRead
  <2>5. Keeps(s, r) /\ KeepsMore(s, r, c)
    BY <2>1, SelectedMore
  <2>6. Len(r) > Len(s)
    <3> HIDE DEF r
    <3> QED BY <2>3
  <2>7. Len(s) \in Nat /\ Len(r) >= Len(s)
    <3>1. Len(s) \in Nat
      OBVIOUS
    <3> HIDE DEF r
    <3> QED BY <2>3, <3>1
  <2> HIDE DEF r
  <2>8. r \in Seq(T) /\ AddsSymbol(s, r, c)
    BY <2>3, <2>4, <2>5, <2>6, <2>7 DEF AddsSymbol, GoesOn
  <2> QED BY <2>8 DEF r
<1>2. CASE c \in Signs
  <2> DEFINE a == s \o <<B>>
             b == a \o <<c>>
  <2>1. B \in T /\ B \in Signs
    BY DEF Signs
  <2>2. a \in Seq(T) /\ Len(a) = Len(s) + 1 /\ \A i \in 1..Len(s) : a[i] = s[i]
    BY <2>1, OneMoreIs
  <2>3. Len(s) \in Nat
    OBVIOUS
  <2>4. r = b
    <3>1. Symbol(c) = <<B>> \o <<c>>
      BY <1>2 DEF Symbol
    <3>2. <<B>> \in Seq(T) /\ <<c>> \in Seq(T)
      BY <2>1
    <3> HIDE DEF B
    <3>3. Associate(s, <<B>>, <<c>>)
      BY <3>2, SequencesAssociate
    <3> QED BY <3>1, <3>3 DEF Associate
  <2>5. /\ Pending(a) /\ Texts!Marks(a) = Texts!Marks(s)
        /\ Texts!Breaks(a) = Texts!Breaks(s) /\ Written(a) = Written(s)
    BY <2>1, BackslashIsRead
  <2>6. Keeps(s, a)
    <3> HIDE DEF B
    <3> QED BY <2>1, SelectedMore
  <2> HIDE DEF a, r
  <2>7. b \in Seq(T) /\ Len(b) = Len(a) + 1 /\ \A i \in 1..Len(a) : b[i] = a[i]
    BY <2>2, OneMoreIs
  <2>8. /\ ~Pending(b) /\ Texts!Marks(b) = Texts!Marks(a)
        /\ Texts!Breaks(b) = Texts!Breaks(a) /\ Written(b) = Written(a) \cup {Len(a) + 1}
    BY <2>2, <2>5, EscapedIsRead
  <2>9. Keeps(a, b) /\ KeepsMore(a, b, c)
    BY <2>2, SelectedMore
  <2> HIDE DEF b
  <2>13. Keeps(s, b) /\ KeepsMore(s, b, c)
    <3> SUFFICES ASSUME NEW S \in SUBSET (1..Len(s))
                 PROVE  /\ Selected(b, S) = Selected(s, S)
                        /\ Selected(b, S \cup {Len(b)}) = Selected(s, S) \o <<c>>
      BY DEF Keeps, KeepsMore
    <3>1. S \in SUBSET (1..Len(a))
      BY <2>2, <2>3
    <3> QED BY <2>6, <2>9, <3>1 DEF Keeps, KeepsMore
  <2>10. Len(b) > Len(s) /\ \A i \in 1..Len(s) : b[i] = s[i]
    BY <2>2, <2>3, <2>7
  <2>11. /\ ~Pending(b) /\ Texts!Marks(b) = Texts!Marks(s)
         /\ Texts!Breaks(b) = Texts!Breaks(s)
         /\ Written(b) = Written(s) \cup {Len(b)}
    BY <2>5, <2>7, <2>8
  <2>12. r \in Seq(T) /\ AddsSymbol(s, r, c)
    <3>1. Len(b) >= Len(s)
      BY <2>2, <2>3, <2>7
    <3> QED BY <2>4, <2>7, <2>10, <2>11, <2>13, <3>1 DEF AddsSymbol, GoesOn
  <2> QED BY <2>12 DEF r
<1> QED BY <1>1, <1>2

\* g builds what is written of a text, symbol by symbol.
Builds(g, T, text) ==
  /\ g \in [0..Len(text) -> Seq(T)] /\ g[0] = <<>>
  /\ \A k \in 1..Len(text) : g[k] = g[k - 1] \o Symbol(text[k])

ContinuesWith(s, text) == \A k \in 1..Len(text) : Continues(s, text[k])

\* The literal r goes on from s by a text, which adds no marks.
ReadsOn(T, s, r, text) ==
  r \in Seq(T) /\ AddsText(s, r, text) /\ Texts!Marks(r) = Texts!Marks(s)

\* What is built of a text is read as the text.
LEMMA TextIsRead ==
  ASSUME NEW T, Signs \subseteq T, NEW s \in Seq(T), NEW text \in Seq(T), ~Pending(s),
         ContinuesWith(s, text), NEW g, Builds(g, T, text), NEW F, F = g[Len(text)]
  PROVE  ReadsOn(T, s, s \o F, text)
<1> DEFINE n == Len(text)
           Read(k) == ReadsOn(T, s, s \o g[k], SubSeq(text, 1, k))
           I == {k \in 0..n : Read(k)}
<1>0. /\ g \in [0..n -> Seq(T)] /\ g[0] = <<>>
      /\ \A k \in 1..n : g[k] = g[k - 1] \o Symbol(text[k])
  BY DEF Builds
<1>1. n \in Nat /\ Len(s) \in Nat /\ \A k \in 1..n : text[k] \in T /\ Continues(s, text[k])
  BY DEF ContinuesWith
<1> HIDE DEF n, Read, I
<1>2. 0 \in I
  <2>1. s \o g[0] = s
    BY <1>0, ConcatEmptySeq
  <2>2. {} \in SUBSET ((Len(s) + 1)..Len(s)) /\ Written(s) = Written(s) \cup {}
    OBVIOUS
  <2>3. Selected(s, {}) = SubSeq(text, 1, 0)
    <3>1. Cardinality({}) = 0
      BY FS_EmptySet
    <3>2. Selected(s, {}) = <<>>
      BY <3>1 DEF Selected
    <3>3. SubSeq(text, 1, 0) = <<>>
      BY SubSeqEmpty
    <3> QED BY <3>2, <3>3
  <2>4. Read(0)
    <3>1. GoesOn(s, s)
      BY <1>1 DEF GoesOn, Keeps
    <3>2. ReadsOn(T, s, s, SubSeq(text, 1, 0))
      BY <2>2, <2>3, <3>1 DEF ReadsOn, AddsText
    <3> QED BY <2>1, <3>2 DEF Read
  <2> QED BY <1>1, <2>4 DEF I
<1>3. ASSUME NEW k \in 1..n, k - 1 \in I PROVE k \in I
  <2> DEFINE r == s \o g[k - 1]
             q == r \o Symbol(text[k])
  <2>0. Read(k - 1)
    BY <1>3 DEF I
  <2>1. /\ r \in Seq(T) /\ GoesOn(s, r) /\ ~Pending(r)
        /\ Texts!Marks(r) = Texts!Marks(s) /\ Texts!Breaks(r) = Texts!Breaks(s)
    BY <2>0 DEF Read, ReadsOn, AddsText, GoesOn
  <2>2. PICK W \in SUBSET ((Len(s) + 1)..Len(r)) :
          Written(r) = Written(s) \cup W /\ Selected(r, W) = SubSeq(text, 1, k - 1)
    BY <2>0 DEF Read, ReadsOn, AddsText
  <2>3. Len(r) \in Nat /\ Len(r) >= Len(s) /\ \A i \in 1..Len(s) : r[i] = s[i]
    <3>1. r \in Seq(T)
      BY <2>1
    <3> HIDE DEF r
    <3> QED BY <2>1, <3>1 DEF GoesOn
  <2>4. s \o g[k] = q
    <3>1. g[k] = g[k - 1] \o Symbol(text[k]) /\ g[k - 1] \in Seq(T)
      <4>1. k - 1 \in 0..n
        BY <1>1
      <4> QED BY <1>0, <4>1
    <3>2. Symbol(text[k]) \in Seq(T)
      <4>1. text[k] \in T /\ Texts!Backslash \in T
        BY <1>1 DEF Signs
      <4> QED BY <4>1 DEF Symbol
    <3> DEFINE a == g[k - 1]
               b == Symbol(text[k])
    <3>3. a \in Seq(T) /\ b \in Seq(T)
      BY <3>1, <3>2
    <3> HIDE DEF a, b
    <3>4. Associate(s, a, b)
      BY <3>3, SequencesAssociate
    <3> QED BY <3>1, <3>4 DEF Associate, a, b
  <2> HIDE DEF r
  <2>5. text[k] \in T /\ Continues(r, text[k])
    BY <1>1, <2>1 DEF Continues
  <2>6. q \in Seq(T) /\ AddsSymbol(r, q, text[k])
    <3> DEFINE c == text[k]
    <3>1. c \in T /\ Continues(r, c)
      BY <2>5
    <3> HIDE DEF c
    <3>2. r \o Symbol(c) \in Seq(T) /\ AddsSymbol(r, r \o Symbol(c), c)
      BY <2>1, <3>1, SymbolIsRead
    <3> QED BY <3>2 DEF c
  <2> HIDE DEF q
  <2>7. /\ Len(q) \in Nat /\ Len(q) > Len(r) /\ \A i \in 1..Len(r) : q[i] = r[i]
        /\ ~Pending(q)
    BY <2>6 DEF AddsSymbol, GoesOn
  <2>8. W \in SUBSET (1..Len(r)) /\ W \cup {Len(q)} \in SUBSET ((Len(s) + 1)..Len(q))
    <3>1. \A i \in (Len(s) + 1)..Len(r) : i \in 1..Len(r) /\ i \in (Len(s) + 1)..Len(q)
      BY <1>1, <2>3, <2>7
    <3>2. Len(q) \in (Len(s) + 1)..Len(q)
      BY <1>1, <2>3, <2>7
    <3> QED BY <3>1, <3>2
  <2>9. Selected(q, W \cup {Len(q)}) = SubSeq(text, 1, k)
    <3>1. SubSeq(text, 1, k) = SubSeq(text, 1, k - 1) \o <<text[k]>>
      <4>1. 1 \in 1..Len(text) /\ k \in 1..Len(text)
        BY <1>1 DEF n
      <4> QED BY <4>1, SubSeqRecursiveSecond
    <3>2. Selected(q, W \cup {Len(q)}) = Selected(r, W) \o <<text[k]>>
      BY <2>6, <2>8 DEF AddsSymbol, KeepsMore
    <3> QED BY <2>2, <3>1, <3>2
  <2>10. /\ Written(q) = Written(s) \cup (W \cup {Len(q)})
         /\ Texts!Marks(q) = Texts!Marks(s) /\ Texts!Breaks(q) = Texts!Breaks(s)
    BY <2>1, <2>2, <2>6 DEF AddsSymbol
  <2>11. Keeps(s, q)
    <3> SUFFICES ASSUME NEW S \in SUBSET (1..Len(s)) PROVE Selected(q, S) = Selected(s, S)
      BY DEF Keeps
    <3>1. S \in SUBSET (1..Len(r))
      BY <1>1, <2>3
    <3>2. Selected(q, S) = Selected(r, S)
      BY <2>6, <3>1 DEF AddsSymbol, GoesOn, Keeps
    <3>3. Selected(r, S) = Selected(s, S)
      BY <2>1 DEF GoesOn, Keeps
    <3> QED BY <3>2, <3>3
  <2>12. Len(q) >= Len(s) /\ \A i \in 1..Len(s) : q[i] = s[i]
    BY <1>1, <2>3, <2>7
  <2>13. GoesOn(s, q)
    BY <2>7, <2>11, <2>12 DEF GoesOn
  <2>14. AddsText(s, q, SubSeq(text, 1, k))
    BY <2>8, <2>9, <2>10, <2>13 DEF AddsText
  <2>15. Read(k)
    BY <2>4, <2>6, <2>10, <2>14 DEF Read, ReadsOn
  <2> QED BY <1>1, <2>15 DEF I
<1>4. I \in SUBSET (0..n)
  BY DEF I
<1>5. I = 0..n
  BY <1>1, <1>2, <1>3, <1>4, UpFrom
<1>6. n \in I
  BY <1>1, <1>5
<1>7. Read(n)
  BY <1>6 DEF I
<1>8. SubSeq(text, 1, n) = text
  BY SubSeqFull DEF n
<1> QED BY <1>7, <1>8 DEF n, Read

-----------------------------------------------------------------------------
(* Elements, in quotes and without *)

\* Marks and ends of elements are positions of the literal.
LEMMA MarksAre ==
  ASSUME NEW T, NEW s \in Seq(T)
  PROVE  /\ Texts!Marks(s) \in SUBSET (1..Len(s)) /\ Texts!Breaks(s) \in SUBSET (1..Len(s))
         /\ IsFiniteSet(Texts!Marks(s)) /\ Cardinality(Texts!Marks(s)) \in Nat
<1>1. DOMAIN s = 1..Len(s) /\ Len(s) \in Nat
  OBVIOUS
<1>2. Texts!Marks(s) \in SUBSET (1..Len(s)) /\ Texts!Breaks(s) \in SUBSET (1..Len(s))
  BY <1>1 DEF Texts!Marks, Texts!Breaks
<1> QED BY <1>1, <1>2, PositionsAreFinite

\* An element in quotes is read as its text, and adds two marks.
QuotesOn(T, s, r, text) ==
  /\ r \in Seq(T) /\ AddsText(s, r, text) /\ Len(r) > Len(s) + 1
  /\ Texts!Marks(r) = Texts!Marks(s) \cup {Len(s) + 1, Len(r)}

LEMMA QuotedIsRead ==
  ASSUME NEW T, Signs \subseteq T, NEW s \in Seq(T), NEW text \in Seq(T), ~Pending(s),
         Cardinality(Texts!Marks(s)) % 2 = 0
  PROVE  /\ Texts!Quoted(text, Signs) \in Seq(T)
         /\ QuotesOn(T, s, s \o Texts!Quoted(text, Signs), text)
<1> DEFINE ss == [i \in DOMAIN text |-> Symbol(text[i])]
           Q == Texts!Quote
           n == Len(text)
           F == Texts!FlattenSeq(ss)
           a == s \o <<Q>>
           b == a \o F
           r == b \o <<Q>>
<1>1. /\ DOMAIN text = 1..n /\ n \in Nat /\ Len(s) \in Nat /\ Q \in T
      /\ \A i \in 1..n : text[i] \in T
  BY DEF Signs
<1>2. ss \in Seq(Seq(T)) /\ Len(ss) = n /\ \A i \in 1..n : ss[i] = Symbol(text[i])
  <2>1. ASSUME NEW c \in T PROVE Symbol(c) \in Seq(T)
    <3>1. Texts!Backslash \in T
      BY DEF Signs
    <3> QED BY <3>1 DEF Symbol
  <2>2. ss = [i \in 1..n |-> Symbol(text[i])]
    BY <1>1
  <2>3. ss \in [1..n -> Seq(T)]
    BY <1>1, <2>1, <2>2
  <2> HIDE DEF ss, n
  <2> QED BY <1>1, <2>2, <2>3
<1>3. PICK g \in [0..n -> Seq(T)] :
        /\ g[0] = <<>> /\ \A i \in 1..n : g[i] = g[i - 1] \o ss[i]
        /\ F = g[n]
  <2> HIDE DEF ss, n
  <2> QED BY <1>2, FlattenSteps
<1>4. Texts!Quoted(text, Signs) = <<Q>> \o F \o <<Q>>
  BY DEF Texts!Quoted, Symbol
<1>5. F \in Seq(T) /\ <<Q>> \in Seq(T)
  <2>1. n \in 0..n
    BY <1>1
  <2> HIDE DEF F, n
  <2> QED BY <1>1, <1>3, <2>1
<1> HIDE DEF F, Q
<1>6. s \o Texts!Quoted(text, Signs) = r
  <2>1. (<<Q>> \o F) \o <<Q>> = <<Q>> \o (F \o <<Q>>) /\ F \o <<Q>> \in Seq(T)
    <3>1. Associate(<<Q>>, F, <<Q>>)
      BY <1>5, SequencesAssociate
    <3>2. F \o <<Q>> \in Seq(T)
      BY <1>5, ConcatProperties
    <3> QED BY <3>1, <3>2 DEF Associate
  <2>2. s \o (<<Q>> \o (F \o <<Q>>)) = a \o (F \o <<Q>>)
    <3> DEFINE e == F \o <<Q>>
               f == <<Q>>
    <3>1. e \in Seq(T) /\ f \in Seq(T)
      BY <1>5, <2>1
    <3> HIDE DEF e, f
    <3>2. Associate(s, f, e)
      BY <3>1, SequencesAssociate
    <3> QED BY <3>2 DEF Associate, e, f
  <2>3. a \in Seq(T)
    BY <1>5, ConcatProperties
  <2>4. a \o (F \o <<Q>>) = r
    <3> HIDE DEF a
    <3>1. Associate(a, F, <<Q>>)
      BY <1>5, <2>3, SequencesAssociate
    <3> QED BY <3>1 DEF Associate
  <2> QED BY <1>4, <2>1, <2>2, <2>4
<1>7. Texts!Quoted(text, Signs) \in Seq(T)
  <2>1. <<Q>> \o F \in Seq(T)
    BY <1>5, ConcatProperties
  <2>2. (<<Q>> \o F) \o <<Q>> \in Seq(T)
    BY <1>5, <2>1, ConcatProperties
  <2> QED BY <1>4, <2>2
<1>8. a \in Seq(T) /\ Len(a) = Len(s) + 1 /\ \A i \in 1..Len(s) : a[i] = s[i]
  BY <1>1, OneMoreIs
<1>9. /\ ~Pending(a) /\ Texts!Marks(a) = Texts!Marks(s) \cup {Len(s) + 1}
      /\ Texts!Breaks(a) = Texts!Breaks(s) /\ Written(a) = Written(s)
  BY <1>1, MarkIsRead DEF Q
<1>10. Keeps(s, a)
  BY <1>1, SelectedMore
<1>11. Cardinality(Texts!Marks(a)) % 2 = 1
  <2>1. Len(s) + 1 \notin 1..Len(s)
    BY <1>1
  <2> DEFINE M == Texts!Marks(s)
             k == Len(s) + 1
             c == Cardinality(M)
  <2>2. M \in SUBSET (1..Len(s)) /\ IsFiniteSet(M) /\ c \in Nat /\ k \notin M
    BY <2>1, MarksAre
  <2> HIDE DEF M, k
  <2>3. Cardinality(M \cup {k}) = c + 1
    BY <2>2, FS_AddElement
  <2>4. c % 2 = 0
    BY DEF M
  <2> HIDE DEF c
  <2>5. (c + 1) % 2 = 1
    BY <2>2, <2>4
  <2> QED BY <1>9, <2>3, <2>5 DEF M, k
<1> HIDE DEF a
<1>12. b \in Seq(T) /\ AddsText(a, b, text) /\ Texts!Marks(b) = Texts!Marks(a)
  <2>1. ContinuesWith(a, text)
    BY <1>11 DEF Continues, ContinuesWith
  <2>2. Builds(g, T, text) /\ F = g[Len(text)]
    <3>1. \A k \in 1..n : g[k] = g[k - 1] \o Symbol(text[k])
      <4> HIDE DEF ss, n
      <4> QED BY <1>2, <1>3
    <3> QED BY <1>3, <3>1 DEF Builds
  <2> HIDE DEF n
  <2>3. ReadsOn(T, a, a \o F, text)
    BY <1>8, <1>9, <2>1, <2>2, TextIsRead
  <2> QED BY <2>3 DEF ReadsOn
<1> HIDE DEF b, n
<1>13. /\ r \in Seq(T) /\ Len(r) = Len(b) + 1 /\ \A i \in 1..Len(b) : r[i] = b[i]
  BY <1>1, <1>12, OneMoreIs
<1>14. /\ ~Pending(b) /\ Len(b) \in Nat /\ Len(b) >= Len(a)
       /\ \A i \in 1..Len(a) : b[i] = a[i]
  <2>1. Len(b) \in Nat
    BY <1>12
  <2> QED BY <1>12, <2>1 DEF AddsText, GoesOn
<1>15. /\ ~Pending(r) /\ Texts!Marks(r) = Texts!Marks(b) \cup {Len(b) + 1}
       /\ Texts!Breaks(r) = Texts!Breaks(b) /\ Written(r) = Written(b)
  BY <1>1, <1>12, <1>14, MarkIsRead DEF Q
<1>16. Keeps(b, r)
  BY <1>1, <1>12, SelectedMore
<1> HIDE DEF r
<1>17. PICK W \in SUBSET ((Len(a) + 1)..Len(b)) :
         Written(b) = Written(a) \cup W /\ Selected(b, W) = text
  BY <1>12 DEF AddsText
<1>18. /\ W \in SUBSET ((Len(s) + 1)..Len(r)) /\ W \in SUBSET (1..Len(b))
       /\ Len(r) > Len(s) + 1 /\ Len(r) >= Len(s)
  BY <1>1, <1>8, <1>13, <1>14
<1>19. \A i \in 1..Len(s) : r[i] = s[i]
  <2> SUFFICES ASSUME NEW i \in 1..Len(s) PROVE r[i] = s[i]
    OBVIOUS
  <2>1. i \in 1..Len(a) /\ i \in 1..Len(b)
    BY <1>1, <1>8, <1>14
  <2> QED BY <1>8, <1>13, <1>14, <2>1
<1>20. Keeps(s, r)
  <2> SUFFICES ASSUME NEW S \in SUBSET (1..Len(s)) PROVE Selected(r, S) = Selected(s, S)
    BY DEF Keeps
  <2>1. S \in SUBSET (1..Len(a)) /\ S \in SUBSET (1..Len(b))
    BY <1>1, <1>8, <1>14
  <2>2. Selected(b, S) = Selected(a, S)
    BY <1>12, <2>1 DEF AddsText, GoesOn, Keeps
  <2> QED BY <1>10, <1>16, <2>1, <2>2 DEF Keeps
<1>21. AddsText(s, r, text)
  <2>1. GoesOn(s, r)
    BY <1>15, <1>18, <1>19, <1>20 DEF GoesOn
  <2>2. Texts!Breaks(r) = Texts!Breaks(s)
    BY <1>9, <1>12, <1>15 DEF AddsText
  <2>3. Written(r) = Written(s) \cup W /\ Selected(r, W) = text
    BY <1>9, <1>15, <1>16, <1>17, <1>18 DEF Keeps
  <2> QED BY <1>18, <2>1, <2>2, <2>3 DEF AddsText
<1>22. Texts!Marks(r) = Texts!Marks(s) \cup {Len(s) + 1, Len(r)}
  BY <1>9, <1>12, <1>13, <1>15
<1> QED BY <1>6, <1>7, <1>13, <1>18, <1>21, <1>22 DEF QuotesOn

\* An element without quotes is read as it is.
LEMMA BareIsRead ==
  ASSUME NEW T, Signs \subseteq T, NEW s \in Seq(T), NEW text \in Seq(T), ~Pending(s),
         ~Texts!NeedsQuotes(text)
  PROVE  ReadsOn(T, s, s \o text, text)
<1> DEFINE n == Len(text)
           g == [k \in 0..n |-> SubSeq(text, 1, k)]
<1>1. n \in Nat /\ DOMAIN text = 1..n /\ \A i \in 1..n : text[i] \in T
  OBVIOUS
<1>2. \A k \in 1..n : text[k] \notin Signs /\ ~IsComma(text[k])
  BY <1>1 DEF Texts!NeedsQuotes, Signs, IsComma
<1>3. \A k \in 1..n : Symbol(text[k]) = <<text[k]>> /\ Continues(s, text[k])
  BY <1>2 DEF Symbol, Continues
<1>4. g \in [0..n -> Seq(T)]
  <2> SUFFICES ASSUME NEW k \in 0..n PROVE SubSeq(text, 1, k) \in Seq(T)
    OBVIOUS
  <2>1. \A i \in 1..k : text[i] \in T
    BY <1>1
  <2> QED BY <2>1, SubSeqProperties
<1>5. g[0] = <<>> /\ g[n] = text
  <2>1. SubSeq(text, 1, 0) = <<>>
    BY SubSeqEmpty
  <2>2. SubSeq(text, 1, n) = text
    BY SubSeqFull
  <2>3. 0 \in 0..n /\ n \in 0..n
    BY <1>1
  <2> HIDE DEF n
  <2> QED BY <2>1, <2>2, <2>3
<1>6. \A k \in 1..n : g[k] = g[k - 1] \o Symbol(text[k])
  <2> SUFFICES ASSUME NEW k \in 1..n PROVE g[k] = g[k - 1] \o <<text[k]>>
    BY <1>3
  <2>1. 1 \in 1..n /\ k \in 0..n /\ k - 1 \in 0..n /\ k \in 1..n
    BY <1>1
  <2>2. SubSeq(text, 1, k) = SubSeq(text, 1, k - 1) \o <<text[k]>>
    BY <2>1, SubSeqRecursiveSecond
  <2> HIDE DEF n
  <2> QED BY <2>1, <2>2
<1> HIDE DEF g
<1>7. Builds(g, T, text) /\ text = g[Len(text)]
  BY <1>4, <1>5, <1>6 DEF Builds
<1>8. ContinuesWith(s, text)
  BY <1>3 DEF ContinuesWith
<1> QED BY <1>7, <1>8, TextIsRead

-----------------------------------------------------------------------------
(* Elements with commas between them *)

Comma == ","

\* What is written before an element: the elements before it, and a comma.
Before(g, i) == IF i = 1 THEN <<>> ELSE g[i - 1] \o <<Comma>>

\* g puts the elements of a list together, one after another.
Joins(g, T, e) ==
  /\ g \in [0..Len(e) -> Seq(T)] /\ g[0] = <<>>
  /\ \A i \in 1..Len(e) : g[i] = Before(g, i) \o e[i]

\* So does Listed.
LEMMA ListedIs ==
  ASSUME NEW T, Comma \in T, NEW e \in Seq(Seq(T))
  PROVE  \E g : Joins(g, T, e) /\ Texts!Listed(e) = g[Len(e)]
<1> DEFINE n == Len(e)
           ss == [i \in DOMAIN e |-> IF i = 1 THEN e[i] ELSE <<Comma>> \o e[i]]
<1>1. n \in Nat /\ DOMAIN e = 1..n /\ \A i \in 1..n : e[i] \in Seq(T)
  OBVIOUS
<1>2. <<Comma>> \in Seq(T)
  <2> DEFINE c == Comma
  <2> HIDE DEF c
  <2>1. c \in T
    BY DEF c
  <2>2. <<c>> \in Seq(T)
    BY <2>1
  <2> QED BY <2>2 DEF c
<1>3. ss \in Seq(Seq(T)) /\ Len(ss) = n
      /\ \A i \in 1..n : ss[i] = IF i = 1 THEN e[i] ELSE <<Comma>> \o e[i]
  <2>1. ss = [i \in 1..n |-> IF i = 1 THEN e[i] ELSE <<Comma>> \o e[i]]
    BY <1>1
  <2>2. \A i \in 1..n : <<Comma>> \o e[i] \in Seq(T)
    BY <1>1, <1>2, ConcatProperties
  <2> HIDE DEF ss, n
  <2>3. ss \in [1..n -> Seq(T)]
    BY <1>1, <2>1, <2>2
  <2> QED BY <1>1, <2>1, <2>3
<1>4. Texts!Listed(e) = Texts!FlattenSeq(ss)
  BY DEF Texts!Listed, Comma
<1> HIDE DEF ss
<1>5. PICK g \in [0..Len(ss) -> Seq(T)] :
        /\ g[0] = <<>> /\ \A i \in 1..Len(ss) : g[i] = g[i - 1] \o ss[i]
        /\ Texts!FlattenSeq(ss) = g[Len(ss)]
  BY <1>3, FlattenSteps
<1>6. g \in [0..n -> Seq(T)] /\ \A i \in 1..n : g[i] = g[i - 1] \o ss[i]
  BY <1>3, <1>5
<1> HIDE DEF n
<1>7. ASSUME NEW i \in 1..n PROVE g[i] = Before(g, i) \o e[i]
  <2>1. CASE i = 1
    <3>1. g[i - 1] = <<>>
      BY <1>5, <2>1
    <3>2. g[i] = <<>> \o e[i] /\ Before(g, i) = <<>>
      BY <1>3, <1>6, <2>1, <3>1 DEF Before
    <3> QED BY <3>2
  <2>2. CASE i # 1
    <3> DEFINE a == g[i - 1]
               c == <<Comma>>
               b == e[i]
    <3>1. a \in Seq(T) /\ b \in Seq(T) /\ c \in Seq(T)
      <4>1. i - 1 \in 0..n
        BY <1>1
      <4> QED BY <1>1, <1>2, <1>6, <4>1
    <3>2. g[i] = a \o (c \o b) /\ Before(g, i) = a \o c
      BY <1>3, <1>6, <2>2 DEF Before
    <3> HIDE DEF a, b, c
    <3>3. Associate(a, c, b)
      BY <3>1, SequencesAssociate
    <3> QED BY <3>2, <3>3 DEF Associate, b
  <2> QED BY <2>1, <2>2
<1>8. Joins(g, T, e)
  BY <1>5, <1>6, <1>7 DEF Joins, n
<1> QED BY <1>3, <1>4, <1>5, <1>8 DEF n

\* Reading starts outside of quotes, with nothing read.
LEMMA NothingIsRead ==
  ASSUME NEW T
  PROVE  /\ <<>> \in Seq(T) /\ ~Pending(<<>>) /\ Texts!Marks(<<>>) = {}
         /\ Texts!Breaks(<<>>) = {} /\ Written(<<>>) = {}
<1>1. <<>> \in Seq(T) /\ Len(<<>>) = 0 /\ DOMAIN <<>> = {} /\ 1..0 = {}
  OBVIOUS
<1> QED BY <1>1 DEF Pending, Texts!Marks, Texts!Breaks, Written

\* Outside of quotes a comma ends an element.
LEMMA CommaEnds ==
  ASSUME NEW T, Comma \in T, NEW s \in Seq(T), ~Pending(s),
         Cardinality(Texts!Marks(s)) % 2 = 0
  PROVE  LET r == s \o <<Comma>>
         IN /\ r \in Seq(T) /\ Len(r) = Len(s) + 1 /\ r[Len(r)] = Comma
            /\ GoesOn(s, r) /\ Texts!Marks(r) = Texts!Marks(s)
            /\ Texts!Breaks(r) = Texts!Breaks(s) \cup {Len(r)}
            /\ Written(r) = Written(s) \cup {Len(r)}
<1> DEFINE c == Comma
           r == s \o <<c>>
<1>1. c \in T /\ IsComma(c) /\ Len(s) \in Nat
  <2>1. IsComma(c)
    BY DEF Comma, IsComma
  <2>2. Len(s) \in Nat
    OBVIOUS
  <2> HIDE DEF c
  <2>3. c \in T
    BY DEF c
  <2> QED BY <2>1, <2>2, <2>3
<1>2. Cardinality(Texts!Marks(s)) % 2 # 1
  <2> DEFINE k == Cardinality(Texts!Marks(s))
  <2>1. k % 2 = 0
    OBVIOUS
  <2> HIDE DEF k
  <2> QED BY <2>1
<1> HIDE DEF c
<1>3. /\ r \in Seq(T) /\ Len(r) = Len(s) + 1 /\ r[Len(s) + 1] = c
      /\ \A i \in 1..Len(s) : r[i] = s[i]
  BY <1>1, OneMoreIs
<1>4. /\ ~Pending(r) /\ Texts!Marks(r) = Texts!Marks(s)
      /\ Texts!Breaks(r) = Texts!Breaks(s) \cup {Len(s) + 1}
      /\ Written(r) = Written(s) \cup {Len(s) + 1}
  BY <1>1, <1>2, CommaIsRead
<1>5. Keeps(s, r)
  BY <1>1, SelectedMore
<1> HIDE DEF r
<1>6. GoesOn(s, r)
  <2>1. Len(r) >= Len(s)
    BY <1>1, <1>3
  <2> QED BY <1>3, <1>4, <1>5, <2>1 DEF GoesOn
<1>7. /\ r \in Seq(T) /\ Len(r) = Len(s) + 1 /\ r[Len(r)] = c
      /\ GoesOn(s, r) /\ Texts!Marks(r) = Texts!Marks(s)
      /\ Texts!Breaks(r) = Texts!Breaks(s) \cup {Len(r)}
      /\ Written(r) = Written(s) \cup {Len(r)}
  BY <1>3, <1>4, <1>6
<1> QED BY <1>7 DEF c, r

\* Reading goes on from where it got.
LEMMA GoesOnOn ==
  ASSUME NEW T, NEW s \in Seq(T), NEW t \in Seq(T), NEW r \in Seq(T),
         GoesOn(s, t), GoesOn(t, r)
  PROVE  GoesOn(s, r)
<1>1. Len(s) \in Nat /\ Len(t) \in Nat /\ Len(r) \in Nat /\ Len(t) >= Len(s) /\ Len(r) >= Len(t)
  BY DEF GoesOn
<1>2. ASSUME NEW i \in 1..Len(s) PROVE r[i] = s[i]
  <2>1. i \in 1..Len(t)
    BY <1>1
  <2> QED BY <2>1 DEF GoesOn
<1>3. Keeps(s, r)
  <2> SUFFICES ASSUME NEW S \in SUBSET (1..Len(s)) PROVE Selected(r, S) = Selected(s, S)
    BY DEF Keeps
  <2>1. S \in SUBSET (1..Len(t))
    BY <1>1
  <2> QED BY <2>1 DEF GoesOn, Keeps
<1> QED BY <1>1, <1>2, <1>3 DEF GoesOn

Even(s) == Cardinality(Texts!Marks(s)) % 2 = 0

\* Where the elements of a literal end, and what is between two of these.
Ends(s) == {0, Len(s) + 1} \cup Texts!Breaks(s)
Part(ends, i) == (Nth(ends, i) + 1)..(Nth(ends, i + 1) - 1)

\* The literal is read as the first k elements of the list.
Scanned(T, s, list, k) ==
  /\ s \in Seq(T) /\ s # <<>> /\ ~Pending(s) /\ Even(s)
  /\ Cardinality(Ends(s)) = k + 1
  /\ \A i \in 1..k : Selected(s, Part(Ends(s), i) \cap Written(s)) = list[i]

\* The last end comes after the literal.
LEMMA EndsAre ==
  ASSUME NEW T, NEW s \in Seq(T)
  PROVE  /\ Len(s) + 1 \in Nat /\ Ends(s) \in SUBSET (0..(Len(s) + 1))
         /\ IsFiniteSet(Ends(s)) /\ Cardinality(Ends(s)) \in Nat
         /\ \A i \in 1..Cardinality(Ends(s)) : Nth(Ends(s), i) \in 0..(Len(s) + 1)
         /\ Nth(Ends(s), Cardinality(Ends(s))) = Len(s) + 1
<1> DEFINE m == Len(s) + 1
           S == Ends(s)
<1>1. m \in Nat /\ Len(s) \in Nat
  OBVIOUS
<1>2. S \in SUBSET (0..m) /\ m \in S
  <2>1. Texts!Breaks(s) \in SUBSET (1..Len(s))
    BY MarksAre
  <2> QED BY <1>1, <2>1 DEF Ends
<1> HIDE DEF m, S
<1>3. /\ IsFiniteSet(S) /\ Cardinality(S) \in Nat
      /\ \A n \in 1..Cardinality(S) : Nth(S, n) \in S
      /\ \A i \in S : Nth(S, Cardinality({j \in S : j <= i})) = i
  BY <1>1, <1>2, PlaceIs
<1>4. {j \in S : j <= m} = S
  <2>1. \A j \in S : j <= m
    BY <1>1, <1>2
  <2> QED BY <2>1
<1>5. Nth(S, Cardinality(S)) = m
  BY <1>2, <1>3, <1>4
<1>6. \A n \in 1..Cardinality(S) : Nth(S, n) \in 0..m
  BY <1>2, <1>3
<1> QED BY <1>1, <1>2, <1>3, <1>5, <1>6 DEF m, S

\* The first element.
LEMMA ScanFirst ==
  ASSUME NEW T, NEW r \in Seq(T), r # <<>>, Even(r), NEW list,
         AddsText(<<>>, r, list[1])
  PROVE  Scanned(T, r, list, 1)
<1> DEFINE k == Len(r) + 1
           E == Ends(r)
<1>1. k \in Nat /\ k > 0 /\ Len(r) \in Nat /\ k = Len(r) + 1
  OBVIOUS
<1>2. ~Pending(r) /\ Texts!Breaks(r) = {}
  BY NothingIsRead DEF AddsText, GoesOn
<1>3. E = {0} \cup {k}
  BY <1>2 DEF Ends
<1>4. PICK W \in SUBSET (1..Len(r)) : Written(r) = W /\ Selected(r, W) = list[1]
  <2>1. Len(<<>>) + 1 = 1
    OBVIOUS
  <2> QED BY <2>1, NothingIsRead DEF AddsText
<1> HIDE DEF k, E
<1>5. Cardinality(E) = 2 /\ Nth(E, 2) = k /\ Nth(E, 1) = 0
  <2> DEFINE z == 0
             S == {z}
  <2>1. S \in SUBSET (0..z) /\ z \in Nat /\ k > z
    BY <1>1
  <2>2. Cardinality(S) = 1
    BY FS_Singleton
  <2>3. \A j \in S : j = z
    OBVIOUS
  <2> HIDE DEF S, z
  <2>4. /\ Cardinality(S \cup {k}) = Cardinality(S) + 1
        /\ Nth(S \cup {k}, Cardinality(S) + 1) = k
        /\ \A j \in 1..Cardinality(S) : Nth(S, j) \in S /\ Nth(S \cup {k}, j) = Nth(S, j)
    <3>1. Follows(k, S)
      BY <1>1, <2>1, LaterFollows
    <3> QED BY <3>1 DEF Follows
  <2>5. E = S \cup {k} /\ z = 0
    BY <1>3 DEF S, z
  <2>6. 1 \in 1..1 /\ 1 + 1 = 2
    OBVIOUS
  <2> QED BY <2>2, <2>3, <2>4, <2>5, <2>6
<1>6. Part(E, 1) = 1..Len(r)
  BY <1>1, <1>5 DEF Part
<1>7. Selected(r, Part(E, 1) \cap Written(r)) = list[1]
  <2>1. Part(E, 1) \cap Written(r) = W
    BY <1>4, <1>6
  <2> QED BY <1>4, <2>1
<1>8. Cardinality(E) = 1 + 1
  BY <1>5
<1> QED BY <1>2, <1>7, <1>8 DEF Scanned, E

\* One more, after a comma.
LEMMA ScanNext ==
  ASSUME NEW T, Comma \in T, NEW s, NEW list, NEW k \in Nat \ {0}, Scanned(T, s, list, k),
         NEW r \in Seq(T), Even(r), AddsText(s \o <<Comma>>, r, list[k + 1])
  PROVE  Scanned(T, r, list, k + 1)
<1> DEFINE t == s \o <<Comma>>
           E == Ends(s)
           R == Ends(r)
           m == Len(s) + 1
           q == Len(r) + 1
<1>1. /\ s \in Seq(T) /\ ~Pending(s) /\ Even(s) /\ Cardinality(E) = k + 1
      /\ \A i \in 1..k : Selected(s, Part(E, i) \cap Written(s)) = list[i]
  BY DEF Scanned
<1>2. /\ t \in Seq(T) /\ Len(t) = m /\ GoesOn(s, t)
      /\ Texts!Breaks(t) = Texts!Breaks(s) \cup {m}
      /\ Written(t) = Written(s) \cup {m}
  BY <1>1, CommaEnds DEF Even
<1> HIDE DEF t
<1>3. GoesOn(t, r) /\ Texts!Breaks(r) = Texts!Breaks(t)
  BY DEF AddsText, t
<1>4. PICK W \in SUBSET ((m + 1)..Len(r)) :
        Written(r) = Written(t) \cup W /\ Selected(r, W) = list[k + 1]
  BY <1>2 DEF AddsText, t
<1>5. Len(s) \in Nat /\ Len(r) \in Nat /\ m = Len(s) + 1 /\ q = Len(r) + 1
  BY <1>1
<1>6. q \in Nat /\ q > m /\ m \in Nat
  BY <1>2, <1>3, <1>5 DEF GoesOn
<1>7. R = E \cup {q}
  BY <1>2, <1>3 DEF Ends
<1>8. /\ E \in SUBSET (0..m) /\ \A i \in 1..(k + 1) : Nth(E, i) \in 0..m
      /\ Nth(E, k + 1) = m
  BY <1>1, EndsAre
<1>9. GoesOn(s, r)
  BY <1>1, <1>2, <1>3, GoesOnOn
<1>10. Written(s) \in SUBSET (1..Len(s))
  BY DEF Written
<1> HIDE DEF E, R, m, q
<1>11. /\ Cardinality(R) = (k + 1) + 1 /\ Nth(R, (k + 1) + 1) = q
       /\ \A i \in 1..(k + 1) : Nth(R, i) = Nth(E, i)
  <2>1. /\ Cardinality(E \cup {q}) = Cardinality(E) + 1
        /\ Nth(E \cup {q}, Cardinality(E) + 1) = q
        /\ \A j \in 1..Cardinality(E) : Nth(E, j) \in E /\ Nth(E \cup {q}, j) = Nth(E, j)
    <3>1. Follows(q, E)
      BY <1>6, <1>8, LaterFollows
    <3> QED BY <3>1 DEF Follows
  <2> QED BY <1>1, <1>7, <2>1
<1>12. ASSUME NEW i \in 1..k PROVE Selected(r, Part(R, i) \cap Written(r)) = list[i]
  <2>1. i \in 1..(k + 1) /\ i + 1 \in 1..(k + 1)
    OBVIOUS
  <2>2. Part(R, i) = Part(E, i)
    BY <1>11, <2>1 DEF Part
  <2>3. Part(E, i) \in SUBSET (1..Len(s))
    <3>1. Nth(E, i) \in 0..m /\ Nth(E, i + 1) \in 0..m
      BY <1>8, <2>1
    <3> QED BY <1>5, <3>1 DEF Part
  <2>4. Part(E, i) \cap Written(r) = Part(E, i) \cap Written(s)
    <3>1. \A j \in 1..Len(s) : j # m /\ j \notin (m + 1)..Len(r)
      BY <1>5
    <3> QED BY <1>2, <1>4, <2>3, <3>1
  <2>5. Selected(r, Part(E, i) \cap Written(s)) = Selected(s, Part(E, i) \cap Written(s))
    BY <1>9, <2>3 DEF GoesOn, Keeps
  <2> QED BY <1>1, <2>2, <2>4, <2>5
<1>13. Selected(r, Part(R, k + 1) \cap Written(r)) = list[k + 1]
  <2>1. Part(R, k + 1) = (m + 1)..Len(r)
    <3>1. k + 1 \in 1..(k + 1)
      OBVIOUS
    <3>2. Nth(R, k + 1) = m /\ q - 1 = Len(r)
      BY <1>5, <1>8, <1>11, <3>1
    <3> QED BY <1>11, <3>2 DEF Part
  <2>2. Part(R, k + 1) \cap Written(r) = W
    <3>1. \A j \in (m + 1)..Len(r) : j # m /\ j \notin 1..Len(s)
      BY <1>5
    <3> QED BY <1>2, <1>4, <1>10, <2>1, <3>1
  <2> QED BY <1>4, <2>2
<1>14. \A i \in 1..(k + 1) : i \in 1..k \/ i = k + 1
  OBVIOUS
<1>15. \A i \in 1..(k + 1) : Selected(r, Part(R, i) \cap Written(r)) = list[i]
  BY <1>12, <1>13, <1>14
<1>16. r # <<>>
  <2>1. Len(r) # 0
    BY <1>5, <1>6
  <2> QED BY <2>1
<1>17. ~Pending(r)
  BY <1>3 DEF GoesOn
<1> QED BY <1>11, <1>15, <1>16, <1>17 DEF Scanned, R

\* The operators of Texts are those of Text.
LEMMA TextsSelect ==
  ASSUME NEW s, NEW S, NEW n
  PROVE  /\ Texts!Cardinality(S) = Cardinality(S) /\ Texts!Nth(S, n) = Nth(S, n)
         /\ Texts!Selected(s, S) = Selected(s, S)
<1>1. \A R : Texts!Cardinality(R) = Cardinality(R)
  BY DEF Texts!Cardinality, Cardinality
<1>2. \A i : Texts!Nth(S, i) = Nth(S, i)
  BY <1>1 DEF Texts!Nth, Nth
<1> QED BY <1>1, <1>2 DEF Texts!Selected, Selected

\* What is copied of a part is what is written there.
LEMMA UnescapedIs ==
  ASSUME NEW T, NEW s \in Seq(T), NEW S \in SUBSET (1..Len(s))
  PROVE  Texts!Unescaped(s, S) = Selected(s, S \cap Written(s))
<1>1. {i \in S : i \in Texts!Escaped(s) \/ s[i] \notin {Texts!Quote, Texts!Backslash}}
        = S \cap Written(s)
  BY DEF Written, Signs
<1> QED BY <1>1, TextsSelect DEF Texts!Unescaped

\* Scan returns the elements it read.
LEMMA ScanIs ==
  ASSUME NEW T, NEW list \in Seq(Seq(T)), NEW s, Scanned(T, s, list, Len(list))
  PROVE  Texts!Scan(s) = list
<1> DEFINE E == Ends(s)
           n == Len(list)
<1>1. /\ s \in Seq(T) /\ s # <<>> /\ Cardinality(E) = n + 1
      /\ \A i \in 1..n : Selected(s, Part(E, i) \cap Written(s)) = list[i]
  BY DEF Scanned
<1>2. n \in Nat
  OBVIOUS
<1>3. Texts!Scan(s) =
        [i \in 1..(Texts!Cardinality(E) - 1) |->
           Texts!Unescaped(s, (Texts!Nth(E, i) + 1)..(Texts!Nth(E, i + 1) - 1))]
  BY <1>1 DEF Texts!Scan, Ends
<1>4. \A i \in 1..(n + 1) : Nth(E, i) \in 0..(Len(s) + 1)
  BY <1>1, EndsAre
<1>5. list = [i \in 1..n |-> list[i]]
  OBVIOUS
<1>6. Len(s) \in Nat
  BY <1>1
<1> HIDE DEF E, n
<1>7. ASSUME NEW i \in 1..n
      PROVE  Texts!Unescaped(s, (Texts!Nth(E, i) + 1)..(Texts!Nth(E, i + 1) - 1)) = list[i]
  <2>1. Texts!Nth(E, i) = Nth(E, i) /\ Texts!Nth(E, i + 1) = Nth(E, i + 1)
    BY TextsSelect
  <2>2. i \in 1..(n + 1) /\ i + 1 \in 1..(n + 1)
    BY <1>2
  <2>3. Part(E, i) \in SUBSET (1..Len(s))
    BY <1>4, <1>6, <2>2 DEF Part
  <2>4. Texts!Unescaped(s, Part(E, i)) = Selected(s, Part(E, i) \cap Written(s))
    BY <1>1, <2>3, UnescapedIs
  <2> QED BY <1>1, <2>1, <2>4 DEF Part
<1>8. Texts!Cardinality(E) - 1 = n
  <2>1. Texts!Cardinality(E) = Cardinality(E)
    BY TextsSelect
  <2> QED BY <1>1, <1>2, <2>1
<1> QED BY <1>3, <1>5, <1>7, <1>8

\* Quotes are two marks more.
LEMMA QuotesAreTwo ==
  ASSUME NEW T, NEW s \in Seq(T), NEW text, NEW r, QuotesOn(T, s, r, text)
  PROVE  Cardinality(Texts!Marks(r)) = Cardinality(Texts!Marks(s)) + 2
<1> DEFINE M == Texts!Marks(s)
           a == Len(s) + 1
           b == Len(r)
           c == Cardinality(M)
<1>1. Len(s) \in Nat /\ Len(r) \in Nat /\ b > a
  BY DEF QuotesOn
<1>2. M \in SUBSET (1..Len(s)) /\ IsFiniteSet(M) /\ c \in Nat
  BY MarksAre
<1>3. a \notin M /\ b \notin M \cup {a}
  BY <1>1, <1>2
<1>4. Texts!Marks(r) = (M \cup {a}) \cup {b}
  BY DEF QuotesOn
<1> HIDE DEF M, a, b
<1>5. IsFiniteSet(M \cup {a}) /\ Cardinality(M \cup {a}) = c + 1
  BY <1>2, <1>3, FS_AddElement
<1>6. Cardinality((M \cup {a}) \cup {b}) = Cardinality(M \cup {a}) + 1
  BY <1>3, <1>5, FS_AddElement
<1> QED BY <1>2, <1>4, <1>5, <1>6 DEF M

-----------------------------------------------------------------------------
(* What PostgreSQL writes, read by the program *)

Encoded(text) == IF Texts!NeedsQuotes(text) THEN Texts!Quoted(text, Signs) ELSE text

\* An element as PostgreSQL writes it is read as its text.
ElementOn(T, s, r, text) ==
  r \in Seq(T) /\ r # <<>> /\ AddsText(s, r, text) /\ Even(r)

LEMMA EncodedIsRead ==
  ASSUME NEW T, Signs \subseteq T, NEW s \in Seq(T), NEW text \in Seq(T), ~Pending(s), Even(s)
  PROVE  Encoded(text) \in Seq(T) /\ ElementOn(T, s, s \o Encoded(text), text)
<1>1. Len(s) \in Nat /\ Cardinality(Texts!Marks(s)) \in Nat
  BY MarksAre
<1>2. CASE Texts!NeedsQuotes(text)
  <2> DEFINE e == Texts!Quoted(text, Signs)
             r == s \o e
  <2>1. e \in Seq(T) /\ QuotesOn(T, s, r, text)
    BY QuotedIsRead DEF Even
  <2>2. Encoded(text) = e
    BY <1>2 DEF Encoded
  <2> HIDE DEF r, e
  <2>3. r \in Seq(T) /\ AddsText(s, r, text) /\ Len(r) > Len(s) + 1
    BY <2>1 DEF QuotesOn
  <2>4. Even(r)
    <3> DEFINE c == Cardinality(Texts!Marks(s))
    <3>1. Cardinality(Texts!Marks(r)) = c + 2 /\ c \in Nat /\ c % 2 = 0
      BY <1>1, <2>1, QuotesAreTwo DEF Even
    <3> HIDE DEF c
    <3>2. (c + 2) % 2 = 0
      BY <3>1
    <3> QED BY <3>1, <3>2 DEF Even
  <2>5. r # <<>>
    <3>1. Len(r) # 0
      BY <1>1, <2>3
    <3> QED BY <3>1
  <2>6. ElementOn(T, s, r, text)
    BY <2>3, <2>4, <2>5 DEF ElementOn
  <2> QED BY <2>1, <2>2, <2>6 DEF r
<1>3. CASE ~Texts!NeedsQuotes(text)
  <2> DEFINE r == s \o text
  <2>1. ReadsOn(T, s, r, text)
    BY <1>3, BareIsRead
  <2>2. Encoded(text) = text
    BY <1>3 DEF Encoded
  <2>3. r # <<>>
    <3>1. text # <<>>
      BY <1>3 DEF Texts!NeedsQuotes
    <3>2. Len(text) \in Nat /\ Len(text) # 0
      BY <3>1
    <3>3. Len(r) = Len(s) + Len(text)
      BY ConcatProperties
    <3> HIDE DEF r
    <3>4. Len(r) # 0
      BY <1>1, <3>2, <3>3
    <3> QED BY <3>4
  <2> HIDE DEF r
  <2>4. ElementOn(T, s, r, text)
    BY <2>1, <2>3 DEF ElementOn, ReadsOn, Even
  <2> QED BY <2>2, <2>4 DEF r
<1> QED BY <1>2, <1>3

\* Scan undoes array_out.
LEMMA ScanUndoes ==
  ASSUME NEW T, Signs \subseteq T, Comma \in T, NEW list \in Seq(Seq(T))
  PROVE  Texts!Scan(Texts!ArrayOut(list)) = list
<1> DEFINE n == Len(list)
           e == [i \in DOMAIN list |-> Encoded(list[i])]
<1>1. n \in Nat /\ DOMAIN list = 1..n /\ \A i \in 1..n : list[i] \in Seq(T)
  OBVIOUS
<1>2. Even(<<>>)
  <2>1. Cardinality({}) = 0 /\ 0 % 2 = 0
    BY FS_EmptySet
  <2> QED BY <2>1, NothingIsRead DEF Even
<1>3. e \in Seq(Seq(T)) /\ Len(e) = n /\ \A i \in 1..n : e[i] = Encoded(list[i])
  <2>1. \A i \in 1..n : Encoded(list[i]) \in Seq(T)
    BY <1>1, <1>2, NothingIsRead, EncodedIsRead
  <2>2. e = [i \in 1..n |-> Encoded(list[i])]
    BY <1>1
  <2> HIDE DEF e, n
  <2>3. e \in [1..n -> Seq(T)]
    BY <2>1, <2>2
  <2> QED BY <1>1, <2>2, <2>3
<1>4. Texts!ArrayOut(list) = Texts!Listed(e)
  BY DEF Texts!ArrayOut, Encoded, Signs
<1> HIDE DEF e
<1>5. PICK g : Joins(g, T, e) /\ Texts!Listed(e) = g[Len(e)]
  BY <1>3, ListedIs
<1>6. g \in [0..n -> Seq(T)] /\ g[0] = <<>>
  BY <1>3, <1>5 DEF Joins
<1>7. \A k \in 1..n : g[k] = IF k = 1 THEN <<>> \o e[k] ELSE (g[k - 1] \o <<Comma>>) \o e[k]
  BY <1>3, <1>5 DEF Joins, Before
<1> HIDE DEF n
<1>8. CASE n = 0
  <2>1. Texts!ArrayOut(list) = <<>>
    BY <1>3, <1>4, <1>5, <1>6, <1>8
  <2>2. list = <<>>
    BY <1>8 DEF n
  <2> QED BY <2>1, <2>2 DEF Texts!Scan
<1>9. CASE n # 0
  <2> DEFINE Read(k) == Scanned(T, g[k], list, k)
             I == {k \in 0..n : k # 0 => Read(k)}
  <2>1. ASSUME NEW k \in 1..n, k - 1 \in I PROVE k \in I
    <3>1. k \in 0..n /\ k \in 1..Len(e) /\ list[k] \in Seq(T) /\ e[k] = Encoded(list[k])
          /\ k - 1 \in 0..n
      BY <1>1, <1>3
    <3>2. g[k] \in Seq(T)
      BY <1>6, <3>1
    <3>3. CASE k = 1
      <4>1. g[k] = <<>> \o Encoded(list[k])
        BY <1>7, <3>1, <3>3
      <4>2. ElementOn(T, <<>>, g[k], list[k])
        BY <1>2, <3>1, <4>1, NothingIsRead, EncodedIsRead
      <4>3. Read(1)
        BY <3>3, <4>2, ScanFirst DEF ElementOn
      <4> QED BY <3>1, <3>3, <4>3
    <3>4. CASE k # 1
      <4> DEFINE l == k - 1
                 s == g[l]
                 t == s \o <<Comma>>
      <4>1. Scanned(T, s, list, l)
        BY <2>1, <3>4
      <4>2. l \in Nat \ {0} /\ k = l + 1
        BY <3>1, <3>4
      <4> HIDE DEF l, s
      <4>3. s \in Seq(T) /\ ~Pending(s) /\ Even(s)
        BY <4>1 DEF Scanned
      <4>4. t \in Seq(T) /\ ~Pending(t) /\ Even(t)
        <5>1. /\ t \in Seq(T) /\ GoesOn(s, t) /\ Texts!Marks(t) = Texts!Marks(s)
          BY <4>3, CommaEnds DEF Even
        <5> QED BY <4>3, <5>1 DEF GoesOn, Even
      <4>5. g[k] = t \o Encoded(list[k])
        <5>1. g[k] = (g[k - 1] \o <<Comma>>) \o e[k]
          BY <1>7, <3>4
        <5> QED BY <3>1, <5>1 DEF s, l
      <4> HIDE DEF t
      <4>6. ElementOn(T, t, g[k], list[k])
        BY <3>1, <4>4, <4>5, EncodedIsRead
      <4> DEFINE r == g[k]
      <4>7. r \in Seq(T) /\ Even(r) /\ AddsText(s \o <<Comma>>, r, list[l + 1])
        BY <4>2, <4>6 DEF ElementOn, t
      <4> HIDE DEF r
      <4>8. Scanned(T, r, list, l + 1)
        BY <4>1, <4>2, <4>7, ScanNext
      <4> QED BY <3>1, <4>2, <4>8 DEF r
    <3> QED BY <3>3, <3>4
  <2>2. I \in SUBSET (0..n) /\ 0 \in I
    BY <1>1
  <2> HIDE DEF I
  <2>3. I = 0..n
    BY <1>1, <2>1, <2>2, UpFrom
  <2>4. n \in I
    BY <1>1, <2>3
  <2>5. Scanned(T, g[n], list, n)
    BY <1>9, <2>4 DEF I
  <2>6. Texts!Scan(g[n]) = list
    BY <2>5, ScanIs DEF n
  <2> QED BY <1>3, <1>4, <1>5, <2>6
<1> QED BY <1>8, <1>9

-----------------------------------------------------------------------------
(* What the program writes, read by PostgreSQL *)

\* Nothing but commas is outside of quotes.
OnlyCommas(s) ==
  \A j \in (1..Len(s)) \ Texts!Marks(s) : ~Texts!InQuotes(s, j) => IsComma(s[j])

Between(marks, i) == Nth(marks, 2 * i - 1)..Nth(marks, 2 * i)

\* The literal is read as the first k elements of the list, each in quotes.
Marked(T, s, list, k) ==
  /\ s \in Seq(T) /\ ~Pending(s) /\ OnlyCommas(s)
  /\ Cardinality(Texts!Marks(s)) = 2 * k
  /\ \A i \in 1..k : Selected(s, Between(Texts!Marks(s), i) \cap Written(s)) = list[i]

\* A position is in quotes when an odd number of marks comes before it.
LEMMA InQuotesIs ==
  ASSUME NEW s, NEW j
  PROVE  Texts!InQuotes(s, j) <=> Cardinality({m \in Texts!Marks(s) : m < j}) % 2 = 1
<1>1. \A R : Texts!Cardinality(R) = Cardinality(R)
  BY DEF Texts!Cardinality, Cardinality
<1> QED BY <1>1 DEF Texts!InQuotes

\* Two marks of a literal are positions of it.
LEMMA BetweenIs ==
  ASSUME NEW T, NEW s \in Seq(T), NEW k \in Nat, Cardinality(Texts!Marks(s)) = 2 * k
  PROVE  /\ \A i \in 1..(2 * k) : Nth(Texts!Marks(s), i) \in 1..Len(s)
         /\ \A i \in 1..k : /\ 2 * i - 1 \in 1..(2 * k) /\ 2 * i \in 1..(2 * k)
                            /\ Between(Texts!Marks(s), i) \in SUBSET (1..Len(s))
<1> DEFINE M == Texts!Marks(s)
<1>1. M \in SUBSET (1..Len(s)) /\ Len(s) \in Nat
  BY MarksAre
<1> HIDE DEF M
<1>2. Cardinality(M) = 2 * k
  BY DEF M
<1>3. \A i \in 1..(2 * k) : Nth(M, i) \in 1..Len(s)
  <2> SUFFICES ASSUME NEW i \in 1..(2 * k) PROVE Nth(M, i) \in M
    BY <1>1
  <2>1. i \in 1..Cardinality(M)
    BY <1>2
  <2> QED BY <1>1, <2>1, NthIs
<1>4. ASSUME NEW i \in 1..k
      PROVE  /\ 2 * i - 1 \in 1..(2 * k) /\ 2 * i \in 1..(2 * k)
             /\ Between(M, i) \in SUBSET (1..Len(s))
  <2>1. 2 * i - 1 \in 1..(2 * k) /\ 2 * i \in 1..(2 * k)
    OBVIOUS
  <2>2. Nth(M, 2 * i - 1) \in 1..Len(s) /\ Nth(M, 2 * i) \in 1..Len(s)
    BY <1>3, <2>1
  <2> QED BY <1>1, <2>1, <2>2 DEF Between
<1> QED BY <1>3, <1>4 DEF M

\* It still is after a comma, and with one more element in quotes.
LEMMA MarkedThenComma ==
  ASSUME NEW T, Comma \in T, NEW s, NEW list, NEW k \in Nat, Marked(T, s, list, k)
  PROVE  Marked(T, s \o <<Comma>>, list, k)
<1> DEFINE r == s \o <<Comma>>
           M == Texts!Marks(s)
<1>1. /\ s \in Seq(T) /\ ~Pending(s) /\ OnlyCommas(s) /\ Cardinality(M) = 2 * k
      /\ \A i \in 1..k : Selected(s, Between(M, i) \cap Written(s)) = list[i]
  BY DEF Marked
<1>2. Cardinality(M) % 2 = 0
  <2>1. (2 * k) % 2 = 0
    OBVIOUS
  <2> QED BY <1>1, <2>1
<1>3. /\ r \in Seq(T) /\ Len(r) = Len(s) + 1 /\ r[Len(r)] = Comma
      /\ GoesOn(s, r) /\ Texts!Marks(r) = M
      /\ Written(r) = Written(s) \cup {Len(r)}
  BY <1>1, <1>2, CommaEnds
<1>4. \A i \in 1..k : Between(M, i) \in SUBSET (1..Len(s))
  BY <1>1, BetweenIs
<1>5. Len(s) \in Nat
  BY <1>1
<1> HIDE DEF r, M
<1>6. ASSUME NEW i \in 1..k PROVE Selected(r, Between(M, i) \cap Written(r)) = list[i]
  <2>1. Between(M, i) \cap Written(r) = Between(M, i) \cap Written(s)
    BY <1>3, <1>4, <1>5
  <2>2. Selected(r, Between(M, i) \cap Written(s)) = Selected(s, Between(M, i) \cap Written(s))
    BY <1>3, <1>4 DEF GoesOn, Keeps
  <2> QED BY <1>1, <2>1, <2>2
<1>7. OnlyCommas(r)
  <2> SUFFICES ASSUME NEW j \in (1..Len(r)) \ M, ~Texts!InQuotes(r, j)
               PROVE  IsComma(r[j])
    BY <1>3 DEF OnlyCommas
  <2>1. CASE j = Len(r)
    BY <1>3, <2>1 DEF IsComma, Comma
  <2>2. CASE j # Len(r)
    <3>1. j \in (1..Len(s)) \ M
      BY <1>3, <1>5, <2>2
    <3>2. ~Texts!InQuotes(s, j)
      BY <1>3, InQuotesIs DEF M
    <3>3. IsComma(s[j])
      BY <1>1, <3>1, <3>2 DEF OnlyCommas, M
    <3>4. r[j] = s[j]
      BY <1>3, <3>1 DEF GoesOn
    <3> QED BY <3>3, <3>4
  <2> QED BY <2>1, <2>2
<1>8. ~Pending(r)
  BY <1>3 DEF GoesOn
<1> QED BY <1>1, <1>3, <1>6, <1>7, <1>8 DEF Marked, r

LEMMA MarkedThenQuoted ==
  ASSUME NEW T, NEW s, NEW list, NEW k \in Nat, Marked(T, s, list, k),
         NEW r, QuotesOn(T, s, r, list[k + 1])
  PROVE  Marked(T, r, list, k + 1)
<1> DEFINE M == Texts!Marks(s)
           R == Texts!Marks(r)
           a == Len(s) + 1
           b == Len(r)
<1>1. /\ s \in Seq(T) /\ ~Pending(s) /\ OnlyCommas(s) /\ Cardinality(M) = 2 * k
      /\ \A i \in 1..k : Selected(s, Between(M, i) \cap Written(s)) = list[i]
  BY DEF Marked
<1>2. r \in Seq(T) /\ AddsText(s, r, list[k + 1]) /\ b > a /\ R = (M \cup {a}) \cup {b}
  BY DEF QuotesOn
<1>3. Len(s) \in Nat /\ a = Len(s) + 1 /\ a \in Nat /\ b \in Nat /\ b = Len(r)
  BY <1>1, <1>2
<1>4. M \in SUBSET (1..Len(s))
  BY <1>1, MarksAre
<1>5. /\ \A i \in 1..(2 * k) : Nth(M, i) \in 1..Len(s)
      /\ \A i \in 1..k : /\ 2 * i - 1 \in 1..(2 * k) /\ 2 * i \in 1..(2 * k)
                         /\ Between(M, i) \in SUBSET (1..Len(s))
  BY <1>1, BetweenIs
<1>6. PICK W \in SUBSET (a..b) :
        Written(r) = Written(s) \cup W /\ Selected(r, W) = list[k + 1]
  BY <1>2 DEF AddsText
<1>7. GoesOn(s, r)
  BY <1>2 DEF AddsText
<1>8. Written(s) \in SUBSET (1..Len(s))
  BY DEF Written
<1>9. Cardinality(R) = 2 * k + 2
  BY <1>1, <1>2, QuotesAreTwo
<1> HIDE DEF M, R, a, b
<1>10. Follows(a, M)
  <2>1. M \in SUBSET (0..Len(s)) /\ a > Len(s)
    BY <1>3, <1>4
  <2> QED BY <1>3, <2>1, LaterFollows
<1>11. Follows(b, M \cup {a})
  <2>1. a \in 0..a /\ \A i \in 1..Len(s) : i \in 0..a
    BY <1>3
  <2>2. M \cup {a} \in SUBSET (0..a)
    BY <1>4, <2>1
  <2> QED BY <1>2, <1>3, <2>2, LaterFollows
<1>12. /\ \A i \in 1..(2 * k) : Nth(R, i) = Nth(M, i)
       /\ Nth(R, 2 * k + 1) = a /\ Nth(R, 2 * k + 2) = b
       /\ Cardinality(M \cup {a}) = 2 * k + 1
  <2> DEFINE c == 2 * k
             N == M \cup {a}
  <2>1. /\ Cardinality(N) = c + 1 /\ Nth(N, c + 1) = a
        /\ \A i \in 1..c : Nth(N, i) = Nth(M, i)
    BY <1>1, <1>10 DEF Follows
  <2>2. c \in Nat
    OBVIOUS
  <2> HIDE DEF c, N
  <2>3. /\ Nth(N \cup {b}, (c + 1) + 1) = b
        /\ \A i \in 1..(c + 1) : Nth(N \cup {b}, i) = Nth(N, i)
    BY <1>11, <2>1 DEF Follows, N
  <2>4. R = N \cup {b}
    BY <1>2 DEF N
  <2>5. c + 1 \in 1..(c + 1) /\ (c + 1) + 1 = c + 2 /\ \A i \in 1..c : i \in 1..(c + 1)
    BY <2>2
  <2>6. /\ \A i \in 1..c : Nth(R, i) = Nth(M, i)
        /\ Nth(R, c + 1) = a /\ Nth(R, c + 2) = b /\ Cardinality(N) = c + 1
    BY <2>1, <2>3, <2>4, <2>5
  <2> QED BY <2>6 DEF c, N
<1>13. ASSUME NEW i \in 1..k PROVE Selected(r, Between(R, i) \cap Written(r)) = list[i]
  <2>1. Between(R, i) = Between(M, i)
    BY <1>5, <1>12 DEF Between
  <2>2. Between(M, i) \in SUBSET (1..Len(s))
    BY <1>5
  <2>3. Between(M, i) \cap Written(r) = Between(M, i) \cap Written(s)
    <3>1. \A j \in 1..Len(s) : j \notin a..b
      BY <1>3
    <3> QED BY <1>6, <2>2, <3>1
  <2>4. Selected(r, Between(M, i) \cap Written(s)) = Selected(s, Between(M, i) \cap Written(s))
    BY <1>7, <2>2 DEF GoesOn, Keeps
  <2> QED BY <1>1, <2>1, <2>3, <2>4
<1>14. Selected(r, Between(R, k + 1) \cap Written(r)) = list[k + 1]
  <2>1. 2 * (k + 1) - 1 = 2 * k + 1 /\ 2 * (k + 1) = 2 * k + 2
    OBVIOUS
  <2>2. Between(R, k + 1) = a..b
    BY <1>12, <2>1 DEF Between
  <2>3. Between(R, k + 1) \cap Written(r) = W
    <3>1. \A j \in a..b : j \notin 1..Len(s)
      BY <1>3
    <3> QED BY <1>6, <1>8, <2>2, <3>1
  <2> QED BY <1>6, <2>3
<1>15. OnlyCommas(r)
  <2> SUFFICES ASSUME NEW j \in (1..Len(r)) \ R, ~Texts!InQuotes(r, j)
               PROVE  IsComma(r[j])
    BY DEF OnlyCommas, R
  <2>1. CASE j \in 1..Len(s)
    <3>1. {m \in R : m < j} = {m \in M : m < j}
      <4>1. ~(a < j) /\ ~(b < j)
        BY <1>2, <1>3, <2>1
      <4> QED BY <1>2, <4>1
    <3>2. ~Texts!InQuotes(s, j) /\ j \notin M
      <4>1. j \notin M
        BY <1>2
      <4> QED BY <3>1, <4>1, InQuotesIs DEF M, R
    <3>3. IsComma(s[j])
      BY <1>1, <2>1, <3>2 DEF OnlyCommas, M
    <3>4. r[j] = s[j]
      BY <1>7, <2>1 DEF GoesOn
    <3> QED BY <3>3, <3>4
  <2>2. CASE j \notin 1..Len(s)
    <3>1. a < j /\ ~(b < j)
      <4>1. j # a /\ j \in Nat /\ j >= 1 /\ j <= Len(r)
        BY <1>2, <1>3
      <4> QED BY <1>3, <2>2, <4>1
    <3>2. \A m \in M : m < j
      BY <1>3, <1>4, <3>1
    <3>3. {m \in R : m < j} = M \cup {a}
      BY <1>2, <3>1, <3>2
    <3>4. (2 * k + 1) % 2 = 1
      OBVIOUS
    <3>5. Texts!InQuotes(r, j)
      BY <1>12, <3>3, <3>4, InQuotesIs DEF R
    <3> QED BY <3>5
  <2> QED BY <2>1, <2>2
<1>16. \A i \in 1..(k + 1) : i \in 1..k \/ i = k + 1
  OBVIOUS
<1>17. \A i \in 1..(k + 1) : Selected(r, Between(R, i) \cap Written(r)) = list[i]
  BY <1>13, <1>14, <1>16
<1>18. ~Pending(r) /\ 2 * k + 2 = 2 * (k + 1)
  BY <1>7 DEF GoesOn
<1> QED BY <1>2, <1>9, <1>15, <1>17, <1>18 DEF Marked, R

\* array_in takes such a literal, and returns the elements it read.
LEMMA ArrayInIs ==
  ASSUME NEW T, NEW list \in Seq(Seq(T)), NEW s, Marked(T, s, list, Len(list))
  PROVE  Texts!ArrayIn(s) = {list}
<1> DEFINE M == Texts!Marks(s)
           n == Len(list)
           piece(i) == Texts!Nth(M, 2 * i - 1)..Texts!Nth(M, 2 * i)
           read == [i \in 1..(Texts!Cardinality(M) \div 2) |-> Texts!Unescaped(s, piece(i))]
           WellFormed ==
             /\ Texts!Cardinality(M) % 2 = 0
             /\ \A j \in DOMAIN s \ M : ~Texts!InQuotes(s, j) => s[j] \in {",", " "}
<1>1. n \in Nat /\ list = [i \in 1..n |-> list[i]]
  OBVIOUS
<1>2. /\ s \in Seq(T) /\ OnlyCommas(s) /\ Cardinality(M) = 2 * n
      /\ \A i \in 1..n : Selected(s, Between(M, i) \cap Written(s)) = list[i]
  BY DEF Marked
<1>3. Texts!ArrayIn(s) = IF WellFormed THEN {read} ELSE {}
  BY DEF Texts!ArrayIn
<1>4. \A i \in 1..n : Between(M, i) \in SUBSET (1..Len(s))
  BY <1>1, <1>2, BetweenIs
<1>5. DOMAIN s = 1..Len(s)
  BY <1>2
<1> HIDE DEF n
<1>6. Texts!Cardinality(M) = 2 * n
  BY <1>2, TextsSelect
<1>7. WellFormed
  <2>1. (2 * n) % 2 = 0
    BY <1>1
  <2>2. \A j \in DOMAIN s \ M : ~Texts!InQuotes(s, j) => s[j] \in {",", " "}
    BY <1>2, <1>5 DEF OnlyCommas, IsComma
  <2> QED BY <1>6, <2>1, <2>2
<1>8. ASSUME NEW i \in 1..n PROVE Texts!Unescaped(s, piece(i)) = list[i]
  <2>1. piece(i) = Between(M, i)
    BY TextsSelect DEF Between
  <2> HIDE DEF piece
  <2>2. Texts!Unescaped(s, Between(M, i)) = Selected(s, Between(M, i) \cap Written(s))
    BY <1>2, <1>4, UnescapedIs
  <2> QED BY <1>2, <2>1, <2>2
<1>9. (2 * n) \div 2 = n
  BY <1>1
<1> HIDE DEF M, piece, WellFormed
<1>10. read = list
  BY <1>1, <1>6, <1>8, <1>9
<1> QED BY <1>3, <1>7, <1>10

\* array_in reads the list that Value writes.
LEMMA ValueIsRead ==
  ASSUME NEW T, Signs \subseteq T, Comma \in T, NEW list \in Seq(Seq(T))
  PROVE  Texts!ArrayIn(Texts!Value(list)) = {list}
<1> DEFINE n == Len(list)
           e == [i \in DOMAIN list |-> Texts!Quoted(list[i], Signs)]
<1>1. n \in Nat /\ DOMAIN list = 1..n /\ \A i \in 1..n : list[i] \in Seq(T)
  OBVIOUS
<1>2. Marked(T, <<>>, list, 0)
  <2>1. Cardinality({}) = 2 * 0
    BY FS_EmptySet
  <2>2. 1..Len(<<>>) = {} /\ 1..0 = {}
    OBVIOUS
  <2> QED BY <2>1, <2>2, NothingIsRead DEF Marked, OnlyCommas
<1>3. ASSUME NEW s, NEW k \in 0..(n - 1), Marked(T, s, list, k)
      PROVE  /\ Texts!Quoted(list[k + 1], Signs) \in Seq(T)
             /\ Marked(T, s \o Texts!Quoted(list[k + 1], Signs), list, k + 1)
  <2> DEFINE text == list[k + 1]
             r == s \o Texts!Quoted(text, Signs)
  <2>1. text \in Seq(T) /\ k \in Nat
    BY <1>1
  <2>2. s \in Seq(T) /\ ~Pending(s) /\ Cardinality(Texts!Marks(s)) % 2 = 0
    <3>1. (2 * k) % 2 = 0
      BY <2>1
    <3> QED BY <1>3, <3>1 DEF Marked
  <2> HIDE DEF text
  <2>3. Texts!Quoted(text, Signs) \in Seq(T) /\ QuotesOn(T, s, r, text)
    BY <2>1, <2>2, QuotedIsRead
  <2> HIDE DEF r
  <2>4. Marked(T, r, list, k + 1)
    BY <1>3, <2>1, <2>3, MarkedThenQuoted DEF text
  <2> QED BY <2>3, <2>4 DEF text, r
<1>4. e \in Seq(Seq(T)) /\ Len(e) = n /\ \A i \in 1..n : e[i] = Texts!Quoted(list[i], Signs)
  <2>1. Cardinality(Texts!Marks(<<>>)) % 2 = 0
    <3>1. Cardinality({}) = 0 /\ 0 % 2 = 0
      BY FS_EmptySet
    <3> QED BY <3>1, NothingIsRead
  <2>2. \A i \in 1..n : Texts!Quoted(list[i], Signs) \in Seq(T)
    <3> SUFFICES ASSUME NEW i \in 1..n PROVE Texts!Quoted(list[i], Signs) \in Seq(T)
      OBVIOUS
    <3> DEFINE text == list[i]
    <3>1. text \in Seq(T)
      BY <1>1
    <3> HIDE DEF text
    <3>2. Texts!Quoted(text, Signs) \in Seq(T)
      BY <2>1, <3>1, NothingIsRead, QuotedIsRead
    <3> QED BY <3>2 DEF text
  <2>3. e = [i \in 1..n |-> Texts!Quoted(list[i], Signs)]
    BY <1>1
  <2> HIDE DEF e, n
  <2>4. e \in [1..n -> Seq(T)]
    BY <2>2, <2>3
  <2> QED BY <1>1, <2>3, <2>4
<1>5. Texts!Value(list) = Texts!Listed(e)
  BY DEF Texts!Value, Signs
<1> HIDE DEF e
<1>6. PICK g : Joins(g, T, e) /\ Texts!Listed(e) = g[Len(e)]
  BY <1>4, ListedIs
<1>7. /\ g \in [0..n -> Seq(T)] /\ g[0] = <<>>
      /\ \A k \in 1..n :
           g[k] = IF k = 1 THEN <<>> \o e[k] ELSE (g[k - 1] \o <<Comma>>) \o e[k]
  BY <1>4, <1>6 DEF Joins, Before
<1> DEFINE Read(k) == Marked(T, g[k], list, k)
           I == {k \in 0..n : Read(k)}
<1> HIDE DEF n, Read
<1>8. ASSUME NEW k \in 1..n, k - 1 \in I PROVE k \in I
  <2> DEFINE l == k - 1
             s == g[l]
             t == s \o <<Comma>>
             q == Texts!Quoted(list[k], Signs)
  <2>1. l \in 0..(n - 1) /\ l \in Nat /\ l + 1 = k /\ k \in 0..n
    BY <1>1
  <2>2. Marked(T, s, list, l)
    BY <1>8 DEF Read
  <2>3. g[k] = IF k = 1 THEN <<>> \o q ELSE t \o q
    BY <1>4, <1>7
  <2>4. k = 1 => s = <<>>
    BY <1>7
  <2> HIDE DEF l, s
  <2>5. Marked(T, t, list, l)
    BY <2>1, <2>2, MarkedThenComma
  <2> HIDE DEF t
  <2>6. Marked(T, s \o q, list, l + 1) /\ Marked(T, t \o q, list, l + 1)
    BY <1>3, <2>1, <2>2, <2>5
  <2> HIDE DEF q
  <2>7. Marked(T, g[k], list, k)
    BY <2>1, <2>3, <2>4, <2>6
  <2> QED BY <2>1, <2>7 DEF Read
<1>9. I \in SUBSET (0..n) /\ 0 \in I
  BY <1>1, <1>2, <1>7 DEF Read
<1> HIDE DEF I
<1>10. I = 0..n
  BY <1>1, <1>8, <1>9, UpFrom
<1>11. Marked(T, g[n], list, n)
  <2>1. n \in I
    BY <1>1, <1>10
  <2> QED BY <2>1 DEF I, Read
<1>12. Texts!ArrayIn(g[n]) = {list}
  BY <1>11, ArrayInIs DEF n
<1> QED BY <1>4, <1>5, <1>6, <1>12

-----------------------------------------------------------------------------
(* The list comes back *)

TextsRight ==
  asked \in Seq(Seq(Characters)) /\ texts = asked /\ row \in SUBSET {asked}

\* The lists of the runs are lists.
LEMMA ListsAreLists == Texts!Lists \in SUBSET Seq(Seq(Characters))
<1> SUFFICES ASSUME NEW list \in Texts!Lists PROVE list \in Seq(Seq(Characters))
  OBVIOUS
<1>1. \A S, n : \A s \in Texts!BoundedSeq(S, n) : s \in Seq(S)
  <2> SUFFICES ASSUME NEW S, NEW n, NEW s \in Texts!BoundedSeq(S, n) PROVE s \in Seq(S)
    OBVIOUS
  <2>1. PICK m \in 0..n : s \in [1..m -> S]
    BY DEF Texts!BoundedSeq, Texts!SeqOf
  <2>2. m \in Nat
    OBVIOUS
  <2> QED BY <2>1, <2>2
<1> DEFINE B == Texts!BoundedSeq(Characters, MaxText)
<1>2. list \in Texts!BoundedSeq(B, MaxTexts)
  BY DEF Texts!Lists
<1>3. B \in SUBSET Seq(Characters)
  BY <1>1
<1> HIDE DEF B
<1>4. list \in Seq(B)
  BY <1>1, <1>2
<1> QED BY <1>3, <1>4

LEMMA TextsInvariant == Spec => []TextsRight
<1>1. Init => TextsRight
  <2> SUFFICES ASSUME Init PROVE TextsRight
    OBVIOUS
  <2>1. CASE part = "texts"
    BY <2>1, ListsAreLists DEF Init, Texts!Init, TextsRight
  <2>2. CASE part # "texts"
    <3>1. <<>> \in Seq(Seq(Characters))
      OBVIOUS
    <3> QED BY <2>2, <3>1 DEF Init, NoTexts, TextsRight
  <2> QED BY <2>1, <2>2
<1>2. TextsRight /\ [Next]_vars => TextsRight'
  <2> SUFFICES ASSUME TextsRight, [Next]_vars PROVE TextsRight'
    OBVIOUS
  <2> DEFINE T == Characters \cup Signs \cup {Comma}
  <2>1. Signs \subseteq T /\ Comma \in T /\ asked \in Seq(Seq(T))
    <3>1. Seq(Characters) \in SUBSET Seq(T)
      OBVIOUS
    <3> QED BY <3>1 DEF TextsRight
  <2> HIDE DEF T
  <2>2. Texts!ArrayIn(Texts!Value(asked)) = {asked}
    BY <2>1, ValueIsRead
  <2>3. Texts!Scan(Texts!ArrayOut(asked)) = asked
    BY <2>1, ScanUndoes
  <2>4. CASE Texts!Write
    BY <2>2, <2>4 DEF Texts!Write, TextsRight
  <2>5. CASE Texts!Read
    <3>1. PICK list \in row : texts' = Texts!Scan(Texts!ArrayOut(list))
      BY <2>5 DEF Texts!Read
    <3>2. list = asked
      BY DEF TextsRight
    <3> QED BY <2>3, <2>5, <3>1, <3>2 DEF Texts!Read, TextsRight
  <2>6. CASE UNCHANGED ofTexts
    BY <2>6 DEF ofTexts, TextsRight
  <2> QED BY <2>4, <2>5, <2>6, OnePartMoves DEF Texts!Next
<1> QED BY <1>1, <1>2, PTL DEF Spec

\* A list of texts of any symbols, of any length, is the same after any number of
\* trips to the database: array_in reads what Value writes, and Scan what array_out
\* writes, which quotes otherwise.
THEOREM TextsSurvive == Spec => []TextsComeBack
<1>1. TextsRight => TextsComeBack
  BY DEF TextsRight, TextsComeBack, Texts!TextsComeBack
<1> QED BY <1>1, TextsInvariant, PTL
=============================================================================
