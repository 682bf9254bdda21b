---------------------------- MODULE Subscriptions ----------------------------
(***************************************************************************)
(* The admin API of webhook subscriptions, as its clients and the          *)
(* subscribers see it: a subscription is created with a secret the answer  *)
(* tells, listed, tested with a ping and deleted, while the dispatcher     *)
(* sends events to copies of the rows and writes a whole copy back when it *)
(* deactivates one.                                                        *)
(*                                                                         *)
(* The queue, the retries and the counts of failures are Dispatcher's:     *)
(* here a delivery is made, or fails in a way that deactivates, whenever   *)
(* it likes.  A list of events goes into the column and comes back as      *)
(* TextArrays shows.                                                       *)
(***************************************************************************)
EXTENDS Naturals, FiniteSets

CONSTANTS
  SubIds,     \* ids of subscriptions, NewID gives each once
  Topics,     \* the topics that are dispatched, and may be subscribed to
  Requests    \* bodies of POST /v1/admin/webhooks

VARIABLES
  rows,      \* id -> row, for the rows there are
  tasks,     \* the copies of rows the dispatcher holds
  test,      \* the copy the handler of a test holds, none or one
  \* history variables, read by the properties only
  made,      \* id -> what was asked for, and the subscription made of it
  sent       \* the last message to a subscriber, none or one

vars == <<rows, tasks, test, made, sent>>

Text(word, blanks) == [word |-> word, blanks |-> blanks]
Plain(word) == Text(word, FALSE)
Padded(word) == Text(word, TRUE)

\* The body of a request; the secret may be absent, and the events are a set.
Request(url, secret, events) == [url |-> url, secret |-> secret, events |-> events]
Absent == Text("absent", FALSE)

\* Secrets: the one a client gave, or one made up for a subscription.
Given(word) == <<"given", word>>
Generated(id) == <<"generated", id>>

EventAll == "*"
EventWebhookPing == "webhook.ping"   \* valid, and never dispatched
Valid == Topics \cup {EventAll, EventWebhookPing}

\* A function with one more element.
With(f, id, value) == [i \in DOMAIN f \cup {id} |-> IF i = id THEN value ELSE f[i]]

Message(sub) == [id |-> sub.id, url |-> sub.url, secret |-> sub.secret]

-----------------------------------------------------------------------------
(* Creation *)

EventsAreValid(events) == events # {} /\ \A e \in events : e.word \in Valid

\* Every check is made of the text without its blanks.
ValidateWebhookSubscriptionInput(request) ==
  /\ request.url.word = "http://host"
  /\ EventsAreValid(request.events)
  /\ request.secret.word # "too long"

\* CreateSubscription: url and secret are trimmed, the events stay as they came.
Subscription(id, request) ==
  [id |-> id,
   url |-> request.url.word,
   secret |-> IF request.secret.word \in {"absent", ""} THEN Generated(id)
              ELSE Given(request.secret.word),
   events |-> request.events,
   active |-> TRUE]

Init ==
  /\ rows = <<>> /\ made = <<>>
  /\ tasks = {} /\ test = {} /\ sent = {}

\* The insert commits, whether its answer arrives or is lost.  A request that is
\* refused, or whose insert fails, leaves everything as it was.
Created(id, request) ==
  LET sub == Subscription(id, request) IN
  /\ ValidateWebhookSubscriptionInput(request)
  /\ id \notin DOMAIN made
  /\ rows' = With(rows, id, sub)
  /\ made' = With(made, id, [events |-> request.events, sub |-> sub])
  /\ UNCHANGED <<tasks, test, sent>>

-----------------------------------------------------------------------------
(* The other operations.  Listing, and a path that names no row, change      *)
(* nothing.                                                                 *)

DeleteWebhook(id) ==
  /\ id \in DOMAIN rows
  /\ rows' = [r \in DOMAIN rows \ {id} |-> rows[r]]
  /\ UNCHANGED <<tasks, test, made, sent>>

\* TestSubscription reads the row, of any state, and pings its endpoint.  One
\* test at a time.
TestReads(id) ==
  /\ test = {} /\ id \in DOMAIN rows
  /\ test' = {rows[id]}
  /\ UNCHANGED <<rows, tasks, made, sent>>

\* SendDirect: the result is answered, whatever it is, and nothing is changed.
TestSends ==
  /\ \E sub \in test : sent' = {Message(sub)}
  /\ test' = {}
  /\ UNCHANGED <<rows, tasks, made>>

-----------------------------------------------------------------------------
(* The dispatcher *)

\* Mutant: the wildcard is forgotten.
ListActiveByName(topic) ==
  {r \in DOMAIN rows : rows[r].active /\ Plain(topic) \in rows[r].events}

ListActiveByEvent(topic) ==
  {r \in DOMAIN rows :
     rows[r].active /\ rows[r].events \cap {Plain(topic), Plain(EventAll)} # {}}

Dispatch(topic) ==
  /\ tasks' = tasks \cup {[sub |-> rows[r], failed |-> FALSE] : r \in ListActiveByEvent(topic)}
  /\ UNCHANGED <<rows, test, made, sent>>

\* An attempt, and what comes of it: success or no retry left, a retry, or the
\* subscription is to be deactivated.
Deliver(t) ==
  /\ ~t.failed
  /\ sent' = {Message(t.sub)}
  /\ tasks' \in {tasks \ {t}, tasks, (tasks \ {t}) \cup {[t EXCEPT !.failed = TRUE]}}
  /\ UNCHANGED <<rows, test, made>>

\* Mutant: the update leaves the secret out.
DeactivatedUnsigned(sub) == [sub EXCEPT !.active = FALSE, !.secret = Given("")]

Deactivated(sub) == [sub EXCEPT !.active = FALSE]

\* Update writes every column of the row, if it is there.
Deactivate(t) ==
  /\ t.failed
  /\ rows' = [r \in DOMAIN rows |-> IF r = t.sub.id THEN Deactivated(t.sub) ELSE rows[r]]
  /\ tasks' = tasks \ {t}
  /\ UNCHANGED <<test, made, sent>>

-----------------------------------------------------------------------------
Next ==
  \/ \E request \in Requests, id \in SubIds : Created(id, request)
  \/ \E id \in SubIds : DeleteWebhook(id) \/ TestReads(id)
  \/ TestSends
  \/ \E topic \in Topics : Dispatch(topic)
  \/ \E t \in tasks : Deliver(t) \/ Deactivate(t)

Spec == Init /\ [][Next]_vars

-----------------------------------------------------------------------------
\* Every message goes to the address and is signed with the secret that the
\* subscription was created with, a ping to one that was deactivated since from
\* an older copy included; it is never blank: a subscriber can always verify what
\* it receives.
SignedAsCreated ==
  \A m \in sent : /\ m.secret # Given("")
                  /\ m.url = made[m.id].sub.url
                  /\ m.secret = made[m.id].sub.secret

\* A subscription asks for a topic by naming it, or all of them.
AsksFor(id, topic) == \E e \in made[id].events : e.word \in {topic, EventAll}

\* What Dispatch would address now, whatever has been created, deactivated from a
\* copy and deleted before, is the subscriptions that asked for the topic and are
\* active: all of them and no other.
AddressesSubscribers ==
  \A topic \in Topics :
    ListActiveByEvent(topic) = {r \in DOMAIN rows : rows[r].active /\ AsksFor(r, topic)}
=============================================================================
