------------------------------ MODULE Listing ------------------------------
(***************************************************************************)
(* The paginated lists: GET /v1/public/jobs, GET /v1/admin/jobs and        *)
(* GET /v1/admin/jobs/{id}/applications.  A request is parsed, its page    *)
(* and limit brought into range, and answered from two statements outside  *)
(* any transaction: one counts the rows that match, the other reads the    *)
(* page.  The total number of pages comes from the first, the rows from    *)
(* the second.                                                             *)
(*                                                                         *)
(* One client walks the pages of one list while rows are written.  The     *)
(* table is the jobs table, or the applications of one posting.  A row is  *)
(* what the WHERE clause looks at: its status, or its stage; the other     *)
(* conditions narrow a list in the same way.                               *)
(***************************************************************************)
EXTENDS Integers, FiniteSets, Sequences, SequencesExt

CONSTANTS
  Rows,          \* the rows there can be
  CreatedAt,     \* row -> creation time
  PageInputs,    \* the page parameters a client sends: <<>>, or <<number>>
  LimitInputs,   \* the same for limit; <<0>> stands for every malformed number
  DefaultLimit,  \* 20 in the code
  MaxLimit,      \* 100 in the code
  Width,         \* bits of an int
  MaxWrites      \* bound: the writes of a behaviour

ASSUME CreatedAtAssumption == CreatedAt \in [Rows -> Nat]
ASSUME LimitsAssumption == DefaultLimit \in 1..MaxLimit /\ MaxLimit \in Nat
ASSUME WidthAssumption == Width \in Nat \ {0}
ASSUME InputsAssumption ==
  \A input \in PageInputs \cup LimitInputs : input \in Seq(Int) /\ Len(input) <= 1
\* No table has more rows than an int can count.
ASSUME RowsAssumption == IsFiniteSet(Rows) /\ Cardinality(Rows) < 2^(Width - 1)

VARIABLES
  endpoint,   \* which list: "public", "admin" or "applications"
  posting,    \* whether the posting whose applications are listed exists
  table,      \* row -> "none", a row, or "gone"
  query,      \* the request: where it is, its filter, page, limit and total
  reply,      \* the rows of the page answered last
  writes,     \* how many writes there have been
  \* a history variable, read by the properties only
  walk        \* base: the rows that matched when the walk began
              \* entered: those that have come to match since
              \* late: ... between the count and the read of the last page
              \* left: those that have ceased to match since
              \* shown: those on a page of the walk; repeated: on two

vars == <<endpoint, posting, table, query, reply, writes, walk>>

Values(e) == IF e = "applications" THEN {"applied", "screening"}
                                   ELSE {"draft", "published", "archived"}

None == [state |-> "none"]
Gone == [state |-> "gone"]
Row(v) == [state |-> "row", value |-> v]

IsRow(r) == table[r].state = "row"

Idle == [pc |-> "idle"]

-----------------------------------------------------------------------------
(* Parameters *)

Wrapped(n) == ((n + 2^(Width - 1)) % 2^Width) - 2^(Width - 1)

\* strconv.Atoi followed by the test against 1.
IsPositive(input) == ToSet(input) \subseteq 1..(2^(Width - 1) - 1)

PageOf(input) == IF input = <<>> THEN 1 ELSE input[1]

LimitOf(input) == IF input = <<>> THEN DefaultLimit
                  ELSE IF input[1] > MaxLimit THEN MaxLimit ELSE input[1]

\* The status or stage parameter: <<>> when it is absent, or <<value>>.
IsValidFilter(f) == ToSet(f) \subseteq Values(endpoint)

\* Mutant: the public list leaves the status to the query.
EffectiveAsSent(f) == f

\* ListPublishedJobs overwrites the status.
Effective(f) == IF endpoint = "public" THEN <<"published">> ELSE f

-----------------------------------------------------------------------------
(* Statements *)

Accepts(f, row) == row.state = "row" /\ f \in {<<>>, <<row.value>>}

Matching(f, rows) == {r \in DOMAIN rows : Accepts(f, rows[r])}

\* The rows a list with this filter is about; read by the history only.
Listed(f, rows) ==
  {r \in Matching(f, rows) : endpoint = "public" => rows[r].value = "published"}

\* ORDER BY created_at DESC: rows of one time come in any order, and in
\* another one for the next statement.
Orderings(rows) ==
  {s \in SetToSeqs(rows) :
     \A i, j \in DOMAIN s : i < j => CreatedAt[s[i]] >= CreatedAt[s[j]]}

\* Mutant: pages are counted from zero.
OffsetFromZero(page, limit) == Wrapped(page * limit)

Offset(page, limit) == Wrapped((page - 1) * limit)

\* LIMIT and OFFSET.
Slice(s, offset, limit) ==
  SubSeq(s, offset + 1, IF offset + limit < Len(s) THEN offset + limit ELSE Len(s))

\* Mutant: the division loses the last, partly filled page.
TotalPagesRoundedDown(total, limit) == total \div limit

TotalPages(total, limit) == IF total > 0 THEN (total + limit - 1) \div limit ELSE 0

-----------------------------------------------------------------------------
NewWalk(f) == [base |-> Listed(f, table), entered |-> {}, late |-> {}, left |-> {},
               shown |-> {}, repeated |-> {}]
NoWalk == [base |-> {}, entered |-> {}, late |-> {}, left |-> {}, shown |-> {},
           repeated |-> {}]

Contents(e) == {None, Gone} \cup {Row(v) : v \in Values(e)}

\* Every content the tables can have when the client comes along.
Init ==
  /\ endpoint \in {"public", "admin", "applications"}
  /\ posting = TRUE
  /\ table \in [Rows -> Contents(endpoint)]
  /\ query = Idle
  /\ reply = <<>>
  /\ writes = 0
  /\ walk = NoWalk

Filters == {<<>>, <<"unknown">>} \cup {<<v>> : v \in Values(endpoint)}

\* "first" is where the walk began, for the properties.
Counting(f, first, page, limit) ==
  [pc |-> IF endpoint = "applications" THEN "checking" ELSE "counting",
   filter |-> f, first |-> first, page |-> page, limit |-> limit, total |-> 0]

\* A first request.  With a malformed parameter it is answered 422 and nothing
\* else happens, so only well-formed ones are steps.
Request(f, page, limit) ==
  /\ query = Idle
  /\ IsPositive(page) /\ IsPositive(limit)
  /\ endpoint # "public" => IsValidFilter(f)
  /\ LET e == Effective(f)
     IN /\ query' = Counting(e, PageOf(page), PageOf(page), LimitOf(limit))
        /\ walk' = NewWalk(e)
  /\ UNCHANGED <<endpoint, posting, table, reply, writes>>

\* The client asks for the page after the one it was answered.
NextPage ==
  /\ query.pc = "answered"
  /\ query.page < TotalPages(query.total, query.limit)
  /\ query' = Counting(query.filter, query.first, query.page + 1, query.limit)
  /\ walk' = [walk EXCEPT !.late = {}]
  /\ UNCHANGED <<endpoint, posting, table, reply, writes>>

\* ListApplications looks the posting up first: 404 without it.
Check ==
  /\ query.pc = "checking"
  /\ query' = [query EXCEPT !.pc = IF posting THEN "counting" ELSE "failed"]
  /\ UNCHANGED <<endpoint, posting, table, reply, writes, walk>>

Count ==
  /\ query.pc = "counting"
  /\ query' = [query EXCEPT !.pc = "reading",
                            !.total = Cardinality(Matching(query.filter, table))]
  /\ walk' = [walk EXCEPT !.late = {}]
  /\ UNCHANGED <<endpoint, posting, table, reply, writes>>

Read ==
  /\ query.pc = "reading"
  /\ LET offset == Offset(query.page, query.limit) IN
     /\ offset >= 0
     /\ \E s \in Orderings(Matching(query.filter, table)) :
          /\ reply' = Slice(s, offset, query.limit)
          /\ walk' = [walk EXCEPT !.shown = @ \cup ToSet(reply'),
                                  !.repeated = @ \cup (walk.shown \cap ToSet(reply'))]
  /\ query' = [query EXCEPT !.pc = "answered"]
  /\ UNCHANGED <<endpoint, posting, table, writes>>

\* PostgreSQL refuses a negative OFFSET: 500.
ReadRefused ==
  /\ query.pc = "reading"
  /\ Offset(query.page, query.limit) < 0
  /\ query' = [query EXCEPT !.pc = "failed"]
  /\ UNCHANGED <<endpoint, posting, table, reply, writes, walk>>

\* A statement fails: 500.
StatementFails ==
  /\ query.pc \in {"checking", "counting", "reading"}
  /\ query' = [query EXCEPT !.pc = "failed"]
  /\ UNCHANGED <<endpoint, posting, table, reply, writes, walk>>

\* The client has what it wanted, or gives up.
Leave ==
  /\ query.pc \in {"answered", "failed"}
  /\ query' = Idle
  /\ reply' = <<>>
  /\ walk' = NoWalk
  /\ UNCHANGED <<endpoint, posting, table, writes>>

-----------------------------------------------------------------------------
(* The other requests write the table.                                     *)

Write(rows) ==
  /\ writes < MaxWrites
  /\ writes' = writes + 1
  /\ table' = rows
  /\ walk' =
       IF query = Idle THEN walk
       ELSE LET now == Listed(query.filter, rows)
                was == Listed(query.filter, table)
            IN [walk EXCEPT !.entered = @ \cup (now \ was), !.left = @ \cup (was \ now),
                            !.late = IF query.pc = "reading" THEN @ \cup (now \ was) ELSE @]
  /\ UNCHANGED <<endpoint, query, reply>>

\* created_at is the time of the inserting transaction, which another may
\* overtake: a row can appear behind one that is newer.
Insert(r, v) == /\ table[r] = None /\ posting
                /\ Write([table EXCEPT ![r] = Row(v)])
                /\ UNCHANGED posting

Update(r, v) == /\ IsRow(r) /\ table[r] # Row(v)
                /\ Write([table EXCEPT ![r] = Row(v)])
                /\ UNCHANGED posting

Delete(r) == /\ endpoint # "applications" /\ IsRow(r)
             /\ Write([table EXCEPT ![r] = Gone])
             /\ UNCHANGED posting

\* Deleting the posting takes its applications along.
DeletePosting ==
  /\ endpoint = "applications" /\ posting
  /\ Write([r \in Rows |-> IF IsRow(r) THEN Gone ELSE table[r]])
  /\ posting' = FALSE

Client ==
  \/ \E f \in Filters, page \in PageInputs, limit \in LimitInputs :
       Request(f, page, limit)
  \/ NextPage \/ Check \/ Count \/ Read \/ ReadRefused \/ StatementFails \/ Leave

Writer ==
  \/ \E r \in Rows, v \in Values(endpoint) : Insert(r, v) \/ Update(r, v)
  \/ \E r \in Rows : Delete(r)
  \/ DeletePosting

Next == Client \/ Writer

Spec == Init /\ [][Next]_vars

-----------------------------------------------------------------------------
Answered == query.pc = "answered"

Between(n, low, high) == IF n < low THEN low ELSE IF n > high THEN high ELSE n

\* Whether the offset of the page is an int.  The page number has no maximum, and
\* the product wraps around to the offset of an earlier page, near 2^62 in the code.
OffsetFits == (query.page - 1) * query.limit < 2^(Width - 1)

\* When nothing was written during the walk, the page answered has as many rows
\* as the page number, the limit and the total answered with it promise.
PageIsItsSlice ==
  Answered /\ OffsetFits /\ walk.entered = {} /\ walk.left = {} =>
    Len(reply) = Between(query.total - (query.page - 1) * query.limit, 0, query.limit)

\* A walk shows nothing but rows that matched when it began or came to match
\* while it went on; the public list, nothing that was not published then.
ShowsOnlyMatches == walk.shown \subseteq walk.base \cup walk.entered

\* The pages up to the last one leave out no row that matched from the first
\* request to the last: new rows push the rest towards the pages still to come.
\* Only a row that leaves, or one that enters between the count and the read of
\* the last page, makes a walk miss another.
MissesNothing ==
  /\ Answered /\ query.page >= TotalPages(query.total, query.limit)
  /\ query.first = 1 /\ walk.left = {} /\ walk.late = {}
  => walk.base \subseteq walk.shown

\* No row is on two pages unless a row entered during the walk: departures move
\* rows towards the pages already read.
RepeatsNothing == walk.entered = {} => walk.repeated = {}

\* A walk over the pages of a list shows each row once, as far as the writes made
\* meanwhile allow: the count, the offsets and the order of three or more
\* separate statements fit together.
WalkShowsEachOnce == MissesNothing /\ RepeatsNothing
=============================================================================
