--------------------------- MODULE ListingProofs ---------------------------
(***************************************************************************)
(* Proofs about Listing.  A page is described by places: the place of a    *)
(* row is the number of newer rows that match, and a page shows the rows   *)
(* whose places are between its offset and its offset plus its limit.      *)
(* Places only grow when rows come to match, and only shrink when rows     *)
(* cease to match, which is what the statements about a walk come down to. *)
(***************************************************************************)
EXTENDS Listing, FiniteSetTheorems, SequenceTheorems, TLAPS

Half == 2^(Width - 1)

\* The powers of two count subsets, which is how they are known to be natural
\* numbers.
LEMMA PowerIsPositive ==
  ASSUME NEW n \in Nat
  PROVE  2^n \in Nat \ {0}
<1> DEFINE S == 1..n
<1>1. IsFiniteSet(S) /\ Cardinality(S) = n
  BY FS_Interval
<1>2. IsFiniteSet(SUBSET S) /\ Cardinality(SUBSET S) = 2^n
  BY <1>1, FS_SUBSET
<1>3. Cardinality(SUBSET S) \in Nat
  BY <1>2, FS_CardinalityType
<1>4. Cardinality(SUBSET S) # 0
  <2>1. SUBSET S # {}
    OBVIOUS
  <2> QED BY <2>1, <1>2, FS_EmptySet
<1> QED BY <1>2, <1>3, <1>4

\* Each power is twice the one before: a subset of 1..n+1 has n+1 or has it not.
LEMMA PowerDoubles ==
  ASSUME NEW n \in Nat
  PROVE  2^(n + 1) = 2 * 2^n
<1> DEFINE A == SUBSET (1..n)
           B == {T \in SUBSET (1..(n + 1)) : n + 1 \in T}
           f == [T \in A |-> T \cup {n + 1}]
<1>1. IsFiniteSet(A) /\ Cardinality(A) = 2^n
  <2>1. IsFiniteSet(1..n) /\ Cardinality(1..n) = n
    BY FS_Interval
  <2> QED BY <2>1, FS_SUBSET
<1>2. IsFiniteSet(A \cup B) /\ Cardinality(A \cup B) = 2^(n + 1)
  <2>1. A \cup B = SUBSET (1..(n + 1))
    <3>1. 1..(n + 1) = 1..n \cup {n + 1}
      OBVIOUS
    <3> QED BY <3>1
  <2>2. IsFiniteSet(1..(n + 1)) /\ Cardinality(1..(n + 1)) = n + 1
    BY FS_Interval
  <2> QED BY <2>1, <2>2, FS_SUBSET
<1>3. f \in Bijection(A, B)
  <2>1. n + 1 \notin 1..n /\ 1..(n + 1) = 1..n \cup {n + 1}
    OBVIOUS
  <2>2. f \in [A -> B]
    BY <2>1
  <2>3. \A T, U \in A : f[T] = f[U] => T = U
    BY <2>1
  <2>4. \A V \in B : \E T \in A : f[T] = V
    <3> SUFFICES ASSUME NEW V \in B PROVE \E T \in A : f[T] = V
      OBVIOUS
    <3>1. V \ {n + 1} \in A /\ f[V \ {n + 1}] = V
      BY <2>1
    <3> QED BY <3>1
  <2> QED BY <2>2, <2>3, <2>4 DEF Bijection, Injection, Surjection, IsInjective
<1>4. IsFiniteSet(B) /\ Cardinality(B) = 2^n
  <2>1. ExistsBijection(A, B)
    BY <1>3 DEF ExistsBijection
  <2> HIDE DEF A, B, f
  <2> QED BY <2>1, <1>1, FS_Bijection
<1>5. A \cap B = {}
  <2>1. n + 1 \notin 1..n
    OBVIOUS
  <2> QED BY <2>1
<1>6. Cardinality(A \cap B) = 0
  BY <1>5, FS_EmptySet
<1>7. Cardinality(A \cup B) = Cardinality(A) + Cardinality(B) - Cardinality(A \cap B)
  BY <1>1, <1>4, FS_Union
<1>8. 2^n \in Int
  BY PowerIsPositive
<1> QED BY <1>1, <1>2, <1>4, <1>6, <1>7, <1>8

\* An int holds every number below Half as it is, and wraps no number to a
\* greater one.
LEMMA WrappedFacts ==
  ASSUME NEW n \in Nat
  PROVE  /\ Wrapped(n) \in Int /\ Wrapped(n) <= n
         /\ n < Half => Wrapped(n) = n
<1> DEFINE h == 2^(Width - 1)
<1>1. Width - 1 \in Nat /\ (Width - 1) + 1 = Width
  BY WidthAssumption
<1>2. h \in Nat \ {0} /\ 2^Width = 2 * h
  BY <1>1, PowerIsPositive, PowerDoubles
<1>3. Wrapped(n) = ((n + h) % (2 * h)) - h
  BY <1>2 DEF Wrapped
<1> HIDE DEF h
<1>4. (n + h) % (2 * h) \in Int /\ (n + h) % (2 * h) <= n + h
  BY <1>2
<1>5. n < h => (n + h) % (2 * h) = n + h
  BY <1>2
<1>6. n < Half => n < h
  BY DEF h, Half
<1> QED BY <1>2, <1>3, <1>4, <1>5, <1>6

-----------------------------------------------------------------------------
(* Places *)

Newer(r, M) == {x \in M : CreatedAt[x] > CreatedAt[r]}
Place(r, M) == Cardinality(Newer(r, M))

\* No two rows are of one time.
DistinctTimes == \A r, q \in Rows : CreatedAt[r] = CreatedAt[q] => r = q

\* The rows of a list can be counted.
LEMMA ListsAreFinite ==
  ASSUME NEW M \in SUBSET Rows
  PROVE  IsFiniteSet(M) /\ Cardinality(M) \in Nat /\ Cardinality(M) < Half
<1>1. IsFiniteSet(M) /\ Cardinality(M) <= Cardinality(Rows)
  BY RowsAssumption, FS_Subset
<1>2. Cardinality(M) \in Nat /\ Cardinality(Rows) \in Nat
  BY <1>1, RowsAssumption, FS_CardinalityType
<1>3. Half \in Int
  BY PowerIsPositive, WidthAssumption DEF Half
<1> QED BY <1>1, <1>2, <1>3, RowsAssumption DEF Half

\* Places grow with the list, and those of its own rows are below its length.
LEMMA PlaceFacts ==
  ASSUME NEW M \in SUBSET Rows, NEW r
  PROVE  /\ Place(r, M) \in Nat
         /\ r \in M => Place(r, M) < Cardinality(M)
         /\ \A N \in SUBSET M : Place(r, N) <= Place(r, M)
<1>1. Newer(r, M) \in SUBSET Rows
  BY DEF Newer
<1>2. Place(r, M) \in Nat
  BY <1>1, ListsAreFinite DEF Place
<1>3. ASSUME r \in M PROVE Place(r, M) < Cardinality(M)
  <2>1. r \in Rows /\ CreatedAt[r] \in Nat
    BY <1>3, CreatedAtAssumption
  <2>2. Newer(r, M) \in SUBSET M /\ Newer(r, M) # M
    BY <1>3, <2>1 DEF Newer
  <2>3. IsFiniteSet(M) /\ Cardinality(M) \in Nat
    BY ListsAreFinite
  <2>4. Cardinality(Newer(r, M)) <= Cardinality(M) /\ Cardinality(Newer(r, M)) # Cardinality(M)
    BY <2>2, <2>3, FS_Subset
  <2> QED BY <1>2, <2>3, <2>4 DEF Place
<1>4. ASSUME NEW N \in SUBSET M PROVE Place(r, N) <= Place(r, M)
  <2>1. Newer(r, N) \in SUBSET Newer(r, M)
    BY DEF Newer
  <2>2. IsFiniteSet(Newer(r, M))
    BY <1>1, ListsAreFinite
  <2> QED BY <2>1, <2>2, FS_Subset DEF Place
<1> QED BY <1>2, <1>3, <1>4

\* An ordering of a list has each of its rows once.
LEMMA OrderingFacts ==
  ASSUME NEW M \in SUBSET Rows, NEW s \in Orderings(M)
  PROVE  /\ s \in Seq(Rows) /\ Len(s) = Cardinality(M)
         /\ \A i \in 1..Len(s) : s[i] \in M
         /\ \A r \in M : \E i \in 1..Len(s) : s[i] = r
         /\ \A i, j \in 1..Len(s) : i # j => s[i] # s[j]
<1> DEFINE n == Cardinality(M)
<1>1. IsFiniteSet(M) /\ n \in Nat
  BY ListsAreFinite
<1>2. s \in [1..n -> M] /\ \A i, j \in 1..n : i # j => s[i] # s[j]
  BY DEF Orderings, SetToSeqs
<1>3. s \in Seq(Rows) /\ Len(s) = n
  BY <1>1, <1>2
<1>4. s \in Injection(1..n, M)
  BY <1>2 DEF Injection, IsInjective
<1>5. Cardinality(1..n) = n
  BY <1>1, FS_Interval
<1>6. s \in Surjection(1..n, M)
  BY <1>1, <1>4, <1>5, FS_Injection
<1>7. \A r \in M : \E i \in 1..n : s[i] = r
  BY <1>6 DEF Surjection
<1> QED BY <1>2, <1>3, <1>7

\* In an ordering of rows of distinct times each row is at its place.
LEMMA OrderedByPlace ==
  ASSUME DistinctTimes, NEW M \in SUBSET Rows, NEW s \in Orderings(M),
         NEW i \in 1..Len(s)
  PROVE  Place(s[i], M) = i - 1
<1> DEFINE N == Newer(s[i], M)
           f == [j \in 1..(i - 1) |-> s[j]]
<1>1. /\ s \in Seq(Rows) /\ Len(s) \in Nat
      /\ \A j \in 1..Len(s) : s[j] \in M /\ CreatedAt[s[j]] \in Nat
      /\ \A r \in M : \E j \in 1..Len(s) : s[j] = r
      /\ \A j, k \in 1..Len(s) : j # k => s[j] # s[k]
  BY OrderingFacts, CreatedAtAssumption
<1>2. \A j, k \in 1..Len(s) : j < k => CreatedAt[s[j]] > CreatedAt[s[k]]
  <2>1. \A j, k \in 1..Len(s) : j < k => CreatedAt[s[j]] >= CreatedAt[s[k]]
    BY <1>1 DEF Orderings
  <2>2. \A j, k \in 1..Len(s) : j < k => CreatedAt[s[j]] # CreatedAt[s[k]]
    BY <1>1 DEF DistinctTimes
  <2> QED BY <1>1, <2>1, <2>2
<1>3. \A j \in 1..Len(s) : s[j] \in N <=> j < i
  BY <1>1, <1>2 DEF Newer
<1>4. f \in Bijection(1..(i - 1), N)
  <2>1. \A j \in 1..(i - 1) : j \in 1..Len(s) /\ j < i
    BY <1>1
  <2>2. f \in [1..(i - 1) -> N]
    BY <1>3, <2>1
  <2>3. \A j, k \in 1..(i - 1) : f[j] = f[k] => j = k
    BY <1>1, <2>1
  <2>4. \A r \in N : \E j \in 1..(i - 1) : f[j] = r
    <3> SUFFICES ASSUME NEW r \in N PROVE \E j \in 1..(i - 1) : f[j] = r
      OBVIOUS
    <3>1. PICK j \in 1..Len(s) : s[j] = r
      BY <1>1 DEF Newer
    <3>2. j \in 1..(i - 1)
      BY <1>3, <3>1
    <3> QED BY <3>1, <3>2
  <2> QED BY <2>2, <2>3, <2>4 DEF Bijection, Injection, Surjection, IsInjective
<1>5. IsFiniteSet(1..(i - 1)) /\ Cardinality(1..(i - 1)) = i - 1
  BY FS_Interval
<1>6. ExistsBijection(1..(i - 1), N)
  BY <1>4 DEF ExistsBijection
<1> HIDE DEF N, f
<1>7. Cardinality(N) = i - 1
  BY <1>5, <1>6, FS_Bijection
<1> QED BY <1>7 DEF Place, N

\* What LIMIT and OFFSET cut out of an ordering.
LEMMA SliceFacts ==
  ASSUME NEW s \in Seq(Rows), NEW offset \in Nat, NEW limit \in Nat
  PROVE  /\ Slice(s, offset, limit) \in Seq(Rows)
         /\ Len(Slice(s, offset, limit)) = Between(Len(s) - offset, 0, limit)
         /\ ToSet(Slice(s, offset, limit)) =
              {s[i] : i \in {j \in 1..Len(s) : offset < j /\ j <= offset + limit}}
<1> DEFINE last == IF offset + limit < Len(s) THEN offset + limit ELSE Len(s)
           t == SubSeq(s, offset + 1, last)
<1>1. Len(s) \in Nat /\ last \in Nat /\ last <= Len(s) /\ last <= offset + limit
  OBVIOUS
<1>2. \A i \in (offset + 1)..last : s[i] \in Rows
  BY <1>1
<1>3. /\ t \in Seq(Rows)
      /\ Len(t) = IF offset + 1 <= last THEN last - offset ELSE 0
      /\ \A i \in 1..(last - offset) : t[i] = s[offset + i]
  <2>1. \A i \in (offset + 1)..last : s[i] \in Rows
    BY <1>2
  <2> HIDE DEF last
  <2> QED BY <1>1, <2>1, SubSeqProperties
<1>4. Len(t) = Between(Len(s) - offset, 0, limit)
  BY <1>1, <1>3 DEF Between
<1>5. ToSet(t) = {s[i] : i \in {j \in 1..Len(s) : offset < j /\ j <= offset + limit}}
  <2>1. ASSUME NEW i \in DOMAIN t
        PROVE  \E j \in 1..Len(s) : offset < j /\ j <= offset + limit /\ t[i] = s[j]
    <3>1. i \in 1..(last - offset) /\ offset + i \in 1..Len(s)
      BY <1>1, <1>3
    <3> QED BY <1>1, <1>3, <3>1
  <2>2. ASSUME NEW j \in 1..Len(s), offset < j, j <= offset + limit
        PROVE  \E i \in DOMAIN t : t[i] = s[j]
    <3>1. j - offset \in 1..(last - offset) /\ offset + (j - offset) = j
      BY <1>1, <2>2
    <3>2. j - offset \in DOMAIN t
      BY <1>1, <1>3, <3>1
    <3> QED BY <1>3, <3>1, <3>2
  <2> HIDE DEF t, last
  <2> QED BY <2>1, <2>2 DEF ToSet
<1> QED BY <1>3, <1>4, <1>5 DEF Slice

\* A page shows the rows of a list whose places are on it.
LEMMA PageShowsPlaces ==
  ASSUME DistinctTimes, NEW M \in SUBSET Rows, NEW s \in Orderings(M),
         NEW offset \in Nat, NEW limit \in Nat, NEW r
  PROVE  r \in ToSet(Slice(s, offset, limit)) <=>
           r \in M /\ offset <= Place(r, M) /\ Place(r, M) < offset + limit
<1>1. s \in Seq(Rows) /\ Len(s) \in Nat
  BY OrderingFacts
<1>2. ToSet(Slice(s, offset, limit)) =
        {s[i] : i \in {j \in 1..Len(s) : offset < j /\ j <= offset + limit}}
  BY <1>1, SliceFacts
<1>3. \A i \in 1..Len(s) : s[i] \in M /\ Place(s[i], M) = i - 1
  BY OrderingFacts, OrderedByPlace
<1>4. r \in M => \E i \in 1..Len(s) : s[i] = r
  BY OrderingFacts
<1>5. ASSUME r \in ToSet(Slice(s, offset, limit))
      PROVE  r \in M /\ offset <= Place(r, M) /\ Place(r, M) < offset + limit
  <2>1. PICK i \in 1..Len(s) : offset < i /\ i <= offset + limit /\ r = s[i]
    BY <1>2, <1>5
  <2> QED BY <1>1, <1>3, <2>1
<1>6. ASSUME r \in M, offset <= Place(r, M), Place(r, M) < offset + limit
      PROVE  r \in ToSet(Slice(s, offset, limit))
  <2>1. PICK i \in 1..Len(s) : s[i] = r
    BY <1>4, <1>6
  <2>2. offset < i /\ i <= offset + limit
    BY <1>1, <1>3, <1>6, <2>1
  <2> QED BY <1>2, <2>1, <2>2
<1> QED BY <1>5, <1>6

\* The last page is the one that reaches the total.
LEMMA LastPage ==
  ASSUME NEW total \in Nat, NEW limit \in Nat \ {0}, NEW page \in Nat \ {0}
  PROVE  /\ TotalPages(total, limit) \in Nat
         /\ page < TotalPages(total, limit) <=> page * limit < total
<1>1. CASE total = 0
  <2>1. page * limit \in Nat
    OBVIOUS
  <2> QED BY <1>1, <2>1 DEF TotalPages
<1>2. CASE total > 0
  <2> DEFINE q == (total + limit - 1) \div limit
  <2>1. q \in Nat /\ limit * q <= total + limit - 1 /\ total + limit - 1 < limit * q + limit
    OBVIOUS
  <2>2. TotalPages(total, limit) = q
    BY <1>2 DEF TotalPages
  <2> HIDE DEF q
  <2>3. page < q => page * limit < total
    <3>1. page + 1 <= q => (page + 1) * limit <= limit * q
      BY <2>1
    <3>2. (page + 1) * limit = page * limit + limit
      OBVIOUS
    <3> QED BY <2>1, <3>1, <3>2
  <2>4. q <= page => total <= page * limit
    <3>1. q <= page => limit * q <= page * limit
      BY <2>1
    <3> QED BY <2>1, <3>1
  <2> QED BY <2>1, <2>2, <2>3, <2>4
<1> QED BY <1>1, <1>2

-----------------------------------------------------------------------------
(* Types *)

Stages == {"checking", "counting", "reading", "answered", "failed"}

Queries ==
  [pc : Stages, filter : Filters, first : Nat \ {0}, page : Nat \ {0},
   limit : 1..MaxLimit, total : Nat]

Walks == [base : SUBSET Rows, entered : SUBSET Rows, late : SUBSET Rows,
          left : SUBSET Rows, shown : SUBSET Rows, repeated : SUBSET Rows]

Types ==
  /\ endpoint \in {"public", "admin", "applications"}
  /\ posting \in BOOLEAN
  /\ table \in [Rows -> Contents(endpoint)]
  /\ query = Idle \/ query \in Queries
  /\ reply \in Seq(Rows)
  /\ writes \in Nat
  /\ walk \in Walks

Busy == query.pc # "idle"

\* The rows that match now.
Current == Listed(query.filter, table)

\* The rows of a list are rows.
LEMMA ListsAreOfRows ==
  ASSUME Types, NEW f
  PROVE  Matching(f, table) \in SUBSET Rows /\ Listed(f, table) \in SUBSET Rows
<1> QED BY DEF Types, Matching, Listed

\* A well-formed request asks for a page and a limit in range.
LEMMA RequestInRange ==
  ASSUME NEW page \in PageInputs, NEW limit \in LimitInputs,
         IsPositive(page), IsPositive(limit)
  PROVE  PageOf(page) \in Nat \ {0} /\ LimitOf(limit) \in 1..MaxLimit
<1>1. \A input \in {page, limit} : input # <<>> => input[1] \in Nat \ {0}
  <2> SUFFICES ASSUME NEW input \in {page, limit}, input # <<>>
               PROVE  input[1] \in Nat \ {0}
    OBVIOUS
  <2>1. input \in Seq(Int) /\ IsPositive(input)
    BY InputsAssumption
  <2>2. input[1] \in ToSet(input)
    BY <2>1 DEF ToSet
  <2>3. input[1] \in 1..(2^(Width - 1) - 1)
    BY <2>1, <2>2 DEF IsPositive
  <2> QED BY <2>3
<1> QED BY <1>1, LimitsAssumption DEF PageOf, LimitOf

\* What a filter becomes is a filter, and that of the public list is its own.
LEMMA FilterInRange ==
  ASSUME Types, NEW f \in Filters
  PROVE  Effective(f) \in Filters /\ (endpoint = "public" => Effective(f) = <<"published">>)
<1> QED BY DEF Types, Filters, Values, Effective

\* A write puts contents of the right kind into the table.
LEMMA WritesContents ==
  ASSUME Types, Writer
  PROVE  \E rows \in [Rows -> Contents(endpoint)] : Write(rows)
<1>1. ASSUME NEW r \in Rows, NEW v \in Values(endpoint), Insert(r, v) \/ Update(r, v)
      PROVE  \E rows \in [Rows -> Contents(endpoint)] : Write(rows)
  <2>1. [table EXCEPT ![r] = Row(v)] \in [Rows -> Contents(endpoint)]
    BY DEF Types, Contents
  <2> QED BY <1>1, <2>1 DEF Insert, Update
<1>2. ASSUME NEW r \in Rows, Delete(r)
      PROVE  \E rows \in [Rows -> Contents(endpoint)] : Write(rows)
  <2>1. [table EXCEPT ![r] = Gone] \in [Rows -> Contents(endpoint)]
    BY DEF Types, Contents
  <2> QED BY <1>2, <2>1 DEF Delete
<1>3. ASSUME DeletePosting
      PROVE  \E rows \in [Rows -> Contents(endpoint)] : Write(rows)
  <2>1. [r \in Rows |-> IF IsRow(r) THEN Gone ELSE table[r]] \in [Rows -> Contents(endpoint)]
    BY DEF Types, Contents
  <2> QED BY <1>3, <2>1 DEF DeletePosting
<1> QED BY <1>1, <1>2, <1>3 DEF Writer

\* A read answers with rows that match, in a sequence.
LEMMA ReadsRows ==
  ASSUME Types, Read
  PROVE  /\ query.pc = "reading" /\ query' = [query EXCEPT !.pc = "answered"]
         /\ UNCHANGED <<endpoint, posting, table, writes>>
         /\ Offset(query.page, query.limit) \in Nat
         /\ \E s \in Orderings(Matching(query.filter, table)) :
              /\ reply' = Slice(s, Offset(query.page, query.limit), query.limit)
              /\ walk' = [walk EXCEPT !.shown = @ \cup ToSet(reply'),
                                      !.repeated = @ \cup (walk.shown \cap ToSet(reply'))]
              /\ reply' \in Seq(Rows) /\ ToSet(reply') \subseteq Matching(query.filter, table)
<1> DEFINE M == Matching(query.filter, table)
           offset == Offset(query.page, query.limit)
<1>1. query.pc = "reading" /\ query \in Queries
  BY DEF Read, Types, Idle
<1>2. PICK s \in Orderings(M) :
        /\ reply' = Slice(s, offset, query.limit)
        /\ walk' = [walk EXCEPT !.shown = @ \cup ToSet(reply'),
                                !.repeated = @ \cup (walk.shown \cap ToSet(reply'))]
  BY DEF Read
<1>3. (query.page - 1) * query.limit \in Nat /\ query.limit \in Nat
  <2>1. query.page - 1 \in Nat /\ query.limit \in Nat
    BY <1>1, LimitsAssumption DEF Queries
  <2> QED BY <2>1
<1>4. offset \in Nat
  BY <1>3, WrappedFacts DEF Read, Offset
<1>5. M \in SUBSET Rows
  BY ListsAreOfRows
<1>6. s \in Seq(Rows) /\ \A i \in 1..Len(s) : s[i] \in M
  BY <1>5, OrderingFacts
<1> HIDE DEF M, offset
<1>7. reply' \in Seq(Rows) /\ ToSet(reply') \subseteq M
  <2>1. /\ Slice(s, offset, query.limit) \in Seq(Rows)
        /\ ToSet(Slice(s, offset, query.limit)) =
             {s[i] : i \in {j \in 1..Len(s) : offset < j /\ j <= offset + query.limit}}
    BY <1>3, <1>4, <1>6, SliceFacts
  <2> QED BY <1>2, <1>6, <2>1
<1> QED BY <1>1, <1>2, <1>4, <1>7 DEF M, offset, Read

LEMMA TypesInductive ==
  ASSUME Types, [Next]_vars
  PROVE  Types'
<1>1. ASSUME NEW f \in Filters, NEW page \in PageInputs, NEW limit \in LimitInputs,
             Request(f, page, limit)
      PROVE  Types'
  <2>1. PageOf(page) \in Nat \ {0} /\ LimitOf(limit) \in 1..MaxLimit
    BY <1>1, RequestInRange DEF Request
  <2>2. Effective(f) \in Filters
    BY FilterInRange
  <2>3. NewWalk(Effective(f)) \in Walks
    BY ListsAreOfRows DEF NewWalk, Walks
  <2>4. Counting(Effective(f), PageOf(page), PageOf(page), LimitOf(limit)) \in Queries
    BY <2>1, <2>2 DEF Counting, Queries, Stages
  <2>5. UNCHANGED <<endpoint, posting, table, reply, writes>>
    BY <1>1 DEF Request
  <2>6. query' \in Queries /\ walk' \in Walks
    BY <1>1, <2>3, <2>4 DEF Request
  <2>7. (query \in Queries)'
    BY <2>5, <2>6 DEF Queries, Filters, Values, Stages
  <2> QED BY <2>5, <2>6, <2>7 DEF Types
<1>2. CASE NextPage
  <2>1. query \in Queries
    BY <1>2 DEF Types, NextPage, Idle
  <2>2. query' \in Queries
    BY <1>2, <2>1 DEF NextPage, Counting, Queries, Stages
  <2>3. walk' \in Walks
    BY <1>2 DEF NextPage, Types, Walks
  <2> QED BY <1>2, <2>2, <2>3 DEF NextPage, Types, Queries, Filters, Values
<1>3. CASE Check
  <2>1. query \in Queries
    BY <1>3 DEF Types, Check, Idle
  <2>2. query' \in Queries
    BY <1>3, <2>1 DEF Check, Queries, Stages
  <2> QED BY <1>3, <2>2 DEF Check, Types, Queries, Filters, Values
<1>4. CASE Count
  <2>1. Cardinality(Matching(query.filter, table)) \in Nat
    BY ListsAreOfRows, ListsAreFinite
  <2>2. query' \in Queries
    <3>1. query \in Queries
      BY <1>4 DEF Types, Count, Idle
    <3> QED BY <1>4, <2>1, <3>1 DEF Count, Queries, Stages
  <2>3. walk' \in Walks
    BY <1>4 DEF Count, Types, Walks
  <2> QED BY <1>4, <2>2, <2>3 DEF Count, Types, Queries, Filters, Values
<1>5. CASE Read
  <2>1. query' \in Queries
    <3>1. query.pc = "reading" /\ query' = [query EXCEPT !.pc = "answered"]
      BY <1>5, ReadsRows
    <3>2. query \in Queries
      BY <3>1 DEF Types, Idle
    <3> QED BY <3>1, <3>2 DEF Queries, Stages
  <2>2. reply' \in Seq(Rows) /\ walk' \in Walks
    <3>1. ToSet(reply') \subseteq Rows
      BY <1>5, ReadsRows, ListsAreOfRows
    <3> QED BY <1>5, <3>1, ReadsRows DEF Types, Walks
  <2> QED BY <1>5, <2>1, <2>2, ReadsRows DEF Types, Queries, Filters, Values
<1>6. CASE ReadRefused \/ StatementFails
  <2>1. query \in Queries
    BY <1>6 DEF Types, ReadRefused, StatementFails, Idle
  <2>2. query' \in Queries
    BY <1>6, <2>1 DEF ReadRefused, StatementFails, Queries, Stages
  <2> QED BY <1>6, <2>2 DEF ReadRefused, StatementFails, Types, Queries, Filters, Values
<1>7. CASE Leave
  BY <1>7 DEF Leave, Types, NoWalk, Walks, Queries, Filters, Values
<1>8. CASE Writer
  <2>1. PICK rows \in [Rows -> Contents(endpoint)] : Write(rows)
    BY <1>8, WritesContents
  <2>2. /\ Listed(query.filter, table) \in SUBSET Rows
        /\ Listed(query.filter, rows) \in SUBSET Rows
    BY DEF Types, Listed, Matching
  <2>3. walk' \in Walks
    BY <2>1, <2>2 DEF Write, Types, Walks
  <2>4. posting' \in BOOLEAN
    BY <1>8 DEF Types, Writer, Insert, Update, Delete, DeletePosting
  <2> QED BY <2>1, <2>3, <2>4 DEF Write, Types, Queries, Filters, Values
<1>9. CASE UNCHANGED vars
  BY <1>9 DEF vars, Types, Queries, Filters, Values
<1> QED BY <1>1, <1>2, <1>3, <1>4, <1>5, <1>6, <1>7, <1>8, <1>9 DEF Next, Client

\* The three lists keep to their types: pages and limits in range, rows that are
\* rows, whatever is asked for and written.
THEOREM TypesHold == Spec => []Types
<1>1. Init => Types
  BY DEF Init, Types, NoWalk, Walks
<1> QED BY <1>1, TypesInductive, PTL DEF Spec

-----------------------------------------------------------------------------
(* The rows of a walk, and the count *)

\* The public list asks for what is published; a walk has shown, and the list
\* has, what was there at its beginning or has entered; and has all of that
\* unless something left.
RowsRight ==
  /\ ~Busy => walk = NoWalk
  /\ Busy =>
       /\ endpoint = "public" => query.filter = <<"published">>
       /\ walk.shown \subseteq walk.base \cup walk.entered
       /\ Current \subseteq walk.base \cup walk.entered
       /\ walk.left = {} => walk.base \subseteq Current

\* Until the page is read, the count is that of the list, unless a row entered
\* or left after it.
CountRight ==
  /\ walk.late \subseteq walk.entered
  /\ query.pc = "reading" /\ walk.left = {} /\ walk.late = {} =>
       query.total = Cardinality(Current)

ListRight == RowsRight /\ CountRight /\ PageIsItsSlice

\* While a client walks, its history takes in what a write does to its list.
LEMMA WriteIsNoted ==
  ASSUME Types, Busy, NEW rows \in [Rows -> Contents(endpoint)], Write(rows)
  PROVE  /\ UNCHANGED <<endpoint, query, reply>>
         /\ Current \in SUBSET Rows /\ Current' \in SUBSET Rows
         /\ walk' \in Walks
         /\ walk'.base = walk.base /\ walk'.shown = walk.shown
         /\ walk'.repeated = walk.repeated
         /\ walk'.entered = walk.entered \cup (Current' \ Current)
         /\ walk'.left = walk.left \cup (Current \ Current')
         /\ walk'.late = IF query.pc = "reading" THEN walk.late \cup (Current' \ Current)
                         ELSE walk.late
<1>1. UNCHANGED <<endpoint, query, reply>> /\ table' = rows
  BY DEF Write
<1>2. query # Idle
  BY DEF Busy, Idle
<1>3. Current' = Listed(query.filter, rows)
  BY <1>1 DEF Current, Listed, Matching, Accepts
<1>4. Current \in SUBSET Rows /\ Current' \in SUBSET Rows
  BY <1>3 DEF Current, Listed, Matching, Types
<1>5. walk' = [walk EXCEPT
                 !.entered = @ \cup (Current' \ Current), !.left = @ \cup (Current \ Current'),
                 !.late = IF query.pc = "reading" THEN @ \cup (Current' \ Current) ELSE @]
  BY <1>2, <1>3 DEF Write, Current
<1>6. walk \in Walks
  BY DEF Types
<1> QED BY <1>1, <1>4, <1>5, <1>6 DEF Walks

\* The rows a statement of a walk matches are those of its list.
LEMMA MatchesAreCurrent ==
  ASSUME Types, RowsRight, Busy
  PROVE  Matching(query.filter, table) = Current
<1>1. CASE endpoint = "public"
  <2>1. \A r \in DOMAIN table :
          Accepts(query.filter, table[r]) => table[r].value = "published"
    BY <1>1 DEF RowsRight, Accepts
  <2> QED BY <2>1 DEF Current, Listed, Matching
<1>2. CASE endpoint # "public"
  BY <1>2 DEF Current, Listed
<1> QED BY <1>1, <1>2

\* Counting, reading and the writes of others keep the three together.
LEMMA ListRightInductive ==
  ASSUME Types, ListRight, [Next]_vars
  PROVE  ListRight'
<1> USE DEF ListRight
<1>1. ASSUME NEW f \in Filters, NEW page \in PageInputs, NEW limit \in LimitInputs,
             Request(f, page, limit)
      PROVE  ListRight'
  <2> DEFINE e == Effective(f)
  <2>1. /\ query' = Counting(e, PageOf(page), PageOf(page), LimitOf(limit))
        /\ walk' = NewWalk(e) /\ UNCHANGED <<endpoint, table>>
    BY <1>1 DEF Request
  <2>2. endpoint = "public" => e = <<"published">>
    BY FilterInRange
  <2> HIDE DEF e
  <2>3. query'.filter = e /\ query'.pc \in {"checking", "counting"}
    BY <2>1 DEF Counting
  <2>4. Current' = Listed(e, table)
    BY <2>1, <2>3 DEF Current, Listed, Matching, Accepts
  <2>5. RowsRight'
    BY <2>1, <2>2, <2>3, <2>4 DEF RowsRight, Busy, NewWalk
  <2>6. CountRight'
    BY <2>1, <2>3 DEF CountRight, NewWalk
  <2> QED BY <2>3, <2>5, <2>6 DEF PageIsItsSlice, Answered
<1>2. CASE NextPage
  <2>1. /\ query \in Queries /\ Busy
        /\ query' = Counting(query.filter, query.first, query.page + 1, query.limit)
        /\ walk' = [walk EXCEPT !.late = {}] /\ UNCHANGED <<endpoint, table>>
    BY <1>2 DEF Types, NextPage, Idle, Busy
  <2>2. query'.filter = query.filter /\ query'.pc \in {"checking", "counting"}
    BY <2>1 DEF Counting
  <2>3. Current' = Current
    BY <2>1, <2>2 DEF Current, Listed, Matching, Accepts
  <2>4. walk \in Walks
    BY DEF Types
  <2>5. RowsRight'
    BY <2>1, <2>2, <2>3, <2>4 DEF RowsRight, Busy, Walks
  <2>6. CountRight'
    BY <2>1, <2>2, <2>4 DEF CountRight, Walks
  <2> QED BY <2>2, <2>5, <2>6 DEF PageIsItsSlice, Answered
<1>3. CASE Check \/ ReadRefused \/ StatementFails
  <2>1. /\ query \in Queries /\ Busy
        /\ query'.pc \in {"counting", "failed"} /\ query'.filter = query.filter
        /\ UNCHANGED <<endpoint, table, reply, walk>>
    BY <1>3 DEF Types, Check, ReadRefused, StatementFails, Idle, Busy, Queries
  <2>2. Current' = Current
    BY <2>1 DEF Current, Listed, Matching, Accepts
  <2>3. RowsRight'
    BY <2>1, <2>2 DEF RowsRight, Busy
  <2>4. CountRight'
    BY <2>1 DEF CountRight
  <2> QED BY <2>1, <2>3, <2>4 DEF PageIsItsSlice, Answered
<1>4. CASE Count
  <2>1. /\ query \in Queries /\ Busy
        /\ query'.pc = "reading" /\ query'.filter = query.filter
        /\ query'.total = Cardinality(Matching(query.filter, table))
        /\ walk' = [walk EXCEPT !.late = {}] /\ UNCHANGED <<endpoint, table>>
    BY <1>4 DEF Types, Count, Idle, Busy, Queries
  <2>2. Current' = Current
    BY <2>1 DEF Current, Listed, Matching, Accepts
  <2>3. query'.total = Cardinality(Current')
    BY <2>1, <2>2, MatchesAreCurrent
  <2>4. walk \in Walks
    BY DEF Types
  <2>5. RowsRight'
    BY <2>1, <2>2, <2>4 DEF RowsRight, Busy, Walks
  <2>6. CountRight'
    BY <2>1, <2>3, <2>4 DEF CountRight, Walks
  <2> QED BY <2>1, <2>5, <2>6 DEF PageIsItsSlice, Answered
<1>5. CASE Read
  <2> DEFINE M == Matching(query.filter, table)
             offset == Offset(query.page, query.limit)
  <2>1. /\ query.pc = "reading" /\ query' = [query EXCEPT !.pc = "answered"]
        /\ UNCHANGED <<endpoint, table>> /\ offset \in Nat
    BY <1>5, ReadsRows
  <2>2. PICK s \in Orderings(M) :
          /\ reply' = Slice(s, offset, query.limit)
          /\ walk' = [walk EXCEPT !.shown = @ \cup ToSet(reply'),
                                  !.repeated = @ \cup (walk.shown \cap ToSet(reply'))]
          /\ reply' \in Seq(Rows) /\ ToSet(reply') \subseteq M
    BY <1>5, ReadsRows
  <2>3. query \in Queries /\ Busy
    BY <2>1 DEF Types, Idle, Busy
  <2>4. M = Current /\ M \in SUBSET Rows
    BY <2>3, MatchesAreCurrent, ListsAreOfRows
  <2>5. s \in Seq(Rows) /\ Len(s) = Cardinality(M)
    BY <2>4, OrderingFacts
  <2> HIDE DEF M, offset
  <2>6. Current' = Current
    BY <2>1, <2>3 DEF Current, Listed, Matching, Accepts, Queries
  <2>7. walk \in Walks
    BY DEF Types
  <2>8. RowsRight'
    BY <2>1, <2>2, <2>3, <2>4, <2>6, <2>7 DEF RowsRight, Busy, Walks, Queries
  <2>9. CountRight'
    BY <2>1, <2>2, <2>3, <2>7 DEF CountRight, Walks, Queries
  <2>10. PageIsItsSlice'
    <3> SUFFICES ASSUME OffsetFits', walk'.entered = {}, walk'.left = {}
                 PROVE  Len(reply') = Between(query'.total - (query'.page - 1) * query'.limit,
                                              0, query'.limit)
      BY DEF PageIsItsSlice
    <3>1. /\ query'.total = query.total /\ query'.page = query.page
          /\ query'.limit = query.limit
      BY <2>1, <2>3 DEF Queries
    <3>2. query.total = Len(s)
      BY <2>1, <2>2, <2>4, <2>5, <2>7 DEF CountRight, Walks
    <3>3. (query.page - 1) * query.limit \in Nat /\ query.limit \in Nat
      <4>1. query.page - 1 \in Nat /\ query.limit \in Nat
        BY <2>3, LimitsAssumption DEF Queries
      <4> QED BY <4>1
    <3>4. offset = (query.page - 1) * query.limit
      BY <3>1, <3>3, WrappedFacts DEF OffsetFits, Half, offset, Offset
    <3> QED BY <2>1, <2>2, <2>5, <3>1, <3>2, <3>3, <3>4, SliceFacts
  <2> QED BY <2>8, <2>9, <2>10
<1>6. CASE Leave
  <2>1. query' = Idle /\ walk' = NoWalk
    BY <1>6 DEF Leave
  <2> QED BY <2>1 DEF RowsRight, CountRight, PageIsItsSlice, Answered, Busy, Idle, NoWalk
<1>7. CASE Writer
  <2>1. PICK rows \in [Rows -> Contents(endpoint)] : Write(rows)
    BY <1>7, WritesContents
  <2>2. CASE Busy
    <3>1. UNCHANGED <<endpoint, query, reply>>
      BY <2>1, <2>2, WriteIsNoted
    <3>2. /\ walk'.base = walk.base /\ walk'.shown = walk.shown
          /\ walk'.entered = walk.entered \cup (Current' \ Current)
          /\ walk'.left = walk.left \cup (Current \ Current')
          /\ walk'.late = IF query.pc = "reading" THEN walk.late \cup (Current' \ Current)
                          ELSE walk.late
      BY <2>1, <2>2, WriteIsNoted
    <3>3. RowsRight'
      BY <2>2, <3>1, <3>2 DEF RowsRight, Busy
    <3>4. CountRight'
      <4>1. walk'.late \subseteq walk'.entered
        BY <3>2 DEF CountRight
      <4>2. query.pc = "reading" /\ walk'.left = {} /\ walk'.late = {}
              => Current' = Current /\ walk.left = {} /\ walk.late = {}
        BY <3>2
      <4> QED BY <3>1, <4>1, <4>2 DEF CountRight
    <3>5. PageIsItsSlice'
      <4>1. walk'.entered = {} /\ walk'.left = {} => walk.entered = {} /\ walk.left = {}
        BY <3>2
      <4> QED BY <3>1, <4>1 DEF PageIsItsSlice, Answered, OffsetFits
    <3> QED BY <3>3, <3>4, <3>5
  <2>3. CASE ~Busy
    <3>1. query = Idle
      BY <2>3 DEF Types, Busy, Queries, Stages
    <3>2. UNCHANGED <<query, walk>>
      BY <2>1, <3>1 DEF Write
    <3> QED BY <2>3, <3>1, <3>2
         DEF RowsRight, CountRight, PageIsItsSlice, Answered, Busy, Idle
  <2> QED BY <2>2, <2>3
<1>8. CASE UNCHANGED vars
  BY <1>8 DEF vars, RowsRight, CountRight, PageIsItsSlice, Answered, OffsetFits, Busy,
              Current, Listed, Matching, Accepts
<1> QED BY <1>1, <1>2, <1>3, <1>4, <1>5, <1>6, <1>7, <1>8 DEF Next, Client

\* A walk shows nothing but rows that matched when it began or have entered since,
\* the public list nothing that was not published: the filter that is counted and
\* read is the one the walk is about.
THEOREM WalksShowMatches == Spec => []ShowsOnlyMatches
<1>1. Init => Types /\ ListRight
  BY DEF Init, Types, NoWalk, Walks, ListRight, RowsRight, CountRight, PageIsItsSlice,
         Answered, Busy, Idle
<1>2. Types /\ ListRight /\ [Next]_vars => (Types /\ ListRight)'
  BY TypesInductive, ListRightInductive
<1>3. Types /\ ListRight => ShowsOnlyMatches
  BY DEF ListRight, RowsRight, ShowsOnlyMatches, NoWalk
<1> QED BY <1>1, <1>2, <1>3, PTL DEF Spec

\* In a walk without writes each page has as many rows as its number, the limit
\* and the total promise, unless its offset is no int.
THEOREM PagesAreSlices == Spec => []PageIsItsSlice
<1>1. Init => Types /\ ListRight
  BY DEF Init, Types, NoWalk, Walks, ListRight, RowsRight, CountRight, PageIsItsSlice,
         Answered, Busy, Idle
<1>2. Types /\ ListRight /\ [Next]_vars => (Types /\ ListRight)'
  BY TypesInductive, ListRightInductive
<1>3. Types /\ ListRight => PageIsItsSlice
  BY DEF ListRight
<1> QED BY <1>1, <1>2, <1>3, PTL DEF Spec

-----------------------------------------------------------------------------
(* The places of what a walk has shown *)

\* The pages read so far.
PagesRead == IF query.pc = "answered" THEN query.page ELSE query.page - 1

\* Pages after the first are below a total, so their offsets are ints.
PageRight ==
  Busy =>
    /\ query.page = query.first \/ (query.page - 1) * query.limit < Half
    /\ query.page = query.first /\ query.pc # "answered" => walk.shown = {} /\ walk.repeated = {}
    /\ query.first <= query.page
    /\ query.total < Half

\* Unless rows entered, what was shown is still on the pages read so far; unless
\* rows left, what is still to be shown is not.
PlacesRight ==
  Busy /\ query.pc # "failed" =>
    /\ walk.entered = {} => 
         \A r \in walk.shown : Place(r, Current) < PagesRead * query.limit
    /\ walk.left = {} /\ query.first = 1 =>
         \A r \in walk.base \ walk.shown : PagesRead * query.limit <= Place(r, Current)

WalkRight == PageRight /\ PlacesRight /\ WalkShowsEachOnce

\* A read of a walk: it adds a page, on which nothing was shown before and which
\* ends where the next one begins.
LEMMA ReadKeepsPlaces ==
  ASSUME DistinctTimes, Types, ListRight, WalkRight, Read
  PROVE  WalkRight'
<1> DEFINE M == Matching(query.filter, table)
           offset == Offset(query.page, query.limit)
           before == (query.page - 1) * query.limit
           after == query.page * query.limit
<1>1. /\ query.pc = "reading" /\ query' = [query EXCEPT !.pc = "answered"]
      /\ UNCHANGED <<endpoint, table>> /\ offset \in Nat
  BY ReadsRows
<1>2. PICK s \in Orderings(M) :
        /\ reply' = Slice(s, offset, query.limit)
        /\ walk' = [walk EXCEPT !.shown = @ \cup ToSet(reply'),
                                !.repeated = @ \cup (walk.shown \cap ToSet(reply'))]
  BY ReadsRows
<1>3. query \in Queries /\ Busy /\ walk \in Walks
  BY <1>1 DEF Types, Idle, Busy
<1>4. M = Current /\ M \in SUBSET Rows
  BY <1>3, MatchesAreCurrent, ListsAreOfRows DEF ListRight
<1>5. Current' = Current
  BY <1>1, <1>3 DEF Current, Listed, Matching, Accepts, Queries
<1>6. /\ query.page \in Nat \ {0} /\ query.limit \in Nat \ {0} /\ query.total \in Nat
      /\ before \in Nat /\ after = before + query.limit
  <2>1. query.page \in Nat \ {0} /\ query.limit \in Nat \ {0} /\ query.total \in Nat
    BY <1>3, LimitsAssumption DEF Queries
  <2>2. \A p, l \in Nat : p * l \in Nat /\ (p + 1) * l = p * l + l
    OBVIOUS
  <2>3. query.page - 1 \in Nat /\ query.page = (query.page - 1) + 1
    BY <2>1
  <2> QED BY <2>1, <2>2, <2>3
<1>7. \A r : r \in ToSet(reply') <=>
               r \in M /\ offset <= Place(r, M) /\ Place(r, M) < offset + query.limit
  BY <1>1, <1>2, <1>4, <1>6, PageShowsPlaces
<1>8. \A r : Place(r, M) \in Nat /\ (r \in M => Place(r, M) < Cardinality(M))
  BY <1>4, PlaceFacts
<1>9. /\ walk'.shown = walk.shown \cup ToSet(reply')
      /\ walk'.repeated = walk.repeated \cup (walk.shown \cap ToSet(reply'))
      /\ walk'.base = walk.base /\ walk'.entered = walk.entered
      /\ walk'.left = walk.left /\ walk'.late = walk.late
  BY <1>2, <1>3 DEF Walks
<1>10. /\ query'.pc = "answered" /\ query'.page = query.page /\ query'.first = query.first
       /\ query'.limit = query.limit /\ query'.total = query.total
  BY <1>1, <1>3 DEF Queries
<1>11. offset <= before /\ (query.page # query.first => offset = before)
  <2>1. query.page # query.first => before < Half
    BY <1>3 DEF WalkRight, PageRight
  <2> QED BY <1>6, <2>1, WrappedFacts DEF Offset
<1>12. query.page = query.first => walk.shown = {}
  BY <1>1, <1>3 DEF WalkRight, PageRight
<1>13. query.first = 1 => offset = before
  <2>1. query.page = 1 => before = 0
    BY <1>6
  <2>2. 0 < Half
    <3>1. Width - 1 \in Nat
      BY WidthAssumption
    <3> QED BY <3>1, PowerIsPositive DEF Half
  <2> QED BY <1>6, <1>11, <2>1, <2>2, WrappedFacts DEF Offset
<1>14. /\ walk.entered = {} => \A r \in walk.shown : Place(r, M) < before
       /\ walk.left = {} /\ query.first = 1 =>
            \A r \in walk.base \ walk.shown : before <= Place(r, M)
  BY <1>1, <1>3, <1>4 DEF WalkRight, PlacesRight, PagesRead
<1>15. walk.left = {} => walk.base \subseteq M
  BY <1>3, <1>4 DEF ListRight, RowsRight
<1> HIDE DEF M, offset, before, after
<1>16. PageRight'
  BY <1>3, <1>6, <1>10 DEF WalkRight, PageRight, Busy, before
<1>17. walk.entered = {} => \A r \in walk'.shown : Place(r, M) < after
  BY <1>1, <1>6, <1>7, <1>8, <1>9, <1>11, <1>14
<1>18. walk.left = {} /\ query.first = 1 =>
         \A r \in walk.base \ walk'.shown : after <= Place(r, M)
  BY <1>1, <1>6, <1>7, <1>8, <1>9, <1>13, <1>14, <1>15
<1>19. PlacesRight'
  BY <1>4, <1>5, <1>9, <1>10, <1>17, <1>18 DEF PlacesRight, PagesRead, after
<1>20. MissesNothing'
  <2> SUFFICES ASSUME query.page >= TotalPages(query.total, query.limit),
                      query.first = 1, walk.left = {}, walk.late = {}
               PROVE  walk.base \subseteq walk'.shown
    BY <1>9, <1>10 DEF MissesNothing
  <2>1. query.total <= after
    BY <1>6, LastPage DEF after
  <2>2. query.total = Cardinality(M)
    BY <1>1, <1>4 DEF ListRight, CountRight
  <2>3. after \in Nat
    BY <1>6
  <2>4. \A r \in M : Place(r, M) < after
    <3>1. \A r \in M : Place(r, M) < query.total /\ Place(r, M) \in Nat
      BY <1>8, <2>2
    <3> QED BY <1>6, <2>1, <2>3, <3>1
  <2>5. \A r \in walk.base \ walk'.shown : after <= Place(r, M) /\ r \in M
    BY <1>15, <1>18
  <2>6. \A r \in M : Place(r, M) \in Nat
    BY <1>8
  <2> QED BY <2>3, <2>4, <2>5, <2>6
<1>21. RepeatsNothing'
  <2> SUFFICES ASSUME walk.entered = {} PROVE walk'.repeated = {}
    BY <1>9 DEF RepeatsNothing
  <2>1. walk.repeated = {}
    BY DEF WalkRight, WalkShowsEachOnce, RepeatsNothing
  <2>2. \A r \in walk.shown : r \notin ToSet(reply')
    BY <1>1, <1>6, <1>7, <1>8, <1>11, <1>12, <1>14
  <2> QED BY <1>9, <2>1, <2>2
<1> QED BY <1>16, <1>19, <1>20, <1>21 DEF WalkRight, WalkShowsEachOnce

\* A write of another request: what was shown moves on only if a row entered, what
\* is to be shown moves back only if a row left.
LEMMA WriteKeepsPlaces ==
  ASSUME Types, Busy, WalkRight, NEW rows \in [Rows -> Contents(endpoint)], Write(rows)
  PROVE  WalkRight'
<1>1. /\ UNCHANGED query
      /\ Current \in SUBSET Rows /\ Current' \in SUBSET Rows
      /\ walk'.base = walk.base /\ walk'.shown = walk.shown
      /\ walk'.repeated = walk.repeated
      /\ walk'.entered = walk.entered \cup (Current' \ Current)
      /\ walk'.left = walk.left \cup (Current \ Current')
      /\ walk'.late \in {walk.late, walk.late \cup (Current' \ Current)}
  BY WriteIsNoted
<1>2. PageRight'
  BY <1>1 DEF WalkRight, PageRight, Busy
<1>3. PlacesRight'
  <2> SUFFICES ASSUME query.pc # "failed"
               PROVE  /\ walk'.entered = {} =>
                           \A r \in walk.shown : Place(r, Current') < PagesRead * query.limit
                      /\ walk'.left = {} /\ query.first = 1 =>
                           \A r \in walk.base \ walk.shown :
                             PagesRead * query.limit <= Place(r, Current')
    BY <1>1 DEF PlacesRight, PagesRead
  <2>1. query \in Queries
    BY DEF Types, Busy, Idle
  <2>2. PagesRead * query.limit \in Nat
    <3>1. PagesRead \in Nat /\ query.limit \in Nat
      BY <2>1, LimitsAssumption DEF PagesRead, Queries
    <3> QED BY <3>1
  <2>3. /\ walk.entered = {} =>
             \A r \in walk.shown : Place(r, Current) < PagesRead * query.limit
        /\ walk.left = {} /\ query.first = 1 =>
             \A r \in walk.base \ walk.shown : PagesRead * query.limit <= Place(r, Current)
    BY DEF WalkRight, PlacesRight
  <2>4. \A r : Place(r, Current) \in Nat /\ Place(r, Current') \in Nat
    BY <1>1, PlaceFacts
  <2>5. ASSUME walk'.entered = {}
        PROVE  \A r \in walk.shown : Place(r, Current') < PagesRead * query.limit
    <3>1. Current' \in SUBSET Current /\ walk.entered = {}
      BY <1>1, <2>5
    <3>2. \A r : Place(r, Current') <= Place(r, Current)
      BY <1>1, <3>1, PlaceFacts
    <3> QED BY <2>2, <2>3, <2>4, <3>1, <3>2
  <2>6. ASSUME walk'.left = {}, query.first = 1
        PROVE  \A r \in walk.base \ walk.shown : PagesRead * query.limit <= Place(r, Current')
    <3>1. Current \in SUBSET Current' /\ walk.left = {}
      BY <1>1, <2>6
    <3>2. \A r : Place(r, Current) <= Place(r, Current')
      BY <1>1, <3>1, PlaceFacts
    <3> QED BY <2>2, <2>3, <2>4, <2>6, <3>1, <3>2
  <2> QED BY <2>5, <2>6
<1>4. WalkShowsEachOnce'
  <2>1. MissesNothing'
    BY <1>1 DEF WalkRight, WalkShowsEachOnce, MissesNothing, Answered
  <2>2. RepeatsNothing'
    BY <1>1 DEF WalkRight, WalkShowsEachOnce, RepeatsNothing
  <2> QED BY <2>1, <2>2 DEF WalkShowsEachOnce
<1> QED BY <1>2, <1>3, <1>4 DEF WalkRight

LEMMA WalkRightInductive ==
  ASSUME DistinctTimes, Types, ListRight, WalkRight, [Next]_vars
  PROVE  WalkRight'
<1>1. ASSUME NEW f \in Filters, NEW page \in PageInputs, NEW limit \in LimitInputs,
             Request(f, page, limit)
      PROVE  WalkRight'
  <2> DEFINE e == Effective(f)
             p == PageOf(page)
             l == LimitOf(limit)
  <2>1. query' = Counting(e, p, p, l) /\ walk' = NewWalk(e)
    BY <1>1 DEF Request
  <2>2. p \in Nat \ {0} /\ l \in Nat \ {0}
    BY <1>1, RequestInRange, LimitsAssumption DEF Request
  <2> HIDE DEF e, p, l
  <2>3. /\ query'.pc \in {"checking", "counting"} /\ query'.page = p /\ query'.first = p
        /\ query'.limit = l /\ query'.total = 0
        /\ walk'.shown = {} /\ walk'.repeated = {} /\ walk'.left = {} /\ walk'.entered = {}
    BY <2>1 DEF Counting, NewWalk
  <2>4. 0 < Half
    <3>1. Width - 1 \in Nat
      BY WidthAssumption
    <3> QED BY <3>1, PowerIsPositive DEF Half
  <2>5. PageRight'
    BY <2>2, <2>3, <2>4 DEF PageRight
  <2>6. PlacesRight'
    <3>1. Current' \in SUBSET Rows
      <4>1. query'.filter = e /\ table' = table /\ endpoint' = endpoint
        BY <1>1, <2>1 DEF Request, Counting
      <4> QED BY <4>1 DEF Current, Listed, Matching, Types
    <3>2. p = 1 => (p - 1) * l = 0
      BY <2>2
    <3>3. \A r : Place(r, Current') \in Nat
      BY <3>1, PlaceFacts
    <3> QED BY <2>3, <3>2, <3>3 DEF PlacesRight, PagesRead
  <2> QED BY <2>3, <2>5, <2>6
       DEF WalkRight, WalkShowsEachOnce, MissesNothing, RepeatsNothing, Answered
<1>2. CASE NextPage
  <2>1. /\ query \in Queries /\ Busy /\ query.pc = "answered"
        /\ query.page < TotalPages(query.total, query.limit)
        /\ query' = Counting(query.filter, query.first, query.page + 1, query.limit)
        /\ walk' = [walk EXCEPT !.late = {}] /\ UNCHANGED <<endpoint, table>>
    BY <1>2 DEF Types, NextPage, Idle, Busy
  <2>2. /\ query.page \in Nat \ {0} /\ query.limit \in Nat \ {0} /\ query.total \in Nat
        /\ query.first \in Nat
    BY <2>1, LimitsAssumption DEF Queries
  <2>3. /\ query'.pc \in {"checking", "counting"} /\ query'.page = query.page + 1
        /\ query'.first = query.first /\ query'.limit = query.limit
        /\ query'.total = 0 /\ query'.filter = query.filter
    BY <2>1 DEF Counting
  <2>4. /\ walk'.shown = walk.shown /\ walk'.repeated = walk.repeated
        /\ walk'.left = walk.left /\ walk'.entered = walk.entered /\ walk'.base = walk.base
    BY <2>1 DEF Types, Walks
  <2>5. Current' = Current
    BY <2>1, <2>3 DEF Current, Listed, Matching, Accepts
  <2>6. query.page * query.limit < Half /\ 0 < Half
    <3>1. query.page * query.limit < query.total
      BY <2>1, <2>2, LastPage
    <3>2. query.total < Half
      BY <2>1 DEF WalkRight, PageRight
    <3>3. query.page * query.limit \in Nat
      BY <2>2
    <3>4. Half \in Int
      BY WidthAssumption, PowerIsPositive DEF Half
    <3> QED BY <2>2, <3>1, <3>2, <3>3, <3>4
  <2>7. query.first <= query.page
    BY <2>1 DEF WalkRight, PageRight
  <2>8. PagesRead' = PagesRead
    BY <2>1, <2>2, <2>3 DEF PagesRead
  <2>9. PageRight'
    BY <2>2, <2>3, <2>6, <2>7 DEF PageRight
  <2>10. PlacesRight'
    BY <2>1, <2>3, <2>4, <2>5, <2>8 DEF WalkRight, PlacesRight
  <2> QED BY <2>3, <2>4, <2>9, <2>10
       DEF WalkRight, WalkShowsEachOnce, MissesNothing, RepeatsNothing, Answered
<1>3. CASE Check \/ Count \/ ReadRefused \/ StatementFails
  <2>1. /\ query \in Queries /\ Busy /\ query.pc # "answered"
        /\ query'.pc \in {"counting", "reading", "failed"}
        /\ query'.page = query.page /\ query'.first = query.first
        /\ query'.limit = query.limit /\ query'.filter = query.filter
        /\ UNCHANGED <<endpoint, table>>
    <3>1. query \in Queries /\ Busy /\ query.pc # "answered"
      BY <1>3 DEF Types, Check, Count, ReadRefused, StatementFails, Idle, Busy
    <3> QED BY <1>3, <3>1 DEF Check, Count, ReadRefused, StatementFails, Queries
  <2>2. query'.pc = "failed" \/ query.pc # "failed"
    BY <1>3 DEF Check, Count, ReadRefused, StatementFails
  <2>3. query'.total \in {query.total, Cardinality(Matching(query.filter, table))}
    BY <1>3, <2>1 DEF Check, Count, ReadRefused, StatementFails, Queries
  <2>4. /\ walk'.shown = walk.shown /\ walk'.repeated = walk.repeated
        /\ walk'.left = walk.left /\ walk'.entered = walk.entered /\ walk'.base = walk.base
    BY <1>3 DEF Types, Walks, Check, Count, ReadRefused, StatementFails
  <2>5. Current' = Current
    BY <2>1 DEF Current, Listed, Matching, Accepts
  <2>6. query'.total < Half
    <3>1. query.total < Half
      BY <2>1 DEF WalkRight, PageRight
    <3> QED BY <2>3, <3>1, ListsAreOfRows, ListsAreFinite
  <2>7. PageRight'
    BY <2>1, <2>4, <2>6 DEF WalkRight, PageRight, Busy
  <2>8. PlacesRight'
    BY <2>1, <2>2, <2>4, <2>5 DEF WalkRight, PlacesRight, PagesRead
  <2> QED BY <2>1, <2>4, <2>7, <2>8
       DEF WalkRight, WalkShowsEachOnce, MissesNothing, RepeatsNothing, Answered
<1>4. CASE Read
  BY <1>4, ReadKeepsPlaces
<1>5. CASE Leave
  <2>1. query' = Idle /\ walk' = NoWalk
    BY <1>5 DEF Leave
  <2> QED BY <2>1 DEF WalkRight, PageRight, PlacesRight, WalkShowsEachOnce, MissesNothing,
                      RepeatsNothing, Answered, Busy, Idle, NoWalk
<1>6. CASE Writer
  <2>1. PICK rows \in [Rows -> Contents(endpoint)] : Write(rows)
    BY <1>6, WritesContents
  <2>2. CASE Busy
    BY <2>1, <2>2, WriteKeepsPlaces
  <2>3. CASE ~Busy
    <3>1. query = Idle
      BY <2>3 DEF Types, Busy, Queries, Stages
    <3>2. UNCHANGED <<query, walk>>
      BY <2>1, <3>1 DEF Write
    <3> QED BY <2>3, <3>1, <3>2
         DEF WalkRight, PageRight, PlacesRight, WalkShowsEachOnce, MissesNothing,
             RepeatsNothing, Answered, Busy, Idle
  <2> QED BY <2>2, <2>3
<1>7. CASE UNCHANGED vars
  BY <1>7 DEF vars, WalkRight, PageRight, PlacesRight, PagesRead, WalkShowsEachOnce,
              MissesNothing, RepeatsNothing, Answered, Busy, Current, Listed, Matching, Accepts
<1> QED BY <1>1, <1>2, <1>3, <1>4, <1>5, <1>6, <1>7 DEF Next, Client

\* Where no two rows are of one time, a walk shows no row twice unless a row
\* entered, and its pages together miss no row that stayed, unless one left or
\* entered between the last count and the last read: for tables of every size,
\* every limit and every sequence of writes.
THEOREM WalksShowEachOnce ==
  ASSUME DistinctTimes
  PROVE  Spec => []WalkShowsEachOnce
<1>1. Init => Types /\ ListRight /\ WalkRight
  BY DEF Init, Types, NoWalk, Walks, ListRight, RowsRight, CountRight, PageIsItsSlice,
         Answered, Busy, Idle, WalkRight, PageRight, PlacesRight, WalkShowsEachOnce,
         MissesNothing, RepeatsNothing
<1>2. Types /\ ListRight /\ WalkRight /\ [Next]_vars => (Types /\ ListRight /\ WalkRight)'
  BY TypesInductive, ListRightInductive, WalkRightInductive
<1>3. WalkRight => WalkShowsEachOnce
  BY DEF WalkRight
<1> QED BY <1>1, <1>2, <1>3, PTL DEF Spec
=============================================================================
