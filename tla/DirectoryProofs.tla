--------------------------- MODULE DirectoryProofs ---------------------------
(***************************************************************************)
(* Proofs about what hosts and administrators read of a tenant's people, for *)
(* every number of accounts, sessions and queries, every lifetime and every  *)
(* bound.                                                                  *)
(***************************************************************************)
EXTENDS Directory, FiniteSetTheorems, SequenceTheorems, WellFoundedInduction, TLAPS

-----------------------------------------------------------------------------
(***************************************************************************)
(* Numbers.                                                                *)
(***************************************************************************)

(* A set of instants has an earliest one. *)
LEMMA Earliest ==
  ASSUME NEW S \in SUBSET Nat, S # {}
  PROVE  \E x \in S : \A y \in S : x <= y
  <1>1. PICK x \in S : \A y \in S : ~ (<<y, x>> \in OpToRel(<, Nat))
    BY WFMin, NatLessThanWellFounded, Zenon
  <1>2. ASSUME NEW y \in S PROVE x <= y
    <2>1. ~ (y < x)
      BY <1>1, Zenon DEF OpToRel
    <2>2. x \in Nat /\ y \in Nat
      OBVIOUS
    <2> QED BY <2>1, <2>2
  <1> QED BY <1>2

(* A set of numbers of sessions has a latest one. *)
LEMMA LatestOne ==
  ASSUME NEW n \in Nat, NEW S \in SUBSET (1 .. n), S # {}
  PROVE  \E x \in S : \A y \in S : y <= x
  <1> DEFINE R == { n - y : y \in S }
  <1>1. R \in SUBSET Nat /\ R # {}
    <2>1. \A y \in S : y \in 1 .. n
      OBVIOUS
    <2>2. \A y \in S : n - y \in Nat
      BY <2>1
    <2>3. R \in SUBSET Nat
      BY <2>2
    <2> QED BY <2>3
  <1>2. PICK r \in R : \A q \in R : r <= q
    BY <1>1, Earliest
  <1>3. PICK x \in S : r = n - x
    BY <1>2
  <1>4. ASSUME NEW y \in S PROVE y <= x
    <2>1. n - y \in R
      OBVIOUS
    <2>2. r <= n - y
      BY <1>2, <2>1
    <2> QED BY <1>3, <2>2
  <1> QED BY <1>3, <1>4

-----------------------------------------------------------------------------
(***************************************************************************)
(* The order of a listing.                                                 *)
(***************************************************************************)

(* Every sortable column of a row holds a number or Null. *)
Numbered(row) == \A f \in Sortable : row[f] \in Int \cup {Null}

(* What queries sort by. *)
SortedBy(sort) ==
  /\ sort \in Seq([field : Sortable, descending : BOOLEAN])
  /\ \E i \in 1 .. Len(sort) : sort[i].field = "principalId"

(* Rows a query can order: no two of them are of one account. *)
Listed(rows) ==
  /\ IsFiniteSet(rows)
  /\ \A r \in rows : Numbered(r)
  /\ \A r, s \in rows : r.principalId = s.principalId => r = s

(* The rows that come before one of them, and how many these are. *)
Below(rows, r, sort) == { s \in rows : Before(s, r, sort) }
Rank(rows, r, sort) == Cardinality(Below(rows, r, sort))

LEMMA SortField ==
  ASSUME NEW sort, SortedBy(sort), NEW i \in 1 .. Len(sort)
  PROVE  sort[i].field \in Sortable
  <1> DEFINE Keys == [field : Sortable, descending : BOOLEAN]
  <1>1. sort \in Seq(Keys)
    BY DEF SortedBy
  <1> HIDE DEF Keys
  <1>2. sort[i] \in Keys
    BY <1>1
  <1> QED BY <1>2, Zenon DEF Keys

LEMMA ColumnNumber ==
  ASSUME NEW sort, SortedBy(sort), NEW i \in 1 .. Len(sort), NEW r, Numbered(r)
  PROVE  r[sort[i].field] \in Int \cup {Null}
  BY SortField DEF Numbered

(* The columns on which two rows first differ. *)
LEMMA FirstDifference ==
  ASSUME NEW sort, SortedBy(sort), NEW r, NEW s, r.principalId # s.principalId
  PROVE  \E i \in 1 .. Len(sort) :
           /\ r[sort[i].field] # s[sort[i].field]
           /\ \A j \in 1 .. i - 1 : r[sort[j].field] = s[sort[j].field]
  <1> DEFINE D == { i \in 1 .. Len(sort) : r[sort[i].field] # s[sort[i].field] }
  <1>1. Len(sort) \in Nat
    BY DEF SortedBy
  <1>2. D \in SUBSET Nat
    BY <1>1
  <1>3. D # {}
    BY DEF SortedBy
  <1>4. PICK i \in D : \A j \in D : i <= j
    BY <1>2, <1>3, Earliest
  <1>5. i \in 1 .. Len(sort) /\ r[sort[i].field] # s[sort[i].field]
    BY <1>4
  <1>6. ASSUME NEW j \in 1 .. i - 1 PROVE r[sort[j].field] = s[sort[j].field]
    <2>1. j \in 1 .. Len(sort) /\ ~ (i <= j)
      BY <1>1, <1>5, <1>6
    <2> QED BY <1>4, <2>1
  <1> QED BY <1>5, <1>6

LEMMA BeforeIsStrict == ASSUME NEW r, NEW sort PROVE ~Before(r, r, sort)
  BY Zenon DEF Before

(* Of two accounts one comes first. *)
LEMMA BeforeIsTotal ==
  ASSUME NEW sort, SortedBy(sort), NEW r, Numbered(r), NEW s, Numbered(s),
         r.principalId # s.principalId
  PROVE  Before(r, s, sort) \/ Before(s, r, sort)
  <1>1. PICK i \in 1 .. Len(sort) :
          /\ r[sort[i].field] # s[sort[i].field]
          /\ \A j \in 1 .. i - 1 : r[sort[j].field] = s[sort[j].field]
    BY FirstDifference
  <1>2. r[sort[i].field] \in Int \cup {Null} /\ s[sort[i].field] \in Int \cup {Null}
    BY ColumnNumber
  <1> DEFINE f == sort[i].field
             a == r[f]
             b == s[f]
  <1>3. \/ /\ a # Null
           /\ b # Null => Precedes(a, b, sort[i].descending)
        \/ /\ b # Null
           /\ a # Null => Precedes(b, a, sort[i].descending)
    BY <1>1, <1>2 DEF Precedes
  <1>4. ASSUME a # Null, b # Null => Precedes(a, b, sort[i].descending)
        PROVE  Before(r, s, sort)
    BY <1>1, <1>4, Zenon DEF Before
  <1>5. ASSUME b # Null, a # Null => Precedes(b, a, sort[i].descending)
        PROVE  Before(s, r, sort)
    BY <1>1, <1>5, Zenon DEF Before
  <1> QED BY <1>3, <1>4, <1>5

LEMMA PrecedesIsTransitive ==
  ASSUME NEW a \in Int, NEW b \in Int, NEW c \in Int, NEW d,
         Precedes(a, b, d), Precedes(b, c, d)
  PROVE  Precedes(a, c, d) /\ a # c
  BY DEF Precedes

LEMMA BeforeIsTransitive ==
  ASSUME NEW sort, SortedBy(sort), NEW r, Numbered(r), NEW s, Numbered(s), NEW t, Numbered(t),
         Before(r, s, sort), Before(s, t, sort)
  PROVE  Before(r, t, sort)
  <1>1. PICK i \in 1 .. Len(sort) :
          /\ \A j \in 1 .. i - 1 : r[sort[j].field] = s[sort[j].field]
          /\ r[sort[i].field] # Null
          /\ s[sort[i].field] # Null =>
               Precedes(r[sort[i].field], s[sort[i].field], sort[i].descending)
          /\ r[sort[i].field] # s[sort[i].field]
    BY Zenon DEF Before
  <1>2. PICK k \in 1 .. Len(sort) :
          /\ \A j \in 1 .. k - 1 : s[sort[j].field] = t[sort[j].field]
          /\ s[sort[k].field] # Null
          /\ t[sort[k].field] # Null =>
               Precedes(s[sort[k].field], t[sort[k].field], sort[k].descending)
          /\ s[sort[k].field] # t[sort[k].field]
    BY Zenon DEF Before
  <1>3. Len(sort) \in Nat
    BY DEF SortedBy
  <1>4. \A j \in 1 .. Len(sort) : /\ r[sort[j].field] \in Int \cup {Null}
                                  /\ s[sort[j].field] \in Int \cup {Null}
                                  /\ t[sort[j].field] \in Int \cup {Null}
    BY ColumnNumber
  <1>5. CASE i < k
    <2>1. s[sort[i].field] = t[sort[i].field]
      BY <1>2, <1>3, <1>5
    <2>2. \A j \in 1 .. i - 1 : r[sort[j].field] = t[sort[j].field]
      BY <1>1, <1>2, <1>3, <1>5
    <2> QED BY <1>1, <2>1, <2>2, Zenon DEF Before
  <1>6. CASE k < i
    <2>1. r[sort[k].field] = s[sort[k].field]
      BY <1>1, <1>3, <1>6
    <2>2. \A j \in 1 .. k - 1 : r[sort[j].field] = t[sort[j].field]
      BY <1>1, <1>2, <1>3, <1>6
    <2> QED BY <1>2, <2>1, <2>2, Zenon DEF Before
  <1>7. CASE i = k
    <2>1. \A j \in 1 .. i - 1 : r[sort[j].field] = t[sort[j].field]
      BY <1>1, <1>2, <1>3, <1>7
    <2> DEFINE a == r[sort[i].field]
               b == s[sort[i].field]
               c == t[sort[i].field]
    <2>2. a \in Int /\ b \in Int /\ c \in Int \cup {Null}
      BY <1>1, <1>2, <1>4, <1>7
    <2>3. Precedes(a, b, sort[i].descending)
      BY <1>1, <1>2, <1>7
    <2>4. c # Null => Precedes(b, c, sort[i].descending)
      BY <1>2, <1>7
    <2>5. c # Null => Precedes(a, c, sort[i].descending)
      BY <2>2, <2>3, <2>4, PrecedesIsTransitive
    <2>6. a # c
      BY <1>1, <2>2, <2>3, <2>4, PrecedesIsTransitive
    <2> QED BY <1>1, <2>1, <2>5, <2>6, Zenon DEF Before
  <1> QED BY <1>3, <1>5, <1>6, <1>7

(* The condition a cursor adds selects what comes after the row it stands at. *)
LEMMA AfterIsBefore ==
  ASSUME NEW sort, SortedBy(sort), NEW r, Numbered(r), NEW s, Numbered(s)
  PROVE  after(s, Position(r, sort), sort) <=> Before(r, s, sort)
  <1>1. Len(sort) \in Nat
    BY DEF SortedBy
  <1>2. \A i \in 1 .. Len(sort) : Position(r, sort)[i] = r[sort[i].field]
    BY DEF Position
  <1>3. \A i \in 1 .. Len(sort) : \A j \in 1 .. i - 1 : j \in 1 .. Len(sort)
    BY <1>1
  <1>4. \A i \in 1 .. Len(sort) : /\ r[sort[i].field] \in Int \cup {Null}
                                  /\ s[sort[i].field] \in Int \cup {Null}
    BY ColumnNumber
  <1>5. ASSUME NEW i \in 1 .. Len(sort), r[sort[i].field] # Null, s[sort[i].field] # Null,
               Precedes(r[sort[i].field], s[sort[i].field], sort[i].descending)
        PROVE  r[sort[i].field] # s[sort[i].field]
    BY <1>4, <1>5 DEF Precedes
  <1>6. ASSUME after(s, Position(r, sort), sort) PROVE Before(r, s, sort)
    <2>1. PICK i \in 1 .. Len(sort) :
            /\ \A j \in 1 .. i - 1 : s[sort[j].field] = Position(r, sort)[j]
            /\ Position(r, sort)[i] # Null
            /\ s[sort[i].field] # Null =>
                 Precedes(Position(r, sort)[i], s[sort[i].field], sort[i].descending)
      BY <1>6, Zenon DEF after
    <2>2. /\ \A j \in 1 .. i - 1 : r[sort[j].field] = s[sort[j].field]
          /\ r[sort[i].field] # Null
          /\ s[sort[i].field] # Null =>
               Precedes(r[sort[i].field], s[sort[i].field], sort[i].descending)
      BY <1>2, <1>3, <2>1, Zenon
    <2>3. r[sort[i].field] # s[sort[i].field]
      BY <1>5, <2>2, Zenon
    <2> QED BY <2>2, <2>3, Zenon DEF Before
  <1>7. ASSUME Before(r, s, sort) PROVE after(s, Position(r, sort), sort)
    <2>1. PICK i \in 1 .. Len(sort) :
            /\ \A j \in 1 .. i - 1 : r[sort[j].field] = s[sort[j].field]
            /\ r[sort[i].field] # Null
            /\ s[sort[i].field] # Null =>
                 Precedes(r[sort[i].field], s[sort[i].field], sort[i].descending)
      BY <1>7, Zenon DEF Before
    <2>2. /\ \A j \in 1 .. i - 1 : s[sort[j].field] = Position(r, sort)[j]
          /\ Position(r, sort)[i] # Null
          /\ s[sort[i].field] # Null =>
               Precedes(Position(r, sort)[i], s[sort[i].field], sort[i].descending)
      BY <1>2, <1>3, <2>1, Zenon
    <2> QED BY <2>2, Zenon DEF after
  <1> QED BY <1>6, <1>7

(* There are finitely many before one. *)
LEMMA BelowIn ==
  ASSUME NEW rows, Listed(rows), NEW sort, NEW r
  PROVE  /\ Below(rows, r, sort) \in SUBSET rows
         /\ IsFiniteSet(Below(rows, r, sort))
         /\ Rank(rows, r, sort) \in Nat
  <1>1. Below(rows, r, sort) \in SUBSET rows
    BY DEF Below
  <1>2. IsFiniteSet(Below(rows, r, sort))
    BY <1>1, FS_Subset, Zenon DEF Listed
  <1> QED BY <1>1, <1>2, FS_CardinalityType DEF Rank

LEMMA RankGrows ==
  ASSUME NEW rows, Listed(rows), NEW sort, SortedBy(sort), NEW r \in rows, NEW s \in rows,
         Before(r, s, sort)
  PROVE  Rank(rows, r, sort) < Rank(rows, s, sort)
  <1> DEFINE A == Below(rows, r, sort)
             B == Below(rows, s, sort)
  <1>1. A \in SUBSET B
    <2> SUFFICES ASSUME NEW t \in A PROVE t \in B
      OBVIOUS
    <2>1. t \in rows /\ Before(t, r, sort)
      BY DEF Below
    <2>2. Numbered(t) /\ Numbered(r) /\ Numbered(s)
      BY <2>1 DEF Listed
    <2>3. Before(t, s, sort)
      BY <2>1, <2>2, BeforeIsTransitive
    <2> QED BY <2>1, <2>3 DEF Below
  <1>2. r \in B /\ r \notin A
    BY BeforeIsStrict DEF Below
  <1>3. IsFiniteSet(B) /\ Cardinality(A) \in Nat /\ Cardinality(B) \in Nat
    BY BelowIn DEF Rank
  <1> HIDE DEF A, B
  <1>4. Cardinality(A) <= Cardinality(B) /\ (Cardinality(B) = Cardinality(A) => B = A)
    BY <1>1, <1>3, FS_Subset
  <1>5. Cardinality(A) < Cardinality(B)
    BY <1>2, <1>3, <1>4
  <1> QED BY <1>5 DEF Rank, A, B

LEMMA RankIsUnique ==
  ASSUME NEW rows, Listed(rows), NEW sort, SortedBy(sort), NEW r \in rows, NEW s \in rows,
         Rank(rows, r, sort) = Rank(rows, s, sort)
  PROVE  r = s
  <1>1. Rank(rows, r, sort) \in Nat /\ Rank(rows, s, sort) \in Nat
    BY BelowIn
  <1>2. ~Before(r, s, sort) /\ ~Before(s, r, sort)
    BY <1>1, RankGrows
  <1>3. Numbered(r) /\ Numbered(s)
    BY DEF Listed
  <1>4. r.principalId = s.principalId
    BY <1>2, <1>3, BeforeIsTotal
  <1> QED BY <1>4 DEF Listed

LEMMA RankIsBounded ==
  ASSUME NEW rows, Listed(rows), NEW sort, NEW r \in rows
  PROVE  Rank(rows, r, sort) + 1 \in 1 .. Cardinality(rows)
  <1> DEFINE A == Below(rows, r, sort)
  <1>1. A \in SUBSET rows /\ r \notin A
    BY BeforeIsStrict DEF Below
  <1>2. IsFiniteSet(rows) /\ Cardinality(A) \in Nat
    BY BelowIn DEF Listed, Rank
  <1>3. Cardinality(rows) \in Nat
    BY <1>2, FS_CardinalityType
  <1> HIDE DEF A
  <1>4. Cardinality(A) <= Cardinality(rows) /\ (Cardinality(rows) = Cardinality(A) => rows = A)
    BY <1>1, <1>2, FS_Subset
  <1>5. Cardinality(A) + 1 \in 1 .. Cardinality(rows)
    BY <1>1, <1>2, <1>3, <1>4
  <1> QED BY <1>5 DEF Rank, A

(* Every place of the list is taken. *)
LEMMA RankIsOnto ==
  ASSUME NEW rows, Listed(rows), NEW sort, SortedBy(sort), NEW i \in 1 .. Cardinality(rows)
  PROVE  \E r \in rows : Rank(rows, r, sort) = i - 1
  <1> DEFINE n == Cardinality(rows)
             place == [ r \in rows |-> Rank(rows, r, sort) + 1 ]
  <1>1. IsFiniteSet(rows) /\ n \in Nat
    BY FS_CardinalityType DEF Listed
  <1>2. place \in [rows -> 1 .. n]
    BY RankIsBounded
  <1>3. ASSUME NEW r \in rows, NEW s \in rows, place[r] = place[s] PROVE r = s
    <2>1. Rank(rows, r, sort) \in Nat /\ Rank(rows, s, sort) \in Nat
      BY BelowIn
    <2>2. Rank(rows, r, sort) + 1 = Rank(rows, s, sort) + 1
      BY <1>3
    <2>3. Rank(rows, r, sort) = Rank(rows, s, sort)
      BY <2>1, <2>2
    <2> QED BY <2>3, RankIsUnique
  <1>4. place \in Injection(rows, 1 .. n)
    <2> HIDE DEF place
    <2> QED BY <1>2, <1>3, Zenon DEF Injection, IsInjective
  <1>5. IsFiniteSet(1 .. n) /\ Cardinality(1 .. n) = n
    BY <1>1, FS_Interval
  <1>6. place \in Surjection(rows, 1 .. n)
    <2> HIDE DEF place
    <2> QED BY <1>4, <1>5, FS_Injection
  <1>7. PICK r \in rows : place[r] = i
    <2> HIDE DEF place
    <2> QED BY <1>6, Zenon DEF Surjection
  <1>8. Rank(rows, r, sort) + 1 = i /\ Rank(rows, r, sort) \in Nat
    BY <1>7, BelowIn
  <1> QED BY <1>8

(* The i-th of the list is the one row that i - 1 others come before. *)
LEMMA SortedAt ==
  ASSUME NEW rows, Listed(rows), NEW sort, SortedBy(sort), NEW i \in 1 .. Cardinality(rows)
  PROVE  /\ Sorted(rows, sort)[i] \in rows
         /\ Rank(rows, Sorted(rows, sort)[i], sort) = i - 1
         /\ \A r \in rows : Rank(rows, r, sort) = i - 1 => Sorted(rows, sort)[i] = r
  <1>1. Sorted(rows, sort)[i] = CHOOSE r \in rows : Rank(rows, r, sort) = i - 1
    BY Zenon DEF Sorted, Rank, Below
  <1>2. \E r \in rows : Rank(rows, r, sort) = i - 1
    BY RankIsOnto
  <1> DEFINE x == CHOOSE r \in rows : Rank(rows, r, sort) = i - 1
  <1>3. x \in rows /\ Rank(rows, x, sort) = i - 1
    BY <1>2, Zenon
  <1> HIDE DEF x
  <1>4. \A r \in rows : Rank(rows, r, sort) = i - 1 => x = r
    BY <1>3, RankIsUnique
  <1>5. Sorted(rows, sort)[i] = x
    BY <1>1 DEF x
  <1> QED BY <1>3, <1>4, <1>5

LEMMA SortedLength ==
  ASSUME NEW rows, Listed(rows), NEW sort
  PROVE  /\ Len(Sorted(rows, sort)) = Cardinality(rows)
         /\ Cardinality(rows) \in Nat
         /\ DOMAIN Sorted(rows, sort) = 1 .. Cardinality(rows)
  <1>1. Cardinality(rows) \in Nat
    BY FS_CardinalityType DEF Listed
  <1> QED BY <1>1 DEF Sorted

(* The rows after the n-th are the list from there on. *)
LEMMA SortedRest ==
  ASSUME NEW rows, Listed(rows), NEW sort, SortedBy(sort), NEW n \in 1 .. Cardinality(rows),
         NEW last, last = Sorted(rows, sort)[n],
         NEW rest, rest = { r \in rows : Before(last, r, sort) }
  PROVE  /\ Listed(rest)
         /\ Cardinality(rest) = Cardinality(rows) - n
         /\ \A i \in 1 .. Cardinality(rest) :
              Sorted(rest, sort)[i] = Sorted(rows, sort)[n + i]
  <1>1. last \in rows /\ Rank(rows, last, sort) = n - 1
    BY SortedAt
  <1> DEFINE first == Below(rows, last, sort) \cup {last}
  <1>2. IsFiniteSet(rows) /\ Cardinality(rows) \in Nat /\ \A r \in rows : Numbered(r)
    BY FS_CardinalityType DEF Listed
  <1>3. /\ IsFiniteSet(first) /\ Cardinality(first) = n
        /\ first \in SUBSET rows
    <2>1. IsFiniteSet(Below(rows, last, sort)) /\ Below(rows, last, sort) \in SUBSET rows
      BY BelowIn
    <2>2. last \notin Below(rows, last, sort)
      BY BeforeIsStrict DEF Below
    <2>3. Cardinality(Below(rows, last, sort)) = n - 1
      BY <1>1 DEF Rank
    <2>4. IsFiniteSet(first) /\ Cardinality(first) = (n - 1) + 1
      BY <2>1, <2>2, <2>3, FS_AddElement
    <2> QED BY <1>1, <2>1, <2>4
  <1>4. rest = rows \ first
    <2>1. ASSUME NEW r \in rows, Before(last, r, sort) PROVE r \notin first
      <3>1. r # last
        BY <2>1, BeforeIsStrict
      <3>2. ~Before(r, last, sort)
        BY <1>1, <1>2, <2>1, BeforeIsTransitive, BeforeIsStrict
      <3> QED BY <3>1, <3>2 DEF Below
    <2>2. ASSUME NEW r \in rows, r \notin first PROVE Before(last, r, sort)
      <3>1. r # last /\ ~Before(r, last, sort)
        BY <2>2 DEF Below
      <3>2. r.principalId # last.principalId
        BY <1>1, <3>1 DEF Listed
      <3> QED BY <1>1, <1>2, <3>1, <3>2, BeforeIsTotal
    <2> QED BY <2>1, <2>2
  <1>5. Listed(rest)
    <2>1. rest \in SUBSET rows
      BY <1>4
    <2>2. IsFiniteSet(rest)
      BY <1>2, <2>1, FS_Subset
    <2> QED BY <2>1, <2>2 DEF Listed
  <1>6. Cardinality(rest) = Cardinality(rows) - n
    <2>1. first \cup rest = rows /\ first \cap rest = {}
      BY <1>3, <1>4
    <2>2. IsFiniteSet(rest) /\ Cardinality(rest) \in Nat
      BY <1>5, FS_CardinalityType DEF Listed
    <2> HIDE DEF first
    <2>3. Cardinality(first \cup rest) =
            Cardinality(first) + Cardinality(rest) - Cardinality(first \cap rest)
      BY <1>3, <2>2, FS_Union
    <2>4. Cardinality(first \cap rest) = 0
      BY <2>1, FS_EmptySet, Zenon
    <2>5. Cardinality(first \cup rest) = Cardinality(rows)
      BY <2>1, Zenon
    <2>6. Cardinality(rows) = n + Cardinality(rest) - 0
      BY <1>3, <2>3, <2>4, <2>5, Zenon
    <2> QED BY <1>2, <2>2, <2>6
  <1>7. ASSUME NEW r \in rest PROVE Rank(rows, r, sort) = n + Rank(rest, r, sort)
    <2> DEFINE after_last == Below(rest, r, sort)
    <2>1. r \in rows /\ Before(last, r, sort)
      OBVIOUS
    <2>2. \A s \in first : s \in rows /\ Before(s, r, sort)
      <3> SUFFICES ASSUME NEW s \in first PROVE s \in rows /\ Before(s, r, sort)
        OBVIOUS
      <3>1. s \in rows
        BY <1>3
      <3>2. CASE s = last
        BY <2>1, <3>1, <3>2
      <3>3. CASE Before(s, last, sort)
        BY <1>1, <1>2, <2>1, <3>1, <3>3, BeforeIsTransitive
      <3> QED BY <3>2, <3>3 DEF Below
    <2>3. Below(rows, r, sort) = first \cup after_last
      <3>1. Below(rows, r, sort) \subseteq first \cup after_last
        BY <1>4 DEF Below
      <3>2. first \subseteq Below(rows, r, sort)
        BY <2>2 DEF Below
      <3>3. after_last \subseteq Below(rows, r, sort)
        BY <1>4 DEF Below
      <3> QED BY <3>1, <3>2, <3>3
    <2>4. first \cap after_last = {}
      BY <1>4 DEF Below
    <2>5. IsFiniteSet(after_last) /\ Cardinality(after_last) \in Nat
      BY <1>5, BelowIn DEF Rank
    <2> HIDE DEF first, after_last
    <2>6. Cardinality(first \cup after_last) =
            Cardinality(first) + Cardinality(after_last) - Cardinality(first \cap after_last)
      BY <1>3, <2>5, FS_Union
    <2>7. Cardinality(first \cup after_last) = n + Cardinality(after_last)
      <3>1. Cardinality(first \cap after_last) = 0
        BY <2>4, FS_EmptySet, Zenon
      <3>2. Cardinality(first \cup after_last) = n + Cardinality(after_last) - 0
        BY <1>3, <2>6, <3>1, Zenon
      <3> QED BY <2>5, <3>2
    <2> QED BY <2>3, <2>7, Zenon DEF Rank, after_last
  <1>8. ASSUME NEW i \in 1 .. Cardinality(rest)
        PROVE  Sorted(rest, sort)[i] = Sorted(rows, sort)[n + i]
    <2>1. PICK r : r = Sorted(rest, sort)[i]
      OBVIOUS
    <2>2. r \in rest /\ Rank(rest, r, sort) = i - 1
      BY <1>5, <2>1, SortedAt
    <2>3. n + i \in 1 .. Cardinality(rows)
      BY <1>2, <1>6
    <2>4. r \in rows /\ Rank(rows, r, sort) = (n + i) - 1
      BY <1>2, <1>7, <2>2
    <2>5. PICK k \in 1 .. Cardinality(rows) : k = n + i
      BY <2>3
    <2>6. Sorted(rows, sort)[k] = r
      BY <2>4, <2>5, SortedAt
    <2> QED BY <2>1, <2>5, <2>6
  <1> QED BY <1>5, <1>6, <1>8

-----------------------------------------------------------------------------
(***************************************************************************)
(* The inductive invariant.                                                *)
(***************************************************************************)

(* What is stored.  A session's facts are of the token it was issued for. *)
Sources == {"local_password", "oidc", "platform"}
Origin == [ version : Nat, revocation_epoch : Nat ]
Values == {Null} \cup { c.snapshot : c \in { d \in Claims : d.kind = "snapshot" } }
Fact ==
  [ status : ClaimReasons \cup {"local_identity"} ]
    \cup [ status : {"available"}, observed_at : Nat, expires_at : Nat, value : Values ]
Facts == [ groups : Fact, department : Fact ]
Observation == [ origin : Origin, observed_at : Nat, name : Names, expires_at : Nat ]
SessionType ==
  [ principal : Accounts, source : Sources, auth_epoch : Epoch, membership_epoch : Epoch,
    origin : Origin, lifetime : SessionLifetime, revoked : BOOLEAN, facts : Facts ]

TypesInv ==
  /\ now \in Nat \ {0}
  /\ accounts \in [Accounts -> AccountState \cup {Null}]
  /\ IsFiniteSet(Present)
  /\ provider \in [ enabled : BOOLEAN, version : Nat, revocation_epoch : Nat ]
  /\ observations \in [Accounts -> Observation \cup {Null}]
  /\ sessions \in Seq(SessionType)
  /\ generation \in Nat

(* No session is from the future; the department of an account that signed in *)
(* through the provider is a fact of the provider's.                         *)
SessionsInv ==
  \A s \in 1 .. Len(sessions) :
    /\ sessions[s].lifetime.issued_at <= now
    /\ sessions[s].source = "oidc" => sessions[s].facts.department.status # "local_identity"

(* The clock crosses none of these instants before `until`. *)
Quiet(boundaries, until) == \A b \in boundaries : b <= now \/ until <= b

(* A revision that still stands is the relation as it is, and the clock will  *)
(* not change that before valid_until.                                       *)
PinnedInv ==
  held.kind \in {"personnel", "references"} =>
    /\ held.generation \in Nat /\ held.generation <= generation /\ held.valid_until \in Nat
    /\ held.generation = generation /\ now < held.valid_until =>
         /\ Quiet(SessionBoundaries, held.valid_until)
         /\ held.references = References
         /\ held.kind = "personnel" =>
              /\ Quiet(ProfileBoundaries, held.valid_until)
              /\ held.personnel = Personnel(held.logins, held.shown)

(* The list a query asks for, and what the first n accounts of it are. *)
Answer(query) == Sorted(Rows(query, query.filter), query.sort)
Shown(query, n) == [ i \in 1 .. n |-> Answer(query)[i].principalId ]

(* A cursor that still stands is at the last row of a beginning of the list,  *)
(* and the clock will not change the list before the cursor expires.         *)
ListingInv ==
  held.kind = "listing" /\ held.cursor # Null =>
    LET cursor == held.cursor request == held.request query == Parsed[request] IN
    /\ request \in DOMAIN Parsed
    /\ cursor \in Cursor /\ cursor.binding.request = request
    /\ cursor.binding.generation <= generation
    /\ cursor.binding.generation = generation /\ now < cursor.expires =>
         /\ needs_profiles(query) => Quiet(ProfileBoundaries, cursor.expires)
         /\ needs_departments(query) => Quiet(DepartmentBoundaries, cursor.expires)
         /\ \E n \in 1 .. Cardinality(Rows(query, query.filter)) :
              /\ held.rows = Shown(query, n)
              /\ cursor.position = Position(Answer(query)[n], query.sort)

(* What was kept of a session's facts is those facts, observed in the past. *)
Kept(kept, fact) ==
  kept.status = "available" => kept = fact /\ fact.observed_at <= now

FactsInv ==
  held.kind = "facts" =>
    /\ held.session \in 1 .. Len(sessions)
    /\ Kept(held.groups, sessions[held.session].facts.groups)
    /\ Kept(held.department, sessions[held.session].facts.department)

DirectoryInv == TypesInv /\ SessionsInv /\ PinnedInv /\ ListingInv /\ FactsInv

-----------------------------------------------------------------------------
(***************************************************************************)
(* Types.                                                                  *)
(***************************************************************************)
LEMMA RenewedType ==
  ASSUME NEW l \in SessionLifetime, NEW n \in Nat
  PROVE  /\ Renewed(l, n) \in SessionLifetime
         /\ Renewed(l, n).issued_at = l.issued_at
         /\ Renewed(l, n).absolute_expires_at = l.absolute_expires_at
         /\ Renewed(l, n).idle_expires_at >= l.idle_expires_at
  BY DEF SessionLifetime, SessionPolicy, Renewed, GreatestOf, LeastOf

LEMMA NewLifetimeType ==
  ASSUME NEW n \in Nat
  PROVE  NewLifetime(n, Policy) \in SessionLifetime /\ NewLifetime(n, Policy).issued_at = n
  BY DirectoryAssumption DEF SessionLifetime, SessionPolicy, NewLifetime

LEMMA NewAccountType == ASSUME NEW local \in BOOLEAN PROVE NewAccount(local) \in AccountState
  BY EpochLimitAssumption DEF AccountState, NewAccount, Epoch

LEMMA ChangedType ==
  ASSUME NEW s \in AccountState, NEW change \in LocalChange, CanChange(s, change)
  PROVE  Changed(s, change) \in AccountState
  <1>1. /\ s.epoch + 1 \in Epoch
        /\ s.password + 1 \in Nat
        /\ ChangesMembership(s, change) => s.membership_epoch + 1 \in Epoch
    BY EpochLimitAssumption DEF AccountState, CanChange, Epoch
  <1>2. change.value \in BOOLEAN
    BY Zenon DEF LocalChange
  <1> QED BY <1>1, <1>2 DEF AccountState, Changed

(* Facts end, and are of the time their token says. *)
LEMMA ExpiryNumber ==
  ASSUME NEW max_age \in Nat, NEW token \in [issued_at : Int, expires_at : Int],
         NEW at \in Nat, CanObserve(token, at)
  PROVE  /\ expires_at(max_age, token) \in Nat
         /\ token.issued_at \in Nat
  BY DEF CanObserve, acceptable_observation, expires_at, LeastOf

LEMMA DepartmentsType ==
  ASSUME NEW claim \in Claims, NEW token \in [issued_at : Int, expires_at : Int],
         NEW at \in Nat, CanObserve(token, at)
  PROVE  /\ Departments(claim, token) \in Fact
         /\ Departments(claim, token).status # "local_identity"
  <1>1. claim.kind \in {"snapshot"} \cup ClaimReasons
    BY DirectoryAssumption
  <1>2. CASE claim.kind = "snapshot" /\ DepartmentSnapshot(claim.snapshot)
    <2>1. claim.snapshot \in Values
      BY <1>2 DEF Values
    <2>2. expires_at(DepartmentMaxAge, token) \in Nat /\ token.issued_at \in Nat
      BY ExpiryNumber, DirectoryAssumption
    <2>3. Departments(claim, token) =
            Available(token.issued_at, expires_at(DepartmentMaxAge, token), claim.snapshot)
      BY <1>2, Zenon DEF Departments
    <2> QED BY <2>1, <2>2, <2>3 DEF Available, Fact
  <1>3. CASE claim.kind = "snapshot" /\ ~DepartmentSnapshot(claim.snapshot)
    <2>1. Departments(claim, token) = Unavailable("invalid_claim")
      BY <1>3, Zenon DEF Departments
    <2> QED BY <2>1 DEF Unavailable, Fact, ClaimReasons
  <1>4. CASE claim.kind \in ClaimReasons
    <2>1. claim.kind # "snapshot" /\ claim.kind # "local_identity"
      BY <1>4 DEF ClaimReasons
    <2>2. Departments(claim, token) = Unavailable(claim.kind)
      BY <2>1, Zenon DEF Departments
    <2> QED BY <1>4, <2>1, <2>2 DEF Unavailable, Fact
  <1> QED BY <1>1, <1>2, <1>3, <1>4

LEMMA FactsType ==
  ASSUME NEW claim \in Claims, NEW token \in [issued_at : Int, expires_at : Int],
         NEW at \in Nat, CanObserve(token, at)
  PROVE  /\ AuthenticationFacts(claim, token) \in Facts
         /\ AuthenticationFacts(claim, token).department.status # "local_identity"
  <1>1. Available(token.issued_at, expires_at(GroupFactsMaxAge, token), Null) \in Fact
    <2>1. expires_at(GroupFactsMaxAge, token) \in Nat /\ token.issued_at \in Nat
      BY ExpiryNumber, DirectoryAssumption
    <2> QED BY <2>1 DEF Available, Fact, Values
  <1>2. /\ Departments(claim, token) \in Fact
        /\ Departments(claim, token).status # "local_identity"
    BY DepartmentsType
  <1> QED BY <1>1, <1>2, Zenon DEF AuthenticationFacts, Facts

LEMMA NoFactsType ==
  ASSUME NEW reason \in ClaimReasons \cup {"local_identity"}
  PROVE  NoFacts(reason) \in Facts
  <1>1. Unavailable(reason) \in Fact
    BY DEF Unavailable, Fact
  <1> QED BY <1>1, Zenon DEF NoFacts, Facts

LEMMA SessionRowType ==
  ASSUME now \in Nat, provider \in [ enabled : BOOLEAN, version : Nat, revocation_epoch : Nat ],
         NEW a \in Accounts, NEW account \in AccountState, NEW source \in Sources,
         NEW facts \in Facts
  PROVE  /\ SessionRow(a, account, source, facts) \in SessionType
         /\ SessionRow(a, account, source, facts).lifetime.issued_at = now
         /\ SessionRow(a, account, source, facts).source = source
         /\ SessionRow(a, account, source, facts).facts = facts
  <1>1. /\ NewLifetime(now, Policy) \in SessionLifetime
        /\ NewLifetime(now, Policy).issued_at = now
    BY NewLifetimeType
  <1>2. account.epoch \in Epoch /\ account.membership_epoch \in Epoch
    BY Zenon DEF AccountState
  <1>3. provider.version \in Nat /\ provider.revocation_epoch \in Nat
    BY Zenon
  <1>4. [ version |-> provider.version, revocation_epoch |-> provider.revocation_epoch ] \in Origin
    BY <1>3, Zenon DEF Origin
  <1>5. FALSE \in BOOLEAN
    OBVIOUS
  <1> QED BY <1>1, <1>2, <1>4, <1>5, Zenon DEF SessionRow, SessionType

LEMMA SessionTouched ==
  ASSUME NEW row \in SessionType, NEW l \in SessionLifetime
  PROVE  [row EXCEPT !.lifetime = l] \in SessionType
  BY Zenon DEF SessionType

LEMMA SessionClosed ==
  ASSUME NEW row \in SessionType PROVE [row EXCEPT !.revoked = TRUE] \in SessionType
  <1>1. TRUE \in BOOLEAN
    OBVIOUS
  <1> QED BY <1>1, Zenon DEF SessionType

(* A row of the table. *)
LEMMA SessionAt ==
  ASSUME TypesInv, NEW s \in 1 .. Len(sessions)
  PROVE  /\ sessions[s] \in SessionType
         /\ sessions[s].principal \in Accounts
         /\ sessions[s].source \in Sources
         /\ sessions[s].lifetime \in SessionLifetime
         /\ sessions[s].facts.groups \in Fact
         /\ sessions[s].facts.department \in Fact
  <1>1. sessions[s] \in SessionType
    BY DEF TypesInv
  <1> QED BY <1>1, Zenon DEF SessionType, Facts

LEMMA SessionCount == ASSUME TypesInv PROVE Len(sessions) \in Nat
  BY DEF TypesInv

LEMMA ClockType == ASSUME TypesInv PROVE now \in Nat \ {0} /\ now \in Nat
  BY DEF TypesInv

LEMMA PresentType ==
  ASSUME TypesInv, NEW a \in Present PROVE a \in Accounts /\ accounts[a] \in AccountState
  BY DEF TypesInv, Present

LEMMA LifetimeNumbers ==
  ASSUME NEW l \in SessionLifetime
  PROVE  /\ l.issued_at \in Nat /\ l.idle_expires_at \in Nat /\ l.absolute_expires_at \in Nat
  BY DEF SessionLifetime

LEMMA ObservationNumbers ==
  ASSUME TypesInv, NEW a \in Accounts, observations[a] # Null
  PROVE  /\ observations[a] \in Observation
         /\ observations[a].observed_at \in Nat /\ observations[a].expires_at \in Nat
         /\ observations[a].name \in Int
  <1>1. observations[a] \in Observation
    BY DEF TypesInv
  <1>2. observations[a].name \in Names
    BY <1>1, Zenon DEF Observation
  <1>3. observations[a].observed_at \in Nat /\ observations[a].expires_at \in Nat
    BY <1>1, Zenon DEF Observation
  <1> QED BY <1>1, <1>2, <1>3, DirectoryAssumption

LEMMA FactNumbers ==
  ASSUME NEW f \in Fact, f.status = "available"
  PROVE  f.observed_at \in Nat /\ f.expires_at \in Nat
  <1>1. f \in [ status : {"available"}, observed_at : Nat, expires_at : Nat, value : Values ]
    BY DEF Fact, ClaimReasons
  <1> QED BY <1>1, Zenon

-----------------------------------------------------------------------------
(***************************************************************************)
(* What each kind of step does.                                            *)
(***************************************************************************)

(* The tables stay, the clock may have moved on. *)
Still ==
  /\ UNCHANGED <<accounts, provider, observations, sessions, generation>>
  /\ now' \in Nat /\ now <= now'

(* The sessions there were keep what they were issued with. *)
SessionsKept ==
  /\ sessions' \in Seq(SessionType) /\ Len(sessions) <= Len(sessions')
  /\ \A s \in 1 .. Len(sessions) :
       /\ sessions'[s].facts = sessions[s].facts
       /\ sessions'[s].lifetime.issued_at = sessions[s].lifetime.issued_at
       /\ sessions'[s].source = sessions[s].source

(* A write advances the generation. *)
Written ==
  /\ UNCHANGED <<now, held>>
  /\ generation' = generation + 1
  /\ accounts' \in [Accounts -> AccountState \cup {Null}] /\ IsFiniteSet(Present')
  /\ provider' \in [ enabled : BOOLEAN, version : Nat, revocation_epoch : Nat ]
  /\ observations' \in [Accounts -> Observation \cup {Null}]
  /\ SessionsKept
  /\ \A s \in Len(sessions) + 1 .. Len(sessions') :
       /\ sessions'[s].lifetime.issued_at = now
       /\ sessions'[s].source = "oidc" => sessions'[s].facts.department.status # "local_identity"

(* Use moves the idle expiry of a live session. *)
Touched(s) ==
  /\ Live(s)
  /\ UNCHANGED <<now, accounts, provider, observations, generation, held>>
  /\ sessions' \in Seq(SessionType) /\ Len(sessions') = Len(sessions)
  /\ \A t \in 1 .. Len(sessions) : t # s => sessions'[t] = sessions[t]
  /\ sessions'[s] = [sessions[s] EXCEPT !.lifetime = Renewed(sessions[s].lifetime, now)]

LEMMA AppendedSession ==
  ASSUME TypesInv, NEW row \in SessionType, sessions' = Append(sessions, row)
  PROVE  /\ sessions' \in Seq(SessionType)
         /\ Len(sessions') = Len(sessions) + 1
         /\ \A s \in 1 .. Len(sessions) : sessions'[s] = sessions[s]
         /\ \A s \in Len(sessions) + 1 .. Len(sessions') : sessions'[s] = row
  <1> HIDE DEF SessionType
  <1>1. sessions \in Seq(SessionType)
    BY DEF TypesInv
  <1>2. Len(sessions) \in Nat
    BY <1>1
  <1> QED BY <1>1, <1>2

LEMMA IssuedKeeps ==
  ASSUME TypesInv, NEW a \in Present, NEW source \in Sources, NEW facts \in Facts,
         source = "oidc" => facts.department.status # "local_identity",
         Issued(a, source, facts)
  PROVE  /\ SessionsKept
         /\ generation' = generation + 1
         /\ \A s \in Len(sessions) + 1 .. Len(sessions') :
              /\ sessions'[s].lifetime.issued_at = now
              /\ sessions'[s].source = "oidc" =>
                   sessions'[s].facts.department.status # "local_identity"
  <1>1. a \in Accounts /\ accounts[a] \in AccountState
    BY PresentType
  <1>2. PICK row : row = SessionRow(a, accounts[a], source, facts)
    OBVIOUS
  <1>3. now \in Nat /\ provider \in [ enabled : BOOLEAN, version : Nat, revocation_epoch : Nat ]
    BY DEF TypesInv
  <1>4. row \in SessionType /\ row.lifetime.issued_at = now /\ row.source = source
        /\ row.facts = facts
    BY <1>1, <1>2, <1>3, SessionRowType
  <1>5. sessions' = Append(sessions, row) /\ generation' = generation + 1
    BY <1>2 DEF Issued, Advance
  <1>6. /\ sessions' \in Seq(SessionType)
        /\ Len(sessions') = Len(sessions) + 1
        /\ \A s \in 1 .. Len(sessions) : sessions'[s] = sessions[s]
        /\ \A s \in Len(sessions) + 1 .. Len(sessions') : sessions'[s] = row
    BY <1>4, <1>5, AppendedSession
  <1>7. Len(sessions) <= Len(sessions')
    BY <1>6, SessionCount
  <1>8. SessionsKept
    BY <1>6, <1>7, Zenon DEF SessionsKept
  <1> QED BY <1>4, <1>5, <1>6, <1>8

LEMMA SessionsStay ==
  ASSUME TypesInv, sessions' = sessions
  PROVE  /\ SessionsKept
         /\ \A s \in Len(sessions) + 1 .. Len(sessions') :
              /\ sessions'[s].lifetime.issued_at = now
              /\ sessions'[s].source = "oidc" =>
                   sessions'[s].facts.department.status # "local_identity"
  <1>1. Len(sessions) \in Nat /\ sessions \in Seq(SessionType)
    BY DEF TypesInv
  <1>2. SessionsKept
    BY <1>1 DEF SessionsKept
  <1> QED BY <1>1, <1>2

LEMMA PresentStays == ASSUME TypesInv, accounts' = accounts PROVE IsFiniteSet(Present')
  BY DEF TypesInv, Present

LEMMA CreateWrites ==
  ASSUME TypesInv, NEW a \in Accounts, create_account(a) PROVE Written
  <1>1. PICK row : row = NewAccount(Login[a] # Null)
    OBVIOUS
  <1>2. (Login[a] # Null) \in BOOLEAN
    OBVIOUS
  <1>3. row \in AccountState
    BY <1>1, <1>2, NewAccountType, Zenon
  <1>4. accounts' = [accounts EXCEPT ![a] = row]
    BY <1>1, Zenon DEF create_account
  <1>5. accounts' \in [Accounts -> AccountState \cup {Null}]
    BY <1>3, <1>4, Zenon DEF TypesInv
  <1>6. Present' \subseteq Present \cup {a}
    BY <1>4 DEF Present, TypesInv
  <1>7. IsFiniteSet(Present \cup {a})
    BY FS_AddElement DEF TypesInv
  <1>8. IsFiniteSet(Present')
    BY <1>6, <1>7, FS_Subset
  <1> QED BY <1>5, <1>8, SessionsStay DEF create_account, Advance, Written, TypesInv

LEMMA ChangeWrites ==
  ASSUME TypesInv, NEW a \in Accounts, NEW change \in LocalChange, change_account(a, change)
  PROVE  Written
  <1>1. a \in Present /\ CanChange(accounts[a], change)
    BY DEF change_account
  <1>2. accounts[a] \in AccountState
    BY <1>1, PresentType
  <1>3. PICK row : row = Changed(accounts[a], change)
    OBVIOUS
  <1>4. row \in AccountState
    BY <1>1, <1>2, <1>3, ChangedType
  <1>5. accounts' = [accounts EXCEPT ![a] = row]
    BY <1>3, Zenon DEF change_account
  <1>6. accounts' \in [Accounts -> AccountState \cup {Null}]
    BY <1>4, <1>5, Zenon DEF TypesInv
  <1>7. Present' \subseteq Present
    BY <1>1, <1>5 DEF Present, TypesInv
  <1>8. IsFiniteSet(Present')
    BY <1>7, FS_Subset DEF TypesInv
  <1> QED BY <1>6, <1>8, SessionsStay DEF change_account, Advance, Written, TypesInv

LEMMA LocalLoginWrites ==
  ASSUME TypesInv, NEW a \in Accounts, login_local(a) PROVE Written
  <1>1. a \in Present /\ Issued(a, "local_password", NoFacts("local_identity"))
    BY DEF login_local
  <1>2. NoFacts("local_identity") \in Facts /\ "local_password" \in Sources
    BY NoFactsType DEF Sources
  <1> QED BY <1>1, <1>2, IssuedKeeps, PresentStays DEF login_local, Written, TypesInv

LEMMA PlatformLoginWrites ==
  ASSUME TypesInv, NEW a \in Accounts, complete_platform_login(a) PROVE Written
  <1>1. a \in Present /\ Issued(a, "platform", NoFacts("not_configured"))
    BY DEF complete_platform_login
  <1>2. NoFacts("not_configured") \in Facts /\ "platform" \in Sources
    BY NoFactsType DEF Sources, ClaimReasons
  <1> QED BY <1>1, <1>2, IssuedKeeps, PresentStays DEF complete_platform_login, Written, TypesInv

LEMMA TokenType ==
  ASSUME TypesInv, NEW token \in Tokens PROVE token \in [issued_at : Int, expires_at : Int]
  BY DirectoryAssumption DEF Tokens, TypesInv

LEMMA LoginWrites ==
  ASSUME TypesInv, NEW a \in Accounts, NEW claim \in Claims, NEW token \in Tokens,
         NEW name \in Names, complete_login(a, claim, token, name)
  PROVE  Written
  <1>1. /\ a \in Present /\ CanObserve(token, now)
        /\ Issued(a, "oidc", AuthenticationFacts(claim, token))
    BY DEF complete_login
  <1>2. token \in [issued_at : Int, expires_at : Int]
    BY TokenType
  <1>3. /\ AuthenticationFacts(claim, token) \in Facts
        /\ AuthenticationFacts(claim, token).department.status # "local_identity"
    BY <1>1, <1>2, ClockType, FactsType
  <1>4. "oidc" \in Sources
    BY DEF Sources
  <1>5. PICK o : o = [ origin |-> [ version |-> provider.version,
                                  revocation_epoch |-> provider.revocation_epoch ],
                     observed_at |-> token.issued_at, name |-> name,
                     expires_at |-> LeastOf(expires_at(ProfileMaxAge, token),
                                            now + Policy.absolute) ]
    OBVIOUS
  <1>6. o \in Observation
    <2>1. token.issued_at \in Nat /\ expires_at(ProfileMaxAge, token) \in Nat
      BY <1>1, <1>2, ClockType, ExpiryNumber, DirectoryAssumption
    <2>2. LeastOf(expires_at(ProfileMaxAge, token), now + Policy.absolute) \in Nat
      BY <2>1, ClockType, DirectoryAssumption DEF LeastOf, SessionPolicy
    <2>3. provider.version \in Nat /\ provider.revocation_epoch \in Nat
      BY Zenon DEF TypesInv
    <2> QED BY <1>5, <2>1, <2>2, <2>3, Zenon DEF Observation, Origin
  <1>7. observations' = [observations EXCEPT ![a] = o] \/ observations' = observations
    BY <1>5, Zenon DEF complete_login
  <1>8. observations' \in [Accounts -> Observation \cup {Null}]
    BY <1>6, <1>7, Zenon DEF TypesInv
  <1> QED BY <1>1, <1>3, <1>4, <1>8, IssuedKeeps, PresentStays
          DEF complete_login, Written, TypesInv

LEMMA EditWrites ==
  ASSUME TypesInv, NEW enabled \in BOOLEAN, NEW settings \in BOOLEAN,
         edit_provider(enabled, settings)
  PROVE  Written
  <1>1. PICK e : e = IF settings \/ enabled # provider.enabled
                     THEN provider.revocation_epoch + 1 ELSE provider.revocation_epoch
    OBVIOUS
  <1>2. provider.version \in Nat /\ provider.revocation_epoch \in Nat
    BY Zenon DEF TypesInv
  <1>3. e \in Nat /\ provider.version + 1 \in Nat
    BY <1>1, <1>2
  <1>4. provider' = [ enabled |-> enabled, version |-> provider.version + 1,
                      revocation_epoch |-> e ]
    BY <1>1, Zenon DEF edit_provider
  <1>5. provider' \in [ enabled : BOOLEAN, version : Nat, revocation_epoch : Nat ]
    BY <1>3, <1>4, Zenon
  <1> QED BY <1>5, SessionsStay, PresentStays DEF edit_provider, Advance, Written, TypesInv

(* One row of the sessions is replaced. *)
LEMMA ReplacedSession ==
  ASSUME TypesInv, NEW s \in 1 .. Len(sessions), NEW row \in SessionType,
         sessions' = [sessions EXCEPT ![s] = row]
  PROVE  /\ sessions' \in Seq(SessionType) /\ Len(sessions') = Len(sessions)
         /\ \A t \in 1 .. Len(sessions) : t # s => sessions'[t] = sessions[t]
         /\ sessions'[s] = row
  <1> HIDE DEF SessionType
  <1>1. sessions \in Seq(SessionType)
    BY DEF TypesInv
  <1> QED BY <1>1

LEMMA CloseWrites ==
  ASSUME TypesInv, NEW s \in 1 .. Len(sessions), close(s) PROVE Written
  <1>1. PICK old : old = sessions[s]
    OBVIOUS
  <1>2. old \in SessionType
    BY <1>1, SessionAt
  <1>3. PICK row : row = [old EXCEPT !.revoked = TRUE]
    OBVIOUS
  <1>4. row \in SessionType
    BY <1>2, <1>3, SessionClosed
  <1>5. row.facts = old.facts /\ row.lifetime = old.lifetime /\ row.source = old.source
    BY <1>2, <1>3 DEF SessionType
  <1>6. sessions' = [sessions EXCEPT ![s] = row]
    BY <1>1, <1>3 DEF close
  <1>7. /\ sessions' \in Seq(SessionType) /\ Len(sessions') = Len(sessions)
        /\ \A t \in 1 .. Len(sessions) : t # s => sessions'[t] = sessions[t]
        /\ sessions'[s] = row
    BY <1>4, <1>6, ReplacedSession
  <1>8. Len(sessions) \in Nat
    BY SessionCount
  <1>9. \A t \in 1 .. Len(sessions) :
          /\ sessions'[t].facts = sessions[t].facts
          /\ sessions'[t].lifetime = sessions[t].lifetime
          /\ sessions'[t].source = sessions[t].source
    BY <1>1, <1>5, <1>7, Zenon
  <1>10. SessionsKept
    BY <1>7, <1>8, <1>9 DEF SessionsKept
  <1> QED BY <1>7, <1>8, <1>10, PresentStays DEF close, Advance, Written, TypesInv

LEMMA TouchTouches ==
  ASSUME TypesInv, NEW s \in 1 .. Len(sessions), touch(s) PROVE Touched(s)
  <1>1. PICK old : old = sessions[s]
    OBVIOUS
  <1>2. old \in SessionType /\ old.lifetime \in SessionLifetime
    BY <1>1, SessionAt
  <1>3. PICK l : l = Renewed(old.lifetime, now)
    OBVIOUS
  <1>4. l \in SessionLifetime
    BY <1>2, <1>3, ClockType, RenewedType
  <1>5. PICK row : row = [old EXCEPT !.lifetime = l]
    OBVIOUS
  <1>6. row \in SessionType
    BY <1>2, <1>4, <1>5, SessionTouched
  <1>7. sessions' = [sessions EXCEPT ![s] = row]
    BY <1>1, <1>3, <1>5 DEF touch
  <1>8. /\ sessions' \in Seq(SessionType) /\ Len(sessions') = Len(sessions)
        /\ \A t \in 1 .. Len(sessions) : t # s => sessions'[t] = sessions[t]
        /\ sessions'[s] = row
    BY <1>6, <1>7, ReplacedSession
  <1> QED BY <1>1, <1>3, <1>5, <1>8, Zenon DEF touch, Touched

(* Every step is a read, a renewal, a write, or the clock's.  *)
LEMMA Steps ==
  ASSUME TypesInv, [Next]_vars
  PROVE  \/ \E actor \in 1 .. Len(sessions), request \in DOMAIN Parsed, resume \in BOOLEAN,
               last \in now .. MaxClock : list_accounts(actor, request, resume, last)
         \/ \E actor \in 1 .. Len(sessions), permission \in Permissions,
               last \in now .. MaxClock : with_personnel_read(actor, permission, last)
         \/ \E last \in now .. MaxClock : with_session_references_read(last)
         \/ \E s \in 1 .. Len(sessions) : recheck_session_reference(s)
         \/ \E s \in 1 .. Len(sessions) : Touched(s)
         \/ Written
         \/ Still /\ UNCHANGED held
  <1> DEFINE Goal ==
         \/ \E actor \in 1 .. Len(sessions), request \in DOMAIN Parsed, resume \in BOOLEAN,
               last \in now .. MaxClock : list_accounts(actor, request, resume, last)
         \/ \E actor \in 1 .. Len(sessions), permission \in Permissions,
               last \in now .. MaxClock : with_personnel_read(actor, permission, last)
         \/ \E last \in now .. MaxClock : with_session_references_read(last)
         \/ \E s \in 1 .. Len(sessions) : recheck_session_reference(s)
         \/ \E s \in 1 .. Len(sessions) : Touched(s)
         \/ Written
         \/ Still /\ UNCHANGED held
  <1>1. ASSUME NEW s \in 1 .. Len(sessions), touch(s) \/ close(s) PROVE Goal
    BY <1>1, TouchTouches, CloseWrites
  <1>2. ASSUME NEW a \in Accounts,
               create_account(a) \/ login_local(a) \/ complete_platform_login(a)
        PROVE  Written
    BY <1>2, CreateWrites, LocalLoginWrites, PlatformLoginWrites
  <1>3. ASSUME NEW a \in Accounts, NEW claim \in Claims, NEW token \in Tokens,
               NEW name \in Names, complete_login(a, claim, token, name)
        PROVE  Written
    BY <1>3, LoginWrites
  <1>4. ASSUME NEW a \in Accounts, NEW change \in LocalChange, change_account(a, change)
        PROVE  Written
    BY <1>4, ChangeWrites
  <1>5. ASSUME NEW enabled \in BOOLEAN, NEW settings \in BOOLEAN,
               edit_provider(enabled, settings)
        PROVE  Written
    BY <1>5, EditWrites
  <1>6. CASE Tick
    BY <1>6, ClockType DEF Tick, Still
  <1>7. CASE UNCHANGED vars
    BY <1>7, ClockType DEF vars, Still
  <1> QED BY <1>1, <1>2, <1>3, <1>4, <1>5, <1>6, <1>7, Zenon DEF Next

(* Reads end later, and change nothing but what the reader holds. *)
LEMMA EndsStill ==
  ASSUME TypesInv, NEW until, NEW last \in now .. MaxClock, Ends(last, until)
  PROVE  Still /\ now' = last /\ now' < until
  BY ClockType, DirectoryAssumption DEF Ends, Still

LEMMA ReadsStill ==
  ASSUME TypesInv,
         \/ \E actor \in 1 .. Len(sessions), request \in DOMAIN Parsed, resume \in BOOLEAN,
               last \in now .. MaxClock : list_accounts(actor, request, resume, last)
         \/ \E actor \in 1 .. Len(sessions), permission \in Permissions,
               last \in now .. MaxClock : with_personnel_read(actor, permission, last)
         \/ \E last \in now .. MaxClock : with_session_references_read(last)
         \/ \E s \in 1 .. Len(sessions) : recheck_session_reference(s)
  PROVE  Still
  <1>1. ASSUME NEW actor \in 1 .. Len(sessions), NEW request \in DOMAIN Parsed,
               NEW resume \in BOOLEAN, NEW last \in now .. MaxClock,
               list_accounts(actor, request, resume, last)
        PROVE  Still
    <2>1. PICK until : Ends(last, until)
      BY <1>1, Zenon DEF list_accounts
    <2> QED BY <2>1, EndsStill
  <1>2. ASSUME NEW actor \in 1 .. Len(sessions), NEW permission \in Permissions,
               NEW last \in now .. MaxClock, with_personnel_read(actor, permission, last)
        PROVE  Still
    <2>1. PICK until : Ends(last, until)
      BY <1>2, Zenon DEF with_personnel_read
    <2> QED BY <2>1, EndsStill
  <1>3. ASSUME NEW last \in now .. MaxClock, with_session_references_read(last)
        PROVE  Still
    <2>1. PICK until : Ends(last, until)
      BY <1>3, Zenon DEF with_session_references_read
    <2> QED BY <2>1, EndsStill
  <1>4. ASSUME NEW s \in 1 .. Len(sessions), recheck_session_reference(s) PROVE Still
    BY <1>4, ClockType DEF recheck_session_reference, Still
  <1> QED BY <1>1, <1>2, <1>3, <1>4

LEMMA InitTypes == Init => TypesInv /\ SessionsInv
  <1> SUFFICES ASSUME Init PROVE TypesInv /\ SessionsInv
    OBVIOUS
  <1>1. now \in Nat \ {0} /\ now \in Nat /\ generation \in Nat
    BY DEF Init
  <1>2. provider \in [ enabled : BOOLEAN, version : Nat, revocation_epoch : Nat ]
    <2>1. TRUE \in BOOLEAN /\ 1 \in Nat
      OBVIOUS
    <2> QED BY <2>1, Zenon DEF Init
  <1>3. \A a \in Accounts : NewAccount(Login[a] # Null) \in AccountState
    BY NewAccountType
  <1>4. accounts \in [Accounts -> AccountState \cup {Null}]
    BY <1>3, Zenon DEF Init
  <1>5. Present \subseteq Founded
    BY DEF Init, Present
  <1>6. IsFiniteSet(Present)
    BY <1>5, FS_Subset, DirectoryAssumption
  <1>7. observations \in [Accounts -> Observation \cup {Null}]
    BY Zenon DEF Init
  <1>8. PICK row : row = SessionRow(Administrator, new_local, "local_password",
                                    NoFacts("local_identity"))
    OBVIOUS
  <1>9. row \in SessionType /\ row.lifetime.issued_at = now /\ row.source = "local_password"
    <2>1. Administrator \in Accounts
      BY DirectoryAssumption
    <2>2. new_local \in AccountState
      <3>1. TRUE \in BOOLEAN
        OBVIOUS
      <3> QED BY <3>1, NewAccountType, Zenon DEF new_local
    <2>3. NoFacts("local_identity") \in Facts /\ "local_password" \in Sources
      BY NoFactsType DEF Sources
    <2> QED BY <1>1, <1>2, <1>8, <2>1, <2>2, <2>3, SessionRowType
  <1>10. sessions = <<row>>
    BY <1>8, Zenon DEF Init
  <1>11. sessions \in Seq(SessionType) /\ Len(sessions) = 1 /\ sessions[1] = row
    <2> HIDE DEF SessionType
    <2> QED BY <1>9, <1>10
  <1>12. SessionsInv
    BY <1>1, <1>9, <1>11 DEF SessionsInv
  <1> QED BY <1>1, <1>2, <1>4, <1>6, <1>7, <1>11, <1>12 DEF TypesInv

LEMMA StepTypes ==
  ASSUME TypesInv, SessionsInv, [Next]_vars PROVE TypesInv' /\ SessionsInv'
  <1>1. ASSUME Still PROVE TypesInv' /\ SessionsInv'
    <2>1. TypesInv'
      BY <1>1, PresentStays, ClockType DEF Still, TypesInv
    <2>2. \A s \in 1 .. Len(sessions) : sessions[s].lifetime.issued_at \in Nat
      BY SessionAt, LifetimeNumbers
    <2>3. SessionsInv'
      BY <1>1, <2>2, ClockType DEF Still, SessionsInv
    <2> QED BY <2>1, <2>3
  <1>2. ASSUME Written PROVE TypesInv' /\ SessionsInv'
    <2>1. TypesInv'
      BY <1>2, ClockType DEF Written, SessionsKept, TypesInv
    <2>2. Len(sessions) \in Nat /\ Len(sessions') \in Nat
      BY <1>2, SessionCount DEF Written, SessionsKept
    <2>3. ASSUME NEW s \in 1 .. Len(sessions')
          PROVE  /\ sessions'[s].lifetime.issued_at <= now'
                 /\ sessions'[s].source = "oidc" =>
                      sessions'[s].facts.department.status # "local_identity"
      <3>1. CASE s \in 1 .. Len(sessions)
        BY <1>2, <3>1 DEF Written, SessionsKept, SessionsInv
      <3>2. CASE s \in Len(sessions) + 1 .. Len(sessions')
        BY <1>2, <3>2, ClockType DEF Written
      <3> QED BY <2>2, <3>1, <3>2
    <2> QED BY <2>1, <2>3 DEF SessionsInv
  <1>3. ASSUME NEW s \in 1 .. Len(sessions), Touched(s) PROVE TypesInv' /\ SessionsInv'
    <2>1. TypesInv'
      BY <1>3, PresentStays DEF Touched, TypesInv
    <2>2. PICK l : l = Renewed(sessions[s].lifetime, now)
      OBVIOUS
    <2>3. l.issued_at = sessions[s].lifetime.issued_at
      BY <2>2, SessionAt, ClockType, RenewedType
    <2>4. /\ sessions'[s].lifetime = l /\ sessions'[s].source = sessions[s].source
          /\ sessions'[s].facts = sessions[s].facts
      BY <1>3, <2>2, SessionAt DEF Touched, SessionType
    <2>5. SessionsInv'
      BY <1>3, <2>3, <2>4 DEF Touched, SessionsInv
    <2> QED BY <2>1, <2>5
  <1> QED BY <1>1, <1>2, <1>3, Steps, ReadsStill

-----------------------------------------------------------------------------
(***************************************************************************)
(* While the clock crosses no boundary, the relations stay as they are.     *)
(***************************************************************************)

(* Nothing but lifetimes of sessions changes, the clock may have moved on. *)
Carried ==
  /\ UNCHANGED <<accounts, provider, observations, generation>>
  /\ Len(sessions') = Len(sessions)
  /\ \A s \in 1 .. Len(sessions) :
       /\ sessions'[s].principal = sessions[s].principal
       /\ sessions'[s].source = sessions[s].source
       /\ sessions'[s].auth_epoch = sessions[s].auth_epoch
       /\ sessions'[s].membership_epoch = sessions[s].membership_epoch
       /\ sessions'[s].origin = sessions[s].origin
       /\ sessions'[s].facts = sessions[s].facts
  /\ now' \in Nat /\ now <= now'

LEMMA StillCarries == Still => Carried
  BY DEF Still, Carried

LEMMA TouchedCarries ==
  ASSUME TypesInv, NEW s \in 1 .. Len(sessions), Touched(s) PROVE Carried
  <1>1. PICK old : old = sessions[s]
    OBVIOUS
  <1>2. PICK l : l = Renewed(old.lifetime, now)
    OBVIOUS
  <1>3. PICK row : row = [old EXCEPT !.lifetime = l]
    OBVIOUS
  <1>4. sessions'[s] = row
    BY <1>1, <1>2, <1>3, Zenon DEF Touched
  <1>5. old \in SessionType
    BY <1>1, SessionAt
  <1>6. /\ row.principal = old.principal /\ row.source = old.source
        /\ row.auth_epoch = old.auth_epoch /\ row.membership_epoch = old.membership_epoch
        /\ row.origin = old.origin /\ row.facts = old.facts
    BY <1>3, <1>5 DEF SessionType
  <1>7. \A t \in 1 .. Len(sessions) :
          /\ sessions'[t].principal = sessions[t].principal
          /\ sessions'[t].source = sessions[t].source
          /\ sessions'[t].auth_epoch = sessions[t].auth_epoch
          /\ sessions'[t].membership_epoch = sessions[t].membership_epoch
          /\ sessions'[t].origin = sessions[t].origin
          /\ sessions'[t].facts = sessions[t].facts
    BY <1>1, <1>4, <1>6, Zenon DEF Touched
  <1>8. now' = now /\ now \in Nat
    BY ClockType DEF Touched
  <1>9. /\ UNCHANGED <<accounts, provider, observations, generation>>
        /\ Len(sessions') = Len(sessions)
    BY DEF Touched
  <1> QED BY <1>7, <1>8, <1>9 DEF Carried

(* An end that is a boundary lies ahead of the new instant as of the old one. *)
LEMMA Ahead ==
  ASSUME TypesInv, Carried, NEW boundaries, NEW until \in Nat, now' < until,
         Quiet(boundaries, until), NEW b \in boundaries, b \in Nat
  PROVE  (b <= now' <=> b <= now) /\ (b > now' <=> b > now)
  BY ClockType DEF Carried, Quiet

LEMMA SessionEnds ==
  ASSUME TypesInv, NEW s \in 1 .. Len(sessions), ~sessions[s].revoked
  PROVE  /\ sessions[s].lifetime.idle_expires_at \in SessionBoundaries
         /\ sessions[s].lifetime.absolute_expires_at \in SessionBoundaries
         /\ sessions[s].lifetime.idle_expires_at \in Nat
         /\ sessions[s].lifetime.absolute_expires_at \in Nat
  <1>1. /\ sessions[s].lifetime.idle_expires_at \in Nat
        /\ sessions[s].lifetime.absolute_expires_at \in Nat
    BY SessionAt, LifetimeNumbers
  <1>2. s \in { t \in 1 .. Len(sessions) : ~sessions[t].revoked }
    OBVIOUS
  <1> QED BY <1>1, <1>2 DEF SessionBoundaries

LEMMA ReferencesStay ==
  ASSUME TypesInv, Still, NEW until \in Nat, now' < until, Quiet(SessionBoundaries, until)
  PROVE  References' = References
  <1>1. ASSUME NEW s \in 1 .. Len(sessions), ~sessions[s].revoked
        PROVE  /\ sessions[s].lifetime.idle_expires_at > now' <=>
                    sessions[s].lifetime.idle_expires_at > now
               /\ sessions[s].lifetime.absolute_expires_at > now' <=>
                    sessions[s].lifetime.absolute_expires_at > now
    BY <1>1, SessionEnds, Ahead, StillCarries
  <1> QED BY <1>1, Zenon DEF Still, References

LEMMA SessionBoundary ==
  ASSUME NEW b \in SessionBoundaries
  PROVE  \E s \in 1 .. Len(sessions) :
           /\ ~sessions[s].revoked
           /\ \/ b = sessions[s].lifetime.idle_expires_at
              \/ b = sessions[s].lifetime.absolute_expires_at
  BY Zenon DEF SessionBoundaries

LEMMA SessionBoundaryNumbers ==
  ASSUME TypesInv, NEW b \in SessionBoundaries PROVE b \in Nat
  BY SessionBoundary, SessionEnds

LEMMA SessionsStayQuiet ==
  ASSUME TypesInv, Still, NEW until \in Nat, Quiet(SessionBoundaries, until)
  PROVE  Quiet(SessionBoundaries, until)'
  <1>1. SessionBoundaries' = SessionBoundaries
    BY Zenon DEF SessionBoundaries, Still
  <1> QED BY <1>1, SessionBoundaryNumbers, ClockType DEF Still, Quiet

LEMMA ObservationEnds ==
  ASSUME TypesInv, NEW a \in Accounts, observations[a] # Null
  PROVE  /\ observations[a].expires_at \in ProfileBoundaries
         /\ observations[a].observed_at + ProfileMaxAge \in ProfileBoundaries
         /\ observations[a].expires_at \in Nat
         /\ observations[a].observed_at + ProfileMaxAge \in Nat
  <1>1. observations[a].expires_at \in Nat /\ observations[a].observed_at \in Nat
    BY ObservationNumbers
  <1>2. observations[a].observed_at + ProfileMaxAge \in Nat
    BY <1>1, DirectoryAssumption
  <1> QED BY <1>1, <1>2, Zenon DEF ProfileBoundaries

LEMMA ProfileEndAhead ==
  ASSUME TypesInv, Carried, NEW until \in Nat, now' < until, Quiet(ProfileBoundaries, until),
         NEW a \in Accounts, observations[a] # Null
  PROVE  ObservationEnd(observations[a]) <= now' <=> ObservationEnd(observations[a]) <= now
  <1> DEFINE b == observations[a].expires_at
             c == observations[a].observed_at + ProfileMaxAge
  <1>1. b \in ProfileBoundaries /\ c \in ProfileBoundaries /\ b \in Nat /\ c \in Nat
    BY ObservationEnds
  <1>2. (b <= now' <=> b <= now) /\ (c <= now' <=> c <= now)
    BY <1>1, Ahead
  <1>3. ObservationEnd(observations[a]) \in {b, c}
    BY DEF ObservationEnd, LeastOf
  <1> HIDE DEF b, c
  <1> QED BY <1>2, <1>3

LEMMA ProfileStatusStays ==
  ASSUME TypesInv, Carried, NEW until \in Nat, now' < until, Quiet(ProfileBoundaries, until),
         NEW a \in Accounts
  PROVE  ProfileStatus(a)' = ProfileStatus(a)
  <1>1. observations[a] # Null =>
          (ObservationEnd(observations[a]) <= now' <=> ObservationEnd(observations[a]) <= now)
    BY ProfileEndAhead
  <1> QED BY <1>1, Zenon DEF Carried, ProfileStatus, ExactProvider, ObservationEnd, LeastOf

LEMMA ProfileBoundaryNumbers ==
  ASSUME TypesInv, NEW b \in ProfileBoundaries PROVE b \in Nat
  <1>1. PICK a \in Accounts :
          /\ observations[a] # Null
          /\ \/ b = observations[a].expires_at
             \/ b = observations[a].observed_at + ProfileMaxAge
    BY Zenon DEF ProfileBoundaries
  <1> QED BY <1>1, ObservationEnds

LEMMA ProfilesStayQuiet ==
  ASSUME TypesInv, Carried, NEW until \in Nat, Quiet(ProfileBoundaries, until)
  PROVE  Quiet(ProfileBoundaries, until)'
  <1>1. ProfileBoundaries' = ProfileBoundaries
    BY Zenon DEF ProfileBoundaries, Carried
  <1> QED BY <1>1, ProfileBoundaryNumbers, ClockType DEF Carried, Quiet

LEMMA PersonnelStays ==
  ASSUME TypesInv, Carried, NEW until \in Nat, now' < until, Quiet(ProfileBoundaries, until),
         NEW logins, NEW shown
  PROVE  Personnel(logins, shown)' = Personnel(logins, shown)
  <1>1. \A a \in Present : ProfileStatus(a)' = ProfileStatus(a)
    BY ProfileStatusStays DEF Present
  <1>2. Present' = Present
    BY DEF Present, Carried
  <1> QED BY <1>1, <1>2, Zenon DEF Personnel, Carried

(* The sessions an account has through the provider, and the latest of some. *)
Through(a) ==
  { s \in 1 .. Len(sessions) : sessions[s].principal = a /\ sessions[s].source = "oidc" }
LastOf(through) ==
  IF through = {} THEN 0 ELSE CHOOSE s \in through : \A t \in through : t <= s

(* The latest session an account has through the provider. *)
LEMMA LatestIs ==
  ASSUME TypesInv, NEW a, Latest(a) # 0
  PROVE  /\ Latest(a) \in 1 .. Len(sessions)
         /\ sessions[Latest(a)].principal = a
         /\ sessions[Latest(a)].source = "oidc"
  <1> DEFINE through == { s \in 1 .. Len(sessions) :
                            sessions[s].principal = a /\ sessions[s].source = "oidc" }
             s == CHOOSE x \in through : \A t \in through : t <= x
  <1>1. through # {} /\ Latest(a) = s
    BY Zenon DEF Latest
  <1>2. through \in SUBSET (1 .. Len(sessions)) /\ Len(sessions) \in Nat
    BY SessionCount
  <1>3. s \in through
    <2> HIDE DEF through
    <2>1. \E x \in through : \A t \in through : t <= x
      BY <1>1, <1>2, LatestOne
    <2> QED BY <2>1, Zenon
  <1> QED BY <1>1, <1>3, Zenon

LEMMA GenerationStays ==
  ASSUME Carried, NEW s \in 1 .. Len(sessions)
  PROVE  /\ OfThisGeneration(sessions[s])' <=> OfThisGeneration(sessions[s])
         /\ ExactProvider(sessions[s].origin)' <=> ExactProvider(sessions[s].origin)
  <1>1. /\ sessions'[s].principal = sessions[s].principal
        /\ sessions'[s].auth_epoch = sessions[s].auth_epoch
        /\ sessions'[s].membership_epoch = sessions[s].membership_epoch
        /\ sessions'[s].origin = sessions[s].origin
        /\ accounts' = accounts /\ provider' = provider
    BY DEF Carried
  <1>2. OfThisGeneration(sessions[s])' <=> OfThisGeneration(sessions[s])
    BY <1>1 DEF OfThisGeneration
  <1>3. ExactProvider(sessions[s].origin)' <=> ExactProvider(sessions[s].origin)
    BY <1>1 DEF ExactProvider
  <1> QED BY <1>2, <1>3

LEMMA LatestStays == ASSUME Carried, NEW a PROVE Latest(a)' = Latest(a)
  <1>1. Through(a)' = Through(a)
    BY DEF Carried, Through
  <1>2. Latest(a) = LastOf(Through(a))
    BY DEF Latest, LastOf, Through
  <1>3. Latest(a)' = LastOf(Through(a)')
    BY DEF Latest, LastOf, Through
  <1> QED BY <1>1, <1>2, <1>3

LEMMA DepartmentEnds ==
  ASSUME TypesInv, NEW a \in Accounts, Latest(a) # 0,
         NEW f, f = sessions[Latest(a)].facts.department, f.status = "available"
  PROVE  /\ f.observed_at \in DepartmentBoundaries /\ f.expires_at \in DepartmentBoundaries
         /\ f.observed_at \in Nat /\ f.expires_at \in Nat
  <1>1. f \in Fact
    BY LatestIs, SessionAt
  <1>2. f \in LatestDepartments
    BY DEF LatestDepartments
  <1>3. f \in { g \in LatestDepartments : g.status = "available" }
    BY <1>2
  <1> QED BY <1>1, <1>3, FactNumbers DEF DepartmentBoundaries

LEMMA FactStatusStays ==
  ASSUME TypesInv, Carried, NEW until \in Nat, now' < until,
         Quiet(DepartmentBoundaries, until),
         NEW a \in Accounts, Latest(a) # 0, NEW f, f = sessions[Latest(a)].facts.department
  PROVE  FactStatus(f)' = FactStatus(f)
  <1>1. CASE f.status # "available"
    BY <1>1, Zenon DEF FactStatus
  <1>2. CASE f.status = "available"
    <2>1. /\ f.observed_at \in DepartmentBoundaries /\ f.expires_at \in DepartmentBoundaries
          /\ f.observed_at \in Nat /\ f.expires_at \in Nat
      BY <1>2, DepartmentEnds
    <2>2. /\ f.observed_at > now' <=> f.observed_at > now
          /\ f.expires_at <= now' <=> f.expires_at <= now
      BY <2>1, Ahead
    <2> QED BY <2>2, Zenon DEF FactStatus
  <1> QED BY <1>1, <1>2

LEMMA DepartmentStatusStays ==
  ASSUME TypesInv, Carried, NEW until \in Nat, now' < until,
         Quiet(DepartmentBoundaries, until), NEW a \in Accounts
  PROVE  DepartmentStatus(a)' = DepartmentStatus(a)
  <1>1. PICK s : s = Latest(a)
    OBVIOUS
  <1>2. Latest(a)' = s
    BY <1>1, LatestStays
  <1>3. accounts' = accounts
    BY DEF Carried
  <1>4. CASE s = 0
    BY <1>1, <1>2, <1>3, <1>4 DEF DepartmentStatus
  <1>5. CASE s # 0
    <2>1. s \in 1 .. Len(sessions)
      BY <1>1, <1>5, LatestIs
    <2>2. PICK f : f = sessions[s].facts.department
      OBVIOUS
    <2>3. FactStatus(f)' = FactStatus(f)
      BY <1>1, <1>5, <2>2, FactStatusStays
    <2>4. sessions'[s].facts.department = f
      BY <2>1, <2>2 DEF Carried
    <2>5. FactStatus(sessions[s].facts.department)' = FactStatus(sessions[s].facts.department)
      BY <2>2, <2>3, <2>4
    <2>6. /\ OfThisGeneration(sessions[s])' <=> OfThisGeneration(sessions[s])
          /\ ExactProvider(sessions[s].origin)' <=> ExactProvider(sessions[s].origin)
      BY <2>1, GenerationStays
    <2> QED BY <1>1, <1>2, <1>3, <1>5, <2>5, <2>6, Zenon DEF DepartmentStatus
  <1> QED BY <1>4, <1>5

(* Who is in a department has a session through the provider. *)
LEMMA DepartmentOfLatest ==
  ASSUME TypesInv, NEW a, DepartmentStatus(a) = "available"
  PROVE  Latest(a) \in 1 .. Len(sessions)
  <1>1. Latest(a) # 0
    BY DEF DepartmentStatus
  <1> QED BY <1>1, LatestIs

LEMMA DepartmentBoundaryNumbers ==
  ASSUME TypesInv, NEW b \in DepartmentBoundaries PROVE b \in Nat
  <1>1. PICK f \in LatestDepartments :
          f.status = "available" /\ (b = f.observed_at \/ b = f.expires_at)
    BY Zenon DEF DepartmentBoundaries
  <1>2. PICK a \in Accounts : Latest(a) # 0 /\ f = sessions[Latest(a)].facts.department
    BY DEF LatestDepartments
  <1> QED BY <1>1, <1>2, DepartmentEnds

LEMMA DepartmentsStayQuiet ==
  ASSUME TypesInv, Carried, NEW until \in Nat, Quiet(DepartmentBoundaries, until)
  PROVE  Quiet(DepartmentBoundaries, until)'
  <1>1. \A a \in Accounts :
          /\ Latest(a)' = Latest(a)
          /\ Latest(a) # 0 => sessions'[Latest(a)].facts = sessions[Latest(a)].facts
    BY LatestStays, LatestIs DEF Carried
  <1>2. { a \in Accounts : Latest(a) # 0 }' = { a \in Accounts : Latest(a) # 0 }
    BY <1>1
  <1>3. LatestDepartments' = LatestDepartments
    <2>1. ASSUME NEW f \in LatestDepartments' PROVE f \in LatestDepartments
      <3>1. PICK a \in Accounts : Latest(a)' # 0 /\ f = sessions'[Latest(a)'].facts.department
        BY DEF LatestDepartments
      <3>2. PICK s : s = Latest(a)
        OBVIOUS
      <3>3. s # 0 /\ f = sessions[s].facts.department
        BY <1>1, <3>1, <3>2
      <3> QED BY <3>2, <3>3 DEF LatestDepartments
    <2>2. ASSUME NEW f \in LatestDepartments PROVE f \in LatestDepartments'
      <3>1. PICK a \in Accounts : Latest(a) # 0 /\ f = sessions[Latest(a)].facts.department
        BY DEF LatestDepartments
      <3>2. Latest(a)' # 0 /\ f = sessions'[Latest(a)'].facts.department
        BY <1>1, <3>1
      <3> QED BY <3>2 DEF LatestDepartments
    <2> QED BY <2>1, <2>2
  <1>4. DepartmentBoundaries' = DepartmentBoundaries
    BY <1>3, Zenon DEF DepartmentBoundaries
  <1> QED BY <1>4, DepartmentBoundaryNumbers, ClockType DEF Carried, Quiet

(* What the clock must not cross for a query's answer to stay. *)
QuietFor(query, until) ==
  /\ needs_profiles(query) => Quiet(ProfileBoundaries, until)
  /\ needs_departments(query) => Quiet(DepartmentBoundaries, until)

LEMMA AccountRowStays ==
  ASSUME TypesInv, Carried, NEW query, NEW until \in Nat, now' < until,
         QuietFor(query, until), NEW a \in Present
  PROVE  AccountRow(a, query)' = AccountRow(a, query)
  <1>1. a \in Accounts
    BY DEF Present
  <1>2. needs_profiles(query) => ProfileStatus(a)' = ProfileStatus(a)
    BY <1>1, ProfileStatusStays DEF QuietFor
  <1>3. needs_departments(query) => DepartmentStatus(a)' = DepartmentStatus(a)
    BY <1>1, DepartmentStatusStays DEF QuietFor
  <1>4. PICK profile : profile = IF needs_profiles(query) THEN ProfileStatus(a) ELSE "unavailable"
    OBVIOUS
  <1>5. PICK department :
          department = IF needs_departments(query) THEN DepartmentStatus(a) ELSE "unavailable"
    OBVIOUS
  <1>6. PICK snapshot :
          snapshot = IF department = "available"
                     THEN sessions[Latest(a)].facts.department.value ELSE NoDepartments
    OBVIOUS
  <1>7. /\ profile = IF needs_profiles(query) THEN ProfileStatus(a)' ELSE "unavailable"
        /\ department = IF needs_departments(query) THEN DepartmentStatus(a)' ELSE "unavailable"
    BY <1>2, <1>3, <1>4, <1>5
  <1>8. department = "available" =>
          sessions'[Latest(a)'].facts.department.value = sessions[Latest(a)].facts.department.value
    BY <1>5, DepartmentOfLatest, LatestStays DEF Carried
  <1>9. snapshot = IF department = "available"
                   THEN sessions'[Latest(a)'].facts.department.value ELSE NoDepartments
    BY <1>6, <1>8
  <1>10. AccountRow(a, query) =
           [ principalId |-> a, login |-> Login[a], enabled |-> Bool(accounts[a].enabled),
             memberActive |-> Bool(accounts[a].member_active),
             hasLocalPassword |-> Bool(Login[a] # Null),
             displayName |-> IF profile = "available" THEN observations[a].name ELSE Null,
             profileStatus |-> Text(profile), departmentStatus |-> Text(department),
             department |-> Null, departmentSubtree |-> Null,
             memberships |-> snapshot.memberships, ancestors |-> Ancestors(snapshot) ]
    BY <1>4, <1>5, <1>6, Zenon DEF AccountRow
  <1>11. AccountRow(a, query)' =
           [ principalId |-> a, login |-> Login[a], enabled |-> Bool(accounts'[a].enabled),
             memberActive |-> Bool(accounts'[a].member_active),
             hasLocalPassword |-> Bool(Login[a] # Null),
             displayName |-> IF profile = "available" THEN observations'[a].name ELSE Null,
             profileStatus |-> Text(profile), departmentStatus |-> Text(department),
             department |-> Null, departmentSubtree |-> Null,
             memberships |-> snapshot.memberships, ancestors |-> Ancestors(snapshot) ]
    BY <1>7, <1>9, Zenon DEF AccountRow
  <1>12. accounts' = accounts /\ observations' = observations
    BY DEF Carried
  <1> QED BY <1>10, <1>11, <1>12, Zenon

LEMMA RowsStay ==
  ASSUME TypesInv, Carried, NEW query, NEW until \in Nat, now' < until,
         QuietFor(query, until), NEW wanted
  PROVE  Rows(query, wanted)' = Rows(query, wanted)
  <1>1. Present' = Present
    BY DEF Present, Carried
  <1>2. \A a \in Present : AccountRow(a, query)' = AccountRow(a, query)
    BY AccountRowStays
  <1>3. { AccountRow(a, query) : a \in Present }' = { AccountRow(a, query) : a \in Present }
    BY <1>1, <1>2, Zenon
  <1> QED BY <1>3, Zenon DEF Rows

LEMMA AnswerStays ==
  ASSUME TypesInv, Carried, NEW query, NEW until \in Nat, now' < until, QuietFor(query, until)
  PROVE  /\ Rows(query, query.filter)' = Rows(query, query.filter)
         /\ Answer(query)' = Answer(query)
         /\ QuietFor(query, until)'
  <1>1. Rows(query, query.filter)' = Rows(query, query.filter)
    BY RowsStay
  <1>2. QuietFor(query, until)'
    BY ProfilesStayQuiet, DepartmentsStayQuiet DEF QuietFor
  <1> QED BY <1>1, <1>2, Zenon DEF Answer

-----------------------------------------------------------------------------
(***************************************************************************)
(* What a read establishes.                                                *)
(***************************************************************************)

(* valid_until is ahead, and no boundary of what was read lies before it.    *)
LEMMA WindowIsQuiet ==
  ASSUME TypesInv, NEW profiles \in BOOLEAN, NEW departments \in BOOLEAN,
         NEW actor_until \in Nat, NEW until,
         until = valid_until(profiles, departments, actor_until)
  PROVE  /\ until \in Nat
         /\ Quiet(SessionBoundaries, until)
         /\ profiles => Quiet(ProfileBoundaries, until)
         /\ departments => Quiet(DepartmentBoundaries, until)
  <1> DEFINE boundaries ==
        SessionBoundaries \cup (IF profiles THEN ProfileBoundaries ELSE {})
          \cup (IF departments THEN DepartmentBoundaries ELSE {})
          \cup {actor_until, now + Window}
             ahead == { t \in boundaries : t > now }
  <1>1. now \in Nat /\ now + Window \in Nat /\ now + Window > now
    BY ClockType, DirectoryAssumption
  <1>2. boundaries \in SUBSET Nat
    BY <1>1, SessionBoundaryNumbers, ProfileBoundaryNumbers, DepartmentBoundaryNumbers
  <1>3. until = CHOOSE t \in ahead : \A u \in ahead : t <= u
    BY Zenon DEF valid_until
  <1>4. SessionBoundaries \subseteq boundaries
    OBVIOUS
  <1>5. profiles => ProfileBoundaries \subseteq boundaries
    OBVIOUS
  <1>6. departments => DepartmentBoundaries \subseteq boundaries
    OBVIOUS
  <1>7. now + Window \in boundaries
    OBVIOUS
  <1> HIDE DEF boundaries
  <1>8. ahead \in SUBSET Nat /\ ahead # {}
    BY <1>1, <1>2, <1>7
  <1>9. until \in ahead /\ \A u \in ahead : until <= u
    <2> HIDE DEF ahead
    <2>1. \E t \in ahead : \A u \in ahead : t <= u
      BY <1>8, Earliest
    <2> QED BY <1>3, <2>1, Zenon
  <1>10. \A b \in boundaries : b <= now \/ until <= b
    BY <1>1, <1>2, <1>9
  <1> QED BY <1>4, <1>5, <1>6, <1>8, <1>9, <1>10 DEF Quiet

LEMMA ExpiryType ==
  ASSUME TypesInv, NEW s \in 1 .. Len(sessions) PROVE Expiry(s) \in Nat
  BY SessionAt, LifetimeNumbers DEF Expiry, LeastOf

(* A renewal only moves the idle expiry of a session that is live anyway.    *)
LEMMA TouchedReferences ==
  ASSUME TypesInv, NEW s \in 1 .. Len(sessions), Touched(s)
  PROVE  References' = References
  <1>1. PICK l : l = sessions[s].lifetime
    OBVIOUS
  <1>2. PICK k : k = Renewed(l, now)
    OBVIOUS
  <1>3. /\ l \in SessionLifetime /\ now \in Nat
        /\ l.idle_expires_at \in Nat
    BY <1>1, SessionAt, LifetimeNumbers, ClockType
  <1>4. /\ k.absolute_expires_at = l.absolute_expires_at
        /\ k.idle_expires_at >= l.idle_expires_at /\ k.idle_expires_at \in Nat
    BY <1>2, <1>3, RenewedType, LifetimeNumbers
  <1>5. l.idle_expires_at > now
    BY <1>1, <1>3 DEF Touched, Live, valid_at
  <1>6. k.idle_expires_at > now
    BY <1>3, <1>4, <1>5
  <1>7. PICK old : old = sessions[s]
    OBVIOUS
  <1>8. PICK row : row = [old EXCEPT !.lifetime = k]
    OBVIOUS
  <1>9. sessions'[s] = row
    BY <1>1, <1>2, <1>7, <1>8, Zenon DEF Touched
  <1>10. old \in SessionType
    BY <1>7, SessionAt
  <1>11. row.lifetime = k /\ row.revoked = old.revoked
    BY <1>8, <1>10 DEF SessionType
  <1>12. Carried
    BY TouchedCarries
  <1>13. ASSUME NEW t \in 1 .. Len(sessions)
         PROVE  /\ sessions'[t].revoked = sessions[t].revoked
                /\ sessions'[t].lifetime.idle_expires_at > now <=>
                     sessions[t].lifetime.idle_expires_at > now
                /\ sessions'[t].lifetime.absolute_expires_at
                     = sessions[t].lifetime.absolute_expires_at
    <2>1. CASE t = s
      BY <1>1, <1>4, <1>5, <1>6, <1>7, <1>9, <1>11, <2>1
    <2>2. CASE t # s
      BY <2>2 DEF Touched
    <2> QED BY <2>1, <2>2
  <1>14. now' = now
    BY DEF Touched
  <1> QED BY <1>12, <1>13, <1>14, Zenon DEF Carried, References

LEMMA TouchedQuiet ==
  ASSUME TypesInv, NEW s \in 1 .. Len(sessions), Touched(s),
         NEW until \in Nat, Quiet(SessionBoundaries, until)
  PROVE  Quiet(SessionBoundaries, until)'
  <1>1. PICK l : l = sessions[s].lifetime
    OBVIOUS
  <1>2. PICK k : k = Renewed(l, now)
    OBVIOUS
  <1>3. /\ l \in SessionLifetime /\ now \in Nat
        /\ l.idle_expires_at \in Nat
    BY <1>1, SessionAt, LifetimeNumbers, ClockType
  <1>4. /\ k.absolute_expires_at = l.absolute_expires_at
        /\ k.idle_expires_at >= l.idle_expires_at /\ k.idle_expires_at \in Nat
    BY <1>2, <1>3, RenewedType, LifetimeNumbers
  <1>5. l.idle_expires_at > now /\ ~sessions[s].revoked
    BY <1>1, <1>3 DEF Touched, Live, valid_at
  <1>6. until <= l.idle_expires_at
    BY <1>1, <1>3, <1>5, SessionEnds DEF Quiet
  <1>7. until <= k.idle_expires_at
    BY <1>3, <1>4, <1>6
  <1>8. l.absolute_expires_at \in SessionBoundaries
    BY <1>1, <1>5, SessionEnds
  <1>9. PICK old : old = sessions[s]
    OBVIOUS
  <1>10. PICK row : row = [old EXCEPT !.lifetime = k]
    OBVIOUS
  <1>11. sessions'[s] = row
    BY <1>1, <1>2, <1>9, <1>10, Zenon DEF Touched
  <1>12. old \in SessionType
    BY <1>9, SessionAt
  <1>13. row.lifetime = k
    BY <1>10, <1>12 DEF SessionType
  <1> SUFFICES ASSUME NEW b \in SessionBoundaries' PROVE b <= now' \/ until <= b
    BY DEF Quiet
  <1>14. PICK t \in 1 .. Len(sessions') :
           /\ ~sessions'[t].revoked
           /\ \/ b = sessions'[t].lifetime.idle_expires_at
              \/ b = sessions'[t].lifetime.absolute_expires_at
    BY Zenon DEF SessionBoundaries
  <1>15. t \in 1 .. Len(sessions) /\ now' = now
    BY <1>14 DEF Touched
  <1>16. CASE t = s
    <2>1. b = k.idle_expires_at \/ b = l.absolute_expires_at
      BY <1>4, <1>11, <1>13, <1>14, <1>16
    <2> QED BY <1>7, <1>8, <1>15, <2>1 DEF Quiet
  <1>17. CASE t # s
    <2>1. sessions'[t] = sessions[t]
      BY <1>15, <1>17 DEF Touched
    <2>2. b \in SessionBoundaries
      BY <1>14, <1>15, <2>1, SessionEnds
    <2> QED BY <1>15, <2>2 DEF Quiet
  <1> QED BY <1>16, <1>17

(* What a reader of personnel or of session references holds. *)
LEMMA PersonnelReadPins ==
  ASSUME TypesInv, NEW actor \in 1 .. Len(sessions), NEW permission \in Permissions,
         NEW last \in now .. MaxClock, with_personnel_read(actor, permission, last)
  PROVE  PinnedInv'
  <1>1. PICK shown : shown = InScope(permission.profiles, sessions[actor].principal)
    OBVIOUS
  <1>2. PICK until : until = valid_until(TRUE, FALSE, Expiry(actor))
    OBVIOUS
  <1>3. PICK logins : logins = permission.logins
    OBVIOUS
  <1>4. PICK relation : relation = Personnel(logins, shown)
    OBVIOUS
  <1>5. PICK references : references = References
    OBVIOUS
  <1>6. /\ held' = [ kind |-> "personnel", generation |-> generation, valid_until |-> until,
                     logins |-> logins, shown |-> shown, personnel |-> relation,
                     references |-> references ]
        /\ Ends(last, until)
    BY <1>1, <1>2, <1>3, <1>4, <1>5, Zenon DEF with_personnel_read
  <1>7. Still /\ now' < until
    BY <1>6, EndsStill
  <1>8. until \in Nat /\ Quiet(SessionBoundaries, until) /\ Quiet(ProfileBoundaries, until)
    <2>1. Expiry(actor) \in Nat
      BY ExpiryType
    <2> QED BY <1>2, <2>1, WindowIsQuiet
  <1>9. References' = references
    BY <1>5, <1>7, <1>8, ReferencesStay
  <1>10. Personnel(logins, shown)' = relation
    BY <1>4, <1>7, <1>8, StillCarries, PersonnelStays
  <1>11. Quiet(SessionBoundaries, until)' /\ Quiet(ProfileBoundaries, until)'
    BY <1>7, <1>8, StillCarries, SessionsStayQuiet, ProfilesStayQuiet
  <1>12. generation' = generation /\ generation \in Nat
    BY <1>7 DEF Still, TypesInv
  <1>13. generation' \in Nat /\ generation <= generation'
    BY <1>12
  <1>14. /\ held'.kind = "personnel" /\ held'.generation = generation
         /\ held'.valid_until = until /\ held'.logins = logins /\ held'.shown = shown
         /\ held'.personnel = relation /\ held'.references = references
    BY <1>6
  <1> QED BY <1>8, <1>9, <1>10, <1>11, <1>12, <1>13, <1>14, Zenon DEF PinnedInv

LEMMA ReferencesReadPins ==
  ASSUME TypesInv, NEW last \in now .. MaxClock, with_session_references_read(last)
  PROVE  PinnedInv'
  <1>1. PICK until : until = valid_until(FALSE, FALSE, now + Window)
    OBVIOUS
  <1>2. PICK references : references = References
    OBVIOUS
  <1>3. /\ held' = [ kind |-> "references", generation |-> generation, valid_until |-> until,
                     references |-> references ]
        /\ Ends(last, until)
    BY <1>1, <1>2, Zenon DEF with_session_references_read
  <1>4. Still /\ now' < until
    BY <1>3, EndsStill
  <1>5. until \in Nat /\ Quiet(SessionBoundaries, until)
    <2>1. now + Window \in Nat
      BY ClockType, DirectoryAssumption
    <2> QED BY <1>1, <2>1, WindowIsQuiet
  <1>6. References' = references
    BY <1>2, <1>4, <1>5, ReferencesStay
  <1>7. Quiet(SessionBoundaries, until)'
    BY <1>4, <1>5, SessionsStayQuiet
  <1>8. generation' = generation /\ generation \in Nat
    BY <1>4 DEF Still, TypesInv
  <1>9. generation <= generation'
    BY <1>8
  <1>10. /\ held'.kind = "references" /\ held'.generation = generation
         /\ held'.valid_until = until /\ held'.references = references
    BY <1>3
  <1>11. held'.kind # "personnel"
    BY <1>10
  <1> QED BY <1>5, <1>6, <1>7, <1>8, <1>9, <1>10, <1>11, Zenon DEF PinnedInv

(* What is held stays pinned while only the clock and idle expiries move.    *)
LEMMA PinsStay ==
  ASSUME TypesInv, PinnedInv, UNCHANGED held,
         Still \/ \E s \in 1 .. Len(sessions) : Touched(s)
  PROVE  PinnedInv'
  <1> SUFFICES ASSUME held.kind \in {"personnel", "references"} PROVE PinnedInv'
    BY DEF PinnedInv
  <1>1. Carried
    BY StillCarries, TouchedCarries
  <1>2. PICK until : until = held.valid_until
    OBVIOUS
  <1>3. PICK logins, shown : logins = held.logins /\ shown = held.shown
    OBVIOUS
  <1>4. /\ held.generation \in Nat /\ held.generation <= generation /\ until \in Nat
        /\ generation' = generation
    BY <1>1, <1>2 DEF PinnedInv, Carried
  <1>5. ASSUME held.generation = generation, now' < until
        PROVE  /\ Quiet(SessionBoundaries, until)'
               /\ References' = held.references
               /\ held.kind = "personnel" =>
                    /\ Quiet(ProfileBoundaries, until)'
                    /\ held.personnel = Personnel(logins, shown)'
    <2>1. now < until
      BY <1>1, <1>4, <1>5, ClockType DEF Carried
    <2>2. /\ Quiet(SessionBoundaries, until)
          /\ References = held.references
          /\ held.kind = "personnel" =>
               /\ Quiet(ProfileBoundaries, until)
               /\ held.personnel = Personnel(logins, shown)
      BY <1>2, <1>3, <1>5, <2>1 DEF PinnedInv
    <2>3. Quiet(SessionBoundaries, until)' /\ References' = held.references
      <3>1. CASE Still
        BY <1>4, <1>5, <2>2, <3>1, ReferencesStay, SessionsStayQuiet
      <3>2. CASE \E s \in 1 .. Len(sessions) : Touched(s)
        BY <1>4, <2>2, <3>2, TouchedReferences, TouchedQuiet
      <3> QED BY <3>1, <3>2
    <2>4. ASSUME held.kind = "personnel"
          PROVE  /\ Quiet(ProfileBoundaries, until)'
                 /\ held.personnel = Personnel(logins, shown)'
      <3>1. Personnel(logins, shown)' = Personnel(logins, shown)
        BY <1>1, <1>4, <1>5, <2>2, <2>4, PersonnelStays
      <3> QED BY <1>1, <1>4, <2>2, <2>4, <3>1, ProfilesStayQuiet
    <2> QED BY <2>3, <2>4
  <1>6. held' = held
    OBVIOUS
  <1> QED BY <1>2, <1>3, <1>4, <1>5, <1>6, Zenon DEF PinnedInv

LEMMA WritesUnpin ==
  ASSUME TypesInv, PinnedInv, Written PROVE PinnedInv'
  <1>1. held' = held /\ generation' = generation + 1 /\ generation \in Nat
    BY DEF Written, TypesInv
  <1>2. held.kind \in {"personnel", "references"} =>
          /\ held.generation \in Nat /\ held.generation <= generation'
          /\ held.valid_until \in Nat /\ held.generation # generation'
    BY <1>1 DEF PinnedInv
  <1> QED BY <1>1, <1>2, Zenon DEF PinnedInv

LEMMA StepPins ==
  ASSUME TypesInv, PinnedInv, [Next]_vars PROVE PinnedInv'
  <1>1. ASSUME NEW actor \in 1 .. Len(sessions), NEW request \in DOMAIN Parsed,
               NEW resume \in BOOLEAN, NEW last \in now .. MaxClock,
               list_accounts(actor, request, resume, last)
        PROVE  PinnedInv'
    <2>1. held'.kind = "listing"
      BY <1>1 DEF list_accounts
    <2> QED BY <2>1 DEF PinnedInv
  <1>2. ASSUME NEW s \in 1 .. Len(sessions), recheck_session_reference(s)
        PROVE  PinnedInv'
    <2>1. held'.kind = "facts"
      BY <1>2 DEF recheck_session_reference
    <2> QED BY <2>1 DEF PinnedInv
  <1>3. ASSUME NEW s \in 1 .. Len(sessions), Touched(s) PROVE PinnedInv'
    BY <1>3, PinsStay DEF Touched
  <1>4. ASSUME Still, UNCHANGED held PROVE PinnedInv'
    BY <1>4, PinsStay
  <1> QED BY <1>1, <1>2, <1>3, <1>4, WritesUnpin, PersonnelReadPins, ReferencesReadPins, Steps

-----------------------------------------------------------------------------
(***************************************************************************)
(* A query's rows can be listed.                                           *)
(***************************************************************************)
Statuses == { "available", "claim_missing", "expired", "invalid_claim", "missing",
              "not_configured", "not_yet_valid", "unavailable" }

LEMMA TextNumber == ASSUME NEW status \in Statuses PROVE Text(status) \in Int
  <1>1. Len(Collation) = 8
    BY DEF Collation
  <1>2. \E i \in 1 .. 8 : Collation[i] = status
    <2>1. /\ Collation[1] = "available" /\ Collation[2] = "claim_missing"
          /\ Collation[3] = "expired" /\ Collation[4] = "invalid_claim"
          /\ Collation[5] = "missing" /\ Collation[6] = "not_configured"
          /\ Collation[7] = "not_yet_valid" /\ Collation[8] = "unavailable"
      BY DEF Collation
    <2>2. {1, 2, 3, 4, 5, 6, 7, 8} \subseteq 1 .. 8
      OBVIOUS
    <2> QED BY <2>1, <2>2 DEF Statuses
  <1> DEFINE x == CHOOSE i \in 1 .. Len(Collation) : Collation[i] = status
  <1>3. x \in 1 .. 8
    BY <1>1, <1>2, Zenon
  <1>4. Text(status) = x
    BY Zenon DEF Text
  <1> HIDE DEF x
  <1> QED BY <1>3, <1>4

LEMMA BoolNumber == ASSUME NEW b PROVE Bool(b) \in Int
  BY DEF Bool

LEMMA ProfileStatusType == ASSUME NEW a PROVE ProfileStatus(a) \in Statuses
  BY Zenon DEF ProfileStatus, Statuses

(* An account that signed in through the provider has a status that sorts.   *)
LEMMA DepartmentStatusType ==
  ASSUME TypesInv, SessionsInv, NEW a PROVE DepartmentStatus(a) \in Statuses
  <1>1. PICK s : s = Latest(a)
    OBVIOUS
  <1>2. CASE s = 0
    BY <1>1, <1>2, Zenon DEF DepartmentStatus, Statuses
  <1>3. CASE s # 0
    <2>1. s \in 1 .. Len(sessions) /\ sessions[s].source = "oidc"
      BY <1>1, <1>3, LatestIs
    <2>2. PICK f : f = sessions[s].facts.department
      OBVIOUS
    <2>3. f \in Fact /\ f.status # "local_identity"
      BY <2>1, <2>2, SessionAt DEF SessionsInv
    <2>4. f.status \in {"available"} \cup ClaimReasons
      BY <2>3 DEF Fact
    <2>5. FactStatus(f) \in Statuses
      BY <2>4, Zenon DEF FactStatus, Statuses, ClaimReasons
    <2> QED BY <1>1, <1>3, <2>2, <2>5, Zenon DEF DepartmentStatus, Statuses
  <1> QED BY <1>2, <1>3

LEMMA RowNumbered ==
  ASSUME TypesInv, SessionsInv, NEW a \in Present, NEW query
  PROVE  Numbered(AccountRow(a, query)) /\ AccountRow(a, query).principalId = a
  <1>1. a \in Accounts /\ a \in Int
    <2>1. a \in Accounts
      BY PresentType
    <2>2. Accounts \subseteq Nat
      BY DirectoryAssumption, Zenon
    <2> QED BY <2>1, <2>2
  <1>2. PICK profile : profile = IF needs_profiles(query) THEN ProfileStatus(a) ELSE "unavailable"
    OBVIOUS
  <1>3. PICK department :
          department = IF needs_departments(query) THEN DepartmentStatus(a) ELSE "unavailable"
    OBVIOUS
  <1>4. PICK row : row = AccountRow(a, query)
    OBVIOUS
  <1>5. PICK name : name = IF profile = "available" THEN observations[a].name ELSE Null
    OBVIOUS
  <1>6. PICK memberships, ancestors :
          row = [ principalId |-> a, login |-> Login[a], enabled |-> Bool(accounts[a].enabled),
                  memberActive |-> Bool(accounts[a].member_active),
                  hasLocalPassword |-> Bool(Login[a] # Null),
                  displayName |-> name, profileStatus |-> Text(profile),
                  departmentStatus |-> Text(department),
                  department |-> Null, departmentSubtree |-> Null,
                  memberships |-> memberships, ancestors |-> ancestors ]
    BY <1>2, <1>3, <1>4, <1>5, Zenon DEF AccountRow
  <1>7. Text(profile) \in Int /\ Text(department) \in Int
    <2>1. profile \in Statuses /\ department \in Statuses
      <3>1. "unavailable" \in Statuses
        BY DEF Statuses
      <3> QED BY <1>2, <1>3, <3>1, ProfileStatusType, DepartmentStatusType
    <2> QED BY <2>1, TextNumber
  <1>8. name \in Int \cup {Null}
    <2>1. profile = "available" => observations[a] # Null
      BY <1>2, Zenon DEF ProfileStatus
    <2> QED BY <1>1, <1>5, <2>1, ObservationNumbers
  <1>9. Login[a] \in Int \cup {Null}
    BY <1>1, DirectoryAssumption
  <1>10. /\ Bool(accounts[a].enabled) \in Int /\ Bool(accounts[a].member_active) \in Int
         /\ Bool(Login[a] # Null) \in Int
    BY BoolNumber
  <1>11. /\ row.principalId = a /\ row.login = Login[a]
         /\ row.enabled = Bool(accounts[a].enabled)
         /\ row.memberActive = Bool(accounts[a].member_active)
         /\ row.hasLocalPassword = Bool(Login[a] # Null)
         /\ row.displayName = name /\ row.profileStatus = Text(profile)
         /\ row.departmentStatus = Text(department)
    BY <1>6
  <1>12. ASSUME NEW f \in Sortable PROVE row[f] \in Int \cup {Null}
    BY <1>1, <1>7, <1>8, <1>9, <1>10, <1>11, Zenon DEF Sortable, ProfileFields, BooleanFields
  <1> QED BY <1>4, <1>11, <1>12, Zenon DEF Numbered

LEMMA RowsListed ==
  ASSUME TypesInv, SessionsInv, NEW query, NEW wanted PROVE Listed(Rows(query, wanted))
  <1> DEFINE row == [ a \in Present |-> AccountRow(a, query) ]
             All == { AccountRow(a, query) : a \in Present }
  <1>1. row \in Surjection(Present, All)
    <2>1. row \in [Present -> All]
      BY Zenon
    <2>2. \A r \in All : \E a \in Present : row[a] = r
      BY Zenon
    <2> HIDE DEF row, All
    <2> QED BY <2>1, <2>2, Zenon DEF Surjection
  <1>2. IsFiniteSet(All)
    <2> HIDE DEF row, All
    <2>1. IsFiniteSet(Present)
      BY DEF TypesInv
    <2> QED BY <1>1, <2>1, FS_Surjection, Zenon
  <1>3. Rows(query, wanted) \subseteq All
    BY DEF Rows
  <1>4. IsFiniteSet(Rows(query, wanted))
    BY <1>2, <1>3, FS_Subset
  <1>5. ASSUME NEW r \in Rows(query, wanted)
        PROVE  \E a \in Present : r = AccountRow(a, query)
    BY <1>3
  <1>6. \A r \in Rows(query, wanted) : Numbered(r)
    BY <1>5, RowNumbered
  <1>7. ASSUME NEW r \in Rows(query, wanted), NEW s \in Rows(query, wanted),
               r.principalId = s.principalId
        PROVE  r = s
    <2>1. PICK a \in Present : r = AccountRow(a, query)
      BY <1>5
    <2>2. PICK b \in Present : s = AccountRow(b, query)
      BY <1>5
    <2>3. a = b
      BY <1>7, <2>1, <2>2, RowNumbered
    <2> QED BY <2>1, <2>2, <2>3
  <1> QED BY <1>4, <1>6, <1>7, Zenon DEF Listed

LEMMA PositionType ==
  ASSUME NEW sort, SortedBy(sort), NEW r, Numbered(r)
  PROVE  Position(r, sort) \in Seq(Int \cup {Null})
  <1>1. Len(sort) \in Nat
    BY DEF SortedBy
  <1>2. \A i \in 1 .. Len(sort) : r[sort[i].field] \in Int \cup {Null}
    BY ColumnNumber
  <1> QED BY <1>1, <1>2 DEF Position

LEMMA QueryOf ==
  ASSUME NEW request \in DOMAIN Parsed
  PROVE  /\ Parsed[request].filter = request.wanted
         /\ SortedBy(Parsed[request].sort)
         /\ Parsed[request].limit \in Nat \ {0}
  BY QueriesAssumption, Zenon DEF SortedBy

-----------------------------------------------------------------------------
(***************************************************************************)
(* A page.                                                                 *)
(***************************************************************************)

(* The first `size` rows of `left` are what the list goes on with.           *)
GoesOn(left, size, query, start) ==
  \A i \in 1 .. size : left[i] = Answer(query)[start + i]

(* The accounts a page is cut from are the list from where the pages before   *)
(* it ended.                                                               *)
LEMMA PageStarts ==
  ASSUME TypesInv, SessionsInv, ListingInv, NEW actor, NEW request \in DOMAIN Parsed,
         NEW query, query = Parsed[request], NEW resume \in BOOLEAN,
         resume => held.kind = "listing" /\ Resumes(held.cursor, actor, request),
         NEW left,
         left = Remaining(query, resume, IF resume THEN held.cursor.position ELSE << >>),
         NEW size, size = Cardinality(Rows(query, query.filter))
  PROVE  \E start \in 0 .. size :
           /\ Len(left) = size - start
           /\ GoesOn(left, Len(left), query, start)
           /\ (IF resume THEN held.rows ELSE << >>) = Shown(query, start)
  <1> DEFINE rows == Rows(query, query.filter)
             position == IF resume THEN held.cursor.position ELSE << >>
             rest == { row \in rows : resume => after(row, position, query.sort) }
  <1>1. SortedBy(query.sort)
    BY QueryOf
  <1>2. Listed(rows) /\ size \in Nat
    BY RowsListed, SortedLength
  <1>3. left = Sorted(rest, query.sort) /\ Answer(query) = Sorted(rows, query.sort)
    BY Zenon DEF Remaining, Answer
  <1>4. CASE ~resume
    <2>1. rest = rows
      BY <1>4
    <2>2. left = Answer(query)
      BY <1>3, <2>1
    <2>3. Len(left) = size
      BY <1>2, <1>3, <2>1, SortedLength
    <2>4. Shown(query, 0) = << >>
      BY DEF Shown
    <2>5. Len(left) = size - 0 /\ GoesOn(left, Len(left), query, 0)
      BY <1>2, <2>2, <2>3 DEF GoesOn
    <2>6. (IF resume THEN held.rows ELSE << >>) = Shown(query, 0)
      BY <1>4, <2>4
    <2>7. 0 \in 0 .. size
      BY <1>2
    <2> QED BY <2>5, <2>6, <2>7
  <1>5. CASE resume
    <2>1. /\ held.kind = "listing" /\ held.cursor # Null /\ now < held.cursor.expires
          /\ held.cursor.binding = Binding(actor, request)
      BY <1>5 DEF Resumes
    <2>2. /\ held.cursor.binding.request = request
          /\ held.cursor.binding.generation = generation
      BY <2>1 DEF Binding
    <2>3. held.request = request
      BY <2>1, <2>2, Zenon DEF ListingInv
    <2>4. PICK n \in 1 .. size :
            /\ held.rows = Shown(query, n)
            /\ held.cursor.position = Position(Answer(query)[n], query.sort)
      BY <2>1, <2>2, <2>3, Zenon DEF ListingInv
    <2>5. PICK last : last = Answer(query)[n]
      OBVIOUS
    <2>6. last \in rows /\ last = Sorted(rows, query.sort)[n]
      BY <1>1, <1>2, <1>3, <2>5, SortedAt
    <2>7. Numbered(last) /\ \A r \in rows : Numbered(r)
      BY <1>2, <2>6 DEF Listed
    <2>8. position = Position(last, query.sort)
      BY <1>5, <2>4, <2>5
    <2>9. \A r \in rows : after(r, position, query.sort) <=> Before(last, r, query.sort)
      BY <1>1, <2>7, <2>8, AfterIsBefore
    <2>10. PICK tail : tail = { r \in rows : Before(last, r, query.sort) }
      OBVIOUS
    <2>11. rest = tail
      BY <1>5, <2>9, <2>10
    <2> HIDE DEF rows, rest, position
    <2>12. /\ Listed(tail) /\ Cardinality(tail) = size - n
           /\ \A i \in 1 .. Cardinality(tail) :
                Sorted(tail, query.sort)[i] = Sorted(rows, query.sort)[n + i]
      BY <1>1, <1>2, <2>6, <2>10, SortedRest DEF rows
    <2>13. Len(left) = Cardinality(tail)
      BY <1>3, <2>11, <2>12, SortedLength
    <2>14. n \in 0 .. size
      BY <1>2
    <2>15. GoesOn(left, Len(left), query, n)
      BY <1>3, <2>11, <2>12, <2>13 DEF GoesOn
    <2> QED BY <1>5, <2>4, <2>12, <2>13, <2>14, <2>15
  <1> QED BY <1>4, <1>5

(* Another page is the next accounts of the list.                           *)
LEMMA ShownNext ==
  ASSUME NEW query, NEW start \in Nat, NEW size \in Nat, NEW left,
         GoesOn(left, size, query, start)
  PROVE  Shown(query, start) \o [ i \in 1 .. size |-> left[i].principalId ]
           = Shown(query, start + size)
  <1> DEFINE a == Shown(query, start)
             b == [ i \in 1 .. size |-> left[i].principalId ]
             c == Shown(query, start + size)
             Ids == { Answer(query)[i].principalId : i \in 1 .. start + size }
  <1>1. /\ Len(a) = start /\ DOMAIN a = 1 .. start
        /\ \A i \in 1 .. start : a[i] = Answer(query)[i].principalId
    BY DEF Shown
  <1>2. /\ Len(b) = size
        /\ \A i \in 1 .. size : b[i] = Answer(query)[start + i].principalId
    BY DEF GoesOn
  <1>3. /\ c = [ i \in 1 .. start + size |-> Answer(query)[i].principalId ]
    BY DEF Shown
  <1>4. /\ a \o b \in Seq(Ids) /\ Len(a \o b) = Len(a) + Len(b)
        /\ \A i \in 1 .. Len(a) + Len(b) :
             (a \o b)[i] = IF i <= Len(a) THEN a[i] ELSE b[i - Len(a)]
        /\ c \in Seq(Ids)
    <2>1. a \in Seq(Ids)
      <3>1. \A i \in 1 .. start : i \in 1 .. start + size
        OBVIOUS
      <3>2. \A i \in 1 .. start : a[i] \in Ids
        BY <1>1, <3>1
      <3> HIDE DEF Ids
      <3> QED BY <1>1, <3>2 DEF Shown
    <2>2. b \in Seq(Ids)
      <3>1. \A i \in 1 .. size : start + i \in 1 .. start + size
        OBVIOUS
      <3>2. \A i \in 1 .. size : b[i] \in Ids
        BY <1>2, <3>1
      <3> HIDE DEF Ids
      <3> QED BY <3>2
    <2>3. c \in Seq(Ids)
      <3>1. \A i \in 1 .. start + size : c[i] \in Ids
        BY <1>3
      <3> HIDE DEF Ids
      <3> QED BY <1>3, <3>1
    <2> HIDE DEF a, b, c, Ids
    <2> QED BY <2>1, <2>2, <2>3, ConcatProperties
  <1>5. ASSUME NEW i \in 1 .. start + size
        PROVE  (IF i <= Len(a) THEN a[i] ELSE b[i - Len(a)]) = Answer(query)[i].principalId
    <2>1. CASE i <= start
      BY <1>1, <2>1
    <2>2. CASE ~(i <= start)
      <3>1. PICK k \in 1 .. size : k = i - start
        BY <2>2
      <3>2. b[k] = Answer(query)[start + k].principalId
        BY <1>2
      <3>3. start + k = i
        BY <3>1
      <3> HIDE DEF a, b
      <3> QED BY <1>1, <2>2, <3>1, <3>2, <3>3
    <2> QED BY <2>1, <2>2
  <1> HIDE DEF a, b, c, Ids
  <1>6. a \o b = c
    <2>1. Len(a \o b) = start + size /\ Len(c) = start + size
      BY <1>1, <1>2, <1>3, <1>4
    <2>2. \A i \in 1 .. start + size : (a \o b)[i] = c[i]
      BY <1>1, <1>2, <1>3, <1>4, <1>5
    <2> QED BY <1>4, <2>1, <2>2, SeqEqual
  <1> QED BY <1>6 DEF a, b, c

(* A cursor is bound to numbers and to a request, and is not Null.           *)
LEMMA CursorType ==
  ASSUME TypesInv, SessionsInv, NEW actor \in 1 .. Len(sessions), NEW request \in DOMAIN Parsed,
         NEW query, query = Parsed[request], NEW until \in Nat,
         NEW n \in 1 .. Cardinality(Rows(query, query.filter))
  PROVE  [ binding |-> Binding(actor, request), expires |-> until,
           position |-> Position(Answer(query)[n], query.sort) ] \in Cursor
  <1>1. SortedBy(query.sort) /\ Listed(Rows(query, query.filter))
    BY QueryOf, RowsListed
  <1>2. PICK row : row = Answer(query)[n]
    OBVIOUS
  <1>3. row \in Rows(query, query.filter)
    BY <1>1, <1>2, SortedAt DEF Answer
  <1>4. Position(row, query.sort) \in Seq(Int \cup {Null})
    BY <1>1, <1>3, PositionType DEF Listed
  <1>5. actor \in Nat /\ generation \in Nat
    BY SessionCount DEF TypesInv
  <1>6. Binding(actor, request) \in [ session : Nat, generation : Nat, request : DOMAIN Parsed ]
    BY <1>5, Zenon DEF Binding
  <1> QED BY <1>2, <1>4, <1>6, Zenon DEF Cursor

(* What a client holds after a page: the first n accounts of the list, and a  *)
(* cursor at the last of them unless they are all.                          *)
HeldPage(actor, request, query, n, until) ==
  /\ held'.kind = "listing" /\ held'.request = request
  /\ held'.rows = Shown(query, n)
  /\ \/ held'.cursor = Null /\ n = Cardinality(Rows(query, query.filter))
     \/ /\ n \in 1 .. Cardinality(Rows(query, query.filter)) - 1
        /\ held'.cursor \in Cursor
        /\ held'.cursor = [ binding |-> Binding(actor, request), expires |-> until,
                            position |-> Position(Answer(query)[n], query.sort) ]

LEMMA PageArrives ==
  ASSUME TypesInv, SessionsInv, ListingInv, NEW actor \in 1 .. Len(sessions),
         NEW request \in DOMAIN Parsed, NEW query, query = Parsed[request],
         NEW resume \in BOOLEAN, NEW last \in now .. MaxClock,
         list_accounts(actor, request, resume, last)
  PROVE  \E until \in Nat, n \in 0 .. Cardinality(Rows(query, query.filter)) :
           /\ HeldPage(actor, request, query, n, until)
           /\ Still /\ now' < until /\ QuietFor(query, until)
  <1>1. PICK left, until :
          /\ left = Remaining(query, resume, IF resume THEN held.cursor.position ELSE << >>)
          /\ until = valid_until(needs_profiles(query), needs_departments(query), Expiry(actor))
          /\ held' = [ kind |-> "listing", request |-> request,
                       rows |-> (IF resume THEN held.rows ELSE << >>)
                                  \o [ i \in 1 .. LeastOf(query.limit, Len(left)) |->
                                         left[i].principalId ],
                       cursor |-> IF Len(left) <= query.limit THEN Null
                                  ELSE [ binding |-> Binding(actor, request), expires |-> until,
                                         position |->
                                           Position(left[LeastOf(query.limit, Len(left))],
                                                    query.sort) ] ]
          /\ Ends(last, until)
          /\ resume => held.kind = "listing" /\ Resumes(held.cursor, actor, request)
    BY Zenon DEF list_accounts
  <1>2. until \in Nat /\ QuietFor(query, until)
    <2>1. Expiry(actor) \in Nat
      BY ExpiryType
    <2>2. needs_profiles(query) \in BOOLEAN /\ needs_departments(query) \in BOOLEAN
      BY DEF needs_profiles, needs_departments
    <2> QED BY <1>1, <2>1, <2>2, WindowIsQuiet DEF QuietFor
  <1>3. Still /\ now' < until
    BY <1>1, EndsStill
  <1>4. PICK total : total = Cardinality(Rows(query, query.filter))
    OBVIOUS
  <1>5. total \in Nat
    BY <1>4, RowsListed, SortedLength
  <1>6. PICK start \in 0 .. total :
          /\ Len(left) = total - start
          /\ GoesOn(left, Len(left), query, start)
          /\ (IF resume THEN held.rows ELSE << >>) = Shown(query, start)
    <2>1. resume => held.kind = "listing" /\ Resumes(held.cursor, actor, request)
      BY <1>1
    <2>2. left = Remaining(query, resume, IF resume THEN held.cursor.position ELSE << >>)
      BY <1>1
    <2> QED BY <1>4, <2>1, <2>2, PageStarts
  <1>7. query.limit \in Nat \ {0}
    BY QueryOf
  <1>8. PICK size : size = LeastOf(query.limit, Len(left))
    OBVIOUS
  <1>9. /\ size \in Nat /\ size <= Len(left) /\ start + size \in 0 .. total
        /\ Len(left) <= query.limit => start + size = total
        /\ ~(Len(left) <= query.limit) =>
             size \in 1 .. Len(left) /\ start + size \in 1 .. total - 1
    BY <1>5, <1>6, <1>7, <1>8 DEF LeastOf
  <1>10. held'.rows = Shown(query, start + size)
    <2>1. GoesOn(left, size, query, start)
      BY <1>5, <1>6, <1>9 DEF GoesOn
    <2>2. start \in Nat /\ size \in Nat
      BY <1>5, <1>6, <1>9
    <2>3. Shown(query, start) \o [ i \in 1 .. size |-> left[i].principalId ]
            = Shown(query, start + size)
      BY <2>1, <2>2, ShownNext
    <2>4. held'.rows = Shown(query, start) \o [ i \in 1 .. size |-> left[i].principalId ]
      BY <1>1, <1>6, <1>8
    <2> QED BY <2>3, <2>4, Zenon
  <1>11. held'.kind = "listing" /\ held'.request = request
    BY <1>1
  <1>12. \/ held'.cursor = Null /\ start + size = total
         \/ /\ start + size \in 1 .. total - 1
            /\ held'.cursor \in Cursor
            /\ held'.cursor = [ binding |-> Binding(actor, request), expires |-> until,
                                position |-> Position(Answer(query)[start + size], query.sort) ]
    <2>1. CASE Len(left) <= query.limit
      BY <1>1, <1>9, <2>1
    <2>2. CASE ~(Len(left) <= query.limit)
      <3>1. left[size] = Answer(query)[start + size]
        BY <1>6, <1>9, <2>2 DEF GoesOn
      <3>2. held'.cursor = [ binding |-> Binding(actor, request), expires |-> until,
                             position |-> Position(left[size], query.sort) ]
        BY <1>1, <1>8, <2>2
      <3>3. PICK n \in 1 .. total : n = start + size
        BY <1>5, <1>9, <2>2
      <3>4. held'.cursor \in Cursor
        BY <1>2, <1>4, <3>1, <3>2, <3>3, CursorType
      <3> QED BY <1>9, <2>2, <3>1, <3>2, <3>4
    <2> QED BY <2>1, <2>2
  <1>13. PICK n : n = start + size
    OBVIOUS
  <1>14. HeldPage(actor, request, query, n, until)
    BY <1>4, <1>10, <1>11, <1>12, <1>13, Zenon DEF HeldPage
  <1> QED BY <1>2, <1>3, <1>4, <1>9, <1>13, <1>14

(* A page leaves the client with a beginning of the list, and a cursor at its *)
(* last row.                                                               *)
LEMMA PageKeepsListing ==
  ASSUME TypesInv, SessionsInv, ListingInv, NEW actor \in 1 .. Len(sessions),
         NEW request \in DOMAIN Parsed, NEW resume \in BOOLEAN, NEW last \in now .. MaxClock,
         list_accounts(actor, request, resume, last)
  PROVE  ListingInv'
  <1>1. PICK query : query = Parsed[request]
    OBVIOUS
  <1>2. PICK until \in Nat, n \in 0 .. Cardinality(Rows(query, query.filter)) :
          /\ HeldPage(actor, request, query, n, until)
          /\ Still /\ now' < until /\ QuietFor(query, until)
    BY <1>1, PageArrives
  <1>3. held'.kind = "listing" /\ held'.request = request /\ held'.rows = Shown(query, n)
    BY <1>2 DEF HeldPage
  <1>4. /\ Rows(query, query.filter)' = Rows(query, query.filter)
        /\ Answer(query)' = Answer(query)
        /\ QuietFor(query, until)'
    BY <1>2, StillCarries, AnswerStays
  <1>5. PICK g : g = generation
    OBVIOUS
  <1>6. g \in Nat /\ generation' = g
    BY <1>2, <1>5 DEF Still, TypesInv
  <1>7. CASE held'.cursor = Null
    BY <1>7 DEF ListingInv
  <1>8. CASE held'.cursor # Null
    <2>1. PICK row : row = Answer(query)[n]
      OBVIOUS
    <2>2. PICK position : position = Position(row, query.sort)
      OBVIOUS
    <2>3. PICK binding : binding = [ session |-> actor, generation |-> g, request |-> request ]
      OBVIOUS
    <2>4. PICK total : total = Cardinality(Rows(query, query.filter))
      OBVIOUS
    <2>5. /\ n \in 1 .. total - 1
          /\ held'.cursor = [ binding |-> binding, expires |-> until, position |-> position ]
      BY <1>2, <1>5, <1>8, <2>1, <2>2, <2>3, <2>4 DEF HeldPage, Binding
    <2>6. n \in 1 .. total /\ total \in Nat
      BY <2>4, <2>5, RowsListed, SortedLength
    <2>7. held'.cursor \in Cursor
      BY <1>2, <1>8 DEF HeldPage
    <2>8. /\ held'.cursor.binding.request = request
           /\ held'.cursor.binding.generation = g
           /\ held'.cursor.expires = until
           /\ held'.cursor.position = position
      BY <2>3, <2>5
    <2>9. g <= generation'
      BY <1>6
    <2>10. Shown(query, n)' = Shown(query, n)
      BY <1>4, Zenon DEF Shown
    <2>11. Cardinality(Rows(query, query.filter))' = total
      BY <1>4, <2>4
    <2>12. Position(Answer(query)[n], query.sort)' = position
      BY <1>4, <2>1, <2>2, Zenon DEF Position
    <2>13. ASSUME held'.cursor.binding.generation = generation', now' < held'.cursor.expires
           PROVE  /\ needs_profiles(query) => Quiet(ProfileBoundaries, until)'
                  /\ needs_departments(query) => Quiet(DepartmentBoundaries, until)'
                  /\ held'.rows = Shown(query, n)'
                  /\ position = Position(Answer(query)[n], query.sort)'
      BY <1>3, <1>4, <2>10, <2>12, Zenon DEF QuietFor
    <2> QED BY <1>1, <1>3, <2>6, <2>7, <2>8, <2>9, <2>11, <2>13, Zenon DEF ListingInv
  <1> QED BY <1>7, <1>8

(* The pages together are how the list begins.                              *)
LEMMA PageIsPrefix ==
  ASSUME TypesInv, SessionsInv, ListingInv, NEW actor \in 1 .. Len(sessions),
         NEW request \in DOMAIN Parsed, NEW resume \in BOOLEAN, NEW last \in now .. MaxClock,
         list_accounts(actor, request, resume, last)
  PROVE  HeldIsThePrefix'
  <1>1. PICK query : query = Parsed[request]
    OBVIOUS
  <1>2. PICK until \in Nat, n \in 0 .. Cardinality(Rows(query, query.filter)) :
          /\ HeldPage(actor, request, query, n, until)
          /\ Still /\ now' < until /\ QuietFor(query, until)
    BY <1>1, PageArrives
  <1>3. held'.request = request /\ held'.rows = Shown(query, n)
    BY <1>2 DEF HeldPage
  <1>4. Rows(query, query.filter)' = Rows(query, query.filter)
    BY <1>2, StillCarries, AnswerStays
  <1>5. PICK rows : rows = Rows(query, query.filter)
    OBVIOUS
  <1>6. PICK whole : whole = Sorted(rows, query.sort)
    OBVIOUS
  <1>7. PICK total : total = Cardinality(rows)
    OBVIOUS
  <1>8. total \in Nat /\ Len(whole) = total /\ n \in 0 .. total
    BY <1>2, <1>5, <1>6, <1>7, RowsListed, SortedLength
  <1>9. PICK shown : shown = Shown(query, n)
    OBVIOUS
  <1>10. /\ Len(shown) = n
         /\ \A i \in 1 .. n : shown[i] = whole[i].principalId
    BY <1>5, <1>6, <1>8, <1>9 DEF Shown, Answer
  <1>11. held'.cursor = Null <=> n = total
    <2>1. CASE held'.cursor = Null
      BY <1>2, <1>5, <1>7, <1>8, <2>1, CursorAssumption DEF HeldPage
    <2>2. CASE held'.cursor # Null
      BY <1>2, <1>5, <1>7, <1>8, <2>2 DEF HeldPage
    <2> QED BY <2>1, <2>2
  <1>12. query.filter = request.wanted
    BY <1>1, QueryOf
  <1>13. Rows(query, request.wanted)' = rows
    BY <1>4, <1>5, <1>12
  <1>14. /\ Len(shown) <= Len(whole)
         /\ \A i \in 1 .. Len(shown) : shown[i] = whole[i].principalId
         /\ held'.cursor = Null <=> Len(shown) = Len(whole)
    BY <1>8, <1>10, <1>11
  <1> QED BY <1>1, <1>3, <1>6, <1>9, <1>13, <1>14, Zenon DEF HeldIsThePrefix

(* A cursor stays good while only the clock and idle expiries move.          *)
LEMMA ListingStays ==
  ASSUME TypesInv, ListingInv, Carried, UNCHANGED held PROVE ListingInv'
  <1> SUFFICES ASSUME held.kind = "listing", held.cursor # Null PROVE ListingInv'
    BY DEF ListingInv
  <1>1. PICK cursor : cursor = held.cursor
    OBVIOUS
  <1>2. PICK request : request = held.request
    OBVIOUS
  <1>3. PICK query : query = Parsed[request]
    OBVIOUS
  <1>4. PICK until : until = cursor.expires
    OBVIOUS
  <1>5. /\ request \in DOMAIN Parsed /\ cursor \in Cursor
        /\ cursor.binding.request = request
        /\ cursor.binding.generation <= generation
    BY <1>1, <1>2, Zenon DEF ListingInv
  <1>6. until \in Nat /\ generation' = generation
    BY <1>4, <1>5 DEF Cursor, Carried
  <1>7. ASSUME cursor.binding.generation = generation, now' < until
        PROVE  /\ QuietFor(query, until)'
               /\ \E n \in 1 .. Cardinality(Rows(query, query.filter)') :
                    /\ held.rows = Shown(query, n)'
                    /\ cursor.position = Position(Answer(query)[n], query.sort)'
    <2>1. now < until
      BY <1>6, <1>7, ClockType DEF Carried
    <2>2. QuietFor(query, until)
      BY <1>1, <1>2, <1>3, <1>4, <1>7, <2>1, Zenon DEF ListingInv, QuietFor
    <2>3. PICK n \in 1 .. Cardinality(Rows(query, query.filter)) :
            /\ held.rows = Shown(query, n)
            /\ cursor.position = Position(Answer(query)[n], query.sort)
      BY <1>1, <1>2, <1>3, <1>4, <1>7, <2>1, Zenon DEF ListingInv
    <2>4. /\ Rows(query, query.filter)' = Rows(query, query.filter)
          /\ Answer(query)' = Answer(query)
          /\ QuietFor(query, until)'
      BY <1>6, <1>7, <2>2, AnswerStays
    <2>5. Shown(query, n)' = Shown(query, n)
      BY <2>4, Zenon DEF Shown
    <2>6. Position(Answer(query)[n], query.sort)' = Position(Answer(query)[n], query.sort)
      BY <2>4, Zenon DEF Position
    <2> QED BY <2>3, <2>4, <2>5, <2>6
  <1>8. held' = held
    OBVIOUS
  <1> QED BY <1>1, <1>2, <1>3, <1>4, <1>5, <1>6, <1>7, <1>8, Zenon DEF ListingInv, QuietFor

LEMMA WritesEndCursors == ASSUME TypesInv, ListingInv, Written PROVE ListingInv'
  <1> SUFFICES ASSUME held.kind = "listing", held.cursor # Null PROVE ListingInv'
    BY DEF ListingInv, Written
  <1>1. PICK g : g = held.cursor.binding.generation
    OBVIOUS
  <1>2. /\ held.request \in DOMAIN Parsed /\ held.cursor \in Cursor
        /\ held.cursor.binding.request = held.request
        /\ g <= generation
    BY <1>1, Zenon DEF ListingInv
  <1>3. g \in Nat
    BY <1>1, <1>2 DEF Cursor
  <1>4. held' = held /\ generation' = generation + 1 /\ generation \in Nat
    BY DEF Written, TypesInv
  <1>5. g <= generation' /\ g # generation'
    BY <1>2, <1>3, <1>4
  <1> QED BY <1>1, <1>2, <1>4, <1>5, Zenon DEF ListingInv

LEMMA StepListing ==
  ASSUME TypesInv, SessionsInv, ListingInv, [Next]_vars PROVE ListingInv'
  <1>1. ASSUME NEW actor \in 1 .. Len(sessions), NEW permission \in Permissions,
               NEW last \in now .. MaxClock, with_personnel_read(actor, permission, last)
        PROVE  ListingInv'
    <2>1. held'.kind = "personnel"
      BY <1>1 DEF with_personnel_read
    <2> QED BY <2>1 DEF ListingInv
  <1>2. ASSUME NEW last \in now .. MaxClock, with_session_references_read(last)
        PROVE  ListingInv'
    <2>1. held'.kind = "references"
      BY <1>2 DEF with_session_references_read
    <2> QED BY <2>1 DEF ListingInv
  <1>3. ASSUME NEW s \in 1 .. Len(sessions), recheck_session_reference(s)
        PROVE  ListingInv'
    <2>1. held'.kind = "facts"
      BY <1>3 DEF recheck_session_reference
    <2> QED BY <2>1 DEF ListingInv
  <1>4. ASSUME NEW s \in 1 .. Len(sessions), Touched(s) PROVE ListingInv'
    BY <1>4, TouchedCarries, ListingStays DEF Touched
  <1>5. ASSUME Still, UNCHANGED held PROVE ListingInv'
    BY <1>5, StillCarries, ListingStays
  <1> QED BY <1>1, <1>2, <1>3, <1>4, <1>5, WritesEndCursors, PageKeepsListing, Steps

-----------------------------------------------------------------------------
(***************************************************************************)
(* The facts a host keeps of a session.                                    *)
(***************************************************************************)
LEMMA ProjectionKept ==
  ASSUME NEW fact \in Fact, NEW at \in Nat, project(fact, at).status = "available"
  PROVE  project(fact, at) = fact /\ fact.observed_at <= at /\ fact.observed_at \in Nat
  <1>1. fact.status = "available"
    BY Zenon DEF project
  <1>2. fact.observed_at \in Nat /\ fact.expires_at \in Nat
    BY <1>1, FactNumbers
  <1>3. ~(at < fact.observed_at)
    BY <1>1 DEF project, Unavailable
  <1>4. project(fact, at) = fact
    BY <1>1, <1>3 DEF project, Unavailable
  <1> QED BY <1>2, <1>3, <1>4

LEMMA RecheckKeeps ==
  ASSUME TypesInv, NEW s \in 1 .. Len(sessions), recheck_session_reference(s)
  PROVE  FactsInv'
  <1>1. PICK groups, department :
          groups = sessions[s].facts.groups /\ department = sessions[s].facts.department
    OBVIOUS
  <1>2. groups \in Fact /\ department \in Fact
    BY <1>1, SessionAt
  <1>3. PICK g, d : g = project(groups, now) /\ d = project(department, now)
    OBVIOUS
  <1>4. /\ held' = [ kind |-> "facts", session |-> s, proof |-> Expiry(s), groups |-> g,
                     department |-> d ]
        /\ now' = now /\ sessions' = sessions
    BY <1>1, <1>3, Zenon DEF recheck_session_reference
  <1>5. held'.session = s /\ held'.groups = g /\ held'.department = d
    BY <1>4
  <1>6. /\ g.status = "available" => g = groups /\ groups.observed_at <= now
        /\ d.status = "available" => d = department /\ department.observed_at <= now
    BY <1>2, <1>3, ClockType, ProjectionKept
  <1>7. Kept(g, groups)' /\ Kept(d, department)'
    BY <1>4, <1>6 DEF Kept
  <1> QED BY <1>1, <1>4, <1>5, <1>7, Zenon DEF FactsInv

(* A session's facts never change, and what is past stays past.              *)
LEMMA FactsStay ==
  ASSUME TypesInv, FactsInv, UNCHANGED held, now' \in Nat, now <= now',
         NEW m \in Nat, m = Len(sessions'), Len(sessions) <= m,
         \A s \in 1 .. Len(sessions) : sessions'[s].facts = sessions[s].facts
  PROVE  FactsInv'
  <1> SUFFICES ASSUME held.kind = "facts" PROVE FactsInv'
    BY DEF FactsInv
  <1>1. PICK s : s = held.session
    OBVIOUS
  <1>2. s \in 1 .. Len(sessions)
    BY <1>1 DEF FactsInv
  <1>3. s \in 1 .. Len(sessions')
    BY <1>2, SessionCount
  <1>4. PICK groups, department :
          groups = sessions[s].facts.groups /\ department = sessions[s].facts.department
    OBVIOUS
  <1>5. groups \in Fact /\ department \in Fact
    BY <1>2, <1>4, SessionAt
  <1>6. PICK g, d : g = held.groups /\ d = held.department
    OBVIOUS
  <1>7. Kept(g, groups) /\ Kept(d, department)
    BY <1>1, <1>4, <1>6 DEF FactsInv
  <1>8. Kept(g, groups)' /\ Kept(d, department)'
    BY <1>5, <1>7, FactNumbers, ClockType DEF Kept
  <1>9. sessions'[s].facts = sessions[s].facts
    BY <1>2
  <1> QED BY <1>1, <1>3, <1>4, <1>6, <1>8, <1>9, Zenon DEF FactsInv

LEMMA StepFacts ==
  ASSUME TypesInv, FactsInv, [Next]_vars PROVE FactsInv'
  <1>1. ASSUME NEW actor \in 1 .. Len(sessions), NEW request \in DOMAIN Parsed,
               NEW resume \in BOOLEAN, NEW last \in now .. MaxClock,
               list_accounts(actor, request, resume, last)
        PROVE  FactsInv'
    <2>1. held'.kind = "listing"
      BY <1>1 DEF list_accounts
    <2> QED BY <2>1 DEF FactsInv
  <1>2. ASSUME NEW actor \in 1 .. Len(sessions), NEW permission \in Permissions,
               NEW last \in now .. MaxClock, with_personnel_read(actor, permission, last)
        PROVE  FactsInv'
    <2>1. held'.kind = "personnel"
      BY <1>2 DEF with_personnel_read
    <2> QED BY <2>1 DEF FactsInv
  <1>3. ASSUME NEW last \in now .. MaxClock, with_session_references_read(last)
        PROVE  FactsInv'
    <2>1. held'.kind = "references"
      BY <1>3 DEF with_session_references_read
    <2> QED BY <2>1 DEF FactsInv
  <1>4. ASSUME Carried, UNCHANGED held PROVE FactsInv'
    BY <1>4, SessionCount, FactsStay DEF Carried
  <1>5. ASSUME NEW s \in 1 .. Len(sessions), Touched(s) PROVE FactsInv'
    BY <1>4, <1>5, TouchedCarries DEF Touched
  <1>6. ASSUME Still, UNCHANGED held PROVE FactsInv'
    BY <1>4, <1>6, StillCarries
  <1>7. ASSUME Written PROVE FactsInv'
    <2>1. UNCHANGED held /\ now' \in Nat /\ now <= now'
      BY <1>7, ClockType DEF Written
    <2>2. /\ Len(sessions') \in Nat /\ Len(sessions) <= Len(sessions')
          /\ \A s \in 1 .. Len(sessions) : sessions'[s].facts = sessions[s].facts
      BY <1>7 DEF Written, SessionsKept
    <2> QED BY <2>1, <2>2, FactsStay
  <1> QED BY <1>1, <1>2, <1>3, <1>5, <1>6, <1>7, RecheckKeeps, Steps

-----------------------------------------------------------------------------
(***************************************************************************)
(* The theorems.                                                           *)
(***************************************************************************)
LEMMA InitInv == Init => DirectoryInv
  <1> SUFFICES ASSUME Init PROVE DirectoryInv
    OBVIOUS
  <1>1. held.kind = "none"
    BY DEF Init, NoRead
  <1>2. PinnedInv /\ ListingInv /\ FactsInv
    BY <1>1 DEF PinnedInv, ListingInv, FactsInv
  <1> QED BY <1>2, InitTypes DEF DirectoryInv

LEMMA StepInv == DirectoryInv /\ [Next]_vars => DirectoryInv'
  BY StepTypes, StepPins, StepListing, StepFacts DEF DirectoryInv

(* Whatever is read, written and waited for: rows stay well formed, no       *)
(* session is from the future, what is pinned by a generation and by          *)
(* valid_until is the relation as it is, a cursor stands at the last row of a *)
(* beginning of the list, and kept facts are the session's.                  *)
THEOREM DirectoryInvariant == Spec => []DirectoryInv
  BY InitInv, StepInv, PTL DEF Spec

(* Until valid_until, a generation that did not advance is a relation that    *)
(* did not change (advance_personnel_revision and read_window together): what *)
(* a host read under the revision it may keep, renewals of sessions included. *)
THEOREM RevisionsPin == Spec => []RevisionsPinTheRelation
  <1>1. DirectoryInv => RevisionsPinTheRelation
    BY DEF DirectoryInv, PinnedInv, RevisionsPinTheRelation
  <1> QED BY <1>1, DirectoryInvariant, PTL

(* The relation of live sessions is the sessions a recheck accepts.          *)
LEMMA ReferencesAreLive ==
  ASSUME TypesInv, SessionsInv PROVE References = { s \in 1 .. Len(sessions) : Live(s) }
  <1>1. ASSUME NEW s \in 1 .. Len(sessions) PROVE s \in References <=> Live(s)
    <2>1. PICK row : row = sessions[s]
      OBVIOUS
    <2>2. PICK l : l = row.lifetime
      OBVIOUS
    <2>3. row.source \in Sources /\ l \in SessionLifetime /\ l.issued_at <= now
      BY <2>1, <2>2, SessionAt DEF SessionsInv
    <2>4. /\ l.issued_at \in Nat /\ l.idle_expires_at \in Nat /\ l.absolute_expires_at \in Nat
          /\ now \in Nat
      BY <2>3, LifetimeNumbers, ClockType
    <2>5. valid_at(l, now) <=> l.idle_expires_at > now /\ l.absolute_expires_at > now
      BY <2>3, <2>4 DEF valid_at
    <2>6. row.source # "local_password" <=> row.source \in {"oidc", "platform"}
      BY <2>3 DEF Sources
    <2>7. s \in References <=>
            /\ accounts[row.principal].enabled /\ accounts[row.principal].member_active
            /\ row.auth_epoch = accounts[row.principal].epoch
            /\ row.membership_epoch = accounts[row.principal].membership_epoch
            /\ ~row.revoked
            /\ l.idle_expires_at > now /\ l.absolute_expires_at > now
            /\ row.source \in {"oidc", "platform"} =>
                 /\ provider.enabled
                 /\ provider.revocation_epoch = row.origin.revocation_epoch
                 /\ provider.version = row.origin.version
      BY <2>1, <2>2, Zenon DEF References
    <2>8. Live(s) <=>
            /\ accounts[row.principal].enabled /\ accounts[row.principal].member_active
            /\ row.auth_epoch = accounts[row.principal].epoch
            /\ row.membership_epoch = accounts[row.principal].membership_epoch
            /\ ~row.revoked
            /\ row.source # "local_password" =>
                 /\ provider.enabled
                 /\ provider.version = row.origin.version
                 /\ provider.revocation_epoch = row.origin.revocation_epoch
            /\ valid_at(l, now)
      BY <2>1, <2>2, Zenon DEF Live, OfThisGeneration, active, ExactProvider
    <2> QED BY <2>5, <2>6, <2>7, <2>8
  <1>2. References \subseteq 1 .. Len(sessions)
    BY DEF References
  <1> QED BY <1>1, <1>2

LEMMA StatusIsProjected ==
  ASSUME NEW fact \in Fact, now \in Nat PROVE FactStatus(fact) = project(fact, now).status
  <1>1. CASE fact.status # "available"
    BY <1>1, Zenon DEF FactStatus, project
  <1>2. CASE fact.status = "available"
    <2>1. fact.observed_at \in Nat /\ fact.expires_at \in Nat
      BY <1>2, FactNumbers
    <2>2. /\ (fact.observed_at > now <=> now < fact.observed_at)
          /\ (fact.expires_at <= now <=> now >= fact.expires_at)
      BY <2>1
    <2>3. /\ Unavailable("not_yet_valid").status = "not_yet_valid"
          /\ Unavailable("expired").status = "expired"
      BY DEF Unavailable
    <2> QED BY <1>2, <2>2, <2>3, Zenon DEF FactStatus, project
  <1> QED BY <1>1, <1>2

(* The directory shows of a department what the account's session shows.     *)
LEMMA DepartmentsAgree ==
  ASSUME TypesInv, NEW a \in Present, NEW s, s = Latest(a), s # 0, Live(s)
  PROVE  DepartmentStatus(a) = project(sessions[s].facts.department, now).status
  <1>1. s \in 1 .. Len(sessions) /\ sessions[s].principal = a /\ sessions[s].source = "oidc"
    BY LatestIs
  <1>2. OfThisGeneration(sessions[s]) /\ ExactProvider(sessions[s].origin)
    BY <1>1 DEF Live
  <1>3. active(accounts[a])
    BY <1>1, <1>2 DEF OfThisGeneration
  <1>4. DepartmentStatus(a) = FactStatus(sessions[s].facts.department)
    BY <1>2, <1>3, Zenon DEF DepartmentStatus
  <1>5. sessions[s].facts.department \in Fact
    BY <1>1, SessionAt
  <1> QED BY <1>4, <1>5, ClockType, StatusIsProjected

LEMMA KeptIsShown ==
  ASSUME TypesInv, NEW kept, NEW fact \in Fact, Kept(kept, fact), values(kept)
  PROVE  project(fact, now) = fact
  <1>1. kept = fact /\ fact.status = "available" /\ fact.observed_at <= now
        /\ now < fact.expires_at
    BY DEF values, Kept
  <1>2. fact.observed_at \in Nat /\ fact.expires_at \in Nat
    BY <1>1, FactNumbers
  <1>3. ~(now < fact.observed_at) /\ ~(now >= fact.expires_at)
    BY <1>1, <1>2, ClockType
  <1> QED BY <1>3, Zenon DEF project

(* identity_session_references and by_id accept the same sessions, the        *)
(* department columns of the directory show what DepartmentFacts would, and   *)
(* facts a host kept are given out only while a recheck would show them.      *)
THEOREM ReadersAgreeAlways == Spec => []ReadersAgree
  <1>1. ASSUME DirectoryInv PROVE ReadersAgree
    <2>1. TypesInv /\ SessionsInv /\ FactsInv
      BY <1>1 DEF DirectoryInv
    <2>2. References = { s \in 1 .. Len(sessions) : Live(s) }
      BY <2>1, ReferencesAreLive
    <2>3. ASSUME NEW a \in Present, NEW s, s = Latest(a), s # 0, Live(s)
          PROVE  DepartmentStatus(a) = project(sessions[s].facts.department, now).status
      BY <2>1, <2>3, DepartmentsAgree
    <2>4. ASSUME held.kind = "facts"
          PROVE  LET facts == sessions[held.session].facts IN
                 /\ values(held.groups) => project(facts.groups, now) = facts.groups
                 /\ values(held.department) => project(facts.department, now) = facts.department
      <3>1. PICK s \in 1 .. Len(sessions) : s = held.session
        BY <2>1, <2>4 DEF FactsInv
      <3>2. PICK groups, department :
              groups = sessions[s].facts.groups /\ department = sessions[s].facts.department
        OBVIOUS
      <3>3. groups \in Fact /\ department \in Fact
        BY <2>1, <3>2, SessionAt
      <3>4. Kept(held.groups, groups) /\ Kept(held.department, department)
        BY <2>1, <2>4, <3>1, <3>2 DEF FactsInv
      <3>5. /\ values(held.groups) => project(groups, now) = groups
            /\ values(held.department) => project(department, now) = department
        BY <2>1, <3>3, <3>4, KeptIsShown
      <3> QED BY <3>1, <3>2, <3>5, Zenon
    <2> QED BY <2>2, <2>3, <2>4, Zenon DEF ReadersAgree
  <1> QED BY <1>1, DirectoryInvariant, PTL

(* The pages of account_directory.rs, whenever one arrives and whatever was   *)
(* written in between, are together how the whole list begins: the condition  *)
(* `after` of a cursor goes on exactly where the last page ended, and a       *)
(* cursor that the list has outrun is refused.                               *)
THEOREM PagesAreOneList == Spec => PagesMakeOneList
  <1>1. ASSUME DirectoryInv, [Next]_vars
        PROVE  [held' # held /\ held'.kind = "listing" => HeldIsThePrefix']_vars
    <2> SUFFICES ASSUME held' # held, held'.kind = "listing" PROVE HeldIsThePrefix'
      OBVIOUS
    <2>1. TypesInv /\ SessionsInv /\ ListingInv
      BY <1>1 DEF DirectoryInv
    <2>2. ASSUME NEW actor \in 1 .. Len(sessions), NEW permission \in Permissions,
                 NEW last \in now .. MaxClock, with_personnel_read(actor, permission, last)
          PROVE  held'.kind = "personnel"
      BY <2>2 DEF with_personnel_read
    <2>3. ASSUME NEW last \in now .. MaxClock, with_session_references_read(last)
          PROVE  held'.kind = "references"
      BY <2>3 DEF with_session_references_read
    <2>4. ASSUME NEW s \in 1 .. Len(sessions), recheck_session_reference(s)
          PROVE  held'.kind = "facts"
      BY <2>4 DEF recheck_session_reference
    <2>5. (\E s \in 1 .. Len(sessions) : Touched(s)) \/ Written => held' = held
      BY DEF Touched, Written
    <2>6. \E actor \in 1 .. Len(sessions), request \in DOMAIN Parsed, resume \in BOOLEAN,
             last \in now .. MaxClock : list_accounts(actor, request, resume, last)
      BY <1>1, <2>1, <2>2, <2>3, <2>4, <2>5, Steps
    <2> QED BY <2>1, <2>6, PageIsPrefix
  <1> QED BY <1>1, DirectoryInvariant, PTL DEF Spec, PagesMakeOneList
=============================================================================
