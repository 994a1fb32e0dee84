--------------------------- MODULE PasswordProofs ---------------------------
(***************************************************************************)
(* Proofs about the two guards of a password verification: the attempts in   *)
(* the database, for every number of logins, sources, scopes and             *)
(* verifications and every limit, and the pool that computes, for any        *)
(* number of calls and permits.                                             *)
(***************************************************************************)
EXTENDS PasswordAttempts, PasswordKdf, SequenceTheorems, FiniteSetTheorems, TLAPS

-----------------------------------------------------------------------------
(***************************************************************************)
(* The attempts (PasswordAttempts).                                        *)
(***************************************************************************)

NoCount == [count |-> 0, left |-> Past]

(* The age of the j-th latest event. *)
Ago(ages, j) == ages[Len(ages) - j + 1]

(* Of events so old, none is younger than the window. *)
LongAgo(ages, j, seconds) == j <= Len(ages) => Ago(ages, j) >= seconds

(* The oldest come first, and ages stop at the window. *)
Aged(ages, most, seconds) ==
  /\ ages \in Seq(0 .. seconds) /\ Len(ages) <= most
  /\ \A i, j \in 1 .. Len(ages) : i <= j => ages[i] >= ages[j]

(* A row of a live window has counted the rejection that opened it, and an    *)
(* exhausted one is nobody's.                                               *)
RowOK(l) ==
  LET row == password[l] IN
  /\ row \in PasswordRow
  /\ row.window >= 0 => row.failures >= 1
  /\ row.failures = FailureLimit => row.token = Nobody

(* What is left of the window says how old the rejection is that opened it;   *)
(* when it opened, all but the latest FailureLimit rejections of before had   *)
(* been longer ago than a window.                                           *)
RejectedOK(l) ==
  LET row == password[l] ages == rejected[l] IN
  /\ Aged(ages, RejectionRun, FailureSeconds)
  /\ row.window <= 0 => LongAgo(ages, FailureLimit, FailureSeconds)
  /\ row.window > 0 => /\ LongAgo(ages, row.failures, FailureSeconds - row.window)
                       /\ LongAgo(ages, FailureLimit + row.failures, FailureSeconds)

KeyOK(k) ==
  LET row == attempts[k] IN
  /\ row \in [count : Nat, left : Past .. Seconds(k)]
  /\ row.count <= Limit(k) + 1
  /\ row.count = 0 \/ row.count > Limit(k) => row.left = Past

AdmittedOK(s) ==
  LET row == attempts[s] ages == admitted[s] IN
  /\ Aged(ages, AdmissionRun, SourceSeconds)
  /\ row.left <= 0 => LongAgo(ages, SourceLimit + 1, SourceSeconds)
  /\ row.left = 0 => LongAgo(ages, SourceLimit, SourceSeconds)
  /\ row.left > 0 => /\ LongAgo(ages, row.count, SourceSeconds - row.left)
                     /\ LongAgo(ages, SourceLimit + 1 + row.count, SourceSeconds)

(* A verification within its lease holds the claim of its login, one that was *)
(* voided holds none, and one that is over has no lease.                    *)
LeaseOK(w) ==
  LET row == password[worker[w].login] IN
  /\ worker[w].lease > 0 /\ ~worker[w].voided => row.token = w /\ row.claim = worker[w].lease
  /\ worker[w].voided => row.token # w
  /\ worker[w].pc = "idle" => worker[w].lease = 0

KeyRows == { k \in Keys : attempts[k].count > 0 }
LoginRows == { l \in Logins : password[l].exists }

CapacityInv ==
  /\ IsFiniteSet(KeyRows) /\ IsFiniteSet(LoginRows)
  /\ Cardinality(KeyRows) + Cardinality(LoginRows) <= MaxRows

TypesInv ==
  /\ accounts \in [Logins -> AccountState]
  /\ DOMAIN attempts = Keys /\ attempts = [k \in Keys |-> attempts[k]]
  /\ password \in [Logins -> PasswordRow]
  /\ worker \in [Workers -> Worker]
  /\ DOMAIN rejected = Logins /\ rejected = [l \in Logins |-> rejected[l]]
  /\ DOMAIN admitted = Sources /\ admitted = [s \in Sources |-> admitted[s]]

AttemptsInv ==
  /\ TypesInv
  /\ \A l \in Logins : RowOK(l) /\ RejectedOK(l)
  /\ \A k \in Keys : KeyOK(k)
  /\ \A s \in Sources : AdmittedOK(s)
  /\ \A w \in Workers : LeaseOK(w)
  /\ CapacityInv

-----------------------------------------------------------------------------
(* Histories of ages. *)
LEMMA MappedSeq ==
  ASSUME NEW S, NEW n \in Nat, NEW f \in [1 .. n -> S]
  PROVE  f \in Seq(S) /\ Len(f) = n
  OBVIOUS

LEMMA NotedAges ==
  ASSUME NEW seconds \in Nat, NEW most \in Nat \ {0}, NEW ages, Aged(ages, most, seconds)
  PROVE  /\ Aged(Noted(ages, most), most, seconds)
         /\ \A j \in Nat \ {0} : j + 1 <= Len(Noted(ages, most)) =>
              j <= Len(ages) /\ Ago(Noted(ages, most), j + 1) = Ago(ages, j)
  <1> DEFINE longer == Append(ages, 0)
             new == Noted(ages, most)
  <1>1. /\ ages \in Seq(0 .. seconds) /\ Len(ages) \in Nat /\ Len(ages) <= most
        /\ \A i, j \in 1 .. Len(ages) : i <= j => ages[i] >= ages[j]
        /\ \A i \in 1 .. Len(ages) : ages[i] \in 0 .. seconds
    BY DEF Aged
  <1>2. 0 \in 0 .. seconds
    OBVIOUS
  <1>3. /\ longer \in Seq(0 .. seconds) /\ Len(longer) = Len(ages) + 1
        /\ longer[Len(ages) + 1] = 0
        /\ \A i \in 1 .. Len(ages) : longer[i] = ages[i]
    BY <1>1, <1>2, AppendProperties
  <1> HIDE DEF longer
  <1>4. \A i, j \in 1 .. Len(longer) : i <= j => longer[i] >= longer[j]
    <2> SUFFICES ASSUME NEW i \in 1 .. Len(longer), NEW j \in 1 .. Len(longer), i <= j
                 PROVE  longer[i] >= longer[j]
      OBVIOUS
    <2>1. CASE j = Len(ages) + 1
      <3>1. longer[i] \in 0 .. seconds
        BY <1>3
      <3> QED BY <1>3, <2>1, <3>1
    <2>2. CASE j # Len(ages) + 1
      <3>1. i \in 1 .. Len(ages) /\ j \in 1 .. Len(ages)
        BY <1>1, <1>3, <2>2
      <3> QED BY <1>1, <1>3, <3>1
    <2> QED BY <2>1, <2>2
  <1>5. CASE Len(longer) <= most
    <2>1. new = longer
      BY <1>1, <1>3, <1>5 DEF Noted, longer
    <2>2. Aged(longer, most, seconds)
      BY <1>3, <1>4, <1>5 DEF Aged
    <2>3. ASSUME NEW j \in Nat \ {0}, j + 1 <= Len(longer)
          PROVE  j <= Len(ages) /\ Ago(longer, j + 1) = Ago(ages, j)
      <3>1. Len(longer) - (j + 1) + 1 = Len(ages) - j + 1 /\ Len(ages) - j + 1 \in 1 .. Len(ages)
        BY <1>1, <1>3, <2>3
      <3>2. j <= Len(ages)
        BY <1>1, <1>3, <2>3
      <3>3. Ago(longer, j + 1) = longer[Len(ages) - j + 1]
        BY <3>1, Zenon DEF Ago
      <3>4. Ago(ages, j) = ages[Len(ages) - j + 1]
        BY Zenon DEF Ago
      <3> QED BY <1>3, <3>1, <3>2, <3>3, <3>4
    <2> QED BY <2>1, <2>2, <2>3
  <1>6. CASE Len(longer) > most
    <2>1. new = Tail(longer) /\ Len(ages) = most /\ longer # << >>
      BY <1>1, <1>3, <1>6 DEF Noted, longer
    <2>2. /\ new \in Seq(0 .. seconds) /\ Len(new) = Len(ages)
          /\ \A i \in 1 .. Len(new) : new[i] = longer[i + 1]
      BY <1>1, <1>3, <2>1, HeadTailProperties
    <2> HIDE DEF new
    <2>3. \A i, j \in 1 .. Len(new) : i <= j => new[i] >= new[j]
      <3> SUFFICES ASSUME NEW i \in 1 .. Len(new), NEW j \in 1 .. Len(new), i <= j
                   PROVE  new[i] >= new[j]
        OBVIOUS
      <3>1. i + 1 \in 1 .. Len(longer) /\ j + 1 \in 1 .. Len(longer) /\ i + 1 <= j + 1
        BY <1>1, <1>3, <2>2
      <3> QED BY <1>4, <2>2, <3>1
    <2>4. ASSUME NEW j \in Nat \ {0}, j + 1 <= Len(new)
          PROVE  j <= Len(ages) /\ Ago(new, j + 1) = Ago(ages, j)
      <3>1. /\ Len(new) - (j + 1) + 1 \in 1 .. Len(new)
            /\ Len(new) - (j + 1) + 1 + 1 = Len(ages) - j + 1
            /\ Len(ages) - j + 1 \in 1 .. Len(ages)
        BY <1>1, <2>2, <2>4
      <3>2. j <= Len(ages)
        BY <1>1, <2>2, <2>4
      <3>3. Ago(new, j + 1) = longer[Len(ages) - j + 1]
        <4>1. Ago(new, j + 1) = new[Len(new) - (j + 1) + 1]
          BY Zenon DEF Ago
        <4>2. PICK i \in 1 .. Len(new) :
                i = Len(new) - (j + 1) + 1 /\ i + 1 = Len(ages) - j + 1
          BY <3>1
        <4>3. new[i] = longer[i + 1]
          BY <2>2
        <4> QED BY <4>1, <4>2, <4>3, Zenon
      <3>4. Ago(ages, j) = ages[Len(ages) - j + 1]
        BY Zenon DEF Ago
      <3> QED BY <1>3, <3>1, <3>2, <3>3, <3>4
    <2> QED BY <2>1, <2>2, <2>3, <2>4 DEF Aged, new
  <1> QED BY <1>1, <1>3, <1>5, <1>6

LEMMA OlderAges ==
  ASSUME NEW seconds \in Nat, NEW most \in Nat, NEW ages, Aged(ages, most, seconds)
  PROVE  /\ Aged(Older(ages, seconds), most, seconds)
         /\ Len(Older(ages, seconds)) = Len(ages)
         /\ \A j \in 1 .. Len(ages) :
              /\ Ago(ages, j) \in 0 .. seconds
              /\ Ago(Older(ages, seconds), j) = LeastOf(Ago(ages, j) + 1, seconds)
  <1> DEFINE new == Older(ages, seconds)
  <1>1. /\ ages \in Seq(0 .. seconds) /\ Len(ages) \in Nat /\ Len(ages) <= most
        /\ DOMAIN ages = 1 .. Len(ages)
        /\ \A i, j \in 1 .. Len(ages) : i <= j => ages[i] >= ages[j]
        /\ \A i \in 1 .. Len(ages) : ages[i] \in 0 .. seconds
    BY DEF Aged
  <1>2. new = [i \in 1 .. Len(ages) |-> LeastOf(ages[i] + 1, seconds)]
    BY <1>1 DEF Older
  <1>3. \A i \in 1 .. Len(ages) : LeastOf(ages[i] + 1, seconds) \in 0 .. seconds
    BY <1>1 DEF LeastOf
  <1> HIDE DEF new
  <1>4. new \in [1 .. Len(ages) -> 0 .. seconds]
    BY <1>2, <1>3
  <1>5. new \in Seq(0 .. seconds) /\ Len(new) = Len(ages)
    BY <1>1, <1>4, MappedSeq
  <1>6. \A i, j \in 1 .. Len(new) : i <= j => new[i] >= new[j]
    BY <1>1, <1>2, <1>5 DEF LeastOf
  <1>7. ASSUME NEW j \in 1 .. Len(ages)
        PROVE  /\ Ago(ages, j) \in 0 .. seconds
               /\ Ago(new, j) = LeastOf(Ago(ages, j) + 1, seconds)
    <2>1. Len(ages) - j + 1 \in 1 .. Len(ages)
      BY <1>1
    <2> QED BY <1>1, <1>2, <1>5, <2>1 DEF Ago
  <1> QED BY <1>1, <1>5, <1>6, <1>7 DEF Aged, new

(* What is long ago stays so for the ones before it, and one event later. *)
LEMMA LongerAgo ==
  ASSUME NEW seconds \in Nat, NEW most \in Nat, NEW ages, Aged(ages, most, seconds),
         NEW j \in Nat \ {0}, NEW k \in Nat, j <= k, NEW x \in Int, LongAgo(ages, j, x)
  PROVE  LongAgo(ages, k, x)
  <1> SUFFICES ASSUME k <= Len(ages) PROVE Ago(ages, k) >= x
    BY DEF LongAgo
  <1>1. Len(ages) \in Nat /\ \A i \in 1 .. Len(ages) : ages[i] \in 0 .. seconds
    BY DEF Aged
  <1>2. /\ Len(ages) - k + 1 \in 1 .. Len(ages) /\ Len(ages) - j + 1 \in 1 .. Len(ages)
        /\ Len(ages) - k + 1 <= Len(ages) - j + 1
    BY <1>1
  <1>3. Ago(ages, k) >= Ago(ages, j)
    BY <1>2 DEF Aged, Ago
  <1>4. Ago(ages, j) >= x
    BY <1>1 DEF LongAgo
  <1>5. Ago(ages, j) \in Int /\ Ago(ages, k) \in Int
    BY <1>1, <1>2 DEF Ago
  <1> QED BY <1>3, <1>4, <1>5

LEMMA NotedAgo ==
  ASSUME NEW seconds \in Nat, NEW most \in Nat \ {0}, NEW ages, Aged(ages, most, seconds),
         NEW j \in Nat \ {0}, NEW x, LongAgo(ages, j, x)
  PROVE  LongAgo(Noted(ages, most), j + 1, x)
  BY NotedAges DEF LongAgo

LEMMA OlderAgo ==
  ASSUME NEW seconds \in Nat, NEW most \in Nat, NEW ages, Aged(ages, most, seconds),
         NEW j \in Nat \ {0}, NEW x \in Int, LongAgo(ages, j, x), NEW y \in Int, y <= x + 1, y <= seconds
  PROVE  LongAgo(Older(ages, seconds), j, y)
  <1> SUFFICES ASSUME j <= Len(ages) PROVE Ago(Older(ages, seconds), j) >= y
    BY OlderAges DEF LongAgo
  <1>1. j \in 1 .. Len(ages)
    BY DEF Aged
  <1> QED BY <1>1, OlderAges DEF LongAgo, LeastOf

-----------------------------------------------------------------------------
(* Rows and their updates. *)
LEMMA Limits ==
  /\ FailureLimit \in Nat \ {0} /\ FailureSeconds \in Nat \ {0} /\ ClaimSeconds \in Nat \ {0}
  /\ SourceLimit \in Nat \ {0} /\ SourceSeconds \in Nat \ {0}
  /\ RejectionRun \in Nat \ {0} /\ AdmissionRun \in Nat \ {0}
  /\ \A k \in Keys : Limit(k) \in Nat \ {0} /\ Seconds(k) \in Nat \ {0}
  /\ \A s \in Sources : s \in Keys /\ Limit(s) = SourceLimit /\ Seconds(s) = SourceSeconds
  /\ Past \in Int /\ Past < 0
  BY AttemptsAssumption DEF RejectionRun, AdmissionRun, Limit, Seconds, Keys, Past

LEMMA FirstReads ==
  ASSUME NEW left \in Int, NEW live \in FirstRead(left)
  PROVE  live \in BOOLEAN /\ (left > 0 => live) /\ (left < 0 => ~live)
  <1>1. CASE left = 0
    BY <1>1 DEF FirstRead
  <1>2. CASE left # 0
    <2>1. live = (left > 0)
      BY <1>2, Zenon DEF FirstRead
    <2>2. CASE left > 0
      <3>1. live = TRUE
        BY <2>1, <2>2, Zenon
      <3> QED BY <2>2, <3>1
    <2>3. CASE ~(left > 0)
      <3>1. ~live
        BY <2>1, <2>3, Zenon
      <3>2. (left > 0) \in BOOLEAN
        OBVIOUS
      <3>3. live \in BOOLEAN
        BY <2>1, <3>2, Zenon
      <3> QED BY <2>3, <3>1, <3>3
    <2> QED BY <2>2, <2>3
  <1> QED BY <1>1, <1>2

LEMMA RowFields ==
  \A r \in PasswordRow :
    /\ r.exists \in BOOLEAN /\ r.failures \in 0 .. FailureLimit
    /\ r.window \in Past .. FailureSeconds /\ r.token \in Workers \cup {Nobody}
    /\ r.claim \in Past .. ClaimSeconds
  BY DEF PasswordRow

LEMMA NoRowType == /\ NoRow \in PasswordRow /\ NoRow.failures = 0 /\ NoRow.window = Past
                   /\ NoRow.token = Nobody /\ NoRow.claim = Past /\ NoRow.exists = FALSE
  <1>1. 0 \in 0 .. FailureLimit /\ Past \in Past .. FailureSeconds /\ Past \in Past .. ClaimSeconds
    BY Limits DEF Past
  <1> QED BY <1>1 DEF NoRow, PasswordRow

LEMMA ClaimedRow ==
  ASSUME NEW row \in PasswordRow, NEW w \in Workers, NEW seconds \in 1 .. ClaimSeconds
  PROVE  LET new == Claimed(row, w, seconds) IN
         /\ new \in PasswordRow /\ new.exists /\ new.token = w /\ new.claim = seconds
         /\ row.window > 0 => new.failures = row.failures /\ new.window = row.window
         /\ row.window <= 0 => new.failures = 0 /\ new.window = Past
  <1>1. /\ row.failures \in 0 .. FailureLimit /\ row.window \in Past .. FailureSeconds
        /\ 0 \in 0 .. FailureLimit /\ Past \in Past .. FailureSeconds
        /\ seconds \in Past .. ClaimSeconds
    BY RowFields, Limits DEF Past
  <1>2. row.window \in Int
    BY <1>1, Limits
  <1> QED BY <1>1, <1>2 DEF Claimed, PasswordRow

LEMMA CountedRow ==
  ASSUME NEW row \in PasswordRow, NEW live \in BOOLEAN, row.failures # FailureLimit
  PROVE  LET new == Counted(row, live) IN
         /\ new \in PasswordRow /\ new.exists = row.exists /\ new.token = Nobody /\ new.claim = Past
         /\ new.failures = IF live THEN row.failures + 1 ELSE 1
         /\ new.window = IF row.window > 0 THEN row.window ELSE FailureSeconds
  <1>1. /\ row.failures \in 0 .. FailureLimit /\ row.window \in Past .. FailureSeconds
    BY RowFields
  <1>2. /\ (IF live THEN row.failures + 1 ELSE 1) \in 0 .. FailureLimit
        /\ (IF row.window > 0 THEN row.window ELSE FailureSeconds) \in Past .. FailureSeconds
        /\ Nobody \in Workers \cup {Nobody} /\ Past \in Past .. ClaimSeconds
    BY <1>1, Limits DEF Past
  <1> QED BY <1>2, Zenon DEF Counted, PasswordRow

Released(row) == [[row EXCEPT !.token = Nobody] EXCEPT !.claim = Past]

LEMMA ReleasedRow ==
  ASSUME NEW row \in PasswordRow
  PROVE  LET new == Released(row) IN
         /\ new \in PasswordRow /\ new.exists = row.exists /\ new.token = Nobody /\ new.claim = Past
         /\ new.failures = row.failures /\ new.window = row.window
  <1>1. Nobody \in Workers \cup {Nobody} /\ Past \in Past .. ClaimSeconds
    BY Limits DEF Past
  <1> QED BY <1>1, Zenon DEF Released, PasswordRow

TickedRow(row) == [row EXCEPT !.window = Less(@), !.claim = Less(@)]

LEMMA RowTicked ==
  ASSUME NEW row \in PasswordRow
  PROVE  LET new == TickedRow(row) IN
         /\ new \in PasswordRow /\ new.exists = row.exists /\ new.token = row.token
         /\ new.failures = row.failures
         /\ new.window = Less(row.window) /\ new.claim = Less(row.claim)
  <1>1. row.window \in Past .. FailureSeconds /\ row.claim \in Past .. ClaimSeconds
    BY RowFields
  <1>2. Less(row.window) \in Past .. FailureSeconds /\ Less(row.claim) \in Past .. ClaimSeconds
    BY <1>1, Limits DEF Less, Past
  <1> QED BY <1>2, Zenon DEF TickedRow, PasswordRow

-----------------------------------------------------------------------------
(* What a step may do to the row of a login and to its history. *)
Start(l, old) == old = password[l] \/ (Unused(l, 1) /\ old = NoRow)

Cleans(l) == Start(l, password'[l]) /\ rejected'[l] = rejected[l]

Clears(l) == password'[l] = NoRow /\ rejected'[l] = << >>

Grants(l) ==
  /\ \E old : /\ Start(l, old) /\ ~Exhausted(old) /\ ~Busy(old)
              /\ \E w \in Workers, seconds \in 1 .. ClaimSeconds :
                   password'[l] = Claimed(old, w, seconds)
  /\ rejected'[l] = rejected[l]

Counts(l) ==
  /\ password[l].token \in Workers
  /\ \E live \in FirstRead(password[l].window) : password'[l] = Counted(password[l], live)
  /\ rejected'[l] = Noted(rejected[l], RejectionRun)

Releases(l) == password'[l] = Released(password[l]) /\ rejected'[l] = rejected[l]

Ages(l) ==
  password'[l] = TickedRow(password[l]) /\ rejected'[l] = Older(rejected[l], FailureSeconds)

RowMoves(l) ==
  Cleans(l) \/ Clears(l) \/ Grants(l) \/ Counts(l) \/ Releases(l) \/ Ages(l)

LEMMA RowMoved ==
  ASSUME NEW l \in Logins, RowOK(l), RejectedOK(l), RowMoves(l)
  PROVE  RowOK(l)' /\ RejectedOK(l)'
  <1> DEFINE row == password[l]
             ages == rejected[l]
  <1>1. /\ row \in PasswordRow
        /\ row.window >= 0 => row.failures >= 1
        /\ row.failures = FailureLimit => row.token = Nobody
        /\ row.window \in Int /\ row.window >= Past /\ row.window <= FailureSeconds
        /\ row.failures \in 0 .. FailureLimit /\ row.failures \in Nat
    BY RowFields, Limits DEF RowOK, Past
  <1>2. /\ Aged(ages, RejectionRun, FailureSeconds)
        /\ row.window <= 0 => LongAgo(ages, FailureLimit, FailureSeconds)
        /\ row.window > 0 => /\ LongAgo(ages, row.failures, FailureSeconds - row.window)
                             /\ LongAgo(ages, FailureLimit + row.failures, FailureSeconds)
    BY DEF RejectedOK
  <1>3. ASSUME NEW old, Start(l, old)
        PROVE  /\ old \in PasswordRow
               /\ old.window >= 0 => old.failures >= 1
               /\ old.failures = FailureLimit => old.token = Nobody
               /\ old.window <= 0 => LongAgo(ages, FailureLimit, FailureSeconds)
               /\ old.window > 0 => /\ LongAgo(ages, old.failures, FailureSeconds - old.window)
                                    /\ LongAgo(ages, FailureLimit + old.failures, FailureSeconds)
    <2>1. CASE old = row
      BY <1>1, <1>2, <2>1
    <2>2. CASE Unused(l, 1) /\ old = NoRow
      BY <1>1, <1>2, <2>2, NoRowType, Limits DEF Unused
    <2> QED BY <1>3, <2>1, <2>2 DEF Start
  <1>4. CASE Cleans(l)
    BY <1>2, <1>3, <1>4 DEF Cleans, RowOK, RejectedOK
  <1>5. CASE Clears(l)
    <2>1. Aged(<< >>, RejectionRun, FailureSeconds)
      BY Limits DEF Aged
    <2>2. LongAgo(<< >>, FailureLimit, FailureSeconds)
      BY Limits DEF LongAgo
    <2> QED BY <1>5, <2>1, <2>2, NoRowType, Limits DEF Clears, RowOK, RejectedOK
  <1>6. CASE Grants(l)
    <2>0. PICK old : /\ Start(l, old) /\ ~Exhausted(old)
                     /\ \E w \in Workers, seconds \in 1 .. ClaimSeconds :
                          password'[l] = Claimed(old, w, seconds)
      BY <1>6 DEF Grants
    <2>1. PICK w \in Workers, seconds \in 1 .. ClaimSeconds :
            /\ Start(l, old) /\ ~Exhausted(old)
            /\ password'[l] = Claimed(old, w, seconds)
      BY <2>0
    <2>2. /\ old \in PasswordRow /\ old.window \in Int /\ (old.window > 0 => old.failures # FailureLimit)
      BY <1>3, <2>1, RowFields, Limits DEF Exhausted
    <2>3. /\ password'[l] \in PasswordRow
          /\ old.window > 0 => password'[l].failures = old.failures /\ password'[l].window = old.window
          /\ old.window <= 0 => password'[l].failures = 0 /\ password'[l].window = Past
      BY <2>1, <2>2, ClaimedRow
    <2>4. rejected'[l] = ages
      BY <1>6 DEF Grants
    <2>5. RowOK(l)'
      BY <1>3, <2>1, <2>2, <2>3, Limits DEF RowOK
    <2> HIDE DEF ages
    <2>6. RejectedOK(l)'
      BY <1>2, <1>3, <2>1, <2>2, <2>3, <2>4, Limits DEF RejectedOK
    <2> QED BY <2>5, <2>6
  <1>7. CASE Counts(l)
    <2>1. PICK live \in FirstRead(row.window) : password'[l] = Counted(row, live)
      BY <1>7 DEF Counts
    <2>2. live \in BOOLEAN /\ (row.window > 0 => live) /\ (row.window < 0 => ~live)
      BY <1>1, <2>1, FirstReads
    <2>3. row.failures # FailureLimit
      BY <1>1, <1>7, NobodyAssumption DEF Counts
    <2> DEFINE n == IF live THEN row.failures + 1 ELSE 1
               x == IF row.window > 0 THEN row.window ELSE FailureSeconds
               new == Noted(ages, RejectionRun)
    <2>4. /\ password'[l] \in PasswordRow /\ password'[l].failures = n
          /\ password'[l].window = x /\ password'[l].token = Nobody
      BY <1>1, <2>1, <2>2, <2>3, CountedRow
    <2>5. /\ n \in Nat \ {0} /\ n <= FailureLimit /\ x \in Int /\ x > 0 /\ x <= FailureSeconds
      BY <1>1, <2>3, Limits
    <2>6. rejected'[l] = new
      BY <1>7 DEF Counts
    <2>7. Aged(new, RejectionRun, FailureSeconds)
      BY <1>2, NotedAges, Limits
    <2>8. LongAgo(new, n, FailureSeconds - x)
      <3>1. CASE row.window > 0
        <4>1. n = row.failures + 1 /\ x = row.window /\ row.failures \in Nat \ {0}
          BY <1>1, <2>2, <3>1
        <4> HIDE DEF n, x
        <4> QED BY <1>2, <3>1, <4>1, NotedAgo, Limits
      <3>2. CASE row.window <= 0
        <4>1. x = FailureSeconds /\ FailureSeconds - x = 0
          BY <1>1, <3>2, Limits
        <4>2. LongAgo(new, n, 0)
          <5>1. SUFFICES ASSUME n <= Len(new) PROVE Ago(new, n) >= 0
            BY DEF LongAgo
          <5>2. n \in 1 .. Len(new)
            BY <2>5, <2>7, <5>1 DEF Aged
          <5> HIDE DEF n, new
          <5>3. FailureSeconds \in Nat /\ RejectionRun \in Nat
            BY Limits
          <5>4. Ago(new, n) \in 0 .. FailureSeconds
            BY <2>7, <5>2, <5>3, OlderAges
          <5> QED BY <5>3, <5>4
        <4> QED BY <4>1, <4>2
      <3> QED BY <1>1, <3>1, <3>2
    <2>9. LongAgo(new, FailureLimit + n, FailureSeconds)
      <3>1. CASE row.window > 0
        <4>1. n = row.failures + 1 /\ FailureLimit + row.failures \in Nat \ {0}
              /\ FailureLimit + row.failures + 1 = FailureLimit + n
          BY <1>1, <2>2, <3>1, Limits
        <4> HIDE DEF n
        <4>2. LongAgo(new, FailureLimit + row.failures + 1, FailureSeconds)
          BY <1>2, <3>1, <4>1, NotedAgo, Limits
        <4> QED BY <4>1, <4>2
      <3>2. CASE row.window <= 0
        <4>1. LongAgo(new, FailureLimit + 1, FailureSeconds)
          BY <1>2, <3>2, NotedAgo, Limits
        <4>2. FailureLimit + 1 \in Nat \ {0} /\ FailureLimit + n \in Nat
              /\ FailureLimit + 1 <= FailureLimit + n
          BY <2>5, Limits
        <4> HIDE DEF n, new
        <4> QED BY <2>7, <4>1, <4>2, LongerAgo, Limits
      <3> QED BY <1>1, <3>1, <3>2
    <2> HIDE DEF n, x, new
    <2>10. RowOK(l)'
      BY <2>4, <2>5 DEF RowOK
    <2>11. RejectedOK(l)'
      BY <2>4, <2>5, <2>6, <2>7, <2>8, <2>9 DEF RejectedOK
    <2> QED BY <2>10, <2>11
  <1>8. CASE Releases(l)
    <2>1. /\ password'[l] \in PasswordRow /\ password'[l].token = Nobody
          /\ password'[l].failures = row.failures /\ password'[l].window = row.window
      BY <1>1, <1>8, ReleasedRow DEF Releases
    <2>2. rejected'[l] = ages
      BY <1>8 DEF Releases
    <2>3. RowOK(l)'
      BY <1>1, <2>1 DEF RowOK
    <2>4. RejectedOK(l)'
      BY <1>2, <2>1, <2>2 DEF RejectedOK
    <2> QED BY <2>3, <2>4
  <1>9. CASE Ages(l)
    <2> DEFINE new == Older(ages, FailureSeconds)
               x == Less(row.window)
    <2>1. /\ password'[l] \in PasswordRow /\ password'[l].token = row.token
          /\ password'[l].failures = row.failures /\ password'[l].window = x
      BY <1>1, <1>9, RowTicked DEF Ages
    <2>2. rejected'[l] = new /\ Aged(new, RejectionRun, FailureSeconds)
      BY <1>2, <1>9, OlderAges, Limits DEF Ages
    <2>3. x = IF row.window = Past THEN Past ELSE row.window - 1
      BY DEF Less
    <2>4. x \in Int /\ x <= FailureSeconds /\ (x > 0 <=> row.window > 1)
      BY <1>1, <2>3, Limits DEF Past
    <2>5. x >= 0 => row.failures >= 1
      BY <1>1, <2>3, Limits DEF Past
    <2>6. x <= 0 => LongAgo(new, FailureLimit, FailureSeconds)
      <3>1. CASE row.window <= 0
        BY <1>2, <3>1, OlderAgo, Limits
      <3>2. CASE row.window = 1
        <4>1. row.failures \in Nat \ {0} /\ row.failures <= FailureLimit
              /\ FailureSeconds - row.window \in Int
              /\ FailureSeconds <= FailureSeconds - row.window + 1
          BY <1>1, <3>2, Limits
        <4>2. LongAgo(new, row.failures, FailureSeconds)
          BY <1>2, <3>2, <4>1, OlderAgo, Limits
        <4> HIDE DEF new
        <4> QED BY <2>2, <4>1, <4>2, LongerAgo, Limits
      <3> QED BY <1>1, <2>4, <3>1, <3>2
    <2>7. x > 0 => /\ LongAgo(new, row.failures, FailureSeconds - x)
                   /\ LongAgo(new, FailureLimit + row.failures, FailureSeconds)
      <3>1. SUFFICES ASSUME x > 0
                     PROVE  /\ LongAgo(new, row.failures, FailureSeconds - x)
                            /\ LongAgo(new, FailureLimit + row.failures, FailureSeconds)
        OBVIOUS
      <3>2. /\ row.window > 0 /\ x = row.window - 1
            /\ row.failures \in Nat \ {0} /\ FailureLimit + row.failures \in Nat \ {0}
            /\ FailureSeconds - row.window \in Int /\ FailureSeconds - x \in Int
            /\ FailureSeconds - x <= FailureSeconds - row.window + 1
            /\ FailureSeconds - x <= FailureSeconds
        BY <1>1, <2>3, <2>4, <3>1, Limits DEF Past
      <3> HIDE DEF x
      <3>3. LongAgo(new, row.failures, FailureSeconds - x)
        BY <1>2, <3>2, OlderAgo, Limits
      <3>4. LongAgo(new, FailureLimit + row.failures, FailureSeconds)
        BY <1>2, <3>2, OlderAgo, Limits
      <3> QED BY <3>3, <3>4
    <2> HIDE DEF x, new
    <2>8. RowOK(l)'
      BY <1>1, <2>1, <2>5 DEF RowOK
    <2>9. RejectedOK(l)'
      BY <2>1, <2>2, <2>6, <2>7 DEF RejectedOK
    <2> QED BY <2>8, <2>9
  <1> QED BY <1>4, <1>5, <1>6, <1>7, <1>8, <1>9 DEF RowMoves

-----------------------------------------------------------------------------
(* What a step may do to a budget and to the history of a source. *)
KStart(k, old) == old = attempts[k] \/ (Expired(k, 1) /\ old = NoCount)

KeyCleans(k) ==
  KStart(k, attempts'[k]) /\ (k \in Sources => admitted'[k] = admitted[k])

KeySpends(k) ==
  /\ \E old : /\ KStart(k, old) /\ ~Limited(old, k)
              /\ \E live \in FirstRead(old.left) : attempts'[k] = consume(old, k, live)
  /\ k \in Sources => admitted'[k] = Noted(admitted[k], AdmissionRun)

KeyAges(k) ==
  /\ attempts'[k] = [attempts[k] EXCEPT !.left = Less(@)]
  /\ k \in Sources => admitted'[k] = Older(admitted[k], SourceSeconds)

KeyMoves(k) == KeyCleans(k) \/ KeySpends(k) \/ KeyAges(k)

KeyRow(k) == [count : Nat, left : Past .. Seconds(k)]

LEMMA SpentKey ==
  ASSUME NEW k \in Keys, NEW row \in KeyRow(k), NEW live \in BOOLEAN,
         row.count = 0 => row.left = Past, row.left < 0 => ~live
  PROVE  LET new == consume(row, k, live) IN
         /\ new \in KeyRow(k)
         /\ live => new.count = row.count + 1 /\ new.left = IF row.left = 0 THEN Past ELSE row.left
         /\ ~live => new.count = 1 /\ new.left = Seconds(k)
  <1>1. /\ row.count \in Nat /\ row.left \in Past .. Seconds(k) /\ Seconds(k) \in Nat \ {0}
        /\ Past \in Past .. Seconds(k) /\ Seconds(k) \in Past .. Seconds(k) /\ Past < 0
    BY Limits DEF KeyRow, Past
  <1>2. CASE live
    <2>1. row.count > 0
      BY <1>1, <1>2
    <2>2. consume(row, k, live)
            = [[row EXCEPT !.count = row.count + 1] EXCEPT !.left = IF row.left = 0 THEN Past ELSE row.left]
      BY <1>2, <2>1 DEF consume, KeyRow
    <2>3. /\ (IF row.left = 0 THEN Past ELSE row.left) \in Past .. Seconds(k)
          /\ row.count + 1 \in Nat
      BY <1>1
    <2>4. /\ consume(row, k, live) \in KeyRow(k)
          /\ consume(row, k, live).count = row.count + 1
          /\ consume(row, k, live).left = IF row.left = 0 THEN Past ELSE row.left
      BY <2>2, <2>3, Zenon DEF KeyRow
    <2> QED BY <1>2, <2>4
  <1>3. CASE ~live
    <2>1. consume(row, k, live) = [count |-> 1, left |-> Seconds(k)]
      BY <1>3 DEF consume
    <2> QED BY <1>1, <1>3, <2>1 DEF KeyRow
  <1> QED BY <1>2, <1>3

LEMMA KeyFields ==
  ASSUME NEW k \in Keys, KeyOK(k)
  PROVE  /\ attempts[k] \in KeyRow(k)
         /\ attempts[k].count \in Nat /\ attempts[k].left \in Int
         /\ attempts[k].left >= Past /\ attempts[k].left <= Seconds(k)
  BY Limits DEF KeyOK, KeyRow, Past

LEMMA KStarted ==
  ASSUME NEW k \in Keys, KeyOK(k), NEW old, KStart(k, old)
  PROVE  /\ old \in KeyRow(k) /\ old.count \in Nat /\ old.left \in Int
         /\ old.left >= Past /\ old.left <= Seconds(k)
         /\ old.count <= Limit(k) + 1
         /\ old.count = 0 \/ old.count > Limit(k) => old.left = Past
         /\ old # attempts[k] => old.left = Past /\ attempts[k].left <= 0
  <1>1. CASE old = attempts[k]
    BY <1>1, KeyFields DEF KeyOK
  <1>2. CASE Expired(k, 1) /\ old = NoCount
    BY <1>2, KeyFields, Limits DEF NoCount, KeyRow, Expired, Past
  <1> QED BY <1>1, <1>2 DEF KStart

LEMMA SpendsKey ==
  ASSUME NEW k \in Keys, KeyOK(k), NEW old, KStart(k, old), ~Limited(old, k),
         NEW live \in FirstRead(old.left), attempts'[k] = consume(old, k, live)
  PROVE  LET new == attempts'[k] IN
         /\ KeyOK(k)' /\ new.left \in Int /\ new.count \in Nat \ {0}
         /\ \/ /\ old.left > 0 /\ new.left = old.left /\ new.count = old.count + 1
               /\ old.count \in Nat \ {0} /\ new.count <= Limit(k)
            \/ old.left = 0 /\ new.left = Past
            \/ old.left <= 0 /\ new.left = Seconds(k) /\ new.count = 1
  <1>1. /\ old \in KeyRow(k) /\ old.count \in Nat /\ old.left \in Int
        /\ old.left >= Past /\ old.left <= Seconds(k)
        /\ old.count = 0 \/ old.count > Limit(k) => old.left = Past
        /\ Limit(k) \in Nat \ {0} /\ Seconds(k) \in Nat \ {0} /\ Past = -1
    BY KStarted, Limits DEF Past
  <1>2. live \in BOOLEAN /\ (old.left > 0 => live) /\ (old.left < 0 => ~live)
    BY <1>1, FirstReads
  <1>3. old.left > 0 => old.count < Limit(k) /\ old.count # 0
    BY <1>1 DEF Limited
  <1>4. old.left >= 0 => old.count <= Limit(k)
    BY <1>1
  <1> DEFINE new == attempts'[k]
  <1>5. /\ new \in KeyRow(k)
        /\ live => new.count = old.count + 1 /\ new.left = IF old.left = 0 THEN Past ELSE old.left
        /\ ~live => new.count = 1 /\ new.left = Seconds(k)
    BY <1>1, <1>2, SpentKey
  <1> HIDE DEF new
  <1>6. CASE live
    <2>1. /\ old.left >= 0 /\ new.count = old.count + 1
          /\ new.left = IF old.left = 0 THEN Past ELSE old.left
      BY <1>1, <1>2, <1>5, <1>6
    <2>2. /\ new.count <= Limit(k) + 1 /\ new.count # 0
          /\ new.count > Limit(k) => new.left = Past
      BY <1>1, <1>3, <1>4, <2>1
    <2> QED BY <1>1, <1>3, <1>5, <2>1, <2>2 DEF KeyOK, KeyRow, new
  <1>7. CASE ~live
    <2>1. old.left <= 0 /\ new.count = 1 /\ new.left = Seconds(k)
      BY <1>1, <1>2, <1>5, <1>7
    <2> QED BY <1>1, <1>5, <2>1 DEF KeyOK, KeyRow, new
  <1> QED BY <1>2, <1>6, <1>7

LEMMA KeyMoved ==
  ASSUME NEW k \in Keys, KeyOK(k), KeyMoves(k)
  PROVE  KeyOK(k)'
  <1>1. CASE KeyCleans(k)
    <2>1. KStart(k, attempts'[k])
      BY <1>1 DEF KeyCleans
    <2> QED BY <2>1, KStarted DEF KeyOK, KeyRow
  <1>2. CASE KeySpends(k)
    BY <1>2, SpendsKey DEF KeySpends
  <1>3. CASE KeyAges(k)
    <2> DEFINE row == attempts[k]
    <2>1. /\ attempts'[k] = [row EXCEPT !.left = Less(row.left)]
          /\ row \in KeyRow(k) /\ row.count \in Nat /\ row.left \in Past .. Seconds(k)
      BY <1>3, KeyFields, Limits DEF KeyAges, KeyRow
    <2>2. Less(row.left) \in Past .. Seconds(k) /\ Less(Past) = Past
      BY <2>1, Limits DEF Less, Past
    <2> QED BY <2>1, <2>2 DEF KeyOK, KeyRow
  <1> QED BY <1>1, <1>2, <1>3 DEF KeyMoves

LEMMA AdmittedMoved ==
  ASSUME NEW k \in Sources, KeyOK(k), AdmittedOK(k), KeyMoves(k)
  PROVE  AdmittedOK(k)'
  <1> DEFINE row == attempts[k]
             ages == admitted[k]
  <1>k. k \in Keys /\ Limit(k) = SourceLimit /\ Seconds(k) = SourceSeconds
    BY Limits
  <1>1. /\ Aged(ages, AdmissionRun, SourceSeconds)
        /\ row.left <= 0 => LongAgo(ages, SourceLimit + 1, SourceSeconds)
        /\ row.left = 0 => LongAgo(ages, SourceLimit, SourceSeconds)
        /\ row.left > 0 => /\ LongAgo(ages, row.count, SourceSeconds - row.left)
                           /\ LongAgo(ages, SourceLimit + 1 + row.count, SourceSeconds)
    BY DEF AdmittedOK
  <1>2. /\ row.count \in Nat /\ row.left \in Int /\ row.left >= Past /\ row.left <= SourceSeconds
        /\ row.count = 0 \/ row.count > SourceLimit => row.left = Past
    BY <1>k, KeyFields DEF KeyOK
  <1>3. ASSUME NEW old, KStart(k, old)
        PROVE  /\ old.left \in Int
               /\ old.left <= 0 => LongAgo(ages, SourceLimit + 1, SourceSeconds)
               /\ old.left = 0 => LongAgo(ages, SourceLimit, SourceSeconds)
               /\ old.left > 0 => /\ LongAgo(ages, old.count, SourceSeconds - old.left)
                                  /\ LongAgo(ages, SourceLimit + 1 + old.count, SourceSeconds)
    <2>1. CASE old = row
      BY <1>1, <1>2, <2>1
    <2>2. CASE old # row
      <3>1. old.left = Past /\ row.left <= 0
        BY <1>k, <1>3, <2>2, KStarted
      <3> QED BY <1>1, <3>1, Limits
    <2> QED BY <2>1, <2>2
  <1>4. CASE KeyCleans(k)
    <2>1. KStart(k, attempts'[k]) /\ admitted'[k] = ages
      BY <1>4 DEF KeyCleans
    <2> QED BY <1>1, <1>3, <2>1 DEF AdmittedOK
  <1>5. CASE KeySpends(k)
    <2>1. PICK old, live :
            /\ KStart(k, old) /\ ~Limited(old, k)
            /\ live \in FirstRead(old.left) /\ attempts'[k] = consume(old, k, live)
      BY <1>5 DEF KeySpends
    <2> DEFINE new == attempts'[k]
               later == Noted(ages, AdmissionRun)
    <2>2. admitted'[k] = later /\ Aged(later, AdmissionRun, SourceSeconds)
      BY <1>1, <1>5, NotedAges, Limits DEF KeySpends
    <2>3. /\ new.left \in Int /\ new.count \in Nat \ {0}
          /\ \/ /\ old.left > 0 /\ new.left = old.left /\ new.count = old.count + 1
                /\ old.count \in Nat \ {0}
             \/ old.left = 0 /\ new.left = Past
             \/ old.left <= 0 /\ new.left = SourceSeconds /\ new.count = 1
      BY <1>k, <2>1, SpendsKey
    <2>4. old.left \in Int
      BY <1>3, <2>1
    <2>s. /\ SourceLimit \in Nat \ {0} /\ SourceSeconds \in Nat \ {0} /\ Past < 0
          /\ AdmissionRun \in Nat \ {0}
      BY Limits
    <2>5. CASE /\ old.left > 0 /\ new.left = old.left /\ new.count = old.count + 1
               /\ old.count \in Nat \ {0}
      <3>1. /\ LongAgo(ages, old.count, SourceSeconds - old.left)
            /\ LongAgo(ages, SourceLimit + 1 + old.count, SourceSeconds)
        BY <1>3, <2>1, <2>5
      <3>2. /\ SourceLimit + 1 + old.count \in Nat \ {0}
            /\ SourceLimit + 1 + old.count + 1 = SourceLimit + 1 + new.count
        BY <2>5, <2>s
      <3>3. LongAgo(later, old.count + 1, SourceSeconds - old.left)
        BY <1>1, <2>5, <2>s, <3>1, NotedAgo
      <3>4. LongAgo(later, SourceLimit + 1 + old.count + 1, SourceSeconds)
        BY <1>1, <2>s, <3>1, <3>2, NotedAgo
      <3> HIDE DEF new, later
      <3>5. /\ ~(new.left <= 0) /\ ~(new.left = 0)
            /\ LongAgo(later, new.count, SourceSeconds - new.left)
            /\ LongAgo(later, SourceLimit + 1 + new.count, SourceSeconds)
        BY <2>3, <2>4, <2>5, <3>2, <3>3, <3>4
      <3> QED BY <2>2, <3>5 DEF AdmittedOK, new
    <2>6. CASE old.left = 0 /\ new.left = Past
      <3>1. LongAgo(later, SourceLimit + 1, SourceSeconds)
        BY <1>1, <1>3, <2>1, <2>6, <2>s, NotedAgo
      <3>2. new.left < 0 /\ ~(new.left = 0) /\ ~(new.left > 0)
        BY <2>3, <2>6, Limits
      <3> HIDE DEF later
      <3> QED BY <2>2, <3>1, <3>2 DEF AdmittedOK
    <2>7. CASE old.left <= 0 /\ new.left = SourceSeconds /\ new.count = 1
      <3>1. LongAgo(later, SourceLimit + 1 + 1, SourceSeconds)
        BY <1>1, <1>3, <2>1, <2>7, <2>s, NotedAgo
      <3>2. LongAgo(later, 1, 0)
        <4>1. SUFFICES ASSUME 1 <= Len(later) PROVE Ago(later, 1) >= 0
          BY DEF LongAgo
        <4>2. 1 \in 1 .. Len(later)
          BY <2>2, <4>1 DEF Aged
        <4> HIDE DEF later
        <4>3. Ago(later, 1) \in 0 .. SourceSeconds
          BY <2>2, <2>s, <4>2, OlderAges
        <4> QED BY <2>s, <4>3
      <3> HIDE DEF later
      <3>3. SourceSeconds - SourceSeconds = 0
        BY <2>s
      <3> QED BY <2>2, <2>7, <2>s, <3>1, <3>2, <3>3 DEF AdmittedOK
    <2> QED BY <2>3, <2>5, <2>6, <2>7
  <1>6. CASE KeyAges(k)
    <2> DEFINE new == Older(ages, SourceSeconds)
               x == Less(row.left)
    <2>s. /\ SourceLimit \in Nat \ {0} /\ SourceSeconds \in Nat \ {0} /\ Past = -1
          /\ AdmissionRun \in Nat
      BY Limits DEF Past
    <2>1. attempts'[k] = [row EXCEPT !.left = x] /\ row \in KeyRow(k)
      BY <1>k, <1>6, KeyFields DEF KeyAges
    <2>2. attempts'[k].left = x /\ attempts'[k].count = row.count
      BY <2>1 DEF KeyRow
    <2>3. admitted'[k] = new /\ Aged(new, AdmissionRun, SourceSeconds)
      BY <1>1, <1>6, <2>s, OlderAges DEF KeyAges
    <2>4. x = IF row.left = Past THEN Past ELSE row.left - 1
      BY DEF Less
    <2>5. CASE row.left <= 0
      <3>1. x < 0
        BY <1>2, <2>4, <2>5, <2>s
      <3>2. LongAgo(new, SourceLimit + 1, SourceSeconds)
        BY <1>1, <2>5, <2>s, OlderAgo
      <3> HIDE DEF new, x
      <3>3. x \in Int
        BY <1>2, <2>4, <2>s
      <3> QED BY <2>2, <2>3, <3>1, <3>2, <3>3 DEF AdmittedOK
    <2>6. CASE row.left = 1
      <3>1. x = 0 /\ row.count \in Nat \ {0} /\ row.count <= SourceLimit
        BY <1>2, <2>4, <2>6, <2>s
      <3>2. SourceSeconds - row.left \in Int /\ SourceSeconds <= SourceSeconds - row.left + 1
        BY <2>6, <2>s
      <3>3. LongAgo(new, row.count, SourceSeconds)
        BY <1>1, <2>6, <2>s, <3>1, <3>2, OlderAgo
      <3>4. LongAgo(new, SourceLimit, SourceSeconds) /\ LongAgo(new, SourceLimit + 1, SourceSeconds)
        BY <2>3, <2>s, <3>1, <3>3, LongerAgo
      <3> HIDE DEF new, x
      <3> QED BY <2>2, <2>3, <3>1, <3>4 DEF AdmittedOK
    <2>7. CASE row.left > 1
      <3>1. /\ x = row.left - 1 /\ x > 0 /\ x \in Int
            /\ row.count \in Nat \ {0} /\ SourceLimit + 1 + row.count \in Nat \ {0}
            /\ SourceSeconds - row.left \in Int /\ SourceSeconds - x \in Int
            /\ SourceSeconds - x <= SourceSeconds - row.left + 1
            /\ SourceSeconds - x <= SourceSeconds
        BY <1>2, <2>4, <2>7, <2>s
      <3> HIDE DEF x
      <3>2. /\ LongAgo(ages, row.count, SourceSeconds - row.left)
            /\ LongAgo(ages, SourceLimit + 1 + row.count, SourceSeconds)
        BY <1>1, <1>2, <2>7
      <3>3. LongAgo(new, row.count, SourceSeconds - x)
        BY <1>1, <2>s, <3>1, <3>2, OlderAgo
      <3>4. LongAgo(new, SourceLimit + 1 + row.count, SourceSeconds)
        BY <1>1, <2>s, <3>1, <3>2, OlderAgo
      <3> HIDE DEF new
      <3> QED BY <2>2, <2>3, <3>1, <3>3, <3>4 DEF AdmittedOK
    <2> QED BY <1>2, <2>5, <2>6, <2>7
  <1> QED BY <1>4, <1>5, <1>6 DEF KeyMoves

-----------------------------------------------------------------------------
(* Accounts and verifications have their types. *)
LEMMA NewAccountType == new_local \in AccountState
  BY EpochLimitAssumption DEF new_local, NewAccount, AccountState, Epoch

LEMMA RevokedType ==
  ASSUME NEW s \in AccountState, CanRevokeSessions(s)
  PROVE  revoke_sessions(s) \in AccountState
  <1>1. s.epoch + 1 \in Epoch
    BY EpochLimitAssumption DEF CanRevokeSessions, AccountState, Epoch
  <1> QED BY <1>1, Zenon DEF revoke_sessions, AccountState

LEMMA RecoveredType ==
  ASSUME NEW s \in AccountState, CanRecover(s)
  PROVE  Recovered(s) \in AccountState
  <1>1. s.epoch + 1 \in Epoch /\ s.password + 1 \in Nat
    BY EpochLimitAssumption DEF CanRecover, AccountState, Epoch
  <1> QED BY <1>1, Zenon DEF Recovered, AccountState

LEMMA ChangedType ==
  ASSUME NEW s \in AccountState, NEW change \in LocalChange, CanChange(s, change)
  PROVE  Changed(s, change) \in AccountState
  <1>1. s.epoch + 1 \in Epoch
    BY EpochLimitAssumption DEF CanChange, AccountState, Epoch
  <1>2. (IF ChangesMembership(s, change) THEN s.membership_epoch + 1 ELSE s.membership_epoch) \in Epoch
    BY EpochLimitAssumption DEF CanChange, AccountState, Epoch
  <1>3. (IF change.what = "password" THEN s.password + 1 ELSE s.password) \in Nat
    BY DEF AccountState
  <1>4. /\ (IF change.what = "enabled" THEN change.value ELSE s.enabled) \in BOOLEAN
        /\ (IF change.what = "membership" THEN change.value ELSE s.member_active) \in BOOLEAN
    BY DEF AccountState, LocalChange
  <1> QED BY <1>1, <1>2, <1>3, <1>4, Zenon DEF Changed, AccountState

Idle == NoWork(AnyLogin)

ClaimingWorker(l, left, lease) ==
  [NoWork(l) EXCEPT !.pc = "claimed", !.left = left, !.lease = lease]
SnapshotWorker(row, snap) == [[row EXCEPT !.pc = "snapshot"] EXCEPT !.snap = snap]
CheckedWorker(row, outcome) == [[row EXCEPT !.pc = "checked"] EXCEPT !.outcome = outcome]
VoidedWorker(row) == [row EXCEPT !.voided = TRUE]
TickedWorker(row) == [row EXCEPT !.left = GreatestOf(0, @ - 1), !.lease = GreatestOf(0, @ - 1)]

LEMMA WorkerFields ==
  \A r \in Worker : /\ r.login \in Logins /\ r.left \in Nat /\ r.snap \in AccountState
                    /\ r.lease \in 0 .. ClaimSeconds /\ r.lease \in Nat /\ r.voided \in BOOLEAN
  BY Limits DEF Worker

LEMMA NoWorkType ==
  ASSUME NEW l \in Logins
  PROVE  /\ NoWork(l) \in Worker /\ NoWork(l).lease = 0 /\ NoWork(l).voided = FALSE
         /\ NoWork(l).pc = "idle" /\ NoWork(l).login = l
  BY NewAccountType, Limits DEF NoWork, Worker, Outcome

LEMMA IdleType == Idle \in Worker /\ Idle.lease = 0 /\ Idle.voided = FALSE /\ Idle.pc = "idle"
  <1>1. AnyLogin \in Logins
    BY AttemptsAssumption DEF AnyLogin
  <1> QED BY <1>1, NoWorkType DEF Idle

LEMMA WorkerClaims ==
  ASSUME NEW l \in Logins, NEW left \in Nat, NEW lease \in 0 .. ClaimSeconds
  PROVE  LET new == ClaimingWorker(l, left, lease) IN
         /\ new \in Worker /\ new.pc = "claimed" /\ new.login = l
         /\ new.lease = lease /\ new.voided = FALSE
  <1>1. "claimed" \in {"idle", "claimed", "snapshot", "checked"}
    OBVIOUS
  <1>2. NoWork(l) \in Worker /\ NoWork(l).login = l /\ NoWork(l).voided = FALSE
    BY NoWorkType
  <1> QED BY <1>1, <1>2, Zenon DEF ClaimingWorker, Worker

Holds(new, row) ==
  /\ new \in Worker /\ new.pc # "idle"
  /\ new.login = row.login /\ new.lease = row.lease /\ new.voided = row.voided

LEMMA WorkerReads ==
  ASSUME NEW row \in Worker, NEW snap \in AccountState
  PROVE  Holds(SnapshotWorker(row, snap), row)
  <1>1. "snapshot" \in {"idle", "claimed", "snapshot", "checked"} /\ "snapshot" # "idle"
    OBVIOUS
  <1>2. LET new == SnapshotWorker(row, snap) IN
        /\ new \in Worker /\ new.pc = "snapshot"
        /\ new.login = row.login /\ new.lease = row.lease /\ new.voided = row.voided
    BY <1>1, Zenon DEF SnapshotWorker, Worker
  <1> QED BY <1>1, <1>2 DEF Holds

LEMMA WorkerChecks ==
  ASSUME NEW row \in Worker, NEW outcome \in Outcome
  PROVE  Holds(CheckedWorker(row, outcome), row)
  <1>1. "checked" \in {"idle", "claimed", "snapshot", "checked"} /\ "checked" # "idle"
    OBVIOUS
  <1>2. LET new == CheckedWorker(row, outcome) IN
        /\ new \in Worker /\ new.pc = "checked"
        /\ new.login = row.login /\ new.lease = row.lease /\ new.voided = row.voided
    BY <1>1, Zenon DEF CheckedWorker, Worker
  <1> QED BY <1>1, <1>2 DEF Holds

LEMMA WorkerVoided ==
  ASSUME NEW row \in Worker
  PROVE  LET new == VoidedWorker(row) IN
         /\ new \in Worker /\ new.pc = row.pc /\ new.voided = TRUE
         /\ new.login = row.login /\ new.lease = row.lease
  BY Zenon DEF VoidedWorker, Worker

LEMMA WorkerTicked ==
  ASSUME NEW row \in Worker
  PROVE  LET new == TickedWorker(row) IN
         /\ new \in Worker /\ new.pc = row.pc /\ new.login = row.login /\ new.voided = row.voided
         /\ new.lease = GreatestOf(0, row.lease - 1)
  <1>1. /\ GreatestOf(0, row.left - 1) \in Nat
        /\ GreatestOf(0, row.lease - 1) \in 0 .. ClaimSeconds
    BY WorkerFields, Limits DEF GreatestOf
  <1> QED BY <1>1, Zenon DEF TickedWorker, Worker

-----------------------------------------------------------------------------
(* Every transaction that cleans up starts from rows that are left. *)
LEMMA CleanedRows ==
  ASSUME NEW K \in CleanedKeys, NEW L \in CleanedLogins(K)
  PROVE  /\ \A k \in Keys : KStart(k, KeysLeft(K)[k])
         /\ \A l \in Logins : Start(l, LoginsLeft(L)[l])
  <1>1. \A k \in K : Expired(k, 1)
    BY DEF CleanedKeys
  <1>2. \A l \in L : Unused(l, 1)
    BY DEF CleanedLogins
  <1>3. ASSUME NEW k \in Keys PROVE KStart(k, KeysLeft(K)[k])
    <2>1. KeysLeft(K)[k] = IF k \in K THEN NoCount ELSE attempts[k]
      BY DEF KeysLeft, NoCount
    <2>2. CASE k \in K
      BY <1>1, <2>1, <2>2, Zenon DEF KStart
    <2>3. CASE k \notin K
      <3>1. KeysLeft(K)[k] = attempts[k]
        BY <2>1, <2>3
      <3> QED BY <3>1, Zenon DEF KStart
    <2> QED BY <2>2, <2>3
  <1>4. ASSUME NEW l \in Logins PROVE Start(l, LoginsLeft(L)[l])
    <2>1. LoginsLeft(L)[l] = IF l \in L THEN NoRow ELSE password[l]
      BY DEF LoginsLeft
    <2>2. CASE l \in L
      BY <1>2, <2>1, <2>2, Zenon DEF Start
    <2>3. CASE l \notin L
      <3>1. LoginsLeft(L)[l] = password[l]
        BY <2>1, <2>3
      <3> QED BY <3>1, Zenon DEF Start
    <2> QED BY <2>2, <2>3
  <1> QED BY <1>3, <1>4

Refuses(K, L) ==
  /\ K \in CleanedKeys /\ L \in CleanedLogins(K)
  /\ attempts' = KeysLeft(K) /\ password' = LoginsLeft(L)
  /\ UNCHANGED <<accounts, worker, rejected, admitted>>

Claims(w, l, s, budget, K, L) ==
  /\ K \in CleanedKeys /\ L \in CleanedLogins(K)
  /\ ClaimGranted(KeysLeft(K), LoginsLeft(L), l, s)
  /\ \E live \in FirstRead(KeysLeft(K)[s].left) :
       attempts' = [KeysLeft(K) EXCEPT ![s] = consume(KeysLeft(K)[s], s, live)]
  /\ password' = [LoginsLeft(L) EXCEPT
                    ![l] = Claimed(LoginsLeft(L)[l], w, LeastOf(budget, ClaimSeconds))]
  /\ worker' = [worker EXCEPT ![w] = ClaimingWorker(l, budget, LeastOf(budget, ClaimSeconds))]
  /\ admitted' = [admitted EXCEPT ![s] = Noted(admitted[s], AdmissionRun)]
  /\ UNCHANGED <<accounts, rejected>>

ReserveGranted(keys, logins, s, scope) ==
  /\ ~Limited(keys[s], s) /\ ~Limited(keys[scope], scope)
  /\ total(keys, logins) + Cardinality({k \in {s, scope} : keys[k].count = 0}) <= MaxRows

Reserves(s, scope, K, L) ==
  /\ K \in CleanedKeys /\ L \in CleanedLogins(K)
  /\ ReserveGranted(KeysLeft(K), LoginsLeft(L), s, scope)
  /\ \E live \in FirstRead(KeysLeft(K)[s].left), here \in FirstRead(KeysLeft(K)[scope].left) :
       attempts' = [KeysLeft(K) EXCEPT ![s] = consume(KeysLeft(K)[s], s, live),
                                       ![scope] = consume(KeysLeft(K)[scope], scope, here)]
  /\ password' = LoginsLeft(L)
  /\ admitted' = [admitted EXCEPT ![s] = Noted(admitted[s], AdmissionRun)]
  /\ UNCHANGED <<accounts, worker, rejected>>

LEMMA ClaimSteps ==
  ASSUME NEW w \in Workers, NEW l \in Logins, NEW s \in Sources, NEW budget \in Budgets,
         claim_password(w, l, s, budget)
  PROVE  \E K, L : Refuses(K, L) \/ Claims(w, l, s, budget, K, L)
  BY DEF claim_password, Refuses, Claims, ClaimingWorker

LEMMA ReserveSteps ==
  ASSUME NEW s \in Sources, NEW scope \in Scopes, reserve(s, scope)
  PROVE  \E K, L : Refuses(K, L) \/ Reserves(s, scope, K, L)
  <1>1. s # scope /\ s \in Keys /\ scope \in Keys
    BY AttemptsAssumption DEF Keys
  <1>2. \A K : \A live, here :
          [KeysLeft(K) EXCEPT ![s] = consume(@, s, live), ![scope] = consume(@, scope, here)]
            = [KeysLeft(K) EXCEPT ![s] = consume(KeysLeft(K)[s], s, live),
                                  ![scope] = consume(KeysLeft(K)[scope], scope, here)]
    BY <1>1
  <1> QED BY <1>2 DEF reserve, Refuses, Reserves, ReserveGranted

-----------------------------------------------------------------------------
(* The steps, by what they write. *)
WorkerMoves(w) ==
  /\ \E new : /\ worker' = [worker EXCEPT ![w] = new]
              /\ new = Idle \/ Holds(new, worker[w])
  /\ UNCHANGED <<accounts, attempts, password, rejected, admitted>>

AccountMoves(l) ==
  /\ \E state \in AccountState : accounts' = [accounts EXCEPT ![l] = state]
  /\ clear(l) \/ UNCHANGED <<password, rejected, worker>>
  /\ UNCHANGED <<attempts, admitted>>

SettledAs(l, row, ages) ==
  password' = [password EXCEPT ![l] = row] /\ rejected' = [rejected EXCEPT ![l] = ages]

Settles(w) ==
  LET l == worker[w].login IN
  /\ worker' = [worker EXCEPT ![w] = Idle]
  /\ \/ UNCHANGED <<password, rejected>>
     \/ /\ owned(w)
        /\ \/ SettledAs(l, NoRow, << >>)
           \/ \E live \in FirstRead(password[l].window) :
                SettledAs(l, Counted(password[l], live), Noted(rejected[l], RejectionRun))
           \/ SettledAs(l, Released(password[l]), rejected[l])
  /\ UNCHANGED <<accounts, attempts, admitted>>

LEMMA SettleSteps ==
  ASSUME TypesInv, NEW w \in Workers, settle_password(w)
  PROVE  Settles(w)
  <1> DEFINE l == worker[w].login
  <1>1. /\ worker' = [worker EXCEPT ![w] = Idle] /\ UNCHANGED <<accounts, attempts, admitted>>
    BY DEF settle_password, Idle
  <1>2. /\ l \in Logins /\ password \in [Logins -> PasswordRow]
        /\ rejected = [m \in Logins |-> rejected[m]]
    BY WorkerFields DEF TypesInv
  <1>3. CASE UNCHANGED <<password, rejected>>
    BY <1>1, <1>3 DEF Settles
  <1>4. CASE /\ owned(w)
             /\ password' = [password EXCEPT ![l] = NoRow]
             /\ rejected' = [rejected EXCEPT ![l] = << >>]
    BY <1>1, <1>4 DEF Settles, SettledAs
  <1>5. CASE /\ owned(w)
             /\ \E live \in FirstRead(password[l].window) :
                  password' = [password EXCEPT ![l] = Counted(password[l], live)]
             /\ rejected' = [rejected EXCEPT ![l] = Noted(rejected[l], RejectionRun)]
    BY <1>1, <1>5 DEF Settles, SettledAs
  <1>6. CASE /\ owned(w)
             /\ password' = [password EXCEPT ![l].token = Nobody, ![l].claim = Past]
             /\ UNCHANGED rejected
    <2>1. password' = [password EXCEPT ![l] = Released(password[l])]
      BY <1>2, <1>6 DEF Released
    <2>2. rejected' = [rejected EXCEPT ![l] = rejected[l]]
      BY <1>2, <1>6
    <2> QED BY <1>1, <1>6, <2>1, <2>2 DEF Settles, SettledAs
  <1> QED BY <1>3, <1>4, <1>5, <1>6 DEF settle_password

Steps ==
  \/ \E K, L : Refuses(K, L)
  \/ \E w \in Workers, l \in Logins, s \in Sources, budget \in Budgets :
       \E K, L : Claims(w, l, s, budget, K, L)
  \/ \E s \in Sources, scope \in Scopes : \E K, L : Reserves(s, scope, K, L)
  \/ \E w \in Workers : WorkerMoves(w) \/ Settles(w)
  \/ \E l \in Logins : AccountMoves(l)
  \/ Tick
  \/ UNCHANGED vars

LEMMA Stepwise ==
  ASSUME TypesInv, [Next]_vars
  PROVE  Steps
  <1>t. /\ \A w \in Workers : worker[w] \in Worker /\ worker[w].login \in Logins
        /\ \A l \in Logins : accounts[l] \in AccountState
    BY WorkerFields DEF TypesInv
  <1>1. ASSUME NEW w \in Workers, NEW l \in Logins, NEW s \in Sources, NEW budget \in Budgets,
               claim_password(w, l, s, budget)
        PROVE  Steps
    BY <1>1, ClaimSteps DEF Steps
  <1>2. ASSUME NEW w \in Workers, read_snapshot(w) PROVE Steps
    <2> DEFINE snap == accounts[worker[w].login]
    <2>1. /\ worker' = [worker EXCEPT ![w] = SnapshotWorker(worker[w], snap)]
          /\ UNCHANGED <<accounts, attempts, password, rejected, admitted>>
      BY <1>2 DEF read_snapshot, SnapshotWorker, TypesInv
    <2>2. Holds(SnapshotWorker(worker[w], snap), worker[w])
      BY <1>t, WorkerReads
    <2>3. WorkerMoves(w)
      BY <2>1, <2>2 DEF WorkerMoves
    <2> QED BY <2>3 DEF Steps
  <1>3. ASSUME NEW w \in Workers, NEW outcome \in Outcome, check_password(w, outcome) PROVE Steps
    <2>1. /\ worker' = [worker EXCEPT ![w] = CheckedWorker(worker[w], outcome)]
          /\ UNCHANGED <<accounts, attempts, password, rejected, admitted>>
      BY <1>3 DEF check_password, CheckedWorker, TypesInv
    <2>2. Holds(CheckedWorker(worker[w], outcome), worker[w])
      BY <1>t, WorkerChecks
    <2>3. WorkerMoves(w)
      BY <2>1, <2>2 DEF WorkerMoves
    <2> QED BY <2>3 DEF Steps
  <1>4. ASSUME NEW w \in Workers, settle_password(w) PROVE Steps
    BY <1>4, SettleSteps DEF Steps
  <1>5. ASSUME NEW w \in Workers, Abandon(w) PROVE Steps
    <2>1. WorkerMoves(w)
      BY <1>5 DEF Abandon, WorkerMoves, Idle
    <2> QED BY <2>1 DEF Steps
  <1>6. ASSUME NEW l \in Logins, NEW change \in LocalChange, change_account(l, change) PROVE Steps
    <2>1. Changed(accounts[l], change) \in AccountState
      BY <1>t, <1>6, ChangedType DEF change_account
    <2>2. AccountMoves(l)
      BY <1>6, <2>1 DEF change_account, AccountMoves
    <2> QED BY <2>2 DEF Steps
  <1>7. ASSUME NEW l \in Logins, revoke_all_sessions(l) PROVE Steps
    <2>1. revoke_sessions(accounts[l]) \in AccountState
      BY <1>t, <1>7, RevokedType DEF revoke_all_sessions
    <2>2. AccountMoves(l)
      BY <1>7, <2>1 DEF revoke_all_sessions, AccountMoves
    <2> QED BY <2>2 DEF Steps
  <1>8. ASSUME NEW l \in Logins, recover_local_password(l) PROVE Steps
    <2>1. Recovered(accounts[l]) \in AccountState
      BY <1>t, <1>8, RecoveredType DEF recover_local_password
    <2>2. AccountMoves(l)
      BY <1>8, <2>1 DEF recover_local_password, AccountMoves
    <2> QED BY <2>2 DEF Steps
  <1>9. ASSUME NEW s \in Sources, NEW scope \in Scopes, reserve(s, scope) PROVE Steps
    BY <1>9, ReserveSteps DEF Steps
  <1>10. CASE Tick
    BY <1>10 DEF Steps
  <1>11. CASE UNCHANGED vars
    BY <1>11 DEF Steps
  <1> QED BY <1>1, <1>2, <1>3, <1>4, <1>5, <1>6, <1>7, <1>8, <1>9, <1>10, <1>11 DEF Next, WorkerStep

LEMMA ClaimTime ==
  ASSUME NEW budget \in Budgets
  PROVE  LeastOf(budget, ClaimSeconds) \in 1 .. ClaimSeconds /\ budget \in Nat
  BY AttemptsAssumption DEF LeastOf

LEMMA RowsMove ==
  ASSUME TypesInv, [Next]_vars
  PROVE  /\ \A l \in Logins : RowMoves(l)
         /\ DOMAIN password' = Logins /\ password' = [l \in Logins |-> password'[l]]
         /\ DOMAIN rejected' = Logins /\ rejected' = [l \in Logins |-> rejected'[l]]
  <1> DEFINE Goal == /\ \A l \in Logins : RowMoves(l)
                     /\ DOMAIN password' = Logins /\ password' = [l \in Logins |-> password'[l]]
                     /\ DOMAIN rejected' = Logins /\ rejected' = [l \in Logins |-> rejected'[l]]
  <1>t. /\ DOMAIN password = Logins /\ password = [l \in Logins |-> password[l]]
        /\ DOMAIN rejected = Logins /\ rejected = [l \in Logins |-> rejected[l]]
        /\ \A w \in Workers : worker[w].login \in Logins
    BY WorkerFields DEF TypesInv
  <1>1. ASSUME UNCHANGED <<password, rejected>> PROVE Goal
    BY <1>t, <1>1 DEF RowMoves, Cleans, Start
  <1>2. ASSUME NEW K \in CleanedKeys, NEW L \in CleanedLogins(K),
               password' = LoginsLeft(L), UNCHANGED rejected
        PROVE  Goal
    <2>1. \A l \in Logins : Start(l, LoginsLeft(L)[l])
      BY CleanedRows
    <2>2. password' = [l \in Logins |-> password'[l]] /\ DOMAIN password' = Logins
      BY <1>2 DEF LoginsLeft
    <2> QED BY <1>t, <1>2, <2>1, <2>2 DEF RowMoves, Cleans
  <1>3. ASSUME NEW w \in Workers, NEW m \in Logins, NEW s \in Sources, NEW budget \in Budgets,
               NEW K, NEW L, Claims(w, m, s, budget, K, L)
        PROVE  Goal
    <2> DEFINE rows == LoginsLeft(L)
               seconds == LeastOf(budget, ClaimSeconds)
    <2>1. /\ \A l \in Logins : Start(l, rows[l])
      BY <1>3, CleanedRows DEF Claims
    <2>2. /\ rows = [l \in Logins |-> rows[l]] /\ DOMAIN rows = Logins
      BY DEF LoginsLeft
    <2>3. /\ password' = [rows EXCEPT ![m] = Claimed(rows[m], w, seconds)]
          /\ ~Exhausted(rows[m]) /\ ~Busy(rows[m]) /\ rejected' = rejected
      BY <1>3 DEF Claims, ClaimGranted
    <2>4. seconds \in 1 .. ClaimSeconds
      BY ClaimTime
    <2> HIDE DEF rows, seconds
    <2>5. /\ DOMAIN password' = Logins /\ password' = [l \in Logins |-> password'[l]]
          /\ password'[m] = Claimed(rows[m], w, seconds)
          /\ \A l \in Logins : l # m => password'[l] = rows[l]
      BY <2>2, <2>3
    <2>6. ASSUME NEW l \in Logins PROVE RowMoves(l)
      <3>1. CASE l = m
        <4>1. Grants(l)
          BY <2>1, <2>3, <2>4, <2>5, <3>1 DEF Grants
        <4> QED BY <4>1 DEF RowMoves
      <3>2. CASE l # m
        BY <2>1, <2>3, <2>5, <3>2 DEF RowMoves, Cleans
      <3> QED BY <3>1, <3>2
    <2> QED BY <1>t, <2>3, <2>5, <2>6
  <1>4. ASSUME NEW w \in Workers, Settles(w)
        PROVE  Goal
    <2> DEFINE m == worker[w].login
    <2>0. m \in Logins
      BY <1>t
    <2>1. ASSUME NEW row, NEW ages, SettledAs(m, row, ages)
          PROVE  /\ DOMAIN password' = Logins /\ password' = [l \in Logins |-> password'[l]]
                 /\ DOMAIN rejected' = Logins /\ rejected' = [l \in Logins |-> rejected'[l]]
                 /\ password'[m] = row /\ rejected'[m] = ages
                 /\ \A l \in Logins : l # m => RowMoves(l)
      <3> HIDE DEF m
      <3>1. password' = [password EXCEPT ![m] = row] /\ rejected' = [rejected EXCEPT ![m] = ages]
        BY <2>1 DEF SettledAs
      <3>2. /\ DOMAIN password' = Logins /\ password' = [l \in Logins |-> password'[l]]
            /\ password'[m] = row /\ \A l \in Logins : l # m => password'[l] = password[l]
        BY <1>t, <2>0, <3>1
      <3>3. /\ DOMAIN rejected' = Logins /\ rejected' = [l \in Logins |-> rejected'[l]]
            /\ rejected'[m] = ages /\ \A l \in Logins : l # m => rejected'[l] = rejected[l]
        BY <1>t, <2>0, <3>1
      <3> QED BY <3>2, <3>3 DEF RowMoves, Cleans, Start
    <2>2. CASE UNCHANGED <<password, rejected>>
      BY <1>1, <2>2
    <2>3. CASE SettledAs(m, NoRow, << >>)
      <3>1. Clears(m)
        BY <2>1, <2>3 DEF Clears
      <3> QED BY <2>1, <2>3, <3>1 DEF RowMoves
    <2>4. ASSUME NEW live \in FirstRead(password[m].window), owned(w),
                 SettledAs(m, Counted(password[m], live), Noted(rejected[m], RejectionRun))
          PROVE  Goal
      <3>1. Counts(m)
        BY <2>1, <2>4 DEF Counts, owned
      <3>2. RowMoves(m)
        BY <3>1 DEF RowMoves
      <3> HIDE DEF m
      <3> QED BY <2>1, <2>4, <3>2
    <2>5. CASE SettledAs(m, Released(password[m]), rejected[m])
      <3>1. Releases(m)
        BY <2>1, <2>5 DEF Releases
      <3> QED BY <2>1, <2>5, <3>1 DEF RowMoves
    <2> QED BY <1>4, <2>2, <2>3, <2>4, <2>5 DEF Settles
  <1>5. ASSUME NEW m \in Logins, clear(m)
        PROVE  Goal
    <2>1. password' = [password EXCEPT ![m] = NoRow] /\ rejected' = [rejected EXCEPT ![m] = << >>]
      BY <1>5 DEF clear
    <2>2. /\ DOMAIN password' = Logins /\ password' = [l \in Logins |-> password'[l]]
          /\ password'[m] = NoRow /\ \A l \in Logins : l # m => password'[l] = password[l]
      BY <1>t, <2>1
    <2>3. /\ DOMAIN rejected' = Logins /\ rejected' = [l \in Logins |-> rejected'[l]]
          /\ rejected'[m] = << >> /\ \A l \in Logins : l # m => rejected'[l] = rejected[l]
      BY <1>t, <2>1
    <2> QED BY <2>2, <2>3 DEF RowMoves, Cleans, Start, Clears
  <1>6. ASSUME Tick PROVE Goal
    <2>1. /\ password' = [l \in Logins |-> TickedRow(password[l])]
          /\ rejected' = [l \in Logins |-> Older(rejected[l], FailureSeconds)]
      BY <1>6 DEF Tick, TickedRow
    <2>2. \A l \in Logins : Ages(l)
      BY <2>1 DEF Ages
    <2> QED BY <2>1, <2>2 DEF RowMoves
  <1>7. Steps
    BY Stepwise
  <1>8. ASSUME NEW m \in Logins, AccountMoves(m) PROVE Goal
    BY <1>1, <1>5, <1>8 DEF AccountMoves
  <1>9. ASSUME NEW w \in Workers, WorkerMoves(w) PROVE Goal
    BY <1>1, <1>9 DEF WorkerMoves
  <1>10. ASSUME NEW K, NEW L, Refuses(K, L) PROVE Goal
    BY <1>2, <1>10 DEF Refuses
  <1>11. ASSUME NEW s \in Sources, NEW scope \in Scopes, NEW K, NEW L, Reserves(s, scope, K, L)
         PROVE  Goal
    BY <1>2, <1>11 DEF Reserves
  <1>12. ASSUME UNCHANGED vars PROVE Goal
    BY <1>1, <1>12 DEF vars
  <1> HIDE DEF Goal
  <1>13. ASSUME NEW K, NEW L, Refuses(K, L) \/ \E s \in Sources, scope \in Scopes : Reserves(s, scope, K, L)
         PROVE  Goal
    BY <1>10, <1>11, <1>13
  <1>14. ASSUME NEW w \in Workers, WorkerMoves(w) \/ Settles(w)
         PROVE  Goal
    BY <1>4, <1>9, <1>14
  <1>15. Goal
    BY <1>3, <1>6, <1>7, <1>8, <1>12, <1>13, <1>14, Zenon DEF Steps
  <1> QED BY <1>15 DEF Goal

LEMMA KeysMove ==
  ASSUME TypesInv, [Next]_vars
  PROVE  /\ \A k \in Keys : KeyMoves(k)
         /\ DOMAIN attempts' = Keys /\ attempts' = [k \in Keys |-> attempts'[k]]
         /\ DOMAIN admitted' = Sources /\ admitted' = [s \in Sources |-> admitted'[s]]
  <1> DEFINE Goal == /\ \A k \in Keys : KeyMoves(k)
                     /\ DOMAIN attempts' = Keys /\ attempts' = [k \in Keys |-> attempts'[k]]
                     /\ DOMAIN admitted' = Sources /\ admitted' = [s \in Sources |-> admitted'[s]]
  <1>t. /\ DOMAIN attempts = Keys /\ attempts = [k \in Keys |-> attempts[k]]
        /\ DOMAIN admitted = Sources /\ admitted = [s \in Sources |-> admitted[s]]
    BY DEF TypesInv
  <1>1. ASSUME UNCHANGED <<attempts, admitted>> PROVE Goal
    BY <1>t, <1>1 DEF KeyMoves, KeyCleans, KStart
  <1>2. ASSUME NEW K, NEW L, Refuses(K, L) PROVE Goal
    <2>1. \A k \in Keys : KStart(k, KeysLeft(K)[k])
      BY <1>2, CleanedRows DEF Refuses
    <2>2. attempts' = KeysLeft(K) /\ admitted' = admitted
      BY <1>2 DEF Refuses
    <2>3. attempts' = [k \in Keys |-> attempts'[k]] /\ DOMAIN attempts' = Keys
      BY <2>2 DEF KeysLeft
    <2> QED BY <1>t, <2>1, <2>2, <2>3 DEF KeyMoves, KeyCleans
  <1>3. ASSUME NEW s \in Sources, admitted' = [admitted EXCEPT ![s] = Noted(admitted[s], AdmissionRun)]
        PROVE  /\ DOMAIN admitted' = Sources /\ admitted' = [k \in Sources |-> admitted'[k]]
               /\ admitted'[s] = Noted(admitted[s], AdmissionRun)
               /\ \A k \in Sources : k # s => admitted'[k] = admitted[k]
    BY <1>t, <1>3
  <1>4. ASSUME NEW w \in Workers, NEW l \in Logins, NEW s \in Sources, NEW budget \in Budgets,
               NEW K, NEW L, Claims(w, l, s, budget, K, L)
        PROVE  Goal
    <2> DEFINE keys == KeysLeft(K)
    <2>1. \A k \in Keys : KStart(k, keys[k])
      BY <1>4, CleanedRows DEF Claims
    <2>2. keys = [k \in Keys |-> keys[k]] /\ DOMAIN keys = Keys /\ s \in Keys
      BY Limits DEF KeysLeft
    <2>3. PICK live \in FirstRead(keys[s].left) :
            attempts' = [keys EXCEPT ![s] = consume(keys[s], s, live)]
      BY <1>4 DEF Claims
    <2>4. admitted' = [admitted EXCEPT ![s] = Noted(admitted[s], AdmissionRun)] /\ ~Limited(keys[s], s)
      BY <1>4 DEF Claims, ClaimGranted
    <2> HIDE DEF keys
    <2>5. /\ DOMAIN attempts' = Keys /\ attempts' = [k \in Keys |-> attempts'[k]]
          /\ attempts'[s] = consume(keys[s], s, live)
          /\ \A k \in Keys : k # s => attempts'[k] = keys[k]
      BY <2>2, <2>3
    <2>6. KeySpends(s)
      BY <1>3, <2>1, <2>2, <2>3, <2>4, <2>5 DEF KeySpends
    <2>7. \A k \in Keys : k # s => KeyCleans(k)
      BY <1>3, <2>1, <2>4, <2>5 DEF KeyCleans
    <2> QED BY <1>3, <2>4, <2>5, <2>6, <2>7 DEF KeyMoves
  <1>5. ASSUME NEW s \in Sources, NEW scope \in Scopes, NEW K, NEW L, Reserves(s, scope, K, L)
        PROVE  Goal
    <2> DEFINE keys == KeysLeft(K)
    <2>1. \A k \in Keys : KStart(k, keys[k])
      BY <1>5, CleanedRows DEF Reserves
    <2>2. /\ keys = [k \in Keys |-> keys[k]] /\ DOMAIN keys = Keys
          /\ s \in Keys /\ scope \in Keys /\ scope \notin Sources /\ s # scope
      BY AttemptsAssumption DEF KeysLeft, Keys
    <2>3. PICK live \in FirstRead(keys[s].left), here \in FirstRead(keys[scope].left) :
            attempts' = [keys EXCEPT ![s] = consume(keys[s], s, live),
                                     ![scope] = consume(keys[scope], scope, here)]
      BY <1>5 DEF Reserves
    <2>4. /\ admitted' = [admitted EXCEPT ![s] = Noted(admitted[s], AdmissionRun)]
          /\ ~Limited(keys[s], s) /\ ~Limited(keys[scope], scope)
      BY <1>5 DEF Reserves, ReserveGranted
    <2> HIDE DEF keys
    <2>5. /\ DOMAIN attempts' = Keys /\ attempts' = [k \in Keys |-> attempts'[k]]
          /\ attempts'[s] = consume(keys[s], s, live)
          /\ attempts'[scope] = consume(keys[scope], scope, here)
          /\ \A k \in Keys : k # s /\ k # scope => attempts'[k] = keys[k]
      BY <2>2, <2>3
    <2>6. KeySpends(s)
      BY <1>3, <2>1, <2>2, <2>3, <2>4, <2>5 DEF KeySpends
    <2>7. KeySpends(scope)
      BY <2>1, <2>2, <2>3, <2>4, <2>5 DEF KeySpends
    <2>8. \A k \in Keys : k # s /\ k # scope => KeyCleans(k)
      BY <1>3, <2>1, <2>4, <2>5 DEF KeyCleans
    <2> QED BY <1>3, <2>4, <2>5, <2>6, <2>7, <2>8 DEF KeyMoves
  <1>6. ASSUME Tick PROVE Goal
    <2>1. /\ attempts' = [k \in Keys |-> [attempts[k] EXCEPT !.left = Less(@)]]
          /\ admitted' = [s \in Sources |-> Older(admitted[s], SourceSeconds)]
      BY <1>6 DEF Tick
    <2>2. \A k \in Keys : KeyAges(k)
      BY <2>1 DEF KeyAges
    <2> QED BY <2>1, <2>2 DEF KeyMoves
  <1>7. ASSUME NEW w \in Workers, WorkerMoves(w) \/ Settles(w) PROVE Goal
    BY <1>1, <1>7 DEF WorkerMoves, Settles
  <1>8. ASSUME NEW l \in Logins, AccountMoves(l) PROVE Goal
    BY <1>1, <1>8 DEF AccountMoves
  <1>9. ASSUME UNCHANGED vars PROVE Goal
    BY <1>1, <1>9 DEF vars
  <1>10. Steps
    BY Stepwise
  <1> HIDE DEF Goal
  <1>11. ASSUME NEW K, NEW L, Refuses(K, L) \/ \E s \in Sources, scope \in Scopes : Reserves(s, scope, K, L)
         PROVE  Goal
    BY <1>2, <1>5, <1>11
  <1>12. Goal
    BY <1>4, <1>6, <1>7, <1>8, <1>9, <1>10, <1>11, Zenon DEF Steps
  <1> QED BY <1>12 DEF Goal

LEMMA TypesKept ==
  ASSUME TypesInv, [Next]_vars
  PROVE  accounts' \in [Logins -> AccountState] /\ worker' \in [Workers -> Worker]
  <1> DEFINE Goal == accounts' \in [Logins -> AccountState] /\ worker' \in [Workers -> Worker]
  <1>t. accounts \in [Logins -> AccountState] /\ worker \in [Workers -> Worker]
    BY DEF TypesInv
  <1>1. ASSUME UNCHANGED accounts, NEW w \in Workers, NEW new \in Worker,
               worker' = [worker EXCEPT ![w] = new]
        PROVE  Goal
    BY <1>t, <1>1
  <1>2. ASSUME UNCHANGED <<accounts, worker>> PROVE Goal
    BY <1>t, <1>2
  <1>3. ASSUME NEW l \in Logins, clear(l) PROVE worker' \in [Workers -> Worker]
    <2>1. worker' = [w \in Workers |-> IF worker[w].pc # "idle" /\ worker[w].login = l
                                       THEN VoidedWorker(worker[w]) ELSE worker[w]]
      BY <1>3 DEF clear, VoidedWorker
    <2>2. \A w \in Workers : VoidedWorker(worker[w]) \in Worker /\ worker[w] \in Worker
      BY <1>t, WorkerVoided
    <2> QED BY <2>1, <2>2
  <1>4. ASSUME NEW w \in Workers, NEW l \in Logins, NEW s \in Sources, NEW budget \in Budgets,
               NEW K, NEW L, Claims(w, l, s, budget, K, L)
        PROVE  Goal
    <2>1. LeastOf(budget, ClaimSeconds) \in 0 .. ClaimSeconds /\ budget \in Nat
      BY ClaimTime, Limits
    <2>2. ClaimingWorker(l, budget, LeastOf(budget, ClaimSeconds)) \in Worker
      BY <2>1, WorkerClaims
    <2>3. /\ worker' = [worker EXCEPT ![w] = ClaimingWorker(l, budget, LeastOf(budget, ClaimSeconds))]
          /\ UNCHANGED accounts
      BY <1>4 DEF Claims
    <2> QED BY <1>1, <2>2, <2>3
  <1>5. ASSUME NEW w \in Workers, WorkerMoves(w) \/ Settles(w) PROVE Goal
    <2>1. CASE WorkerMoves(w)
      BY <1>1, <2>1, IdleType DEF WorkerMoves, Holds
    <2>2. CASE Settles(w)
      BY <1>1, <2>2, IdleType DEF Settles
    <2> QED BY <1>5, <2>1, <2>2
  <1>6. ASSUME NEW l \in Logins, AccountMoves(l) PROVE Goal
    <2>1. accounts' \in [Logins -> AccountState]
      BY <1>t, <1>6 DEF AccountMoves
    <2> QED BY <1>t, <1>3, <1>6, <2>1 DEF AccountMoves
  <1>7. ASSUME Tick PROVE Goal
    <2>1. worker' = [w \in Workers |-> TickedWorker(worker[w])] /\ UNCHANGED accounts
      BY <1>7 DEF Tick, TickedWorker
    <2>2. \A w \in Workers : TickedWorker(worker[w]) \in Worker
      BY <1>t, WorkerTicked
    <2> QED BY <1>t, <2>1, <2>2
  <1>8. ASSUME NEW K, NEW L, Refuses(K, L) \/ \E s \in Sources, scope \in Scopes : Reserves(s, scope, K, L)
        PROVE  Goal
    BY <1>2, <1>8 DEF Refuses, Reserves
  <1>9. ASSUME UNCHANGED vars PROVE Goal
    BY <1>2, <1>9 DEF vars
  <1>10. Steps
    BY Stepwise
  <1> HIDE DEF Goal
  <1>11. Goal
    BY <1>4, <1>5, <1>6, <1>7, <1>8, <1>9, <1>10, Zenon DEF Steps
  <1> QED BY <1>11 DEF Goal

-----------------------------------------------------------------------------
(* Leases. *)
Leased(w) == worker[w].lease > 0 /\ ~worker[w].voided

LEMMA LeaseFields ==
  ASSUME TypesInv, NEW w \in Workers
  PROVE  /\ worker[w] \in Worker /\ worker[w].login \in Logins /\ worker[w].lease \in Nat
         /\ worker[w].lease <= ClaimSeconds
         /\ worker[w].voided \in BOOLEAN /\ password[worker[w].login] \in PasswordRow
         /\ password[worker[w].login].claim \in Int
  <1>1. worker[w] \in Worker
    BY DEF TypesInv
  <1>2. password[worker[w].login] \in PasswordRow
    BY <1>1, WorkerFields DEF TypesInv
  <1> QED BY <1>1, <1>2, WorkerFields, RowFields, Limits DEF Past

(* A row that is cleaned up was nobody's lease. *)
LEMMA LeaseStarts ==
  ASSUME TypesInv, NEW w \in Workers, LeaseOK(w), NEW old, Start(worker[w].login, old)
  PROVE  /\ Leased(w) => old.token = w /\ old.claim = worker[w].lease
         /\ worker[w].voided => old.token # w
  <1> DEFINE l == worker[w].login
  <1>1. CASE old = password[l]
    BY <1>1 DEF LeaseOK, Leased
  <1>2. CASE Unused(l, 1) /\ old = NoRow
    <2>1. password[l].claim < 1
      BY <1>2 DEF Unused
    <2>2. ~Leased(w)
      BY <2>1, LeaseFields DEF LeaseOK, Leased
    <2>3. old.token = Nobody /\ Nobody # w
      BY <1>2, NoRowType, NobodyAssumption
    <2> QED BY <2>2, <2>3
  <1> QED BY <1>1, <1>2 DEF Start

SameHold(w) ==
  /\ worker'[w].login = worker[w].login /\ worker'[w].lease = worker[w].lease
  /\ worker'[w].voided = worker[w].voided
  /\ worker'[w].pc = "idle" => worker[w].pc = "idle"

LEMMA LeaseKept ==
  ASSUME TypesInv, NEW w \in Workers, LeaseOK(w), SameHold(w),
         Start(worker[w].login, password'[worker[w].login])
  PROVE  LeaseOK(w)'
  <1>1. password'[worker'[w].login] = password'[worker[w].login]
    BY DEF SameHold
  <1> QED BY <1>1, LeaseStarts DEF LeaseOK, Leased, SameHold

LEMMA LeaseEnded ==
  ASSUME NEW w \in Workers, worker'[w] = Idle
  PROVE  LeaseOK(w)'
  BY IdleType DEF LeaseOK

LEMMA LeaseMoved ==
  ASSUME TypesInv, \A w \in Workers : LeaseOK(w), [Next]_vars
  PROVE  \A w \in Workers : LeaseOK(w)'
  <1> DEFINE Goal == \A w \in Workers : LeaseOK(w)'
  <1>t. /\ \A w \in Workers : /\ worker[w] \in Worker /\ worker[w].login \in Logins
                              /\ worker[w].lease \in Nat /\ worker[w].lease <= ClaimSeconds
                              /\ password[worker[w].login].claim \in Int
        /\ worker \in [Workers -> Worker] /\ password \in [Logins -> PasswordRow]
    BY LeaseFields DEF TypesInv
  <1>1. ASSUME UNCHANGED <<worker, password>> PROVE Goal
    BY <1>1, LeaseKept DEF SameHold, Start
  <1>2. ASSUME UNCHANGED worker, NEW K \in CleanedKeys, NEW L \in CleanedLogins(K),
               password' = LoginsLeft(L)
        PROVE  Goal
    <2>1. \A l \in Logins : Start(l, password'[l])
      BY <1>2, CleanedRows
    <2> QED BY <1>t, <1>2, <2>1, LeaseKept DEF SameHold
  <1>3. ASSUME NEW w \in Workers, NEW l \in Logins, NEW s \in Sources, NEW budget \in Budgets,
               NEW K, NEW L, Claims(w, l, s, budget, K, L)
        PROVE  Goal
    <2> DEFINE rows == LoginsLeft(L)
               seconds == LeastOf(budget, ClaimSeconds)
               new == ClaimingWorker(l, budget, seconds)
    <2>1. \A m \in Logins : Start(m, rows[m])
      BY <1>3, CleanedRows DEF Claims
    <2>2. rows = [m \in Logins |-> rows[m]] /\ DOMAIN rows = Logins
      BY DEF LoginsLeft
    <2>3. /\ password' = [rows EXCEPT ![l] = Claimed(rows[l], w, seconds)]
          /\ worker' = [worker EXCEPT ![w] = new] /\ ~Busy(rows[l])
      BY <1>3 DEF Claims, ClaimGranted
    <2>4. seconds \in 1 .. ClaimSeconds /\ seconds \in 0 .. ClaimSeconds /\ budget \in Nat
      BY ClaimTime, Limits
    <2>5. /\ new.pc = "claimed" /\ new.login = l /\ new.lease = seconds /\ new.voided = FALSE
      BY <2>4, WorkerClaims
    <2>6. rows[l] \in PasswordRow
      BY <1>t, <2>1, NoRowType DEF Start
    <2> HIDE DEF rows, seconds, new
    <2>7. /\ password'[l] = Claimed(rows[l], w, seconds)
          /\ \A m \in Logins : m # l => password'[m] = rows[m]
          /\ worker'[w] = new /\ \A v \in Workers : v # w => worker'[v] = worker[v]
      BY <1>t, <2>2, <2>3
    <2>8. password'[l].token = w /\ password'[l].claim = seconds
      BY <2>4, <2>6, <2>7, ClaimedRow
    <2>9. ASSUME NEW v \in Workers PROVE LeaseOK(v)'
      <3>1. CASE v = w
        BY <2>5, <2>7, <2>8, <3>1 DEF LeaseOK
      <3>2. CASE v # w /\ worker[v].login # l
        <4>1. SameHold(v) /\ Start(worker[v].login, password'[worker[v].login])
          BY <1>t, <2>1, <2>7, <3>2 DEF SameHold
        <4> QED BY <4>1, LeaseKept
      <3>3. CASE v # w /\ worker[v].login = l
        <4>1. Leased(v) => rows[l].claim = worker[v].lease
          BY <2>1, <3>3, LeaseStarts
        <4>2. ~Leased(v)
          BY <1>t, <2>3, <4>1 DEF Busy, Leased
        <4>3. worker'[v] = worker[v]
          BY <2>7, <3>3
        <4> QED BY <2>8, <3>3, <4>2, <4>3 DEF LeaseOK, Leased
      <3> QED BY <3>1, <3>2, <3>3
    <2> QED BY <2>9
  <1>4. ASSUME NEW w \in Workers, WorkerMoves(w) PROVE Goal
    <2>1. PICK new : /\ worker' = [worker EXCEPT ![w] = new]
                     /\ new = Idle \/ Holds(new, worker[w])
      BY <1>4 DEF WorkerMoves
    <2>2. worker'[w] = new /\ \A v \in Workers : v # w => worker'[v] = worker[v]
      BY <1>t, <2>1
    <2>3. password' = password
      BY <1>4 DEF WorkerMoves
    <2>4. ASSUME NEW v \in Workers PROVE LeaseOK(v)'
      <3>1. CASE worker'[v] = Idle
        BY <3>1, LeaseEnded
      <3>2. CASE worker'[v] # Idle
        <4>1. SameHold(v)
          BY <2>1, <2>2, <3>2 DEF SameHold, Holds
        <4> QED BY <2>3, <4>1, LeaseKept DEF Start
      <3> QED BY <3>1, <3>2
    <2> QED BY <2>4
  <1>5. ASSUME NEW w \in Workers, Settles(w) PROVE Goal
    <2> DEFINE m == worker[w].login
    <2>0. m \in Logins
      BY <1>t
    <2>1. worker' = [worker EXCEPT ![w] = Idle]
      BY <1>5 DEF Settles
    <2>2. worker'[w] = Idle /\ \A v \in Workers : v # w => worker'[v] = worker[v]
      BY <1>t, <2>1
    <2>3. ASSUME NEW row, row.token = Nobody, owned(w), NEW ages, SettledAs(m, row, ages),
                 NEW v \in Workers, v # w
          PROVE  LeaseOK(v)'
      <3>1. /\ password'[m] = row /\ \A l \in Logins : l # m => password'[l] = password[l]
        <4> HIDE DEF m
        <4> QED BY <1>t, <2>0, <2>3 DEF SettledAs
      <3>2. worker'[v] = worker[v]
        BY <2>2, <2>3
      <3>3. CASE worker[v].login = m
        <4>1. ~Leased(v)
          BY <2>3, <3>3 DEF owned, LeaseOK, Leased
        <4>2. password'[worker'[v].login] = row
          BY <3>1, <3>2, <3>3
        <4> HIDE DEF m
        <4> QED BY <2>3, <3>2, <4>1, <4>2, NobodyAssumption DEF LeaseOK, Leased
      <3>4. CASE worker[v].login # m
        <4>1. SameHold(v) /\ Start(worker[v].login, password'[worker[v].login])
          BY <1>t, <3>1, <3>2, <3>4 DEF SameHold, Start
        <4> QED BY <4>1, LeaseKept
      <3> QED BY <3>3, <3>4
    <2>4. ASSUME NEW v \in Workers, v # w PROVE LeaseOK(v)'
      <3>1. CASE UNCHANGED password
        <4>1. SameHold(v)
          BY <2>2, <2>4 DEF SameHold
        <4> QED BY <3>1, <4>1, LeaseKept DEF Start
      <3>2. CASE owned(w) /\ SettledAs(m, NoRow, << >>)
        BY <2>3, <2>4, <3>2, NoRowType
      <3>3. ASSUME NEW live \in FirstRead(password[m].window), owned(w),
                   SettledAs(m, Counted(password[m], live), Noted(rejected[m], RejectionRun))
            PROVE  LeaseOK(v)'
        <4>1. Counted(password[m], live).token = Nobody
          BY <1>t, <2>0 DEF Counted, PasswordRow
        <4> HIDE DEF m
        <4> QED BY <2>3, <2>4, <3>3, <4>1
      <3>4. CASE owned(w) /\ SettledAs(m, Released(password[m]), rejected[m])
        <4>1. Released(password[m]).token = Nobody
          BY <1>t, <2>0, ReleasedRow
        <4> HIDE DEF m
        <4> QED BY <2>3, <2>4, <3>4, <4>1
      <3> QED BY <1>5, <3>1, <3>2, <3>3, <3>4 DEF Settles
    <2> QED BY <2>2, <2>4, LeaseEnded
  <1>6. ASSUME NEW l \in Logins, clear(l) PROVE Goal
    <2>1. /\ worker' = [w \in Workers |-> IF worker[w].pc # "idle" /\ worker[w].login = l
                                          THEN VoidedWorker(worker[w]) ELSE worker[w]]
          /\ password' = [password EXCEPT ![l] = NoRow]
      BY <1>6 DEF clear, VoidedWorker
    <2>2. password'[l] = NoRow /\ \A m \in Logins : m # l => password'[m] = password[m]
      BY <1>t, <2>1
    <2>3. ASSUME NEW v \in Workers PROVE LeaseOK(v)'
      <3>1. CASE worker[v].login # l
        <4>1. worker'[v] = worker[v]
          BY <2>1, <3>1
        <4>2. SameHold(v) /\ Start(worker[v].login, password'[worker[v].login])
          BY <1>t, <2>2, <3>1, <4>1 DEF SameHold, Start
        <4> QED BY <4>2, LeaseKept
      <3>2. CASE worker[v].login = l /\ worker[v].pc = "idle"
        <4>1. worker'[v] = worker[v]
          BY <2>1, <3>2
        <4>2. worker[v].lease = 0
          BY <3>2 DEF LeaseOK
        <4> QED BY <2>2, <3>2, <4>1, <4>2, NoRowType, NobodyAssumption DEF LeaseOK
      <3>3. CASE worker[v].login = l /\ worker[v].pc # "idle"
        <4>1. worker'[v] = VoidedWorker(worker[v])
          BY <2>1, <3>3
        <4>2. /\ worker'[v].pc = worker[v].pc /\ worker'[v].voided = TRUE
              /\ worker'[v].login = worker[v].login
          BY <1>t, <4>1, WorkerVoided
        <4> QED BY <2>2, <3>3, <4>2, NoRowType, NobodyAssumption DEF LeaseOK
      <3> QED BY <3>1, <3>2, <3>3
    <2> QED BY <2>3
  <1>7. ASSUME NEW l \in Logins, AccountMoves(l) PROVE Goal
    BY <1>1, <1>6, <1>7 DEF AccountMoves
  <1>8. ASSUME Tick PROVE Goal
    <2>1. /\ worker' = [w \in Workers |-> TickedWorker(worker[w])]
          /\ password' = [l \in Logins |-> TickedRow(password[l])]
      BY <1>8 DEF Tick, TickedWorker, TickedRow
    <2>2. ASSUME NEW v \in Workers PROVE LeaseOK(v)'
      <3> DEFINE row == password[worker[v].login]
                 row1 == password'[worker'[v].login]
      <3>1. worker'[v] = TickedWorker(worker[v])
        BY <2>1
      <3>2. /\ worker'[v].pc = worker[v].pc /\ worker'[v].login = worker[v].login
            /\ worker'[v].voided = worker[v].voided
            /\ worker'[v].lease = GreatestOf(0, worker[v].lease - 1)
        BY <1>t, <3>1, WorkerTicked
      <3>3. row1 = TickedRow(row) /\ row \in PasswordRow
        BY <1>t, <2>1, <3>2
      <3>4. row1.token = row.token /\ row1.claim = Less(row.claim)
        BY <3>3, RowTicked
      <3>5. worker'[v].lease > 0 => worker[v].lease > 0 /\ worker'[v].lease = worker[v].lease - 1
        BY <1>t, <3>2 DEF GreatestOf
      <3>6. worker[v].lease = 0 => worker'[v].lease = 0
        BY <3>2 DEF GreatestOf
      <3>7. row.claim = worker[v].lease /\ worker[v].lease > 0 => row1.claim = worker[v].lease - 1
        BY <1>t, <3>4 DEF Less, Past
      <3>8. LeaseOK(v)
        OBVIOUS
      <3> QED BY <3>2, <3>4, <3>5, <3>6, <3>7, <3>8 DEF LeaseOK
    <2> QED BY <2>2
  <1>9. ASSUME NEW K, NEW L, Refuses(K, L) \/ \E s \in Sources, scope \in Scopes : Reserves(s, scope, K, L)
        PROVE  Goal
    BY <1>2, <1>9 DEF Refuses, Reserves
  <1>10. ASSUME UNCHANGED vars PROVE Goal
    BY <1>1, <1>10 DEF vars
  <1>11. ASSUME NEW w \in Workers, WorkerMoves(w) \/ Settles(w) PROVE Goal
    BY <1>4, <1>5, <1>11
  <1>12. Steps
    BY Stepwise
  <1> HIDE DEF Goal
  <1>13. Goal
    BY <1>3, <1>7, <1>8, <1>9, <1>10, <1>11, <1>12, Zenon DEF Steps
  <1> QED BY <1>13 DEF Goal

-----------------------------------------------------------------------------
(* Capacity. *)
Counting(keys) == { k \in Keys : keys[k].count > 0 }
Existing(rows) == { l \in Logins : rows[l].exists }

LEMMA Fewer ==
  ASSUME CapacityInv, NEW X \in SUBSET KeyRows, NEW Y \in SUBSET LoginRows
  PROVE  /\ IsFiniteSet(X) /\ IsFiniteSet(Y)
         /\ Cardinality(X) \in Nat /\ Cardinality(Y) \in Nat
         /\ Cardinality(X) + Cardinality(Y) <= MaxRows
  <1>1. /\ IsFiniteSet(X) /\ Cardinality(X) <= Cardinality(KeyRows)
        /\ IsFiniteSet(Y) /\ Cardinality(Y) <= Cardinality(LoginRows)
    BY FS_Subset DEF CapacityInv
  <1>2. /\ Cardinality(X) \in Nat /\ Cardinality(Y) \in Nat
        /\ Cardinality(KeyRows) \in Nat /\ Cardinality(LoginRows) \in Nat
    BY <1>1, FS_CardinalityType DEF CapacityInv
  <1>3. MaxRows \in Nat
    BY AttemptsAssumption
  <1> QED BY <1>1, <1>2, <1>3 DEF CapacityInv

LEMMA CleanedFewer ==
  ASSUME TypesInv, CapacityInv, NEW K \in CleanedKeys, NEW L \in CleanedLogins(K)
  PROVE  /\ Counting(KeysLeft(K)) \in SUBSET KeyRows
         /\ Existing(LoginsLeft(L)) \in SUBSET LoginRows
         /\ total(KeysLeft(K), LoginsLeft(L))
              = Cardinality(Counting(KeysLeft(K))) + Cardinality(Existing(LoginsLeft(L)))
  <1>1. \A k \in Keys : KeysLeft(K)[k].count > 0 => attempts[k].count > 0
    BY CleanedRows DEF KStart, NoCount
  <1>2. \A l \in Logins : LoginsLeft(L)[l].exists => password[l].exists
    BY CleanedRows, NoRowType DEF Start
  <1> QED BY <1>1, <1>2 DEF Counting, Existing, KeyRows, LoginRows, total

LEMMA OneMore ==
  ASSUME NEW S, IsFiniteSet(S), NEW x
  PROVE  /\ IsFiniteSet(S \cup {x}) /\ Cardinality(S) \in Nat
         /\ Cardinality(S \cup {x}) = Cardinality(S) + (IF x \in S THEN 0 ELSE 1)
  BY FS_AddElement, FS_CardinalityType

LEMMA TwoMore ==
  ASSUME NEW S, IsFiniteSet(S), NEW x, NEW y, x # y
  PROVE  /\ IsFiniteSet(S \cup {x} \cup {y}) /\ Cardinality(S) \in Nat
         /\ Cardinality(S \cup {x} \cup {y})
              = Cardinality(S) + Cardinality({ z \in {x, y} : z \notin S })
  <1>1. /\ IsFiniteSet(S \cup {x}) /\ Cardinality(S) \in Nat
        /\ Cardinality(S \cup {x}) = Cardinality(S) + (IF x \in S THEN 0 ELSE 1)
    BY OneMore
  <1>2. /\ IsFiniteSet(S \cup {x} \cup {y})
        /\ Cardinality(S \cup {x} \cup {y})
             = Cardinality(S \cup {x}) + (IF y \in S THEN 0 ELSE 1)
    BY <1>1, OneMore
  <1>3. Cardinality({}) = 0 /\ Cardinality({x}) = 1 /\ Cardinality({y}) = 1
    BY FS_EmptySet, FS_Singleton
  <1>4. Cardinality({x} \cup {y}) = 2
    <2>1. IsFiniteSet({x}) /\ Cardinality({x}) = 1 /\ y \notin {x}
      BY FS_Singleton
    <2>2. Cardinality({x} \cup {y}) = Cardinality({x}) + (IF y \in {x} THEN 0 ELSE 1)
      BY <2>1, OneMore
    <2> QED BY <2>1, <2>2
  <1> DEFINE Z == { z \in {x, y} : z \notin S }
  <1>5. Cardinality(Z) = (IF x \in S THEN 0 ELSE 1) + (IF y \in S THEN 0 ELSE 1)
    <2>1. CASE x \in S /\ y \in S
      <3>1. Z = {}
        BY <2>1
      <3> QED BY <1>3, <2>1, <3>1
    <2>2. CASE x \notin S /\ y \in S
      <3>1. Z = {x}
        BY <2>2
      <3> QED BY <1>3, <2>2, <3>1
    <2>3. CASE x \in S /\ y \notin S
      <3>1. Z = {y}
        BY <2>3
      <3> QED BY <1>3, <2>3, <3>1
    <2>4. CASE x \notin S /\ y \notin S
      <3>1. Z = {x} \cup {y}
        BY <2>4
      <3> QED BY <1>4, <2>4, <3>1
    <2> QED BY <2>1, <2>2, <2>3, <2>4
  <1> QED BY <1>1, <1>2, <1>5

(* Only a granted transaction adds rows. *)
Shrinks ==
  /\ \A k \in Keys : attempts'[k].count > 0 => attempts[k].count > 0
  /\ \A l \in Logins : password'[l].exists => password[l].exists

LEMMA CapacityShrinks ==
  ASSUME CapacityInv, Shrinks
  PROVE  CapacityInv'
  <1>1. KeyRows' = Counting(attempts') /\ LoginRows' = Existing(password')
    BY DEF KeyRows, LoginRows, Counting, Existing
  <1>2. Counting(attempts') \in SUBSET KeyRows /\ Existing(password') \in SUBSET LoginRows
    BY DEF Shrinks, Counting, Existing, KeyRows, LoginRows
  <1> QED BY <1>1, <1>2, Fewer DEF CapacityInv

LEMMA CapacityMoved ==
  ASSUME TypesInv, \A k \in Keys : KeyOK(k), CapacityInv, [Next]_vars
  PROVE  CapacityInv'
  <1>t. /\ password \in [Logins -> PasswordRow]
        /\ \A w \in Workers : worker[w].login \in Logins
        /\ KeyRows' = Counting(attempts') /\ LoginRows' = Existing(password')
    BY WorkerFields DEF TypesInv, KeyRows, LoginRows, Counting, Existing
  <1>1. ASSUME NEW K, NEW L, Refuses(K, L) PROVE CapacityInv'
    <2>1. /\ Counting(attempts') \in SUBSET KeyRows /\ Existing(password') \in SUBSET LoginRows
      BY <1>1, CleanedFewer DEF Refuses
    <2> QED BY <1>t, <2>1, Fewer DEF CapacityInv
  <1>2. ASSUME NEW w \in Workers, NEW l \in Logins, NEW s \in Sources, NEW budget \in Budgets,
               NEW K, NEW L, Claims(w, l, s, budget, K, L)
        PROVE  CapacityInv'
    <2> DEFINE keys == KeysLeft(K)
               rows == LoginsLeft(L)
               seconds == LeastOf(budget, ClaimSeconds)
               X == Counting(keys)
               Y == Existing(rows)
    <2>1. K \in CleanedKeys /\ L \in CleanedLogins(K) /\ s \in Keys
      BY <1>2, Limits DEF Claims
    <2>2. /\ \A k \in Keys : KStart(k, keys[k])
          /\ \A m \in Logins : Start(m, rows[m])
      BY <2>1, CleanedRows
    <2>3. /\ X \in SUBSET KeyRows /\ Y \in SUBSET LoginRows
          /\ total(keys, rows) = Cardinality(X) + Cardinality(Y)
      BY <2>1, CleanedFewer
    <2>4. /\ ~Limited(keys[s], s)
          /\ total(keys, rows) + (IF keys[s].count = 0 THEN 1 ELSE 0)
               + (IF rows[l].exists THEN 0 ELSE 1) <= MaxRows
      BY <1>2 DEF Claims, ClaimGranted
    <2>5. PICK live \in FirstRead(keys[s].left) :
            attempts' = [keys EXCEPT ![s] = consume(keys[s], s, live)]
      BY <1>2 DEF Claims
    <2>6. /\ keys = [k \in Keys |-> keys[k]] /\ DOMAIN keys = Keys
          /\ rows = [m \in Logins |-> rows[m]] /\ DOMAIN rows = Logins
      BY DEF KeysLeft, LoginsLeft
    <2>7. password' = [rows EXCEPT ![l] = Claimed(rows[l], w, seconds)]
      BY <1>2 DEF Claims
    <2>8. seconds \in 1 .. ClaimSeconds
      BY ClaimTime
    <2>9. keys[s].count \in Nat /\ rows[l] \in PasswordRow
      BY <1>t, <2>1, <2>2, KStarted, NoRowType DEF Start
    <2> HIDE DEF keys, rows, seconds
    <2>10. /\ attempts'[s] = consume(keys[s], s, live)
           /\ \A k \in Keys : k # s => attempts'[k] = keys[k]
           /\ password'[l] = Claimed(rows[l], w, seconds)
           /\ \A m \in Logins : m # l => password'[m] = rows[m]
      BY <2>1, <2>5, <2>6, <2>7
    <2>11. attempts'[s].count > 0 /\ password'[l].exists
      BY <2>1, <2>2, <2>4, <2>8, <2>9, <2>10, SpendsKey, ClaimedRow
    <2>12. Counting(attempts') = X \cup {s} /\ Existing(password') = Y \cup {l}
      BY <2>1, <2>10, <2>11 DEF Counting, Existing
    <2>13. (s \in X <=> keys[s].count # 0) /\ (l \in Y <=> rows[l].exists)
      BY <2>1, <2>9 DEF Counting, Existing
    <2> HIDE DEF X, Y
    <2>14. IsFiniteSet(X) /\ IsFiniteSet(Y) /\ MaxRows \in Nat
      BY <2>3, Fewer, AttemptsAssumption
    <2>15. /\ IsFiniteSet(X \cup {s}) /\ Cardinality(X) \in Nat
           /\ Cardinality(X \cup {s}) = Cardinality(X) + (IF s \in X THEN 0 ELSE 1)
           /\ IsFiniteSet(Y \cup {l}) /\ Cardinality(Y) \in Nat
           /\ Cardinality(Y \cup {l}) = Cardinality(Y) + (IF l \in Y THEN 0 ELSE 1)
      BY <2>14, OneMore
    <2>16. Cardinality(X \cup {s}) + Cardinality(Y \cup {l}) <= MaxRows
      BY <2>3, <2>4, <2>13, <2>14, <2>15
    <2> QED BY <1>t, <2>12, <2>15, <2>16 DEF CapacityInv
  <1>3. ASSUME NEW s \in Sources, NEW scope \in Scopes, NEW K, NEW L, Reserves(s, scope, K, L)
        PROVE  CapacityInv'
    <2> DEFINE keys == KeysLeft(K)
               rows == LoginsLeft(L)
               X == Counting(keys)
               Y == Existing(rows)
    <2>1. /\ K \in CleanedKeys /\ L \in CleanedLogins(K)
          /\ s \in Keys /\ scope \in Keys /\ s # scope
      BY <1>3, AttemptsAssumption DEF Reserves, Keys
    <2>2. \A k \in Keys : KStart(k, keys[k])
      BY <2>1, CleanedRows
    <2>3. /\ X \in SUBSET KeyRows /\ Y \in SUBSET LoginRows
          /\ total(keys, rows) = Cardinality(X) + Cardinality(Y)
      BY <2>1, CleanedFewer
    <2>4. /\ ~Limited(keys[s], s) /\ ~Limited(keys[scope], scope)
          /\ total(keys, rows) + Cardinality({k \in {s, scope} : keys[k].count = 0}) <= MaxRows
      BY <1>3 DEF Reserves, ReserveGranted
    <2>5. PICK live \in FirstRead(keys[s].left), here \in FirstRead(keys[scope].left) :
            attempts' = [keys EXCEPT ![s] = consume(keys[s], s, live),
                                     ![scope] = consume(keys[scope], scope, here)]
      BY <1>3 DEF Reserves
    <2>6. keys = [k \in Keys |-> keys[k]] /\ DOMAIN keys = Keys
      BY DEF KeysLeft
    <2>7. password' = rows
      BY <1>3 DEF Reserves
    <2>8. \A k \in Keys : keys[k].count \in Nat
      BY <2>2, KStarted
    <2> HIDE DEF keys, rows
    <2>9. /\ attempts'[s] = consume(keys[s], s, live)
          /\ attempts'[scope] = consume(keys[scope], scope, here)
          /\ \A k \in Keys : k # s /\ k # scope => attempts'[k] = keys[k]
      BY <2>1, <2>5, <2>6
    <2>10. attempts'[s].count > 0
      BY <2>1, <2>2, <2>4, <2>9, SpendsKey
    <2>11. attempts'[scope].count > 0
      BY <2>1, <2>2, <2>4, <2>9, SpendsKey
    <2>12. Counting(attempts') = X \cup {s} \cup {scope} /\ Existing(password') = Y
      BY <2>1, <2>7, <2>9, <2>10, <2>11 DEF Counting
    <2>13. {k \in {s, scope} : keys[k].count = 0} = {k \in {s, scope} : k \notin X}
      BY <2>1, <2>8 DEF Counting
    <2> HIDE DEF X, Y
    <2>14. /\ IsFiniteSet(X) /\ IsFiniteSet(Y) /\ MaxRows \in Nat /\ Cardinality(Y) \in Nat
      BY <2>3, Fewer, AttemptsAssumption
    <2>15. /\ IsFiniteSet(X \cup {s} \cup {scope}) /\ Cardinality(X) \in Nat
           /\ Cardinality(X \cup {s} \cup {scope})
                = Cardinality(X) + Cardinality({k \in {s, scope} : k \notin X})
      BY <2>1, <2>14, TwoMore
    <2>16. Cardinality({k \in {s, scope} : k \notin X}) \in Nat
      <3>1. {s, scope} = {s} \cup {scope} /\ IsFiniteSet({s})
        BY FS_Singleton
      <3>2. IsFiniteSet({s, scope})
        BY <3>1, OneMore
      <3> QED BY <3>2, FS_Subset, FS_CardinalityType
    <2>17. Cardinality(X \cup {s} \cup {scope}) + Cardinality(Y) <= MaxRows
      <3>1. Cardinality({k \in {s, scope} : keys[k].count = 0})
              = Cardinality({k \in {s, scope} : k \notin X})
        BY <2>13, Zenon
      <3> DEFINE more == Cardinality({k \in {s, scope} : k \notin X})
      <3>2. more \in Nat /\ Cardinality(X) + Cardinality(Y) + more <= MaxRows
        BY <2>3, <2>4, <2>16, <3>1, Zenon
      <3>3. Cardinality(X \cup {s} \cup {scope}) = Cardinality(X) + more
        BY <2>15
      <3> HIDE DEF more
      <3> QED BY <2>14, <2>15, <3>2, <3>3
    <2> QED BY <1>t, <2>12, <2>14, <2>15, <2>17 DEF CapacityInv
  <1>4. ASSUME UNCHANGED <<attempts, password>> PROVE CapacityInv'
    BY <1>4, CapacityShrinks DEF Shrinks
  <1>5. ASSUME NEW w \in Workers, WorkerMoves(w) \/ Settles(w) PROVE CapacityInv'
    <2>1. CASE UNCHANGED <<attempts, password>>
      BY <1>4, <2>1
    <2>2. ASSUME UNCHANGED attempts, NEW m \in Logins, NEW row, NEW ages, SettledAs(m, row, ages),
                 row.exists => password[m].exists
          PROVE  CapacityInv'
      <3>1. password'[m] = row /\ \A l \in Logins : l # m => password'[l] = password[l]
        BY <1>t, <2>2 DEF SettledAs
      <3> QED BY <2>2, <3>1, CapacityShrinks DEF Shrinks
    <2>3. CASE Settles(w) /\ ~UNCHANGED password
      <3> DEFINE m == worker[w].login
      <3>1. m \in Logins /\ UNCHANGED attempts /\ password[m] \in PasswordRow
        BY <1>t, <2>3 DEF Settles
      <3>2. CASE SettledAs(m, NoRow, << >>)
        BY <2>2, <3>1, <3>2, NoRowType
      <3>3. ASSUME NEW live,
                   SettledAs(m, Counted(password[m], live), Noted(rejected[m], RejectionRun))
            PROVE  CapacityInv'
        <4>1. Counted(password[m], live).exists = password[m].exists
          BY <3>1, Zenon DEF Counted, PasswordRow
        <4> HIDE DEF m
        <4> QED BY <2>2, <3>1, <3>3, <4>1
      <3>4. CASE SettledAs(m, Released(password[m]), rejected[m])
        BY <2>2, <3>1, <3>4, ReleasedRow
      <3> QED BY <2>3, <3>2, <3>3, <3>4 DEF Settles
    <2> QED BY <1>5, <2>1, <2>3 DEF WorkerMoves, Settles
  <1>6. ASSUME NEW l \in Logins, AccountMoves(l) PROVE CapacityInv'
    <2>1. CASE clear(l)
      <3>1. password'[l] = NoRow /\ \A m \in Logins : m # l => password'[m] = password[m]
        BY <1>t, <2>1 DEF clear
      <3> QED BY <1>6, <3>1, NoRowType, CapacityShrinks DEF Shrinks, AccountMoves
    <2> QED BY <1>4, <1>6, <2>1 DEF AccountMoves
  <1>7. ASSUME Tick PROVE CapacityInv'
    <2>1. \A l \in Logins : password'[l] = TickedRow(password[l])
      BY <1>7 DEF Tick, TickedRow
    <2>2. \A l \in Logins : password'[l].exists = password[l].exists
      BY <1>t, <2>1, RowTicked
    <2>3. \A k \in Keys : attempts'[k].count = attempts[k].count
      <3> SUFFICES ASSUME NEW k \in Keys PROVE attempts'[k].count = attempts[k].count
        OBVIOUS
      <3>1. attempts'[k] = [attempts[k] EXCEPT !.left = Less(attempts[k].left)]
        BY <1>7 DEF Tick
      <3> QED BY <3>1, KeyFields DEF KeyRow
    <2> QED BY <2>2, <2>3, CapacityShrinks DEF Shrinks
  <1>8. ASSUME UNCHANGED vars PROVE CapacityInv'
    BY <1>4, <1>8 DEF vars
  <1>9. Steps
    BY Stepwise
  <1>10. ASSUME NEW K, NEW L, Refuses(K, L) \/ \E s \in Sources, scope \in Scopes : Reserves(s, scope, K, L)
         PROVE  CapacityInv'
    BY <1>1, <1>3, <1>10
  <1> QED BY <1>2, <1>5, <1>6, <1>7, <1>8, <1>9, <1>10, Zenon DEF Steps

-----------------------------------------------------------------------------
(* The invariant is established and kept. *)
LEMMA InitInv == Init => AttemptsInv
  <1> SUFFICES ASSUME Init PROVE AttemptsInv
    OBVIOUS
  <1>1. /\ accounts = [l \in Logins |-> new_local]
        /\ attempts = [k \in Keys |-> NoCount]
        /\ password = [l \in Logins |-> NoRow]
        /\ worker = [w \in Workers |-> Idle]
        /\ rejected = [l \in Logins |-> << >>]
        /\ admitted = [s \in Sources |-> << >>]
    BY DEF Init, NoCount, Idle
  <1>2. TypesInv
    BY <1>1, NewAccountType, NoRowType, IdleType DEF TypesInv
  <1>3. /\ Aged(<< >>, RejectionRun, FailureSeconds) /\ Aged(<< >>, AdmissionRun, SourceSeconds)
        /\ \A j \in Nat \ {0} : \A x : LongAgo(<< >>, j, x)
    BY Limits DEF Aged, LongAgo
  <1>4. ASSUME NEW l \in Logins PROVE RowOK(l) /\ RejectedOK(l)
    <2>1. password[l] = NoRow /\ rejected[l] = << >>
      BY <1>1
    <2>2. RowOK(l)
      BY <2>1, NoRowType, Limits DEF RowOK
    <2>3. RejectedOK(l)
      BY <1>3, <2>1, NoRowType, Limits DEF RejectedOK
    <2> QED BY <2>2, <2>3
  <1>5. ASSUME NEW k \in Keys PROVE KeyOK(k)
    <2>1. attempts[k].count = 0 /\ attempts[k].left = Past /\ attempts[k] = NoCount
      BY <1>1 DEF NoCount
    <2>2. Limit(k) \in Nat \ {0} /\ Seconds(k) \in Nat \ {0} /\ Past \in Past .. Seconds(k)
      BY Limits DEF Past
    <2> QED BY <2>1, <2>2 DEF KeyOK, NoCount
  <1>6. ASSUME NEW s \in Sources PROVE AdmittedOK(s)
    <2>1. attempts[s].left = Past /\ admitted[s] = << >>
      BY <1>1, Limits DEF NoCount
    <2>2. SourceLimit + 1 \in Nat \ {0} /\ Past < 0
      BY Limits
    <2> QED BY <1>3, <2>1, <2>2 DEF AdmittedOK, Past
  <1>7. ASSUME NEW w \in Workers PROVE LeaseOK(w)
    <2>1. worker[w] = Idle
      BY <1>1
    <2> QED BY <2>1, IdleType DEF LeaseOK
  <1>8. CapacityInv
    <2>1. KeyRows = {}
      BY <1>1 DEF KeyRows, NoCount
    <2>2. LoginRows = {}
      BY <1>1, NoRowType DEF LoginRows
    <2>3. MaxRows \in Nat
      BY AttemptsAssumption
    <2> QED BY <2>1, <2>2, <2>3, FS_EmptySet DEF CapacityInv
  <1> QED BY <1>2, <1>4, <1>5, <1>6, <1>7, <1>8 DEF AttemptsInv

LEMMA StepInv == AttemptsInv /\ [Next]_vars => AttemptsInv'
  <1> SUFFICES ASSUME AttemptsInv, [Next]_vars PROVE AttemptsInv'
    OBVIOUS
  <1>1. /\ TypesInv /\ CapacityInv
        /\ \A l \in Logins : RowOK(l) /\ RejectedOK(l)
        /\ \A k \in Keys : KeyOK(k)
        /\ \A s \in Sources : AdmittedOK(s)
        /\ \A w \in Workers : LeaseOK(w)
    BY DEF AttemptsInv
  <1>2. \A l \in Logins : RowOK(l)' /\ RejectedOK(l)'
    BY <1>1, RowsMove, RowMoved
  <1>3. \A k \in Keys : KeyOK(k)'
    BY <1>1, KeysMove, KeyMoved
  <1>4. \A s \in Sources : AdmittedOK(s)'
    BY <1>1, KeysMove, AdmittedMoved, Limits
  <1>5. \A w \in Workers : LeaseOK(w)'
    BY <1>1, LeaseMoved
  <1>6. CapacityInv'
    BY <1>1, CapacityMoved
  <1>7. TypesInv'
    <2>1. \A l \in Logins : password'[l] \in PasswordRow
      BY <1>2 DEF RowOK
    <2>2. password' \in [Logins -> PasswordRow]
      BY <1>1, <2>1, RowsMove
    <2> QED BY <1>1, <2>2, TypesKept, RowsMove, KeysMove DEF TypesInv
  <1> QED BY <1>2, <1>3, <1>4, <1>5, <1>6, <1>7 DEF AttemptsInv

-----------------------------------------------------------------------------
(***************************************************************************)
(* The rows, the histories they stand for, the leases and the row cap stay  *)
(* as AttemptsInv says in every behaviour of claim_password, check_password, *)
(* settle_password, reserve, clear and their crashes.                       *)
(***************************************************************************)
THEOREM AttemptsInvariant == Spec => []AttemptsInv
  BY InitInv, StepInv, PTL DEF Spec

(***************************************************************************)
(* The state always has its type: a count never passes its limit by more    *)
(* than the one a clock read can let through.                               *)
(***************************************************************************)
THEOREM TypesHold == Spec => []TypeOK
  <1>1. AttemptsInv => TypeOK
    <2> SUFFICES ASSUME AttemptsInv PROVE TypeOK
      OBVIOUS
    <2>1. TypesInv
      BY DEF AttemptsInv
    <2>2. \A k \in Keys : /\ attempts[k] \in KeyRow(k) /\ attempts[k].count <= Limit(k) + 1
                          /\ attempts[k].left \in Past .. Seconds(k) /\ Seconds(k) \in Nat
      BY Limits DEF AttemptsInv, KeyOK, KeyRow
    <2>3. \A k \in Keys : attempts[k] \in [count : Nat, left : Int]
      BY <2>2, Limits DEF KeyRow, Past
    <2>4. attempts \in [Keys -> [count : Nat, left : Int]]
      BY <2>1, <2>3 DEF TypesInv
    <2>5. \A l \in Logins : rejected[l] \in Seq(0 .. FailureSeconds)
      BY DEF AttemptsInv, RejectedOK, Aged
    <2>6. \A s \in Sources : admitted[s] \in Seq(0 .. SourceSeconds)
      BY DEF AttemptsInv, AdmittedOK, Aged
    <2>7. ASSUME NEW n \in Nat, NEW q \in Seq(0 .. n) PROVE q \in Seq(Nat)
      BY SeqMonotonic, 0 .. n \subseteq Nat
    <2>8. rejected \in [Logins -> Seq(Nat)] /\ admitted \in [Sources -> Seq(Nat)]
      BY <2>1, <2>5, <2>6, <2>7, Limits DEF TypesInv
    <2> QED BY <2>1, <2>2, <2>4, <2>8 DEF TypeOK, TypesInv
  <1> QED BY <1>1, AttemptsInvariant, PTL

(***************************************************************************)
(* Any run of twice FailureLimit counted rejections spans a whole window,    *)
(* whatever the limit, the window, the number of verifications and the       *)
(* instants at which the clock is read (claim_password, settle_password).    *)
(***************************************************************************)
THEOREM GuessesAreRationed == Spec => []GuessRate
  <1>1. AttemptsInv => GuessRate
    <2> SUFFICES ASSUME AttemptsInv, NEW l \in Logins, Len(rejected[l]) = RejectionRun
                 PROVE  rejected[l][1] >= FailureSeconds
      BY DEF GuessRate
    <2> DEFINE row == password[l]
               ages == rejected[l]
    <2>1. /\ row \in PasswordRow /\ Aged(ages, RejectionRun, FailureSeconds)
          /\ row.window <= 0 => LongAgo(ages, FailureLimit, FailureSeconds)
          /\ row.window > 0 => LongAgo(ages, FailureLimit + row.failures, FailureSeconds)
      BY DEF AttemptsInv, RowOK, RejectedOK
    <2>2. /\ row.failures \in 0 .. FailureLimit /\ row.window \in Int
          /\ FailureLimit \in Nat \ {0} /\ FailureSeconds \in Nat /\ FailureSeconds \in Int
          /\ RejectionRun = FailureLimit + FailureLimit /\ RejectionRun \in Nat
      BY <2>1, RowFields, Limits DEF Past, RejectionRun
    <2> DEFINE j == IF row.window > 0 THEN FailureLimit + row.failures ELSE FailureLimit
    <2>3. j \in Nat \ {0} /\ j <= RejectionRun /\ LongAgo(ages, j, FailureSeconds)
      BY <2>1, <2>2
    <2> HIDE DEF j, ages
    <2>4. LongAgo(ages, RejectionRun, FailureSeconds)
      BY <2>1, <2>2, <2>3, LongerAgo
    <2>5. Len(ages) = RejectionRun
      BY DEF ages
    <2>6. Len(ages) - RejectionRun + 1 = 1 /\ RejectionRun <= Len(ages)
      BY <2>2, <2>5
    <2>7. ages[1] >= FailureSeconds
      BY <2>4, <2>6 DEF LongAgo, Ago
    <2> QED BY <2>7 DEF ages
  <1> QED BY <1>1, AttemptsInvariant, PTL

(***************************************************************************)
(* Any run of twice a source's limit and one admissions spans a whole        *)
(* window (attempt and consume of attempts.rs).                             *)
(***************************************************************************)
THEOREM AdmissionsAreRationed == Spec => []AdmissionRate
  <1>1. AttemptsInv => AdmissionRate
    <2> SUFFICES ASSUME AttemptsInv, NEW s \in Sources, Len(admitted[s]) = AdmissionRun
                 PROVE  admitted[s][1] >= SourceSeconds
      BY DEF AdmissionRate
    <2> DEFINE row == attempts[s]
               ages == admitted[s]
    <2>1. /\ Aged(ages, AdmissionRun, SourceSeconds)
          /\ row.left <= 0 => LongAgo(ages, SourceLimit + 1, SourceSeconds)
          /\ row.left > 0 => LongAgo(ages, SourceLimit + 1 + row.count, SourceSeconds)
      BY DEF AttemptsInv, AdmittedOK
    <2>2. /\ row.count \in Nat /\ row.left \in Int
          /\ row.left > 0 => row.count <= SourceLimit
          /\ SourceLimit \in Nat \ {0} /\ SourceSeconds \in Nat /\ SourceSeconds \in Int
          /\ AdmissionRun = SourceLimit + 1 + SourceLimit /\ AdmissionRun \in Nat
      <3>1. s \in Keys /\ KeyOK(s) /\ Limit(s) = SourceLimit
        BY Limits DEF AttemptsInv
      <3> QED BY <3>1, KeyFields, Limits DEF KeyOK, Past, AdmissionRun
    <2> DEFINE j == IF row.left > 0 THEN SourceLimit + 1 + row.count ELSE SourceLimit + 1
    <2>3. j \in Nat \ {0} /\ j <= AdmissionRun /\ LongAgo(ages, j, SourceSeconds)
      BY <2>1, <2>2
    <2> HIDE DEF j, ages
    <2>4. LongAgo(ages, AdmissionRun, SourceSeconds)
      BY <2>1, <2>2, <2>3, LongerAgo
    <2>5. Len(ages) = AdmissionRun
      BY DEF ages
    <2>6. Len(ages) - AdmissionRun + 1 = 1 /\ AdmissionRun <= Len(ages)
      BY <2>2, <2>5
    <2>7. ages[1] >= SourceSeconds
      BY <2>4, <2>6 DEF LongAgo, Ago
    <2> QED BY <2>7 DEF ages
  <1> QED BY <1>1, AttemptsInvariant, PTL

(***************************************************************************)
(* The attempt tables never outgrow MaxRows, and an exhausted row is         *)
(* nobody's claim (claim_password, reserve, cleanup).                       *)
(***************************************************************************)
THEOREM TablesAreBounded == Spec => []WithinCapacity
  <1>1. AttemptsInv => WithinCapacity
    <2> SUFFICES ASSUME AttemptsInv PROVE WithinCapacity
      OBVIOUS
    <2>1. total(attempts, password) <= MaxRows
      BY DEF AttemptsInv, CapacityInv, KeyRows, LoginRows, total
    <2>2. \A l \in Logins : password[l].failures = FailureLimit => password[l].token = Nobody
      BY DEF AttemptsInv, RowOK
    <2> QED BY <2>1, <2>2 DEF WithinCapacity
  <1> QED BY <1>1, AttemptsInvariant, PTL

(***************************************************************************)
(* Two verifications of a login never hold live claims at once, unless a     *)
(* credential change voided one (claim_password, clear).                    *)
(***************************************************************************)
THEOREM ClaimsExclude == Spec => []OneVerifier
  <1>1. AttemptsInv => OneVerifier
    <2> SUFFICES ASSUME AttemptsInv, NEW v \in Workers, NEW w \in Workers,
                        v # w, worker[v].login = worker[w].login,
                        worker[v].lease > 0, worker[w].lease > 0,
                        ~worker[v].voided, ~worker[w].voided
                 PROVE  FALSE
      BY DEF OneVerifier
    <2>1. LeaseOK(v) /\ LeaseOK(w)
      BY DEF AttemptsInv
    <2> QED BY <2>1 DEF LeaseOK
  <1> QED BY <1>1, AttemptsInvariant, PTL

(***************************************************************************)
(* A verification that was voided or taken over changes no row when it       *)
(* settles (settle_password).                                               *)
(***************************************************************************)
THEOREM LateAnswersDoNothing == Spec => LateAnswersAreIgnored
  <1> DEFINE Ignored ==
        \A w \in Workers :
          /\ settle_password(w)
          /\ worker[w].voided \/ password[worker[w].login].token # w
          => UNCHANGED password
  <1>1. AttemptsInv /\ [Next]_vars => [Ignored]_vars
    <2> SUFFICES ASSUME AttemptsInv, NEW w \in Workers, settle_password(w),
                        worker[w].voided \/ password[worker[w].login].token # w
                 PROVE  UNCHANGED password
      OBVIOUS
    <2>1. ~owned(w)
      BY DEF AttemptsInv, LeaseOK, owned
    <2> QED BY <2>1 DEF settle_password
  <1> QED BY <1>1, AttemptsInvariant, PTL DEF Spec, LateAnswersAreIgnored

-----------------------------------------------------------------------------
(***************************************************************************)
(* The pool (PasswordKdf).                                                  *)
(*                                                                         *)
(* Neither property is inductive alone.  NeverWider needs that a permit is   *)
(* taken for a call that is not computing yet (LockedInv); DrainedForGood    *)
(* needs that the tracker's tokens are the computations, and that nothing   *)
(* is admitted once shutdown waits (ClosedInv).                             *)
(***************************************************************************)

(* Every computation holds one permit and one token. *)
CountInv ==
  /\ IsFiniteSet(Computing)
  /\ permits + Cardinality(Computing) = MAX_CONCURRENCY
  /\ tokens = Cardinality(Computing)

(* A caller inside the mutex has no computation yet, one that waits has one. *)
LockedInv ==
  \A c \in Calls : /\ call[c] = "locked" => closure[c] = "none"
                   /\ call[c] = "awaiting" => closure[c] # "none"

(* Admission is over when shutdown waits, computation when it has drained. *)
ClosedInv ==
  /\ shutdown \in {"waiting", "drained", "overrun"} => ~open
  /\ shutdown = "drained" => tokens = 0

KdfInv == KdfTypeOK /\ CountInv /\ LockedInv /\ ClosedInv

-----------------------------------------------------------------------------
(* What a step does to the set of computations. *)
LEMMA AdmitComputes ==
  ASSUME KdfTypeOK, NEW c \in Calls, admit(c)
  PROVE  Computing' = Computing \cup {c}
  BY DEF KdfTypeOK, admit, Computing

LEMMA FinishComputes ==
  ASSUME KdfTypeOK, NEW c \in Calls, finish(c)
  PROVE  Computing' = Computing \ {c} /\ c \in Computing
  BY DEF KdfTypeOK, finish, Computing

LEMMA RunComputes ==
  ASSUME KdfTypeOK, NEW c \in Calls, run(c)
  PROVE  Computing' = Computing
  BY DEF KdfTypeOK, run, Computing

LEMMA OthersCompute == ASSUME UNCHANGED closure PROVE Computing' = Computing
  BY DEF Computing

(* The counts add up at first. *)
LEMMA InitKdf == KdfInit => KdfInv
  <1> SUFFICES ASSUME KdfInit PROVE KdfInv  OBVIOUS
  <1>1. KdfTypeOK  BY KdfAssumption DEF KdfInit, KdfTypeOK
  <1>2. Computing = {}  BY DEF KdfInit, Computing
  <1>3. CountInv  BY <1>2, KdfAssumption, FS_EmptySet DEF KdfInit, CountInv
  <1>4. LockedInv /\ ClosedInv  BY DEF KdfInit, LockedInv, ClosedInv
  <1> QED BY <1>1, <1>3, <1>4 DEF KdfInv

-----------------------------------------------------------------------------
(* Every step keeps the counts and the order of shutdown. *)
LEMMA StepKdf == KdfInv /\ [KdfNext]_kdf_vars => KdfInv'
  <1> SUFFICES ASSUME KdfInv, [KdfNext]_kdf_vars PROVE KdfInv'  OBVIOUS
  <1> USE DEF KdfInv
  <1>1. ASSUME NEW c \in Calls, lock(c) PROVE KdfInv'
    <2>1. CountInv'  BY <1>1, OthersCompute DEF lock, CountInv
    <2>2. KdfTypeOK'  BY <1>1 DEF lock, KdfTypeOK
    <2>3. LockedInv' /\ ClosedInv'  BY <1>1 DEF lock, KdfTypeOK, LockedInv, ClosedInv
    <2> QED BY <2>1, <2>2, <2>3
  <1>2. ASSUME NEW c \in Calls, admit(c) PROVE KdfInv'
    <2>1. c \notin Computing  BY <1>2 DEF admit, LockedInv, Computing
    <2>2. Computing' = Computing \cup {c}  BY <1>2, AdmitComputes
    <2>3. /\ IsFiniteSet(Computing')
          /\ Cardinality(Computing') = Cardinality(Computing) + 1
          /\ Cardinality(Computing) \in Nat
      BY <2>1, <2>2, FS_AddElement, FS_CardinalityType DEF CountInv
    <2>4. CountInv'  BY <1>2, <2>3, KdfAssumption DEF admit, CountInv, KdfTypeOK
    <2>5. KdfTypeOK'  BY <1>2, KdfAssumption DEF admit, Admits, KdfTypeOK
    <2>6. LockedInv' /\ ClosedInv'
      BY <1>2 DEF admit, Admits, KdfTypeOK, LockedInv, ClosedInv
    <2> QED BY <2>4, <2>5, <2>6
  <1>3. ASSUME NEW c \in Calls, refuse(c) PROVE KdfInv'
    <2>1. CountInv'  BY <1>3, OthersCompute DEF refuse, CountInv
    <2>2. KdfTypeOK'  BY <1>3 DEF refuse, KdfTypeOK
    <2>3. LockedInv' /\ ClosedInv'  BY <1>3 DEF refuse, KdfTypeOK, LockedInv, ClosedInv
    <2> QED BY <2>1, <2>2, <2>3
  <1>4. ASSUME NEW c \in Calls, run(c) PROVE KdfInv'
    <2>1. CountInv'  BY <1>4, RunComputes DEF run, CountInv
    <2>2. KdfTypeOK'  BY <1>4 DEF run, KdfTypeOK
    <2>3. LockedInv' /\ ClosedInv'  BY <1>4 DEF run, KdfTypeOK, LockedInv, ClosedInv
    <2> QED BY <2>1, <2>2, <2>3
  <1>5. ASSUME NEW c \in Calls, finish(c) PROVE KdfInv'
    <2>1. Computing' = Computing \ {c} /\ c \in Computing  BY <1>5, FinishComputes
    <2>2. /\ IsFiniteSet(Computing')
          /\ Cardinality(Computing') = Cardinality(Computing) - 1
          /\ Cardinality(Computing) \in Nat /\ Cardinality(Computing') \in Nat
      BY <2>1, FS_RemoveElement, FS_CardinalityType DEF CountInv
    <2>3. CountInv'
      BY <1>5, <2>2, KdfAssumption DEF finish, TokenDropped, CountInv, KdfTypeOK
    <2>4. KdfTypeOK'
      BY <1>5, <2>2, <2>3, KdfAssumption DEF finish, TokenDropped, CountInv, KdfTypeOK
    <2>5. tokens # 0  BY <2>2 DEF CountInv
    <2>6. LockedInv' /\ ClosedInv'
      BY <1>5, <2>5 DEF finish, KdfTypeOK, LockedInv, ClosedInv
    <2> QED BY <2>3, <2>4, <2>6
  <1>6. ASSUME NEW c \in Calls, cancel(c) PROVE KdfInv'
    <2>1. CountInv'  BY <1>6, OthersCompute DEF cancel, Returned, CountInv
    <2>2. KdfTypeOK'  BY <1>6 DEF cancel, Returned, KdfTypeOK
    <2>3. LockedInv' /\ ClosedInv'  BY <1>6 DEF cancel, KdfTypeOK, LockedInv, ClosedInv
    <2> QED BY <2>1, <2>2, <2>3
  <1>7. ASSUME close_lock \/ close \/ wait_closed \/ Overrun PROVE KdfInv'
    <2>1. CountInv'
      BY <1>7, OthersCompute DEF close_lock, close, wait_closed, Overrun, CountInv
    <2>2. KdfTypeOK'  BY <1>7 DEF close_lock, close, wait_closed, Overrun, KdfTypeOK
    <2>3. LockedInv' /\ ClosedInv'
      BY <1>7 DEF close_lock, close, wait_closed, Overrun, LockedInv, ClosedInv
    <2> QED BY <2>1, <2>2, <2>3
  <1>8. CASE UNCHANGED kdf_vars
    <2>1. CountInv'  BY <1>8, OthersCompute DEF kdf_vars, CountInv
    <2>2. KdfTypeOK' /\ LockedInv' /\ ClosedInv'
      BY <1>8 DEF kdf_vars, KdfTypeOK, LockedInv, ClosedInv
    <2> QED BY <2>1, <2>2
  <1> QED BY <1>1, <1>2, <1>3, <1>4, <1>5, <1>6, <1>7, <1>8 DEF KdfNext

(* The counts hold in every reachable state, for every number of calls and   *)
(* permits: a permit and a token are out for exactly the computations under  *)
(* way, cancelled callers or not.                                           *)
THEOREM PermitsAreComputations == KdfSpec => []KdfInv
  <1>1. KdfInit => KdfInv  BY InitKdf
  <1>2. KdfInv /\ [KdfNext]_kdf_vars => KdfInv'  BY StepKdf
  <1> QED BY <1>1, <1>2, PTL DEF KdfSpec

(* Memory-hard work never runs wider than the pool (compute's permit is      *)
(* owned by the closure, not by the caller).                                *)
THEOREM PoolNeverWider == KdfSpec => []NeverWider
  <1>1. KdfInv => NeverWider  BY DEF KdfInv, CountInv, NeverWider
  <1> QED BY <1>1, PermitsAreComputations, PTL

(* After wait_closed no computation is left and none will ever start. *)
THEOREM PoolDrainedForGood == KdfSpec => []DrainedForGood
  <1>1. KdfInv => DrainedForGood
    <2> SUFFICES ASSUME KdfInv, shutdown = "drained"
                 PROVE  ~open /\ Computing = {} /\ \A c \in Calls : call[c] # "awaiting"
      BY DEF DrainedForGood
    <2>1. ~open /\ tokens = 0  BY DEF KdfInv, ClosedInv
    <2>2. Computing = {}  BY <2>1, FS_EmptySet DEF KdfInv, CountInv
    <2>3. \A c \in Calls : call[c] # "awaiting"
      BY <2>2 DEF KdfInv, LockedInv, Computing
    <2> QED BY <2>1, <2>2, <2>3
  <1> QED BY <1>1, PermitsAreComputations, PTL
=============================================================================
