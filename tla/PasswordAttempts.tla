--------------------------- MODULE PasswordAttempts ---------------------------
(***************************************************************************)
(* The guard in front of password verification and of the other anonymous   *)
(* entry points (crates/identity-postgres: attempts.rs, password_attempts.rs *)
(* and verify_password, check_password of operations.rs).                   *)
(*                                                                         *)
(* A verification is three or four transactions: claim_password, the         *)
(* snapshot, the check that the account is still current, settle_password.  *)
(* The password computation runs between them, holding no lock.  The claim  *)
(* row is what remains of a verification whose process was cancelled or     *)
(* crashed.                                                                *)
(*                                                                         *)
(* Time is kept as what is left: `left` is positive while a timestamp is in *)
(* the future, 0 in the instant it passes and Past afterwards (a NULL       *)
(* timestamp is also Past: the code treats both alike).  The code reads     *)
(* clock_timestamp() more than once in a statement, so in the instant a     *)
(* timestamp passes the first read may still see it in the future and the   *)
(* second one may not: FirstRead.                                           *)
(***************************************************************************)
EXTENDS AccountPolicy, FiniteSets, Sequences

CONSTANTS
  Logins,         \* normalised login names
  Sources,        \* trusted request sources
  Scopes,         \* scopes of OIDC and platform attempts
  Workers,        \* verifications in flight
  Budgets,        \* request deadlines
  FailureLimit,   \* PASSWORD_FAILURE_LIMIT
  FailureSeconds, \* PASSWORD_FAILURE_SECONDS
  ClaimSeconds,   \* longest claim (60 seconds)
  SourceLimit, SourceSeconds, \* ATTEMPT_SOURCE_LIMIT, ATTEMPT_SOURCE_SECONDS
  ScopeLimit, ScopeSeconds,   \* ATTEMPT_SCOPE_LIMIT, ATTEMPT_SCOPE_SECONDS
  MaxRows,        \* MAX_ATTEMPT_ROWS
  CleanupBatch    \* rows one cleanup may delete (128)

ASSUME AttemptsAssumption ==
  /\ {FailureLimit, FailureSeconds, ClaimSeconds, SourceLimit, SourceSeconds,
      ScopeLimit, ScopeSeconds, CleanupBatch} \subseteq Nat \ {0}
  /\ MaxRows \in Nat
  /\ Logins # {}
  /\ Budgets \subseteq Nat \ {0}
  /\ Sources \cap Scopes = {}

Keys == Sources \cup Scopes
Past == -1
Nobody == 0
ASSUME NobodyAssumption == Nobody \notin Workers

VARIABLES
  accounts, \* the account behind each login
  attempts, \* rows of identity_authority.attempts; count 0 is no row
  password, \* rows of identity_authority.password_attempts
  worker,   \* verifications in flight
  rejected, \* history: ages of the latest counted rejections of a login
  admitted  \* history: ages of the latest admissions of a source

vars == <<accounts, attempts, password, worker, rejected, admitted>>

(* How many ages the histories keep: one more than the properties allow      *)
(* within a window.                                                         *)
RejectionRun == 2 * FailureLimit
Limit(k) == IF k \in Sources THEN SourceLimit ELSE ScopeLimit
AdmissionRun == 2 * SourceLimit + 1
Seconds(k) == IF k \in Sources THEN SourceSeconds ELSE ScopeSeconds

(* A claim's token is the verification that drew it: a verification holds   *)
(* one claim at a time, and a new claim overwrites the row's token.         *)
Outcome == {"none", "candidate", "wrong", "inactive", "moved", "unavailable"}
PasswordRow ==
  [ exists : BOOLEAN, failures : 0 .. FailureLimit, window : Past .. FailureSeconds,
    token : Workers \cup {Nobody}, claim : Past .. ClaimSeconds ]
NoRow == [ exists |-> FALSE, failures |-> 0, window |-> Past,
           token |-> Nobody, claim |-> Past ]

(* `left` is what remains of the request's deadline.  History: `lease` is    *)
(* what remains of the claim it was granted, `voided` whether the login's   *)
(* attempts were cleared since.                                             *)
Worker ==
  [ pc : {"idle", "claimed", "snapshot", "checked"}, login : Logins, left : Nat,
    snap : AccountState, outcome : Outcome, lease : 0 .. ClaimSeconds, voided : BOOLEAN ]
NoWork(l) == [ pc |-> "idle", login |-> l, left |-> 0, snap |-> new_local,
               outcome |-> "none", lease |-> 0, voided |-> FALSE ]
AnyLogin == CHOOSE l \in Logins : TRUE

TypeOK ==
  /\ accounts \in [Logins -> AccountState]
  /\ attempts \in [Keys -> [count : Nat, left : Int]]
  /\ \A k \in Keys : attempts[k].count <= Limit(k) + 1 /\ attempts[k].left \in Past .. Seconds(k)
  /\ password \in [Logins -> PasswordRow]
  /\ worker \in [Workers -> Worker]
  /\ rejected \in [Logins -> Seq(Nat)]
  /\ admitted \in [Sources -> Seq(Nat)]

Init ==
  /\ accounts = [l \in Logins |-> new_local]
  /\ attempts = [k \in Keys |-> [count |-> 0, left |-> Past]]
  /\ password = [l \in Logins |-> NoRow]
  /\ worker = [w \in Workers |-> NoWork(AnyLogin)]
  /\ rejected = [l \in Logins |-> <<>>]
  /\ admitted = [s \in Sources |-> <<>>]

-----------------------------------------------------------------------------
(* What the first of several clock reads may see. *)
FirstRead(left) == IF left = 0 THEN BOOLEAN ELSE {left > 0}

(* The latest n ages, with a new one. *)
Noted(ages, n) ==
  LET longer == Append(ages, 0) IN
  IF Len(longer) > n THEN Tail(longer) ELSE longer

(***************************************************************************)
(* cleanup: delete expired attempts and unclaimed, expired password rows,   *)
(* at most CleanupBatch in all, attempts first.  In the instant a row       *)
(* expires it may or may not be seen.                                       *)
(***************************************************************************)
Expired(k, seen) == attempts[k].count > 0 /\ attempts[k].left < seen
Unused(l, seen) == password[l].exists /\ password[l].window < seen /\ password[l].claim < seen

CleanedKeys ==
  { K \in SUBSET { k \in Keys : Expired(k, 1) } :
      /\ Cardinality(K) <= CleanupBatch
      /\ Cardinality(K) < CleanupBatch => { k \in Keys : Expired(k, 0) } \subseteq K }
CleanedLogins(K) ==
  LET batch == CleanupBatch - Cardinality(K) IN
  { L \in SUBSET { l \in Logins : Unused(l, 1) } :
      /\ Cardinality(L) <= batch
      /\ Cardinality(L) < batch => { l \in Logins : Unused(l, 0) } \subseteq L }

(* The two tables after cleanup has deleted K and L. *)
KeysLeft(K) == [k \in Keys |-> IF k \in K THEN [count |-> 0, left |-> Past] ELSE attempts[k]]
LoginsLeft(L) == [l \in Logins |-> IF l \in L THEN NoRow ELSE password[l]]

total(keys, logins) ==
  Cardinality({k \in Keys : keys[k].count > 0}) + Cardinality({l \in Logins : logins[l].exists})

(***************************************************************************)
(* attempt and consume.  The count is read first; the limit is enforced by  *)
(* a second read, so in the instant of expiry an exhausted row can admit    *)
(* one more, on the window that has then passed.                            *)
(***************************************************************************)

(* A plausible slip: one more than the limit is let through. *)
Mutant_LimitedLate(row, k) == row.count > Limit(k) /\ row.left > 0

Limited(row, k) == row.count >= Limit(k) /\ row.left > 0
consume(row, k, live) ==
  IF row.count > 0 /\ live
  THEN [row EXCEPT !.count = @ + 1, !.left = IF @ = 0 THEN Past ELSE @]
  ELSE [count |-> 1, left |-> Seconds(k)]

(***************************************************************************)
(* claim_password.  A refusal commits its cleanup and nothing else.  A       *)
(* granted claim resets the count of a window that has passed, replaces a   *)
(* claim that has run out, and spends the source's budget.                  *)
(***************************************************************************)

(* Plausible slips: a claim's owner is not waited for; a claim holds its     *)
(* login until it is settled.                                               *)
Mutant_NeverBusy(row) == FALSE
Mutant_BusyUntilSettled(row) == row.token # Nobody

Exhausted(row) == row.failures = FailureLimit /\ row.window > 0
Busy(row) == row.claim > 0

(* A plausible slip: the row cap forgets the row the login itself adds. *)
Mutant_CapCountsSourcesOnly(keys, logins, l, s) ==
  /\ ~Limited(keys[s], s)
  /\ ~Exhausted(logins[l])
  /\ ~Busy(logins[l])
  /\ total(keys, logins) + (IF keys[s].count = 0 THEN 1 ELSE 0) <= MaxRows

ClaimGranted(keys, logins, l, s) ==
  /\ ~Limited(keys[s], s)
  /\ ~Exhausted(logins[l])
  /\ ~Busy(logins[l])
  /\ total(keys, logins) + (IF keys[s].count = 0 THEN 1 ELSE 0)
       + (IF logins[l].exists THEN 0 ELSE 1) <= MaxRows

(* A plausible slip: a new claim starts the row afresh. *)
Mutant_ClaimForgetsFailures(row, w, seconds) ==
  [ NoRow EXCEPT !.exists = TRUE, !.token = w, !.claim = seconds ]

Claimed(row, w, seconds) ==
  [ exists |-> TRUE, token |-> w, claim |-> seconds,
    failures |-> IF row.window > 0 THEN row.failures ELSE 0,
    window |-> IF row.window > 0 THEN row.window ELSE Past ]

claim_password(w, l, s, budget) ==
  /\ worker[w].pc = "idle"
  /\ \E K \in CleanedKeys : \E L \in CleanedLogins(K), live \in FirstRead(KeysLeft(K)[s].left) :
       LET keys == KeysLeft(K) logins == LoginsLeft(L) IN
       \/ /\ ~ClaimGranted(keys, logins, l, s)
          /\ attempts' = keys
          /\ password' = logins
          /\ UNCHANGED <<worker, admitted>>
       \/ /\ ClaimGranted(keys, logins, l, s)
          /\ attempts' = [keys EXCEPT ![s] = consume(@, s, live)]
          /\ password' = [logins EXCEPT ![l] = Claimed(@, w, LeastOf(budget, ClaimSeconds))]
          /\ worker' = [worker EXCEPT ![w] =
               [NoWork(l) EXCEPT !.pc = "claimed", !.left = budget,
                                 !.lease = LeastOf(budget, ClaimSeconds)]]
          /\ admitted' = [admitted EXCEPT ![s] = Noted(@, AdmissionRun)]
  /\ UNCHANGED <<accounts, rejected>>

(* check_password, first transaction: read the account behind the login. *)
read_snapshot(w) ==
  /\ worker[w].pc = "claimed"
  /\ worker[w].left > 0
  /\ worker' = [worker EXCEPT ![w].pc = "snapshot", ![w].snap = accounts[worker[w].login]]
  /\ UNCHANGED <<accounts, attempts, password, rejected, admitted>>

(***************************************************************************)
(* check_password, the computation and the second transaction.  An unknown  *)
(* login fails like a wrong password.                                       *)
(***************************************************************************)
check_password(w, outcome) ==
  LET account == accounts[worker[w].login] snap == worker[w].snap IN
  /\ worker[w].pc = "snapshot"
  /\ worker[w].left > 0
  /\ \/ outcome \in {"wrong", "unavailable"}
     \/ outcome = "inactive" /\ (~active(snap) \/ ~active(account))
     \/ outcome = "moved" /\ active(snap) /\ active(account)
          /\ ~matches_verification(account, snap)
     \/ outcome = "candidate" /\ active(snap) /\ matches_verification(account, snap)
  /\ worker' = [worker EXCEPT ![w].pc = "checked", ![w].outcome = outcome]
  /\ UNCHANGED <<accounts, attempts, password, rejected, admitted>>

-----------------------------------------------------------------------------
(***************************************************************************)
(* settle_password.  Only the holder of an unexpired claim settles it: a     *)
(* candidate that is still current deletes the row, a rejection is counted, *)
(* any other failure only gives the claim back.  A candidate that is no     *)
(* longer current rolls back and leaves the claim behind.                   *)
(***************************************************************************)
(* A plausible slip: any live claim on the login will do. *)
Mutant_OwnedByAnyone(w) == password[worker[w].login].claim > 0

owned(w) == LET row == password[worker[w].login] IN row.token = w /\ row.claim > 0

(* The failure count and the window each read the clock. *)
Counted(row, live) ==
  [ row EXCEPT !.failures = IF live THEN @ + 1 ELSE 1,
               !.window = IF row.window > 0 THEN @ ELSE FailureSeconds,
               !.token = Nobody, !.claim = Past ]

settle_password(w) ==
  LET l == worker[w].login outcome == worker[w].outcome IN
  /\ worker[w].pc = "checked"
  /\ worker[w].left > 0
  /\ worker' = [worker EXCEPT ![w] = NoWork(AnyLogin)]
  /\ \/ /\ \/ ~owned(w)
           \/ outcome = "candidate" /\ ~matches_verification(accounts[l], worker[w].snap)
        /\ UNCHANGED <<password, rejected>>
     \/ /\ owned(w) /\ outcome = "candidate"
        /\ matches_verification(accounts[l], worker[w].snap)
        /\ password' = [password EXCEPT ![l] = NoRow]
        /\ rejected' = [rejected EXCEPT ![l] = <<>>]
     \/ /\ owned(w) /\ outcome \in {"wrong", "inactive", "moved"}
        /\ \E live \in FirstRead(password[l].window) :
             password' = [password EXCEPT ![l] = Counted(@, live)]
        /\ rejected' = [rejected EXCEPT ![l] = Noted(@, RejectionRun)]
     \/ /\ owned(w) /\ outcome = "unavailable"
        /\ password' = [password EXCEPT ![l].token = Nobody, ![l].claim = Past]
        /\ UNCHANGED rejected
  /\ UNCHANGED <<accounts, attempts, admitted>>

(* The deadline passes, the caller goes away or the process crashes. *)
Abandon(w) ==
  /\ worker[w].pc # "idle"
  /\ worker' = [worker EXCEPT ![w] = NoWork(AnyLogin)]
  /\ UNCHANGED <<accounts, attempts, password, rejected, admitted>>

(* clear: a password change or recovery deletes the login's row. *)
clear(l) ==
  /\ password' = [password EXCEPT ![l] = NoRow]
  /\ rejected' = [rejected EXCEPT ![l] = <<>>]
  /\ worker' = [w \in Workers |->
       IF worker[w].pc # "idle" /\ worker[w].login = l
       THEN [worker[w] EXCEPT !.voided = TRUE] ELSE worker[w]]

(* apply_account_change and revoke_all_sessions, on the account of a login. *)
change_account(l, change) ==
  /\ CanChange(accounts[l], change)
  /\ accounts' = [accounts EXCEPT ![l] = Changed(@, change)]
  /\ IF change.what = "password" THEN clear(l) ELSE UNCHANGED <<password, rejected, worker>>
  /\ UNCHANGED <<attempts, admitted>>

revoke_all_sessions(l) ==
  /\ CanRevokeSessions(accounts[l])
  /\ accounts' = [accounts EXCEPT ![l] = revoke_sessions(@)]
  /\ UNCHANGED <<attempts, password, worker, rejected, admitted>>

recover_local_password(l) ==
  /\ CanRecover(accounts[l])
  /\ accounts' = [accounts EXCEPT ![l] = Recovered(@)]
  /\ clear(l)
  /\ UNCHANGED <<attempts, admitted>>

(***************************************************************************)
(* reserve: an OIDC or platform attempt spends the budgets of its source    *)
(* and of its scope, or neither.                                            *)
(***************************************************************************)
reserve(s, scope) ==
  /\ \E K \in CleanedKeys : \E L \in CleanedLogins(K) :
       LET keys == KeysLeft(K) logins == LoginsLeft(L)
           granted == /\ ~Limited(keys[s], s) /\ ~Limited(keys[scope], scope)
                      /\ total(keys, logins)
                           + Cardinality({k \in {s, scope} : keys[k].count = 0}) <= MaxRows
       IN
       /\ password' = logins
       /\ \/ ~granted /\ attempts' = keys /\ UNCHANGED admitted
          \/ /\ granted
             /\ \E live \in FirstRead(keys[s].left), here \in FirstRead(keys[scope].left) :
                  attempts' = [keys EXCEPT ![s] = consume(@, s, live),
                                           ![scope] = consume(@, scope, here)]
             /\ admitted' = [admitted EXCEPT ![s] = Noted(@, AdmissionRun)]
  /\ UNCHANGED <<accounts, worker, rejected>>

-----------------------------------------------------------------------------
(* One second passes. *)
Less(left) == IF left = Past THEN Past ELSE left - 1
Older(ages, most) == [i \in DOMAIN ages |-> LeastOf(ages[i] + 1, most)]

Tick ==
  /\ attempts' = [k \in Keys |-> [attempts[k] EXCEPT !.left = Less(@)]]
  /\ password' = [l \in Logins |->
       [password[l] EXCEPT !.window = Less(@), !.claim = Less(@)]]
  /\ worker' = [w \in Workers |->
       [worker[w] EXCEPT !.left = GreatestOf(0, @ - 1), !.lease = GreatestOf(0, @ - 1)]]
  /\ rejected' = [l \in Logins |-> Older(rejected[l], FailureSeconds)]
  /\ admitted' = [s \in Sources |-> Older(admitted[s], SourceSeconds)]
  /\ UNCHANGED accounts

WorkerStep(w) ==
  \/ \E l \in Logins, s \in Sources, budget \in Budgets : claim_password(w, l, s, budget)
  \/ read_snapshot(w)
  \/ \E outcome \in Outcome : check_password(w, outcome)
  \/ settle_password(w)
  \/ Abandon(w)

Next ==
  \/ \E w \in Workers : WorkerStep(w)
  \/ \E l \in Logins :
       \/ \E change \in LocalChange : change_account(l, change)
       \/ revoke_all_sessions(l)
       \/ recover_local_password(l)
  \/ \E s \in Sources, scope \in Scopes : reserve(s, scope)
  \/ Tick

Spec == Init /\ [][Next]_vars

(* Time passes.  No worker has to do anything. *)
FairSpec == Spec /\ WF_vars(Tick)

-----------------------------------------------------------------------------
(***************************************************************************)
(* However many sources, processes, crashes and takeovers take part, any    *)
(* run of twice FailureLimit counted rejections of a login, with no success *)
(* or credential change between them, spans at least a whole window         *)
(* (claim_password, settle_password).  A fixed window gives no more.        *)
(***************************************************************************)
GuessRate ==
  \A l \in Logins : Len(rejected[l]) = RejectionRun => rejected[l][1] >= FailureSeconds

(***************************************************************************)
(* The same for a source, whether it verifies passwords or starts sign-ins:  *)
(* whatever the outcomes, any run of twice its limit and one admissions      *)
(* spans a whole window (attempt, consume; a scope's budget is spent by the  *)
(* same statements).                                                        *)
(***************************************************************************)
AdmissionRate ==
  \A s \in Sources : Len(admitted[s]) = AdmissionRun => admitted[s][1] >= SourceSeconds

(***************************************************************************)
(* The two attempt tables together never grow past MaxRows, and the         *)
(* CHECK(failures BETWEEN 0 AND 5) of the schema never fires: an exhausted   *)
(* row carries no claim that could count a further failure.                 *)
(***************************************************************************)
WithinCapacity ==
  /\ total(attempts, password) <= MaxRows
  /\ \A l \in Logins : password[l].failures = FailureLimit => password[l].token = Nobody

(***************************************************************************)
(* Two verifications of one login never run at once while both hold the     *)
(* claims they were granted, unless a password change or recovery voided    *)
(* one of them: cancellations, crashes, takeovers and late settlements      *)
(* included (claim_password, clear).                                        *)
(***************************************************************************)
OneVerifier ==
  \A v, w \in Workers :
    /\ v # w /\ worker[v].login = worker[w].login
    /\ worker[v].lease > 0 /\ worker[w].lease > 0
    => worker[v].voided \/ worker[w].voided

(***************************************************************************)
(* A verification that a credential change has voided, or whose claim has   *)
(* been taken over, changes nothing when it settles: an old password's       *)
(* failure is never counted against the new one, and a late answer never     *)
(* releases another verification's claim (settle_password).                 *)
(***************************************************************************)
LateAnswersAreIgnored ==
  [][ \A w \in Workers :
        /\ settle_password(w)
        /\ worker[w].voided \/ password[worker[w].login].token # w
        => UNCHANGED password ]_vars

(***************************************************************************)
(* A login is never blocked for good: a lockout ends, and a verification    *)
(* that was cancelled or crashed does not hold its login (claim_until,      *)
(* window_until).                                                           *)
(***************************************************************************)
Blocked(l) == Exhausted(password[l]) \/ Busy(password[l])
BlockingEnds == \A l \in Logins : Blocked(l) ~> ~Blocked(l)

-----------------------------------------------------------------------------
(***************************************************************************)
(* "Fixed window, beginning with the first confirmed credential rejection": *)
(* the failures a live window counts include the one that opened it         *)
(* (password_attempts.rs:10).                                               *)
(***************************************************************************)
FixedWindow ==
  \A l \in Logins :
    LET row == password[l] first == Len(rejected[l]) - row.failures + 1 IN
    row.failures > 0 /\ row.window > 0 => rejected[l][first] = FailureSeconds - row.window
=============================================================================
