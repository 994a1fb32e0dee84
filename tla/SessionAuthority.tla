--------------------------- MODULE SessionAuthority ---------------------------
(***************************************************************************)
(* The session authority of one tenant: accounts, the sessions table and    *)
(* the requests that are in flight on it (crates/identity-postgres:         *)
(* storage.rs, session_storage.rs, sessions.rs, operations.rs, bearer.rs,   *)
(* maintenance.rs).                                                         *)
(*                                                                         *)
(* Every transaction first takes the tenant's guard row FOR UPDATE, so a    *)
(* transaction is one atomic action here.  An operation that needs several  *)
(* transactions, or works between them (the password computation), keeps    *)
(* what it has read in `req`: that is the state that may be stale when the  *)
(* next transaction uses it.  A transaction that rejects rolls back and     *)
(* changes nothing; it is the action being disabled, and the request then   *)
(* ends with Abandon.                                                       *)
(*                                                                         *)
(* `now` is the database clock in seconds.  The process's monotonic         *)
(* deadlines are derived from it (TimeSample::deadline, which rounds down), *)
(* so they are read on the same clock.                                      *)
(***************************************************************************)
EXTENDS AccountPolicy

CONSTANTS
  Accounts,      \* principals of the tenant
  Bootstrap,     \* the account Authority::initialize creates
  MaxSessions,   \* bound on the sessions ever issued
  MaxTokens,     \* bound on the session secrets ever generated
  Requests,      \* concurrent requests
  Policies,      \* session policies the host may be deployed with
  Kinds,         \* credential kinds in use, of "cookie" and "bearer"
  RequestBudget, \* the deadline a request is given
  MaxClock       \* bound on the clock

ASSUME SessionAssumption ==
  /\ Bootstrap \in Accounts
  /\ Policies \subseteq SessionPolicy
  /\ Kinds \subseteq {"cookie", "bearer"}
  /\ RequestBudget \in Nat \ {0}
  /\ MaxClock \in Nat \ {0}
  /\ MaxSessions \in Nat
  /\ MaxTokens \in Nat

(* Identifiers and secrets are drawn fresh (SessionId::generate,            *)
(* SessionSecret::generate); the model numbers them in the order drawn.     *)
SessionIds == 1 .. MaxSessions
Tokens == 1 .. MaxTokens

VARIABLES
  now,       \* database clock
  known,     \* accounts that exist
  accounts,  \* account, membership and local credential rows
  issued,    \* sessions issued: identifiers 1 .. issued have a row
  sessions,  \* the session rows
  generated, \* secrets generated: tokens 1 .. generated exist
  req        \* per request: what it holds between its transactions

vars == <<now, known, accounts, issued, sessions, generated, req>>

(***************************************************************************)
(* A session row.  `verified` is the version of the password whose          *)
(* verification the session was issued for, and `replaces` the sessions it  *)
(* was exchanged for: no code reads them, the properties do.                *)
(***************************************************************************)
SessionRow ==
  [ principal : Accounts, kind : {"cookie", "bearer"}, token_hash : 0 .. MaxTokens,
    auth_epoch : Epoch, membership_epoch : Epoch, lifetime : SessionLifetime,
    revoked : BOOLEAN, verified : Nat, replaces : SUBSET SessionIds ]

(* Identifiers that were not issued yet have no row; this fills their place. *)
NoSession ==
  [ principal |-> Bootstrap, kind |-> "cookie", token_hash |-> 0, auth_epoch |-> 1,
    membership_epoch |-> 1, lifetime |-> NewLifetime(1, [idle |-> 1, absolute |-> 1]),
    revoked |-> TRUE, verified |-> 0, replaces |-> {} ]

(***************************************************************************)
(* What a request holds.  proof: whether it has an AuthenticatedSession     *)
(* (session, token digest, principal, kind); snap: the account state its    *)
(* password was checked against (AuthenticationCandidate); deadline: the    *)
(* earliest of the request's budget and the proof's expiry.                 *)
(***************************************************************************)
Phase == {"idle", "proof", "keyed", "snapshot", "candidate", "settled"}

Request ==
  [ pc : Phase, op : {"login", "change"}, kind : {"cookie", "bearer"},
    deadline : Nat, proof : BOOLEAN, id : 0 .. MaxSessions, token : 0 .. MaxTokens,
    principal : Accounts, snap : AccountState ]

TypeOK ==
  /\ now \in Nat
  /\ known \subseteq Accounts
  /\ accounts \in [Accounts -> AccountState]
  /\ issued \in 0 .. MaxSessions
  /\ sessions \in [SessionIds -> SessionRow]
  /\ generated \in 0 .. MaxTokens
  /\ req \in [Requests -> Request]

-----------------------------------------------------------------------------
(***************************************************************************)
(* Checks shared by the operations.                                        *)
(***************************************************************************)

(* A plausible slip: only the membership's generation is compared. *)
Mutant_LiveIgnoresEpoch(id) ==
  LET row == sessions[id] account == accounts[row.principal] IN
  /\ id \in 1 .. issued
  /\ active(account)
  /\ row.membership_epoch = account.membership_epoch
  /\ ~row.revoked
  /\ valid_at(row.lifetime, now)

(* by_id: the session stands for its principal right now. *)
Live(id) ==
  LET row == sessions[id] account == accounts[row.principal] IN
  /\ id \in 1 .. issued
  /\ active(account)
  /\ row.auth_epoch = account.epoch
  /\ row.membership_epoch = account.membership_epoch
  /\ ~row.revoked
  /\ valid_at(row.lifetime, now)

(* lookup: the token names a live session of the entry point's kind. *)
lookup(id, token, kind) ==
  /\ id \in 1 .. issued
  /\ sessions[id].token_hash = token
  /\ Live(id)
  /\ sessions[id].kind = kind

(* recheck: the proof a request holds is still good, and still its own. *)
recheck(r) ==
  /\ req[r].proof
  /\ now < req[r].deadline
  /\ lookup(req[r].id, req[r].token, req[r].kind)
  /\ sessions[req[r].id].principal = req[r].principal

(* storage::current: the account has not moved since the password check. *)
current(r, a) ==
  /\ now < req[r].deadline
  /\ a \in known
  /\ matches_verification(accounts[a], req[r].snap)

NoRequest ==
  [ pc |-> "idle", op |-> "login", kind |-> "cookie", deadline |-> 0, proof |-> FALSE,
    id |-> 0, token |-> 0, principal |-> Bootstrap, snap |-> new_local ]

(* The request is over; what it held is forgotten. *)
Ended(r) == req' = [req EXCEPT ![r] = NoRequest]

Init ==
  /\ now = 1
  /\ known = {Bootstrap}
  /\ accounts = [a \in Accounts |-> new_local]
  /\ issued = 0
  /\ generated = 0
  /\ sessions = [id \in SessionIds |-> NoSession]
  /\ req = [r \in Requests |-> NoRequest]

-----------------------------------------------------------------------------
(***************************************************************************)
(* Presenting a credential.                                                *)
(***************************************************************************)

(***************************************************************************)
(* session_proof: a request presents a token.  An activity request also     *)
(* renews the idle expiry (touch); a passive one (inspect_session) does     *)
(* not.  The proof lives until the request's budget or the idle expiry.     *)
(***************************************************************************)
session_proof(r, id, touch) ==
  LET row == sessions[id]
      lifetime == IF touch THEN Renewed(row.lifetime, now) ELSE row.lifetime
  IN
  /\ req[r].pc = "idle"
  /\ lookup(id, row.token_hash, row.kind)
  /\ sessions' = [sessions EXCEPT ![id].lifetime = lifetime]
  /\ req' = [req EXCEPT ![r] =
       [ NoRequest EXCEPT !.pc = "proof", !.kind = row.kind, !.proof = TRUE,
           !.id = id, !.token = row.token_hash, !.principal = row.principal,
           !.deadline = LeastOf(now + RequestBudget, lifetime.idle_expires_at) ]]
  /\ UNCHANGED <<now, known, accounts, issued, generated>>

(* refresh_session: the cookie's holder gets a new secret for the session. *)
refresh_session(id) ==
  LET row == sessions[id] IN
  /\ generated < MaxTokens
  /\ lookup(id, row.token_hash, "cookie")
  /\ sessions' = [sessions EXCEPT ![id].lifetime = Renewed(@, now),
                                  ![id].token_hash = generated + 1]
  /\ generated' = generated + 1
  /\ UNCHANGED <<now, known, accounts, issued, req>>

-----------------------------------------------------------------------------
(***************************************************************************)
(* Password login, reauthentication and the first half of changing one's    *)
(* own password.  The failure accounting of claim_password and              *)
(* settle_password is the subject of PasswordAttempts; here a claim is      *)
(* granted or the request is abandoned.                                     *)
(***************************************************************************)

(* local_login_key: the actor's own login, for reauthentication or change. *)
local_login_key(r, op) ==
  /\ req[r].pc = "proof"
  /\ recheck(r)
  /\ accounts[req[r].principal].has_local_password
  /\ req' = [req EXCEPT ![r].pc = "keyed", ![r].op = op]
  /\ UNCHANGED <<now, known, accounts, issued, sessions, generated>>

(***************************************************************************)
(* check_password, first transaction: read the account behind the login.    *)
(* A fresh login names any account.  One made with a cookie at hand replaces *)
(* that session, and can only complete for the cookie's own account; a       *)
(* bearer login replaces nothing.  A keyed request stays with its principal. *)
(***************************************************************************)
check_password(r, a, kind) ==
  /\ \/ /\ req[r].pc = "idle"
        /\ req' = [req EXCEPT ![r] =
             [ NoRequest EXCEPT !.pc = "snapshot", !.kind = kind, !.principal = a,
                                !.deadline = now + RequestBudget, !.snap = accounts[a] ]]
     \/ /\ req[r].pc = "proof"
        /\ req[r].kind = kind /\ kind = "cookie"
        /\ a = req[r].principal
        /\ req' = [req EXCEPT ![r].pc = "snapshot", ![r].op = "login", ![r].snap = accounts[a]]
     \/ /\ req[r].pc = "keyed"
        /\ req[r].kind = kind
        /\ a = req[r].principal
        /\ req' = [req EXCEPT ![r].pc = "snapshot", ![r].snap = accounts[a]]
  /\ a \in known
  /\ accounts[a].has_local_password
  /\ UNCHANGED <<now, known, accounts, issued, sessions, generated>>

(***************************************************************************)
(* check_password, after the computation: the password matched the encoding *)
(* of the snapshot, the snapshot was active, and a second transaction finds *)
(* the account unchanged.                                                   *)
(***************************************************************************)
password_verified(r) ==
  /\ req[r].pc = "snapshot"
  /\ active(req[r].snap)
  /\ current(r, req[r].principal)
  /\ req' = [req EXCEPT ![r].pc = "candidate"]
  /\ UNCHANGED <<now, known, accounts, issued, sessions, generated>>

(* settle_password with a candidate: the claim is spent on a current account. *)
settle_password(r) ==
  /\ req[r].pc = "candidate"
  /\ current(r, req[r].principal)
  /\ req' = [req EXCEPT ![r].pc = "settled"]
  /\ UNCHANGED <<now, known, accounts, issued, sessions, generated>>

(* A plausible slip: the session to replace is trusted from its first check. *)
Mutant_ReplacedOnTrust(r) == req[r].kind = "cookie"

(* The session a login replaces is a cookie that still stands. *)
CanReplace(r) == req[r].proof => req[r].kind = "cookie" /\ recheck(r)

(* A plausible slip: reauthentication keeps the secret that was presented. *)
Mutant_InsertKeepsSecret(r, policy) ==
  LET a == req[r].principal IN
  [ principal |-> a, kind |-> req[r].kind,
    token_hash |-> IF req[r].proof THEN req[r].token ELSE generated + 1,
    auth_epoch |-> accounts[a].epoch, membership_epoch |-> accounts[a].membership_epoch,
    lifetime |-> NewLifetime(now, policy), revoked |-> FALSE,
    verified |-> req[r].snap.password,
    replaces |-> IF req[r].proof THEN {req[r].id} ELSE {} ]

(* insert: a session under the account's current generations, with a new     *)
(* secret.                                                                  *)
insert(r, policy) ==
  LET a == req[r].principal IN
  [ principal |-> a, kind |-> req[r].kind, token_hash |-> generated + 1,
    auth_epoch |-> accounts[a].epoch, membership_epoch |-> accounts[a].membership_epoch,
    lifetime |-> NewLifetime(now, policy), revoked |-> FALSE,
    verified |-> req[r].snap.password,
    replaces |-> IF req[r].proof THEN {req[r].id} ELSE {} ]

(***************************************************************************)
(* create_session_for: recheck the account and the session to replace,      *)
(* close the latter, and issue a session.                                   *)
(***************************************************************************)
create_session_for(r, policy) ==
  /\ req[r].pc = "settled" /\ req[r].op = "login"
  /\ issued < MaxSessions /\ generated < MaxTokens
  /\ current(r, req[r].principal)
  /\ CanReplace(r)
  /\ sessions' =
       [ i \in SessionIds |->
           IF i = issued + 1 THEN insert(r, policy)
           ELSE IF req[r].proof /\ i = req[r].id
                THEN [sessions[i] EXCEPT !.revoked = TRUE]
                ELSE sessions[i] ]
  /\ issued' = issued + 1
  /\ generated' = generated + 1
  /\ Ended(r)
  /\ UNCHANGED <<now, known, accounts>>

-----------------------------------------------------------------------------
(***************************************************************************)
(* Revocation and account management.                                      *)
(***************************************************************************)

(* revoke_current_session: close the actor's session. *)
revoke_current_session(r) ==
  /\ req[r].pc = "proof"
  /\ recheck(r)
  /\ sessions' = [sessions EXCEPT ![req[r].id].revoked = TRUE]
  /\ Ended(r)
  /\ UNCHANGED <<now, known, accounts, issued, generated>>

(* revoke_all_sessions: open a new epoch for the actor's account. *)
revoke_all_sessions(r) ==
  LET a == req[r].principal IN
  /\ req[r].pc = "proof"
  /\ recheck(r)
  /\ CanRevokeSessions(accounts[a])
  /\ accounts' = [accounts EXCEPT ![a] = revoke_sessions(@)]
  /\ Ended(r)
  /\ UNCHANGED <<now, known, issued, sessions, generated>>

(***************************************************************************)
(* apply_account_change by an administrator the host policy admits.  A      *)
(* reset is never of the actor's own password.                              *)
(***************************************************************************)
manage_account(r, target, change) ==
  /\ req[r].pc = "proof"
  /\ change.what = "password" => target # req[r].principal
  /\ recheck(r)
  /\ target \in known
  /\ CanChange(accounts[target], change)
  /\ accounts' = [accounts EXCEPT ![target] = Changed(@, change)]
  /\ Ended(r)
  /\ UNCHANGED <<now, known, issued, sessions, generated>>

(***************************************************************************)
(* change_own_password, last transaction: the actor's session and the       *)
(* verified current password are both rechecked before the change.          *)
(***************************************************************************)
change_own_password(r) ==
  LET a == req[r].principal IN
  /\ req[r].pc = "settled" /\ req[r].op = "change"
  /\ recheck(r)
  /\ current(r, a)
  /\ CanChange(accounts[a], [what |-> "password", value |-> TRUE])
  /\ accounts' = [accounts EXCEPT ![a] = Changed(@, [what |-> "password", value |-> TRUE])]
  /\ Ended(r)
  /\ UNCHANGED <<now, known, issued, sessions, generated>>

(* create_local_account by an administrator the host policy admits. *)
create_local_account(r, a) ==
  /\ req[r].pc = "proof"
  /\ recheck(r)
  /\ a \in Accounts \ known
  /\ known' = known \cup {a}
  /\ accounts' = [accounts EXCEPT ![a] = new_local]
  /\ Ended(r)
  /\ UNCHANGED <<now, issued, sessions, generated>>

(* insert_federated_account, on a first sign-in through a provider. *)
insert_federated_account(a) ==
  /\ a \in Accounts \ known
  /\ known' = known \cup {a}
  /\ accounts' = [accounts EXCEPT ![a] = new_federated]
  /\ UNCHANGED <<now, issued, sessions, generated, req>>

(* recover_local_password: maintenance needs no session and keeps the flags. *)
recover_local_password(a) ==
  /\ a \in known
  /\ CanRecover(accounts[a])
  /\ accounts' = [accounts EXCEPT ![a] = Recovered(@)]
  /\ UNCHANGED <<now, known, issued, sessions, generated, req>>

-----------------------------------------------------------------------------
(* A request is rejected, times out or is cancelled. *)
Abandon(r) ==
  /\ req[r].pc # "idle"
  /\ Ended(r)
  /\ UNCHANGED <<now, known, accounts, issued, sessions, generated>>

Tick ==
  /\ now < MaxClock
  /\ now' = now + 1
  /\ UNCHANGED <<known, accounts, issued, sessions, generated, req>>

RequestStep(r) ==
  \/ \E id \in 1 .. issued, touch \in BOOLEAN : session_proof(r, id, touch)
  \/ \E op \in {"login", "change"} : local_login_key(r, op)
  \/ \E a \in Accounts, kind \in Kinds : check_password(r, a, kind)
  \/ password_verified(r)
  \/ settle_password(r)
  \/ \E policy \in Policies : create_session_for(r, policy)
  \/ revoke_current_session(r)
  \/ revoke_all_sessions(r)
  \/ \E target \in Accounts, change \in LocalChange : manage_account(r, target, change)
  \/ change_own_password(r)
  \/ \E a \in Accounts : create_local_account(r, a)
  \/ Abandon(r)

Next ==
  \/ \E r \in Requests : RequestStep(r)
  \/ \E id \in 1 .. issued : refresh_session(id)
  \/ \E a \in Accounts : insert_federated_account(a) \/ recover_local_password(a)
  \/ Tick

Spec == Init /\ [][Next]_vars

-----------------------------------------------------------------------------
(***************************************************************************)
(* Properties.                                                             *)
(***************************************************************************)

(* The credentials the authority would accept now. *)
Good == { <<id, sessions[id].token_hash>> : id \in { i \in 1 .. issued : Live(i) } }

Ledger == INSTANCE CredentialLedger
            WITH good <- Good, usedSessions <- 1 .. issued, usedTokens <- 1 .. generated

(***************************************************************************)
(* A credential is accepted only from its issue or rotation on, and never   *)
(* again after it was first refused: no re-enabling of an account or a      *)
(* membership, no renewal, refresh, reauthentication, password change or    *)
(* recovery, in any interleaving, revives a session or a rotated token      *)
(* (by_id, touch, refresh_session, insert, AccountState::transition).       *)
(***************************************************************************)
CredentialsNeverReturn == Ledger!LedgerSpec

(***************************************************************************)
(* A session that is accepted was issued for the password the account has   *)
(* now: a verification that straddles a password change, reset or recovery  *)
(* never ends in a live session (check_password, create_session_for).       *)
(***************************************************************************)
OnlyCurrentPassword ==
  \A id \in 1 .. issued :
    Live(id) => sessions[id].verified = accounts[sessions[id].principal].password

(***************************************************************************)
(* A password check whose candidate storage::current would still accept was *)
(* made against the encoding stored now, so neither a session nor a change  *)
(* of one's own password can follow from a superseded password.             *)
(***************************************************************************)
VerificationIsFenced ==
  \A r \in Requests :
    /\ req[r].pc \in {"snapshot", "candidate", "settled"}
    /\ matches_verification(accounts[req[r].principal], req[r].snap)
    => req[r].snap.password = accounts[req[r].principal].password

(***************************************************************************)
(* A session is exchanged for at most one new session, however many         *)
(* reauthentications race with the same proof, and an exchanged session is  *)
(* closed (create_session_for, insert).                                     *)
(***************************************************************************)
OneSuccessor ==
  \A i, j \in 1 .. issued :
    /\ i # j => sessions[i].replaces \cap sessions[j].replaces = {}
    /\ j \in sessions[i].replaces => sessions[j].revoked

(***************************************************************************)
(* However often it is renewed or its secret is rotated, a session is not   *)
(* accepted after the time its policy gives it from the day it was issued   *)
(* (SessionLifetime::renew).                                                *)
(***************************************************************************)
NoneOutlivesItsPolicy ==
  \A id \in 1 .. issued :
    LET l == sessions[id].lifetime IN
    Live(id) => now < l.issued_at + l.policy.absolute

-----------------------------------------------------------------------------
(***************************************************************************)
(* The inductive invariant behind the properties.                          *)
(***************************************************************************)

(* A session row is never ahead of its account, and one of the account's    *)
(* current epoch agrees with the account in everything.                     *)
RowInv(id) ==
  LET row == sessions[id] account == accounts[row.principal] IN
  /\ row.principal \in known
  /\ row.auth_epoch <= account.epoch
  /\ row.auth_epoch = account.epoch =>
       /\ active(account)
       /\ row.membership_epoch = account.membership_epoch
       /\ row.verified = account.password
  /\ row.lifetime.issued_at <= now

(* So is a password check in flight. *)
SnapInv(r) ==
  req[r].pc \in {"snapshot", "candidate", "settled"} =>
    /\ req[r].principal \in known
    /\ req[r].snap.epoch <= accounts[req[r].principal].epoch
    /\ req[r].snap.epoch = accounts[req[r].principal].epoch =>
         req[r].snap = accounts[req[r].principal]

(***************************************************************************)
(* No row of sessions and no password check in flight is ahead of its       *)
(* account, and what is of the account's current epoch agrees with it: the  *)
(* epoch alone fences everything that was read before a change.             *)
(***************************************************************************)
GenerationInv ==
  /\ \A id \in 1 .. issued : RowInv(id)
  /\ \A r \in Requests : SnapInv(r)

(* Only closed sessions were exchanged. *)
ExchangeInv ==
  \A i \in 1 .. issued :
    /\ sessions[i].replaces \subseteq 1 .. issued
    /\ \A j \in sessions[i].replaces : sessions[j].revoked
    /\ \A k \in 1 .. issued : i # k => sessions[i].replaces \cap sessions[k].replaces = {}

(* A lifetime ends where its policy put the end when it was issued. *)
Bounded(l) == l.absolute_expires_at = l.issued_at + l.policy.absolute

LifetimeInv == \A id \in 1 .. issued : Bounded(sessions[id].lifetime)
=============================================================================
