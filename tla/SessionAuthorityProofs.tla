------------------------ MODULE SessionAuthorityProofs ------------------------
(***************************************************************************)
(* Proofs about the session authority, for every number of accounts,        *)
(* requests, sessions and policies and every bound.                         *)
(***************************************************************************)
EXTENDS SessionAuthority, TLAPS

(* Renewal of a lifetime that is valid keeps it a lifetime. *)
LEMMA RenewedType ==
  ASSUME NEW l \in SessionLifetime, NEW n \in Nat
  PROVE  /\ Renewed(l, n) \in SessionLifetime
         /\ Renewed(l, n).issued_at = l.issued_at
         /\ Renewed(l, n).absolute_expires_at = l.absolute_expires_at
  BY DEF SessionLifetime, SessionPolicy, Renewed, GreatestOf, LeastOf

LEMMA NewLifetimeType ==
  ASSUME NEW p \in SessionPolicy, NEW n \in Nat
  PROVE  /\ NewLifetime(n, p) \in SessionLifetime
         /\ NewLifetime(n, p).issued_at = n
         /\ valid_at(NewLifetime(n, p), n)
  BY DEF SessionLifetime, SessionPolicy, NewLifetime, valid_at

(* Every rule that changes an account opens a new epoch. *)
LEMMA ChangedType ==
  ASSUME NEW s \in AccountState, NEW change \in LocalChange, CanChange(s, change)
  PROVE  Changed(s, change) \in AccountState /\ Changed(s, change).epoch = s.epoch + 1
  <1>1. /\ s.epoch + 1 \in Epoch
        /\ s.password + 1 \in Nat
        /\ ChangesMembership(s, change) => s.membership_epoch + 1 \in Epoch
    BY EpochLimitAssumption DEF AccountState, CanChange, Epoch
  <1>2. change.value \in BOOLEAN
    BY Zenon DEF LocalChange
  <1> QED BY <1>1, <1>2 DEF AccountState, Changed

LEMMA RecoveredType ==
  ASSUME NEW s \in AccountState, CanRecover(s)
  PROVE  Recovered(s) \in AccountState /\ Recovered(s).epoch = s.epoch + 1
  <1>1. s.epoch + 1 \in Epoch /\ s.password + 1 \in Nat
    BY EpochLimitAssumption DEF AccountState, CanRecover, Epoch
  <1> QED BY <1>1 DEF AccountState, Recovered

LEMMA RevokedType ==
  ASSUME NEW s \in AccountState, CanRevokeSessions(s)
  PROVE  revoke_sessions(s) \in AccountState /\ revoke_sessions(s).epoch = s.epoch + 1
  BY EpochLimitAssumption DEF AccountState, CanRevokeSessions, revoke_sessions, Epoch

LEMMA NewAccountType == new_local \in AccountState /\ new_federated \in AccountState
  BY EpochLimitAssumption DEF AccountState, new_local, new_federated, NewAccount, Epoch

LEMMA PasswordChangeType == [what |-> "password", value |-> TRUE] \in LocalChange
  BY DEF LocalChange

LEMMA NoSessionType == NoSession \in SessionRow
  <1>1. [idle |-> 1, absolute |-> 1] \in SessionPolicy
    BY DEF SessionPolicy
  <1>2. NewLifetime(1, [idle |-> 1, absolute |-> 1]) \in SessionLifetime
    BY <1>1, NewLifetimeType
  <1> QED
    BY <1>2, SessionAssumption, EpochLimitAssumption DEF NoSession, SessionRow, Epoch

LEMMA NoRequestType == NoRequest \in Request
  BY SessionAssumption, NewAccountType DEF NoRequest, Request, Phase

(* Record updates the actions make, with their types. *)
LEMMA RowRevoked ==
  ASSUME NEW row \in SessionRow
  PROVE  [row EXCEPT !.revoked = TRUE] \in SessionRow
  BY Zenon DEF SessionRow

LEMMA RequestAt ==
  ASSUME NEW s \in Request, NEW p \in Phase, NEW op \in {"login", "change"}
  PROVE  /\ [s EXCEPT !.pc = p] \in Request
         /\ [s EXCEPT !.pc = p, !.op = op] \in Request
  BY Zenon DEF Request

LEMMA RequestSnap ==
  ASSUME NEW s \in Request, NEW p \in Phase, NEW a \in AccountState
  PROVE  /\ [s EXCEPT !.pc = p, !.snap = a] \in Request
         /\ [s EXCEPT !.pc = p, !.op = "login", !.snap = a] \in Request
  BY Zenon DEF Request

LEMMA RequestProof ==
  ASSUME NEW k \in {"cookie", "bearer"}, NEW i \in 0 .. MaxSessions, NEW t \in 0 .. MaxTokens,
         NEW a \in Accounts, NEW d \in Nat
  PROVE  [ NoRequest EXCEPT !.pc = "proof", !.kind = k, !.proof = TRUE, !.id = i, !.token = t,
                            !.principal = a, !.deadline = d ] \in Request
  BY NoRequestType, Zenon DEF Request, Phase

LEMMA RequestFresh ==
  ASSUME NEW k \in {"cookie", "bearer"}, NEW a \in Accounts, NEW d \in Nat, NEW s \in AccountState
  PROVE  [ NoRequest EXCEPT !.pc = "snapshot", !.kind = k, !.principal = a,
                            !.deadline = d, !.snap = s ] \in Request
  BY NoRequestType, Zenon DEF Request, Phase

LEMMA Phases == /\ "keyed" \in Phase /\ "snapshot" \in Phase
                /\ "candidate" \in Phase /\ "settled" \in Phase
  BY DEF Phase

-----------------------------------------------------------------------------
(* Type correctness, step by step. *)
LEMMA InitType == Init => TypeOK
  BY NoSessionType, NoRequestType, NewAccountType, SessionAssumption
     DEF Init, TypeOK

LEMMA EndedType ==
  ASSUME TypeOK, NEW r \in Requests, Ended(r)
  PROVE  req' \in [Requests -> Request]
  BY NoRequestType DEF TypeOK, Ended

LEMMA StepType == TypeOK /\ [Next]_vars => TypeOK'
  <1> SUFFICES ASSUME TypeOK, [Next]_vars PROVE TypeOK'
    OBVIOUS
  <1> USE SessionAssumption DEF SessionIds
  <1>1. ASSUME NEW r \in Requests, NEW id \in 1 .. issued, NEW touch \in BOOLEAN,
               session_proof(r, id, touch)
        PROVE  TypeOK'
    <2> DEFINE row == sessions[id]
               lifetime == IF touch THEN Renewed(row.lifetime, now) ELSE row.lifetime
    <2>1. id \in SessionIds /\ row \in SessionRow /\ row.lifetime \in SessionLifetime
      BY DEF TypeOK, SessionRow
    <2>2. lifetime \in SessionLifetime /\ lifetime.idle_expires_at \in Nat
      BY <2>1, RenewedType DEF TypeOK, SessionLifetime
    <2>3. sessions' \in [SessionIds -> SessionRow]
      <3>1. sessions' = [sessions EXCEPT ![id].lifetime = lifetime]
        BY <1>1 DEF session_proof
      <3> HIDE DEF lifetime
      <3> QED BY <3>1, <2>1, <2>2 DEF TypeOK, SessionRow
    <2>4. req' \in [Requests -> Request]
      <3>1. LeastOf(now + RequestBudget, lifetime.idle_expires_at) \in Nat
        BY <2>2 DEF LeastOf, TypeOK
      <3>2. req' = [req EXCEPT ![r] =
               [ NoRequest EXCEPT !.pc = "proof", !.kind = row.kind, !.proof = TRUE,
                   !.id = id, !.token = row.token_hash, !.principal = row.principal,
                   !.deadline = LeastOf(now + RequestBudget, lifetime.idle_expires_at) ]]
        BY <1>1 DEF session_proof
      <3> HIDE DEF lifetime
      <3>3. /\ row.kind \in {"cookie", "bearer"} /\ id \in 0 .. MaxSessions
            /\ row.token_hash \in 0 .. MaxTokens /\ row.principal \in Accounts
        BY <2>1 DEF SessionRow
      <3> HIDE DEF row
      <3> QED BY <3>1, <3>2, <3>3, RequestProof DEF TypeOK
    <2> QED BY <1>1, <2>3, <2>4 DEF TypeOK, session_proof
  <1>2. ASSUME NEW r \in Requests, NEW op \in {"login", "change"}, local_login_key(r, op)
        PROVE  TypeOK'
    <2>1. [req[r] EXCEPT !.pc = "keyed", !.op = op] \in Request
      BY RequestAt, Phases DEF TypeOK
    <2> QED BY <1>2, <2>1 DEF TypeOK, local_login_key
  <1>3. ASSUME NEW r \in Requests, NEW a \in Accounts, NEW kind \in Kinds, check_password(r, a, kind)
        PROVE  TypeOK'
    <2>1. accounts[a] \in AccountState /\ now + RequestBudget \in Nat /\ kind \in {"cookie", "bearer"}
      BY DEF TypeOK
    <2>2. req' \in [Requests -> Request]
      <3>1. [ NoRequest EXCEPT !.pc = "snapshot", !.kind = kind, !.principal = a,
                !.deadline = now + RequestBudget, !.snap = accounts[a] ] \in Request
        BY <2>1, RequestFresh
      <3>2. /\ [req[r] EXCEPT !.pc = "snapshot", !.snap = accounts[a]] \in Request
            /\ [req[r] EXCEPT !.pc = "snapshot", !.op = "login", !.snap = accounts[a]] \in Request
        BY <2>1, RequestSnap, Phases DEF TypeOK
      <3> QED BY <1>3, <3>1, <3>2 DEF TypeOK, check_password
    <2> QED BY <1>3, <2>2 DEF TypeOK, check_password
  <1>4. ASSUME NEW r \in Requests, password_verified(r) \/ settle_password(r)
        PROVE  TypeOK'
    <2>1. /\ [req[r] EXCEPT !.pc = "candidate"] \in Request
          /\ [req[r] EXCEPT !.pc = "settled"] \in Request
      BY RequestAt, Phases DEF TypeOK
    <2> QED BY <1>4, <2>1 DEF TypeOK, password_verified, settle_password
  <1>5. ASSUME NEW r \in Requests, NEW policy \in Policies, create_session_for(r, policy)
        PROVE  TypeOK'
    <2> DEFINE a == req[r].principal
               new == [ principal |-> a, kind |-> req[r].kind, token_hash |-> generated + 1,
                        auth_epoch |-> accounts[a].epoch,
                        membership_epoch |-> accounts[a].membership_epoch,
                        lifetime |-> NewLifetime(now, policy), revoked |-> FALSE,
                        verified |-> req[r].snap.password,
                        replaces |-> IF req[r].proof THEN {req[r].id} ELSE {} ]
    <2>1. req[r] \in Request /\ a \in Accounts /\ accounts[a] \in AccountState
          /\ req[r].snap \in AccountState
      BY DEF TypeOK, Request
    <2>2. NewLifetime(now, policy) \in SessionLifetime
      BY NewLifetimeType DEF TypeOK
    <2>3. (IF req[r].proof THEN {req[r].id} ELSE {}) \in SUBSET SessionIds
      BY <1>5 DEF create_session_for, CanReplace, recheck, lookup, TypeOK
    <2>4. generated + 1 \in 0 .. MaxTokens /\ issued + 1 \in 0 .. MaxSessions
      BY <1>5 DEF create_session_for, TypeOK
    <2>5. new \in SessionRow
      BY <2>1, <2>2, <2>3, <2>4 DEF SessionRow, AccountState, Request
    <2>6. sessions' = [ i \in SessionIds |->
             IF i = issued + 1 THEN new
             ELSE IF req[r].proof /\ i = req[r].id
                  THEN [sessions[i] EXCEPT !.revoked = TRUE]
                  ELSE sessions[i] ]
      BY <1>5 DEF create_session_for, insert
    <2>7. sessions' \in [SessionIds -> SessionRow]
      <3>1. ASSUME NEW i \in SessionIds
            PROVE  [sessions[i] EXCEPT !.revoked = TRUE] \in SessionRow
        BY RowRevoked DEF TypeOK
      <3> HIDE DEF new
      <3> QED BY <2>5, <2>6, <3>1 DEF TypeOK
    <2> QED BY <1>5, <2>4, <2>7, EndedType DEF TypeOK, create_session_for
  <1>6. ASSUME NEW r \in Requests, revoke_current_session(r)
        PROVE  TypeOK'
    <2>1. sessions' \in [SessionIds -> SessionRow]
      <3>1. req[r].id \in SessionIds
        BY <1>6 DEF TypeOK, revoke_current_session, recheck, lookup
      <3>2. [sessions[req[r].id] EXCEPT !.revoked = TRUE] \in SessionRow
        BY <3>1, RowRevoked DEF TypeOK
      <3> QED BY <1>6, <3>1, <3>2 DEF TypeOK, revoke_current_session
    <2> QED BY <1>6, <2>1, EndedType DEF TypeOK, revoke_current_session
  <1>7. ASSUME NEW r \in Requests, revoke_all_sessions(r)
        PROVE  TypeOK'
    <2>1. accounts' \in [Accounts -> AccountState]
      BY <1>7, RevokedType DEF TypeOK, revoke_all_sessions, Request
    <2> QED BY <1>7, <2>1, EndedType DEF TypeOK, revoke_all_sessions
  <1>8. ASSUME NEW r \in Requests, NEW target \in Accounts, NEW change \in LocalChange,
               manage_account(r, target, change)
        PROVE  TypeOK'
    <2>1. accounts' \in [Accounts -> AccountState]
      BY <1>8, ChangedType DEF TypeOK, manage_account
    <2> QED BY <1>8, <2>1, EndedType DEF TypeOK, manage_account
  <1>9. ASSUME NEW r \in Requests, change_own_password(r)
        PROVE  TypeOK'
    <2>1. accounts' \in [Accounts -> AccountState]
      BY <1>9, ChangedType, PasswordChangeType DEF TypeOK, change_own_password, Request
    <2> QED BY <1>9, <2>1, EndedType DEF TypeOK, change_own_password
  <1>10. ASSUME NEW r \in Requests, NEW a \in Accounts, create_local_account(r, a)
         PROVE  TypeOK'
    BY <1>10, EndedType, NewAccountType DEF TypeOK, create_local_account
  <1>11. ASSUME NEW r \in Requests, Abandon(r)
         PROVE  TypeOK'
    BY <1>11, EndedType DEF TypeOK, Abandon
  <1>12. ASSUME NEW id \in 1 .. issued, refresh_session(id)
         PROVE  TypeOK'
    <2>1. id \in SessionIds /\ sessions[id] \in SessionRow /\ sessions[id].lifetime \in SessionLifetime
      BY DEF TypeOK, SessionRow
    <2>2. Renewed(sessions[id].lifetime, now) \in SessionLifetime
      BY <2>1, RenewedType DEF TypeOK
    <2>3. generated + 1 \in 0 .. MaxTokens
      BY <1>12 DEF refresh_session, TypeOK
    <2>4. sessions' = [sessions EXCEPT ![id].lifetime = Renewed(sessions[id].lifetime, now),
                                       ![id].token_hash = generated + 1]
      BY <1>12, <2>1 DEF refresh_session, TypeOK
    <2>5. sessions' \in [SessionIds -> SessionRow]
      BY <2>1, <2>2, <2>3, <2>4 DEF TypeOK, SessionRow
    <2> QED BY <1>12, <2>3, <2>5 DEF TypeOK, refresh_session
  <1>13. ASSUME NEW a \in Accounts, insert_federated_account(a)
         PROVE  TypeOK'
    BY <1>13, NewAccountType DEF TypeOK, insert_federated_account
  <1>14. ASSUME NEW a \in Accounts, recover_local_password(a)
         PROVE  TypeOK'
    BY <1>14, RecoveredType DEF TypeOK, recover_local_password
  <1>15. CASE Tick
    BY <1>15 DEF TypeOK, Tick
  <1>16. CASE UNCHANGED vars
    BY <1>16 DEF TypeOK, vars
  <1> QED
    BY <1>1, <1>2, <1>3, <1>4, <1>5, <1>6, <1>7, <1>8, <1>9, <1>10, <1>11, <1>12,
       <1>13, <1>14, <1>15, <1>16 DEF Next, RequestStep

(* Every reachable state of the authority is well typed. *)
THEOREM TypeCorrect == Spec => []TypeOK
  <1>1. Init => TypeOK  BY InitType
  <1>2. TypeOK /\ [Next]_vars => TypeOK'  BY StepType
  <1> QED BY <1>1, <1>2, PTL DEF Spec

-----------------------------------------------------------------------------
(***************************************************************************)
(* The generation invariant.  Every rule that changes an account opens an   *)
(* epoch, and no row or snapshot is ahead of its account; so a row or a      *)
(* snapshot of the account's own epoch agrees with everything the account    *)
(* is now.                                                                  *)
(***************************************************************************)

LEMMA EpochIsInt ==
  ASSUME NEW s \in AccountState
  PROVE  s.epoch \in Int
  BY EpochLimitAssumption DEF AccountState, Epoch

(* A new epoch of one account leaves every row and snapshot consistent. *)
LEMMA AdvanceRow ==
  ASSUME TypeOK, NEW id \in 1 .. issued, RowInv(id),
         NEW a \in Accounts, NEW s \in AccountState, s.epoch = accounts[a].epoch + 1,
         accounts' = [accounts EXCEPT ![a] = s],
         UNCHANGED <<now, known, sessions>>
  PROVE  RowInv(id)'
  <1>1. sessions[id] \in SessionRow /\ sessions[id].principal \in Accounts
        /\ sessions[id].auth_epoch \in Int
    BY SessionAssumption, EpochLimitAssumption DEF TypeOK, SessionIds, SessionRow, Epoch
  <1>2. accounts[a].epoch \in Int /\ s.epoch \in Int
    BY EpochIsInt DEF TypeOK
  <1>3. CASE sessions[id].principal = a
    <2>1. accounts'[a] = s
      BY DEF TypeOK
    <2>2. sessions[id].auth_epoch < s.epoch
      BY <1>1, <1>2, <1>3 DEF RowInv
    <2> QED BY <1>1, <1>2, <1>3, <2>1, <2>2 DEF RowInv
  <1>4. CASE sessions[id].principal # a
    <2>1. accounts'[sessions[id].principal] = accounts[sessions[id].principal]
      BY <1>1, <1>4 DEF TypeOK
    <2> QED BY <2>1 DEF RowInv
  <1> QED BY <1>3, <1>4

LEMMA AdvanceSnap ==
  ASSUME TypeOK, NEW r \in Requests, SnapInv(r),
         NEW a \in Accounts, NEW s \in AccountState, s.epoch = accounts[a].epoch + 1,
         accounts' = [accounts EXCEPT ![a] = s],
         UNCHANGED known, req'[r] = req[r]
  PROVE  SnapInv(r)'
  <1>1. req[r].principal \in Accounts /\ req[r].snap.epoch \in Int
    BY EpochIsInt DEF TypeOK, Request
  <1>2. accounts[a].epoch \in Int /\ s.epoch \in Int
    BY EpochIsInt DEF TypeOK
  <1>3. CASE req[r].principal = a
    <2>1. accounts'[a] = s
      BY DEF TypeOK
    <2> QED BY <1>1, <1>2, <1>3, <2>1 DEF SnapInv
  <1>4. CASE req[r].principal # a
    <2>1. accounts'[req[r].principal] = accounts[req[r].principal]
      BY <1>1, <1>4 DEF TypeOK
    <2> QED BY <2>1 DEF SnapInv
  <1> QED BY <1>3, <1>4

(* A request that ends holds no snapshot; the others are untouched. *)
LEMMA EndedSnap ==
  ASSUME TypeOK, NEW r \in Requests, Ended(r), NEW q \in Requests
  PROVE  /\ q = r => SnapInv(q)'
         /\ q # r => req'[q] = req[q]
  BY DEF TypeOK, Ended, NoRequest, SnapInv

LEMMA Advance ==
  ASSUME TypeOK, GenerationInv,
         NEW a \in Accounts, NEW s \in AccountState, s.epoch = accounts[a].epoch + 1,
         accounts' = [accounts EXCEPT ![a] = s],
         UNCHANGED <<now, known, issued, sessions>>,
         UNCHANGED req \/ \E r \in Requests : Ended(r)
  PROVE  GenerationInv'
  <1>1. \A id \in 1 .. issued : RowInv(id)'
    BY AdvanceRow DEF GenerationInv
  <1>2. ASSUME NEW q \in Requests PROVE SnapInv(q)'
    <2>1. CASE UNCHANGED req
      BY <2>1, AdvanceSnap DEF GenerationInv
    <2>2. CASE \E r \in Requests : Ended(r)
      BY <2>2, AdvanceSnap, EndedSnap DEF GenerationInv
    <2> QED BY <2>1, <2>2
  <1> QED BY <1>1, <1>2 DEF GenerationInv

LEMMA InitGeneration == Init => GenerationInv
  BY DEF Init, GenerationInv, SnapInv, NoRequest

(* Steps that neither issue a session nor change an account. *)
LEMMA QuietGeneration ==
  ASSUME TypeOK, GenerationInv, UNCHANGED <<known, accounts, issued>>,
         now' \in Nat, now <= now',
         \A id \in 1 .. issued :
            /\ sessions'[id].principal = sessions[id].principal
            /\ sessions'[id].auth_epoch = sessions[id].auth_epoch
            /\ sessions'[id].membership_epoch = sessions[id].membership_epoch
            /\ sessions'[id].verified = sessions[id].verified
            /\ sessions'[id].lifetime.issued_at = sessions[id].lifetime.issued_at,
         \A r \in Requests : SnapInv(r) => SnapInv(r)'
  PROVE  GenerationInv'
  <1>1. ASSUME NEW id \in 1 .. issued PROVE RowInv(id)'
    <2>1. sessions[id].lifetime.issued_at \in Nat /\ now \in Nat
      BY SessionAssumption DEF TypeOK, SessionIds, SessionRow, SessionLifetime
    <2> QED BY <2>1 DEF GenerationInv, RowInv
  <1> QED BY <1>1 DEF GenerationInv

LEMMA StepGeneration == TypeOK /\ GenerationInv /\ [Next]_vars => GenerationInv'
  <1> SUFFICES ASSUME TypeOK, GenerationInv, [Next]_vars PROVE GenerationInv'
    OBVIOUS
  <1> USE SessionAssumption DEF SessionIds
  <1>0. now \in Nat /\ now <= now
    BY DEF TypeOK
  <1>1. ASSUME NEW r \in Requests, NEW id \in 1 .. issued, NEW touch \in BOOLEAN,
               session_proof(r, id, touch)
        PROVE  GenerationInv'
    <2>1. \A i \in 1 .. issued :
            /\ sessions'[i].principal = sessions[i].principal
            /\ sessions'[i].auth_epoch = sessions[i].auth_epoch
            /\ sessions'[i].membership_epoch = sessions[i].membership_epoch
            /\ sessions'[i].verified = sessions[i].verified
            /\ sessions'[i].lifetime.issued_at = sessions[i].lifetime.issued_at
      <3>1. sessions[id].lifetime \in SessionLifetime
        BY DEF TypeOK, SessionRow
      <3>2. Renewed(sessions[id].lifetime, now).issued_at = sessions[id].lifetime.issued_at
        BY <3>1, <1>0, RenewedType
      <3> QED BY <1>1, <3>2 DEF session_proof, TypeOK, SessionRow
    <2>2. \A q \in Requests : SnapInv(q) => SnapInv(q)'
      BY <1>1 DEF session_proof, SnapInv, NoRequest, TypeOK
    <2> QED BY <1>0, <1>1, <2>1, <2>2, QuietGeneration DEF session_proof
  <1>2. ASSUME NEW r \in Requests, NEW op \in {"login", "change"}, local_login_key(r, op)
        PROVE  GenerationInv'
    <2>1. \A q \in Requests : SnapInv(q) => SnapInv(q)'
      BY <1>2 DEF local_login_key, SnapInv, TypeOK
    <2> QED BY <1>0, <1>2, <2>1, QuietGeneration DEF local_login_key
  <1>3. ASSUME NEW r \in Requests, NEW a \in Accounts, NEW kind \in Kinds, check_password(r, a, kind)
        PROVE  GenerationInv'
    <2>1. accounts[a].epoch \in Int /\ a \in known
      BY <1>3, EpochIsInt DEF TypeOK, check_password
    <2>2. req'[r].snap = accounts[a] /\ req'[r].principal = a
      <3>1. CASE req[r].pc = "idle"
        <4>1. req'[r] = [ NoRequest EXCEPT !.pc = "snapshot", !.kind = kind, !.principal = a,
                            !.deadline = now + RequestBudget, !.snap = accounts[a] ]
          BY <1>3, <3>1 DEF check_password, TypeOK
        <4> QED BY <4>1, Zenon DEF NoRequest
      <3>2. CASE req[r].pc # "idle"
        BY <1>3, <3>2 DEF check_password, TypeOK, Request
      <3> QED BY <3>1, <3>2
    <2>3. \A q \in Requests : q # r => req'[q] = req[q]
      BY <1>3 DEF check_password, TypeOK
    <2>4. UNCHANGED <<known, accounts, issued, sessions, now>>
      BY <1>3 DEF check_password
    <2>5. \A q \in Requests : SnapInv(q) => SnapInv(q)'
      BY <2>1, <2>2, <2>3, <2>4 DEF SnapInv
    <2> QED BY <1>0, <2>4, <2>5, QuietGeneration
  <1>4. ASSUME NEW r \in Requests, password_verified(r) \/ settle_password(r)
        PROVE  GenerationInv'
    <2>1. /\ req[r].pc \in {"snapshot", "candidate"}
          /\ req'[r].snap = req[r].snap /\ req'[r].principal = req[r].principal
      BY <1>4 DEF password_verified, settle_password, TypeOK, Request
    <2>2. \A q \in Requests : q # r => req'[q] = req[q]
      BY <1>4 DEF password_verified, settle_password, TypeOK
    <2>3. UNCHANGED <<known, accounts, issued, sessions, now>>
      BY <1>4 DEF password_verified, settle_password
    <2>4. \A q \in Requests : SnapInv(q) => SnapInv(q)'
      BY <2>1, <2>2, <2>3 DEF SnapInv
    <2> QED BY <1>0, <2>3, <2>4, QuietGeneration
  <1>5. ASSUME NEW r \in Requests, NEW policy \in Policies, create_session_for(r, policy)
        PROVE  GenerationInv'
    <2> DEFINE a == req[r].principal
    <2>1. /\ req[r].pc = "settled" /\ matches_verification(accounts[a], req[r].snap)
          /\ UNCHANGED <<known, accounts, now>> /\ issued' = issued + 1 /\ issued < MaxSessions
          /\ Ended(r)
      BY <1>5 DEF create_session_for, current
    <2>2. a \in known /\ a \in Accounts /\ req[r].snap = accounts[a] /\ active(accounts[a])
      BY <2>1 DEF GenerationInv, SnapInv, matches_verification, TypeOK
    <2>3. PICK n \in SessionIds : n = issued + 1 /\ issued \in Nat
      BY <2>1 DEF TypeOK
    <2>4. /\ sessions'[n].principal = a
          /\ sessions'[n].auth_epoch = accounts[a].epoch
          /\ sessions'[n].membership_epoch = accounts[a].membership_epoch
          /\ sessions'[n].verified = req[r].snap.password
          /\ sessions'[n].lifetime = NewLifetime(now, policy)
      BY <1>5, <2>3 DEF create_session_for, insert
    <2>5. RowInv(n)'
      <3>1. NewLifetime(now, policy).issued_at = now
        BY <1>0, NewLifetimeType
      <3>2. accounts[a].epoch \in Int
        BY <2>2, EpochIsInt DEF TypeOK
      <3> QED BY <1>0, <2>1, <2>2, <2>4, <3>1, <3>2 DEF RowInv
    <2>6. ASSUME NEW id \in 1 .. issued PROVE RowInv(id)'
      <3>0. id \in SessionIds /\ id # n
        BY <2>3 DEF TypeOK
      <3>1. sessions'[id] = IF req[r].proof /\ id = req[r].id
                            THEN [sessions[id] EXCEPT !.revoked = TRUE] ELSE sessions[id]
        BY <1>5, <2>3, <3>0 DEF create_session_for
      <3>2. /\ sessions'[id].principal = sessions[id].principal
            /\ sessions'[id].auth_epoch = sessions[id].auth_epoch
            /\ sessions'[id].membership_epoch = sessions[id].membership_epoch
            /\ sessions'[id].verified = sessions[id].verified
            /\ sessions'[id].lifetime = sessions[id].lifetime
        BY <3>0, <3>1 DEF TypeOK, SessionRow
      <3> QED BY <2>1, <3>2 DEF GenerationInv, RowInv
    <2>7. \A q \in Requests : SnapInv(q)'
      BY <2>1, EndedSnap DEF GenerationInv, SnapInv
    <2>8. \A id \in 1 .. issued' : id \in 1 .. issued \/ id = n
      BY <2>1, <2>3
    <2> QED BY <2>5, <2>6, <2>7, <2>8 DEF GenerationInv
  <1>6. ASSUME NEW r \in Requests, revoke_current_session(r)
        PROVE  GenerationInv'
    <2>1. \A i \in 1 .. issued :
            /\ sessions'[i].principal = sessions[i].principal
            /\ sessions'[i].auth_epoch = sessions[i].auth_epoch
            /\ sessions'[i].membership_epoch = sessions[i].membership_epoch
            /\ sessions'[i].verified = sessions[i].verified
            /\ sessions'[i].lifetime.issued_at = sessions[i].lifetime.issued_at
      BY <1>6 DEF revoke_current_session, TypeOK, SessionRow
    <2>2. \A q \in Requests : SnapInv(q) => SnapInv(q)'
      BY <1>6, EndedSnap DEF revoke_current_session, SnapInv
    <2> QED BY <1>0, <1>6, <2>1, <2>2, QuietGeneration DEF revoke_current_session
  <1>7. ASSUME NEW r \in Requests, revoke_all_sessions(r)
        PROVE  GenerationInv'
    <2>1. req[r].principal \in Accounts
      BY DEF TypeOK, Request
    <2> QED BY <1>7, <2>1, RevokedType, Advance DEF revoke_all_sessions, TypeOK
  <1>8. ASSUME NEW r \in Requests, NEW target \in Accounts, NEW change \in LocalChange,
               manage_account(r, target, change)
        PROVE  GenerationInv'
    BY <1>8, ChangedType, Advance DEF manage_account, TypeOK
  <1>9. ASSUME NEW r \in Requests, change_own_password(r)
        PROVE  GenerationInv'
    <2>1. req[r].principal \in Accounts
      BY DEF TypeOK, Request
    <2> QED BY <1>9, <2>1, ChangedType, PasswordChangeType, Advance DEF change_own_password, TypeOK
  <1>10. ASSUME NEW a \in Accounts, a \notin known, known' = known \cup {a},
                \E s : accounts' = [accounts EXCEPT ![a] = s],
                UNCHANGED <<now, issued, sessions>>,
                UNCHANGED req \/ \E r \in Requests : Ended(r)
         PROVE  GenerationInv'
    <2>1. \A b \in known : b \in Accounts /\ accounts'[b] = accounts[b] /\ b \in known'
      BY <1>10 DEF TypeOK
    <2>2. \A id \in 1 .. issued : RowInv(id)'
      BY <1>10, <2>1 DEF GenerationInv, RowInv
    <2>3. ASSUME NEW q \in Requests, req'[q] = req[q] PROVE SnapInv(q)'
      BY <2>1, <2>3 DEF GenerationInv, SnapInv
    <2>4. \A q \in Requests : SnapInv(q)'
      BY <1>10, <2>3, EndedSnap
    <2> QED BY <1>10, <2>2, <2>4 DEF GenerationInv
  <1>11. ASSUME NEW r \in Requests, Abandon(r)
         PROVE  GenerationInv'
    <2>1. \A q \in Requests : SnapInv(q) => SnapInv(q)'
      BY <1>11, EndedSnap DEF Abandon, SnapInv
    <2> QED BY <1>0, <1>11, <2>1, QuietGeneration DEF Abandon
  <1>12. ASSUME NEW id \in 1 .. issued, refresh_session(id)
         PROVE  GenerationInv'
    <2>1. \A i \in 1 .. issued :
            /\ sessions'[i].principal = sessions[i].principal
            /\ sessions'[i].auth_epoch = sessions[i].auth_epoch
            /\ sessions'[i].membership_epoch = sessions[i].membership_epoch
            /\ sessions'[i].verified = sessions[i].verified
            /\ sessions'[i].lifetime.issued_at = sessions[i].lifetime.issued_at
      <3>1. sessions[id].lifetime \in SessionLifetime
        BY DEF TypeOK, SessionRow
      <3>2. Renewed(sessions[id].lifetime, now).issued_at = sessions[id].lifetime.issued_at
        BY <3>1, <1>0, RenewedType
      <3> QED BY <1>12, <3>2 DEF refresh_session, TypeOK, SessionRow
    <2> QED BY <1>0, <1>12, <2>1, QuietGeneration DEF refresh_session, SnapInv
  <1>13. ASSUME NEW a \in Accounts, recover_local_password(a)
         PROVE  GenerationInv'
    BY <1>13, RecoveredType, Advance DEF recover_local_password, TypeOK
  <1>14. CASE Tick
    BY <1>0, <1>14, QuietGeneration DEF Tick, SnapInv
  <1>15. CASE UNCHANGED vars
    BY <1>0, <1>15, QuietGeneration DEF vars, SnapInv
  <1>16. ASSUME NEW a \in Accounts,
                insert_federated_account(a) \/ \E r \in Requests : create_local_account(r, a)
         PROVE  GenerationInv'
    BY <1>10, <1>16 DEF insert_federated_account, create_local_account
  <1> QED
    BY <1>1, <1>2, <1>3, <1>4, <1>5, <1>6, <1>7, <1>8, <1>9, <1>11, <1>12, <1>13, <1>14,
       <1>15, <1>16 DEF Next, RequestStep

(***************************************************************************)
(* No session row and no password check in flight is ever ahead of its      *)
(* account, and what carries the account's current epoch agrees with it.    *)
(***************************************************************************)
THEOREM GenerationsFence == Spec => []GenerationInv
  <1>1. Init => GenerationInv  BY InitGeneration
  <1>2. TypeOK /\ GenerationInv /\ [Next]_vars => GenerationInv'  BY StepGeneration
  <1> QED BY <1>1, <1>2, TypeCorrect, PTL DEF Spec

(* A live session was issued for the password the account has now. *)
THEOREM LiveSessionsKnowThePassword == Spec => []OnlyCurrentPassword
  <1>1. GenerationInv => OnlyCurrentPassword
    BY DEF GenerationInv, RowInv, OnlyCurrentPassword, Live
  <1> QED BY <1>1, GenerationsFence, PTL

(* A password check that would still be accepted checked the stored password. *)
THEOREM ChecksAreFenced == Spec => []VerificationIsFenced
  <1>1. GenerationInv => VerificationIsFenced
    BY DEF GenerationInv, SnapInv, VerificationIsFenced, matches_verification
  <1> QED BY <1>1, GenerationsFence, PTL

-----------------------------------------------------------------------------
(***************************************************************************)
(* The session authority implements the credential ledger, and exchanges a  *)
(* session at most once.  Both rest on the generation invariant and the      *)
(* types proved above.                                                      *)
(***************************************************************************)

(* Renewal never cuts a valid lifetime short. *)
LEMMA RenewedValid ==
  ASSUME NEW l \in SessionLifetime, NEW n \in Nat, valid_at(l, n)
  PROVE  valid_at(Renewed(l, n), n)
  BY DEF SessionLifetime, SessionPolicy, Renewed, GreatestOf, LeastOf, valid_at

(* A row that was issued is a row, of an account, with a lifetime. *)
LEMMA IssuedRow ==
  ASSUME TypeOK, NEW id \in 1 .. issued
  PROVE  /\ id \in SessionIds /\ sessions[id] \in SessionRow
         /\ sessions[id].principal \in Accounts
         /\ sessions[id].lifetime \in SessionLifetime
         /\ sessions[id].auth_epoch \in Int
  BY SessionAssumption, EpochLimitAssumption DEF TypeOK, SessionIds, SessionRow, Epoch

-----------------------------------------------------------------------------
(* One session row is exchanged at most once. *)
LEMMA InitExchange == Init => ExchangeInv
  BY DEF Init, ExchangeInv

(* Steps that issue nothing and reopen nothing. *)
LEMMA QuietExchange ==
  ASSUME ExchangeInv, UNCHANGED issued,
         \A i \in 1 .. issued : /\ sessions'[i].replaces = sessions[i].replaces
                                /\ sessions[i].revoked => sessions'[i].revoked
  PROVE  ExchangeInv'
  BY DEF ExchangeInv

LEMMA StepExchange == TypeOK /\ ExchangeInv /\ [Next]_vars => ExchangeInv'
  <1> SUFFICES ASSUME TypeOK, ExchangeInv, [Next]_vars
               PROVE  ExchangeInv'
    OBVIOUS
  <1>1. CASE UNCHANGED <<issued, sessions>>
    BY <1>1, QuietExchange
  <1>2. ASSUME NEW r \in Requests, NEW id \in 1 .. issued, NEW touch \in BOOLEAN,
               session_proof(r, id, touch)
        PROVE  ExchangeInv'
    <2>1. \A i \in 1 .. issued : /\ sessions'[i].replaces = sessions[i].replaces
                                 /\ sessions'[i].revoked = sessions[i].revoked
      BY <1>2, IssuedRow DEF session_proof, TypeOK, SessionRow
    <2> QED BY <1>2, <2>1, QuietExchange DEF session_proof
  <1>3. ASSUME NEW id \in 1 .. issued, refresh_session(id)
        PROVE  ExchangeInv'
    <2>1. \A i \in 1 .. issued : /\ sessions'[i].replaces = sessions[i].replaces
                                 /\ sessions'[i].revoked = sessions[i].revoked
      BY <1>3, IssuedRow DEF refresh_session, TypeOK, SessionRow
    <2> QED BY <1>3, <2>1, QuietExchange DEF refresh_session
  <1>4. ASSUME NEW r \in Requests, revoke_current_session(r)
        PROVE  ExchangeInv'
    <2>1. \A i \in 1 .. issued : /\ sessions'[i].replaces = sessions[i].replaces
                                 /\ sessions[i].revoked => sessions'[i].revoked
      BY <1>4, IssuedRow DEF revoke_current_session, TypeOK, SessionRow
    <2> QED BY <1>4, <2>1, QuietExchange DEF revoke_current_session
  <1>5. ASSUME NEW r \in Requests, NEW policy \in Policies, create_session_for(r, policy)
        PROVE  ExchangeInv'
    <2>1. PICK n \in SessionIds : n = issued + 1 /\ issued \in Nat /\ issued' = n
      BY <1>5, SessionAssumption DEF create_session_for, TypeOK, SessionIds
    <2>2. req[r].proof => req[r].id \in 1 .. issued /\ ~sessions[req[r].id].revoked
      BY <1>5 DEF create_session_for, CanReplace, recheck, lookup, Live
    <2>3. sessions'[n].replaces = IF req[r].proof THEN {req[r].id} ELSE {}
      BY <1>5, <2>1 DEF create_session_for, insert
    <2>4. ASSUME NEW i \in 1 .. issued
          PROVE  /\ sessions'[i].replaces = sessions[i].replaces
                 /\ sessions[i].revoked => sessions'[i].revoked
                 /\ req[r].proof /\ i = req[r].id => sessions'[i].revoked
      <3>1. i \in SessionIds /\ i # n /\ sessions[i] \in SessionRow
        BY <2>1, IssuedRow
      <3>2. sessions'[i] = IF req[r].proof /\ i = req[r].id
                           THEN [sessions[i] EXCEPT !.revoked = TRUE] ELSE sessions[i]
        BY <1>5, <2>1, <3>1 DEF create_session_for
      <3> QED BY <3>1, <3>2 DEF SessionRow
    <2>5. \A i \in 1 .. issued : sessions[i].replaces \cap sessions'[n].replaces = {}
      BY <2>2, <2>3 DEF ExchangeInv
    <2>6. \A i \in 1 .. issued' : i \in 1 .. issued \/ i = n
      BY <2>1
    <2>7. 1 .. issued \subseteq 1 .. issued'
      BY <2>1
    <2> QED BY <2>2, <2>3, <2>4, <2>5, <2>6, <2>7 DEF ExchangeInv
  <1> QED
    BY <1>1, <1>2, <1>3, <1>4, <1>5
       DEF Next, RequestStep, vars, local_login_key, check_password, password_verified,
           settle_password, revoke_all_sessions, manage_account, change_own_password,
           create_local_account, insert_federated_account, recover_local_password, Abandon, Tick

(***************************************************************************)
(* However many reauthentications race with one proof, a session is         *)
(* exchanged for at most one other, and an exchanged session is closed.     *)
(***************************************************************************)
THEOREM ExchangedOnce == Spec => []OneSuccessor
  <1>1. Init => ExchangeInv  BY InitExchange
  <1>2. TypeOK /\ ExchangeInv /\ [Next]_vars => ExchangeInv'  BY StepExchange
  <1>3. ExchangeInv => OneSuccessor
    BY DEF ExchangeInv, OneSuccessor
  <1> QED BY <1>1, <1>2, <1>3, TypeCorrect, PTL DEF Spec

-----------------------------------------------------------------------------
(* Renewal moves the idle expiry only. *)
LEMMA RenewedBounded ==
  ASSUME NEW l \in SessionLifetime, NEW n \in Nat, Bounded(l)
  PROVE  Bounded(Renewed(l, n))
  BY DEF SessionLifetime, Renewed, Bounded

(* Steps that issue nothing and leave every lifetime as it was. *)
LEMMA QuietLifetimes ==
  ASSUME LifetimeInv, UNCHANGED issued,
         \A i \in 1 .. issued : \/ sessions'[i].lifetime = sessions[i].lifetime
                                \/ Bounded(sessions'[i].lifetime)
  PROVE  LifetimeInv'
  BY DEF LifetimeInv, Bounded

LEMMA StepLifetimes == TypeOK /\ LifetimeInv /\ [Next]_vars => LifetimeInv'
  <1> SUFFICES ASSUME TypeOK, LifetimeInv, [Next]_vars
               PROVE  LifetimeInv'
    OBVIOUS
  <1>1. CASE UNCHANGED <<issued, sessions>>
    BY <1>1, QuietLifetimes
  <1>2. ASSUME NEW id \in 1 .. issued
        PROVE  Bounded(sessions[id].lifetime) /\ Bounded(Renewed(sessions[id].lifetime, now))
    BY IssuedRow, RenewedBounded DEF LifetimeInv, TypeOK
  <1>3. ASSUME NEW r \in Requests, NEW id \in 1 .. issued, NEW touch \in BOOLEAN,
               session_proof(r, id, touch)
        PROVE  LifetimeInv'
    <2>1. \A i \in 1 .. issued :
            sessions'[i].lifetime \in {sessions[i].lifetime, Renewed(sessions[i].lifetime, now)}
      BY <1>3, IssuedRow DEF session_proof, TypeOK, SessionRow
    <2> QED BY <1>2, <1>3, <2>1, QuietLifetimes DEF session_proof
  <1>4. ASSUME NEW id \in 1 .. issued, refresh_session(id)
        PROVE  LifetimeInv'
    <2>1. \A i \in 1 .. issued :
            sessions'[i].lifetime \in {sessions[i].lifetime, Renewed(sessions[i].lifetime, now)}
      BY <1>4, IssuedRow DEF refresh_session, TypeOK, SessionRow
    <2> QED BY <1>2, <1>4, <2>1, QuietLifetimes DEF refresh_session
  <1>5. ASSUME NEW r \in Requests, revoke_current_session(r)
        PROVE  LifetimeInv'
    <2>1. \A i \in 1 .. issued : sessions'[i].lifetime = sessions[i].lifetime
      BY <1>5, IssuedRow DEF revoke_current_session, TypeOK, SessionRow
    <2> QED BY <1>5, <2>1, QuietLifetimes DEF revoke_current_session
  <1>6. ASSUME NEW r \in Requests, NEW policy \in Policies, create_session_for(r, policy)
        PROVE  LifetimeInv'
    <2>1. PICK n \in SessionIds : n = issued + 1 /\ issued \in Nat /\ issued' = n
      BY <1>6, SessionAssumption DEF create_session_for, TypeOK, SessionIds
    <2>2. sessions'[n].lifetime = NewLifetime(now, policy)
      BY <1>6, <2>1 DEF create_session_for, insert
    <2>3. ASSUME NEW i \in 1 .. issued
          PROVE  sessions'[i].lifetime = sessions[i].lifetime
      <3>1. i \in SessionIds /\ i # n /\ sessions[i] \in SessionRow
        BY <2>1, IssuedRow
      <3>2. sessions'[i] = IF req[r].proof /\ i = req[r].id
                           THEN [sessions[i] EXCEPT !.revoked = TRUE] ELSE sessions[i]
        BY <1>6, <2>1, <3>1 DEF create_session_for
      <3> QED BY <3>1, <3>2 DEF SessionRow
    <2>4. Bounded(NewLifetime(now, policy))
      BY DEF NewLifetime, Bounded
    <2>5. \A i \in 1 .. issued' : i \in 1 .. issued \/ i = n
      BY <2>1
    <2> QED BY <1>2, <2>2, <2>3, <2>4, <2>5 DEF LifetimeInv
  <1> QED
    BY <1>1, <1>3, <1>4, <1>5, <1>6
       DEF Next, RequestStep, vars, local_login_key, check_password, password_verified,
           settle_password, revoke_all_sessions, manage_account, change_own_password,
           create_local_account, insert_federated_account, recover_local_password, Abandon, Tick

(***************************************************************************)
(* No session is accepted past the absolute end its policy gave it, however *)
(* often activity and rotation renew it (SessionLifetime::renew).           *)
(***************************************************************************)
THEOREM SessionsEndOnTime == Spec => []NoneOutlivesItsPolicy
  <1>1. Init => LifetimeInv  BY DEF Init, LifetimeInv
  <1>2. TypeOK /\ LifetimeInv /\ [Next]_vars => LifetimeInv'  BY StepLifetimes
  <1>3. LifetimeInv => NoneOutlivesItsPolicy
    BY DEF LifetimeInv, Bounded, NoneOutlivesItsPolicy, Live, valid_at
  <1> QED BY <1>1, <1>2, <1>3, TypeCorrect, PTL DEF Spec

-----------------------------------------------------------------------------
(***************************************************************************)
(* The refinement.  A step that issues nothing and changes no token only    *)
(* withdraws credentials, provided it revives no session.                   *)
(***************************************************************************)
LEMMA OnlyWithdraws ==
  ASSUME UNCHANGED <<issued, generated>>,
         \A i \in 1 .. issued : /\ sessions'[i].token_hash = sessions[i].token_hash
                                /\ Live(i)' => Live(i)
  PROVE  Ledger!Withdraw
  <1>1. Good' \subseteq Good
    BY DEF Good
  <1> QED BY <1>1 DEF Ledger!Withdraw

(* An account that opens an epoch leaves none of its sessions live. *)
LEMMA AdvanceWithdraws ==
  ASSUME TypeOK, GenerationInv,
         NEW a \in Accounts, NEW s \in AccountState, s.epoch = accounts[a].epoch + 1,
         accounts' = [accounts EXCEPT ![a] = s],
         UNCHANGED <<now, issued, sessions, generated>>
  PROVE  Ledger!Withdraw
  <1>1. ASSUME NEW i \in 1 .. issued, Live(i)' PROVE Live(i)
    <2>1. sessions[i].principal \in Accounts /\ sessions[i].auth_epoch \in Int
      BY IssuedRow
    <2>2. accounts[a].epoch \in Int
      BY EpochIsInt DEF TypeOK
    <2>3. CASE sessions[i].principal = a
      <3>1. accounts'[a] = s
        BY DEF TypeOK
      <3>2. sessions[i].auth_epoch <= accounts[a].epoch
        BY <2>3 DEF GenerationInv, RowInv
      <3>3. sessions[i].auth_epoch = s.epoch
        BY <1>1, <2>3, <3>1 DEF Live
      <3> QED BY <2>1, <2>2, <3>2, <3>3
    <2>4. CASE sessions[i].principal # a
      <3>1. accounts'[sessions[i].principal] = accounts[sessions[i].principal]
        BY <2>1, <2>4 DEF TypeOK
      <3> QED BY <1>1, <3>1 DEF Live
    <2> QED BY <2>3, <2>4
  <1> QED BY <1>1, OnlyWithdraws

(* Nor does a new account revive the sessions of others. *)
LEMMA NewAccountWithdraws ==
  ASSUME TypeOK, GenerationInv, NEW a \in Accounts, a \notin known,
         NEW s, accounts' = [accounts EXCEPT ![a] = s],
         UNCHANGED <<now, issued, sessions, generated>>
  PROVE  Ledger!Withdraw
  <1>1. ASSUME NEW i \in 1 .. issued, Live(i)' PROVE Live(i)
    <2>1. sessions[i].principal \in Accounts /\ sessions[i].principal # a
      BY IssuedRow DEF GenerationInv, RowInv
    <2>2. accounts'[sessions[i].principal] = accounts[sessions[i].principal]
      BY <2>1 DEF TypeOK
    <2> QED BY <1>1, <2>2 DEF Live
  <1> QED BY <1>1, OnlyWithdraws

LEMMA InitLedger == Init => Ledger!LedgerInit
  BY DEF Init, Ledger!LedgerInit, Good

LEMMA ProofStepLedger ==
  ASSUME TypeOK, NEW r \in Requests, NEW id \in 1 .. issued, NEW touch \in BOOLEAN,
         session_proof(r, id, touch)
  PROVE  Ledger!Withdraw
  <1>1. ASSUME NEW i \in 1 .. issued
        PROVE  /\ sessions'[i].token_hash = sessions[i].token_hash
               /\ sessions'[i].principal = sessions[i].principal
               /\ sessions'[i].auth_epoch = sessions[i].auth_epoch
               /\ sessions'[i].membership_epoch = sessions[i].membership_epoch
               /\ sessions'[i].revoked = sessions[i].revoked
               /\ i # id => sessions'[i] = sessions[i]
    BY IssuedRow DEF session_proof, TypeOK, SessionRow
  <1>2. Live(id)
    BY DEF session_proof, lookup
  <1>3. \A i \in 1 .. issued : Live(i)' => Live(i)
    BY <1>1, <1>2 DEF Live, session_proof
  <1> QED BY <1>1, <1>3, OnlyWithdraws DEF session_proof

(* The next secret is one nobody has held. *)
LEMMA NextSecret ==
  ASSUME TypeOK, generated < MaxTokens, generated' = generated + 1
  PROVE  /\ generated + 1 \in Tokens \ (1 .. generated)
         /\ 1 .. generated' = (1 .. generated) \cup {generated + 1}
  <1>1. generated \in Nat /\ generated + 1 \in 1 .. MaxTokens /\ generated + 1 \notin 1 .. generated
    BY SessionAssumption DEF TypeOK
  <1>2. 1 .. (generated + 1) = (1 .. generated) \cup {generated + 1}
    BY <1>1
  <1> QED BY <1>1, <1>2 DEF Tokens

LEMMA NextSession ==
  ASSUME TypeOK, NEW n \in SessionIds, n = issued + 1, issued' = n
  PROVE  /\ n \in SessionIds \ (1 .. issued)
         /\ 1 .. issued' = (1 .. issued) \cup {n}
  BY SessionAssumption DEF TypeOK

LEMMA RefreshLedger ==
  ASSUME TypeOK, NEW id \in 1 .. issued, refresh_session(id)
  PROVE  Ledger!Rotate
  <1> DEFINE old == <<id, sessions[id].token_hash>>
             t == generated + 1
  <1>1. /\ Live(id) /\ generated < MaxTokens /\ generated' = t
        /\ UNCHANGED <<now, known, accounts, issued>>
    BY DEF refresh_session, lookup
  <1>2. /\ sessions'[id].token_hash = t
        /\ sessions'[id].principal = sessions[id].principal
        /\ sessions'[id].auth_epoch = sessions[id].auth_epoch
        /\ sessions'[id].membership_epoch = sessions[id].membership_epoch
        /\ sessions'[id].revoked = sessions[id].revoked
        /\ sessions'[id].lifetime = Renewed(sessions[id].lifetime, now)
    BY IssuedRow DEF refresh_session, TypeOK, SessionRow
  <1>3. \A i \in 1 .. issued : i # id => sessions'[i] = sessions[i]
    BY IssuedRow DEF refresh_session, TypeOK
  <1>4. Live(id)'
    <2>1. valid_at(Renewed(sessions[id].lifetime, now), now)
      BY <1>1, IssuedRow, RenewedValid DEF Live, TypeOK
    <2> QED BY <1>1, <1>2, <2>1 DEF Live
  <1>5. \A i \in 1 .. issued : i # id => (Live(i)' <=> Live(i))
    BY <1>1, <1>3 DEF Live
  <1>6. Good' = (Good \ {old}) \cup {<<id, t>>}
    <2>1. \A x : x \in Good' <=> \E i \in 1 .. issued : Live(i)' /\ x = <<i, sessions'[i].token_hash>>
      BY <1>1 DEF Good
    <2>2. \A x : x \in Good <=> \E i \in 1 .. issued : Live(i) /\ x = <<i, sessions[i].token_hash>>
      BY DEF Good
    <2>3. ASSUME NEW x \in Good' PROVE x \in (Good \ {old}) \cup {<<id, t>>}
      <3>1. PICK i \in 1 .. issued : Live(i)' /\ x = <<i, sessions'[i].token_hash>>
        BY <2>1, <2>3
      <3>2. CASE i = id
        BY <1>2, <3>1, <3>2
      <3>3. CASE i # id
        <4>1. x = <<i, sessions[i].token_hash>> /\ Live(i)
          BY <1>3, <1>5, <3>1, <3>3
        <4> QED BY <2>2, <3>3, <4>1
      <3> QED BY <3>2, <3>3
    <2>4. ASSUME NEW x \in (Good \ {old}) \cup {<<id, t>>} PROVE x \in Good'
      <3>1. CASE x = <<id, t>>
        BY <1>2, <1>4, <2>1, <3>1
      <3>2. CASE x \in Good \ {old}
        <4>1. PICK i \in 1 .. issued : Live(i) /\ x = <<i, sessions[i].token_hash>>
          BY <2>2, <3>2
        <4>2. i # id
          BY <3>2, <4>1
        <4> QED BY <1>3, <1>5, <2>1, <4>1, <4>2
      <3> QED BY <2>4, <3>1, <3>2
    <2> QED BY <2>3, <2>4
  <1>7. old \in Good /\ old[1] = id
    BY <1>1 DEF Good
  <1>8. /\ t \in Tokens \ (1 .. generated)
        /\ 1 .. generated' = (1 .. generated) \cup {t}
    BY <1>1, NextSecret
  <1> QED BY <1>1, <1>6, <1>7, <1>8 DEF Ledger!Rotate

(***************************************************************************)
(* A session issued in exchange for another takes its credential out of the *)
(* ledger and puts its own in; one issued for nothing only adds its own.    *)
(***************************************************************************)
LEMMA CreateLedger ==
  ASSUME TypeOK, NEW r \in Requests, NEW policy \in Policies, create_session_for(r, policy)
  PROVE  Ledger!Issue
  <1> DEFINE a == req[r].principal
             old == <<req[r].id, sessions[req[r].id].token_hash>>
             t == generated + 1
  <1>1. PICK n \in SessionIds : n = issued + 1 /\ issued \in Nat /\ issued' = n
    BY SessionAssumption DEF create_session_for, TypeOK, SessionIds
  <1>2. /\ generated < MaxTokens /\ generated' = t /\ UNCHANGED <<now, accounts>>
        /\ a \in Accounts /\ active(accounts[a])
    BY DEF create_session_for, current, matches_verification, TypeOK, Request
  <1>3. req[r].proof => req[r].id \in 1 .. issued /\ Live(req[r].id)
    BY DEF create_session_for, CanReplace, recheck, lookup
  <1>4. Live(n)' /\ sessions'[n].token_hash = t
    <2>1. sessions'[n] = insert(r, policy)
      BY <1>1 DEF create_session_for
    <2>2. policy \in SessionPolicy /\ now \in Nat
      BY SessionAssumption DEF TypeOK
    <2>3. valid_at(NewLifetime(now, policy), now)
      BY <2>2, NewLifetimeType
    <2>4. /\ sessions'[n].principal = a /\ sessions'[n].auth_epoch = accounts[a].epoch
          /\ sessions'[n].membership_epoch = accounts[a].membership_epoch
          /\ sessions'[n].lifetime = NewLifetime(now, policy)
          /\ sessions'[n].revoked = FALSE /\ sessions'[n].token_hash = t
      BY <2>1 DEF insert
    <2>5. n \in 1 .. issued'
      BY <1>1
    <2> QED BY <1>2, <2>3, <2>4, <2>5 DEF Live
  <1>5. ASSUME NEW i \in 1 .. issued
        PROVE  /\ sessions'[i].token_hash = sessions[i].token_hash
               /\ req[r].proof /\ i = req[r].id => ~Live(i)'
               /\ ~(req[r].proof /\ i = req[r].id) => (Live(i)' <=> Live(i))
    <2>1. i \in SessionIds /\ i # n /\ sessions[i] \in SessionRow /\ i \in 1 .. issued'
      BY <1>1, IssuedRow
    <2>2. sessions'[i] = IF req[r].proof /\ i = req[r].id
                         THEN [sessions[i] EXCEPT !.revoked = TRUE] ELSE sessions[i]
      BY <1>1, <2>1 DEF create_session_for
    <2>3. CASE req[r].proof /\ i = req[r].id
      <3>1. sessions'[i].revoked = TRUE /\ sessions'[i].token_hash = sessions[i].token_hash
        BY <2>1, <2>2, <2>3 DEF SessionRow
      <3> QED BY <2>3, <3>1 DEF Live
    <2>4. CASE ~(req[r].proof /\ i = req[r].id)
      BY <1>2, <2>1, <2>2, <2>4 DEF Live
    <2> QED BY <2>3, <2>4
  <1>6. \A x : x \in Good' <=> \E i \in 1 .. issued' : Live(i)' /\ x = <<i, sessions'[i].token_hash>>
    BY DEF Good
  <1>7. \A x : x \in Good <=> \E i \in 1 .. issued : Live(i) /\ x = <<i, sessions[i].token_hash>>
    BY DEF Good
  <1>8. /\ \A i \in 1 .. issued' : i \in 1 .. issued \/ i = n
        /\ \A i \in 1 .. issued : i \in 1 .. issued' /\ i # n
        /\ n \in 1 .. issued'
    BY <1>1
  <1>9. CASE req[r].proof
    <2>1. old \in Good
      BY <1>3, <1>7, <1>9
    <2>2. ASSUME NEW x \in Good' PROVE x \in (Good \ {old}) \cup {<<n, t>>}
      <3>1. PICK i \in 1 .. issued' : Live(i)' /\ x = <<i, sessions'[i].token_hash>>
        BY <1>6, <2>2
      <3>2. CASE i = n
        BY <1>4, <3>1, <3>2
      <3>3. CASE i # n
        <4>1. i \in 1 .. issued /\ i # req[r].id
          BY <1>5, <1>8, <1>9, <3>1, <3>3
        <4>2. Live(i) /\ x = <<i, sessions[i].token_hash>>
          BY <1>5, <3>1, <4>1
        <4> QED BY <1>7, <4>1, <4>2
      <3> QED BY <3>2, <3>3
    <2>3. ASSUME NEW x \in (Good \ {old}) \cup {<<n, t>>} PROVE x \in Good'
      <3>1. CASE x = <<n, t>>
        BY <1>4, <1>6, <1>8, <3>1
      <3>2. CASE x \in Good \ {old}
        <4>1. PICK i \in 1 .. issued : Live(i) /\ x = <<i, sessions[i].token_hash>>
          BY <1>7, <3>2
        <4>2. i # req[r].id
          BY <3>2, <4>1
        <4> QED BY <1>5, <1>6, <1>8, <4>1, <4>2
      <3> QED BY <2>3, <3>1, <3>2
    <2>4. Good' = (Good \ {old}) \cup {<<n, t>>}
      BY <2>2, <2>3
    <2> QED BY <1>1, <1>2, <2>1, <2>4, NextSession, NextSecret DEF Ledger!Issue
  <1>10. CASE ~req[r].proof
    <2>1. Good' = Good \cup {<<n, t>>}
      BY <1>4, <1>5, <1>6, <1>7, <1>8, <1>10
    <2> QED BY <1>1, <1>2, <2>1, NextSession, NextSecret DEF Ledger!Issue
  <1> QED BY <1>9, <1>10

LEMMA StepLedger == TypeOK /\ GenerationInv /\ [Next]_vars => [Ledger!LedgerNext]_(Ledger!ledger)
  <1> SUFFICES ASSUME TypeOK, GenerationInv, [Next]_vars
               PROVE  Ledger!LedgerNext \/ UNCHANGED Ledger!ledger
    OBVIOUS
  <1>1. CASE UNCHANGED <<now, accounts, issued, sessions, generated>>
    <2>1. \A i \in 1 .. issued : Live(i)' <=> Live(i)
      BY <1>1 DEF Live
    <2> QED BY <1>1, <2>1, OnlyWithdraws DEF Ledger!LedgerNext
  <1>2. ASSUME NEW r \in Requests, NEW id \in 1 .. issued, NEW touch \in BOOLEAN,
               session_proof(r, id, touch)
        PROVE  Ledger!LedgerNext
    BY <1>2, ProofStepLedger DEF Ledger!LedgerNext
  <1>3. ASSUME NEW id \in 1 .. issued, refresh_session(id)
        PROVE  Ledger!LedgerNext
    BY <1>3, RefreshLedger DEF Ledger!LedgerNext
  <1>4. ASSUME NEW r \in Requests, NEW policy \in Policies, create_session_for(r, policy)
        PROVE  Ledger!LedgerNext
    BY <1>4, CreateLedger DEF Ledger!LedgerNext
  <1>5. ASSUME NEW r \in Requests, revoke_current_session(r)
        PROVE  Ledger!LedgerNext
    <2>1. ASSUME NEW i \in 1 .. issued
          PROVE  /\ sessions'[i].token_hash = sessions[i].token_hash
                 /\ Live(i)' => Live(i)
      <3>1. i \in SessionIds /\ sessions[i] \in SessionRow
        BY IssuedRow
      <3>2. \/ sessions'[i] = sessions[i]
            \/ sessions'[i] = [sessions[i] EXCEPT !.revoked = TRUE]
        BY <1>5, <3>1 DEF revoke_current_session, TypeOK
      <3>3. /\ sessions'[i].token_hash = sessions[i].token_hash
            /\ sessions'[i] = sessions[i] \/ sessions'[i].revoked = TRUE
        BY <3>1, <3>2 DEF SessionRow
      <3> QED BY <1>5, <3>3 DEF Live, revoke_current_session
    <2> QED BY <1>5, <2>1, OnlyWithdraws DEF Ledger!LedgerNext, revoke_current_session
  <1>6. ASSUME NEW r \in Requests, revoke_all_sessions(r)
        PROVE  Ledger!LedgerNext
    <2>1. req[r].principal \in Accounts
      BY DEF TypeOK, Request
    <2> QED BY <1>6, <2>1, RevokedType, AdvanceWithdraws
            DEF revoke_all_sessions, TypeOK, Ledger!LedgerNext
  <1>7. ASSUME NEW r \in Requests, NEW target \in Accounts, NEW change \in LocalChange,
               manage_account(r, target, change)
        PROVE  Ledger!LedgerNext
    BY <1>7, ChangedType, AdvanceWithdraws DEF manage_account, TypeOK, Ledger!LedgerNext
  <1>8. ASSUME NEW r \in Requests, change_own_password(r)
        PROVE  Ledger!LedgerNext
    <2>1. req[r].principal \in Accounts
      BY DEF TypeOK, Request
    <2> QED BY <1>8, <2>1, ChangedType, PasswordChangeType, AdvanceWithdraws
            DEF change_own_password, TypeOK, Ledger!LedgerNext
  <1>9. ASSUME NEW a \in Accounts, recover_local_password(a)
        PROVE  Ledger!LedgerNext
    BY <1>9, RecoveredType, AdvanceWithdraws DEF recover_local_password, TypeOK, Ledger!LedgerNext
  <1>10. ASSUME NEW a \in Accounts,
                insert_federated_account(a) \/ \E r \in Requests : create_local_account(r, a)
         PROVE  Ledger!LedgerNext
    BY <1>10, NewAccountWithdraws
       DEF insert_federated_account, create_local_account, Ledger!LedgerNext
  <1>11. CASE Tick
    <2>1. ASSUME NEW i \in 1 .. issued, Live(i)' PROVE Live(i)
      <3>1. sessions[i].lifetime \in SessionLifetime /\ sessions[i].lifetime.issued_at <= now
        BY IssuedRow DEF GenerationInv, RowInv
      <3>2. valid_at(sessions[i].lifetime, now + 1) => valid_at(sessions[i].lifetime, now)
        BY <3>1 DEF valid_at, SessionLifetime, TypeOK
      <3> QED BY <1>11, <2>1, <3>2 DEF Live, Tick
    <2> QED BY <1>11, <2>1, OnlyWithdraws DEF Tick, Ledger!LedgerNext
  <1> QED
    BY <1>1, <1>2, <1>3, <1>4, <1>5, <1>6, <1>7, <1>8, <1>9, <1>10, <1>11
       DEF Next, RequestStep, vars, local_login_key, check_password, password_verified,
           settle_password, Abandon

(***************************************************************************)
(* The authority implements the credential ledger: a credential is accepted *)
(* only from its issue or rotation on, and never again once it was refused. *)
(***************************************************************************)
THEOREM AuthorityImplementsLedger == Spec => CredentialsNeverReturn
  <1>1. Init => Ledger!LedgerInit  BY InitLedger
  <1>2. TypeOK /\ GenerationInv /\ [Next]_vars => [Ledger!LedgerNext]_(Ledger!ledger)
    BY StepLedger
  <1> QED BY <1>1, <1>2, TypeCorrect, GenerationsFence, PTL
          DEF Spec, CredentialsNeverReturn, Ledger!LedgerSpec
=============================================================================
