--------------------------- MODULE FederationProofs ---------------------------
(***************************************************************************)
(* Proofs about sign-in, linking and step-up through upstream providers, for *)
(* every number of accounts, providers, subjects and operations, and every   *)
(* bound.                                                                  *)
(***************************************************************************)
EXTENDS Federation, SequenceTheorems, TLAPS

(* No version of a provider has two meanings, so claims that name the version *)
(* of today carry the meaning of today.                                      *)
ReadUnder(p, version, meaning) ==
  /\ version <= providers[p].version
  /\ version = providers[p].version => meaning = providers[p].meaning

Read(o) == ReadUnder(o.identity[1], o.version, o.meaning)

ProvidersInv ==
  \A p \in Providers : /\ providers[p].revocation_epoch <= providers[p].version
                       /\ providers[p].meaning <= providers[p].version

(* An identity is linked to an account that exists. *)
IdentitiesInv ==
  \A k \in Identity : identities[k] \in known \cup {Nobody}

(* A session is of a generation its account has had, owns the identity it     *)
(* came from, and used up the attempt and the session it replaced.           *)
SessionOK(s) ==
  LET row == sessions[s] IN
  /\ row.principal \in known
  /\ row.auth_epoch <= accounts[row.principal].epoch
  /\ row.origin # NoOrigin =>
       Read(row.origin) /\ identities[row.origin.identity] = row.principal
  /\ row.attempt # 0 => /\ row.attempt \in Ids(attempts)
                        /\ attempts[row.attempt].stage = "gone"
  /\ row.replaces # 0 => /\ row.replaces \in Ids(sessions)
                         /\ sessions[row.replaces].revoked

AttemptOK(a) ==
  LET row == attempts[a] IN
  /\ row.link = 0 <=> row.purpose \in {"login", "step_up"}
  /\ row.link \in 0 .. Len(intents)
  /\ row.purpose = "step_up" => row.replacement # 0

(* A link intent goes to the target only with the proof it needs, and a       *)
(* completed one owns the identity it was for.                               *)
IntentOK(i) ==
  LET row == intents[i] IN
  /\ row.principal \in known
  /\ row.origin # NoOrigin => Read(row.origin)
  /\ row.stage = "target_ready" /\ row.origin # NoOrigin => row.proof = row.origin.identity
  /\ row.stage = "completed" =>
       row.linked \in Identity /\ identities[row.linked] = row.principal

GrantOK(g) ==
  LET row == grants[g] IN
  /\ row.attempt \in Ids(attempts) /\ attempts[row.attempt].stage = "gone"
  /\ Read(row.source)

(* What an operation read is of the provider's past, if not of its present. *)
FlowOK(f) ==
  /\ flow[f].pc = "prepared" /\ flow[f].purpose = "step_up" => flow[f].session # 0
  /\ flow[f].pc = "retargeted" => flow[f].purpose = "reauthenticate"
  /\ Redeeming(f) =>
       LET row == attempts[flow[f].attempt] IN
       /\ flow[f].attempt \in Ids(attempts)
       /\ row.stage # "open" /\ row.purpose = flow[f].purpose /\ row.version = flow[f].view
       /\ ReadUnder(flow[f].provider, flow[f].view, flow[f].meaning)

RowsInv ==
  /\ \A s \in Ids(sessions) : SessionOK(s)
  /\ \A a \in Ids(attempts) : AttemptOK(a)
  /\ \A i \in Ids(intents) : IntentOK(i)
  /\ \A g \in Ids(grants) : GrantOK(g)
  /\ \A f \in Flows : FlowOK(f)

BoundsInv ==
  Len(sessions) <= MaxSessions /\ Len(attempts) <= MaxAttempts /\ Len(intents) <= MaxIntents

FederationInv ==
  /\ TypeOK /\ ProvidersInv /\ IdentitiesInv /\ BoundsInv /\ RowsInv
  /\ RedeemedOnce /\ ReplacedOnce

-----------------------------------------------------------------------------
(* Rows and their updates have their types. *)

LEMMA MappedSeq ==
  ASSUME NEW S, NEW n \in Nat, NEW f \in [1 .. n -> S]
  PROVE  f \in Seq(S) /\ Len(f) = n
  OBVIOUS

LEMMA AccountFields ==
  /\ \A x \in AccountState : /\ x.epoch \in Epoch /\ x.epoch \in Nat
                             /\ x.membership_epoch \in Epoch /\ x.membership_epoch \in Nat
  /\ new_local \in AccountState /\ new_federated \in AccountState
  BY EpochLimitAssumption DEF AccountState, Epoch, NewAccount, new_local, new_federated

LEMMA RevokedType ==
  ASSUME NEW s \in AccountState, CanRevokeSessions(s)
  PROVE  revoke_sessions(s) \in AccountState /\ revoke_sessions(s).epoch = s.epoch + 1
  <1>1. s.epoch + 1 \in Epoch
    BY EpochLimitAssumption DEF CanRevokeSessions, AccountState, Epoch
  <1> QED BY <1>1, Zenon DEF revoke_sessions, AccountState

LEMMA ChangedType ==
  ASSUME NEW s \in AccountState, NEW change \in LocalChange, CanChange(s, change)
  PROVE  Changed(s, change) \in AccountState /\ Changed(s, change).epoch = s.epoch + 1
  <1>1. s.epoch + 1 \in Epoch
    BY EpochLimitAssumption DEF CanChange, AccountState, Epoch
  <1>2. (IF ChangesMembership(s, change) THEN s.membership_epoch + 1 ELSE s.membership_epoch) \in Epoch
    BY EpochLimitAssumption DEF CanChange, AccountState, Epoch
  <1>3. (IF change.what = "password" THEN s.password + 1 ELSE s.password) \in Nat
    BY DEF AccountState
  <1>4. /\ (IF change.what = "enabled" THEN change.value ELSE s.enabled) \in BOOLEAN
        /\ (IF change.what = "membership" THEN change.value ELSE s.member_active) \in BOOLEAN
    BY DEF AccountState, LocalChange
  <1> QED BY <1>1, <1>2, <1>3, <1>4, Zenon DEF Changed, AccountState

LEMMA OriginFields ==
  \A o \in Origin : /\ o.identity \in Identity /\ o.identity[1] \in Providers
                    /\ o.version \in Version /\ o.version \in Nat
                    /\ o.meaning \in Version /\ o.meaning \in Nat
  BY FederationAssumption DEF Origin, Identity, Version

LEMMA OriginType ==
  ASSUME NEW k \in Identity, NEW e \in Version, NEW v \in Version, NEW m \in Version
  PROVE  [identity |-> k, epoch |-> e, version |-> v, meaning |-> m] \in Origin
  BY DEF Origin

RenewedOrigin(o, v, m) == [[o EXCEPT !.version = v] EXCEPT !.meaning = m]

LEMMA OriginRenewed ==
  ASSUME NEW o \in Origin, NEW v \in Version, NEW m \in Version
  PROVE  LET new == RenewedOrigin(o, v, m) IN
         /\ new \in Origin /\ new.identity = o.identity /\ new.version = v /\ new.meaning = m
  BY Zenon DEF RenewedOrigin, Origin

LEMMA ProviderFields ==
  \A r \in Provider : /\ r.version \in Version /\ r.version \in Nat
                      /\ r.revocation_epoch \in Version /\ r.revocation_epoch \in Nat
                      /\ r.meaning \in Version /\ r.meaning \in Nat
  BY FederationAssumption DEF Provider, Version

LEMMA SessionFields ==
  \A r \in SessionRow :
    /\ r.principal \in Accounts /\ r.auth_epoch \in Nat /\ r.membership_epoch \in Nat
    /\ r.origin \in Origin \cup {NoOrigin} /\ r.revoked \in BOOLEAN
    /\ r.replaces \in 0 .. MaxSessions /\ r.attempt \in 0 .. MaxAttempts
  BY EpochLimitAssumption DEF SessionRow, Epoch

LEMMA SessionRevoked ==
  ASSUME NEW row \in SessionRow
  PROVE  LET new == [row EXCEPT !.revoked = TRUE] IN
         /\ new \in SessionRow /\ new.revoked
         /\ new.principal = row.principal /\ new.auth_epoch = row.auth_epoch
         /\ new.membership_epoch = row.membership_epoch
         /\ new.origin = row.origin /\ new.replaces = row.replaces /\ new.attempt = row.attempt
  BY Zenon DEF SessionRow

LEMMA AttemptFields ==
  \A r \in AttemptRow :
    /\ r.purpose \in Purpose /\ r.provider \in Providers /\ r.version \in Version
    /\ r.link \in 0 .. MaxIntents /\ r.replacement \in 0 .. MaxSessions
  BY DEF AttemptRow

LEMMA AttemptStage ==
  ASSUME NEW row \in AttemptRow, NEW st \in {"open", "claimed", "expired", "gone"}
  PROVE  LET new == [row EXCEPT !.stage = st] IN
         /\ new \in AttemptRow /\ new.stage = st
         /\ new.purpose = row.purpose /\ new.provider = row.provider /\ new.version = row.version
         /\ new.link = row.link /\ new.replacement = row.replacement
  BY Zenon DEF AttemptRow

LEMMA IntentFields ==
  \A r \in IntentRow :
    /\ r.principal \in Accounts /\ r.session \in 1 .. MaxSessions
    /\ r.origin \in Origin \cup {NoOrigin} /\ r.target \in Providers /\ r.version \in Version
  BY DEF IntentRow

LEMMA IntentCompleted ==
  ASSUME NEW row \in IntentRow, NEW k \in Identity
  PROVE  LET new == [[row EXCEPT !.stage = "completed"] EXCEPT !.linked = k] IN
         /\ new \in IntentRow /\ new.stage = "completed" /\ new.linked = k
         /\ new.principal = row.principal /\ new.origin = row.origin /\ new.proof = row.proof
  BY Zenon DEF IntentRow

(* The row after a re-authentication. *)
ProvenWith(row, k, o) ==
  [[[row EXCEPT !.stage = "target_ready"] EXCEPT !.proof = k] EXCEPT !.origin = o]

LEMMA IntentProven ==
  ASSUME NEW row \in IntentRow, NEW k \in Identity, NEW o \in Origin
  PROVE  LET new == ProvenWith(row, k, o) IN
         /\ new \in IntentRow /\ new.stage = "target_ready" /\ new.proof = k /\ new.origin = o
         /\ new.principal = row.principal
  BY Zenon DEF IntentRow, ProvenWith

LEMMA GrantFields ==
  \A r \in GrantRow :
    r.session \in 1 .. MaxSessions /\ r.source \in Origin /\ r.attempt \in 1 .. MaxAttempts
  BY DEF GrantRow

LEMMA GrantStage ==
  ASSUME NEW row \in GrantRow, NEW st \in {"spent", "gone"}
  PROVE  LET new == [row EXCEPT !.stage = st] IN
         /\ new \in GrantRow /\ new.stage = st
         /\ new.attempt = row.attempt /\ new.source = row.source
  BY Zenon DEF GrantRow

LEMMA FlowFields ==
  \A r \in Flow :
    /\ r.pc \in Phase /\ r.purpose \in Purpose /\ r.provider \in Providers /\ r.view \in Version
    /\ r.meaning \in Version /\ r.session \in 0 .. MaxSessions /\ r.snap \in AccountState
    /\ r.target \in Providers /\ r.target_view \in Version /\ r.attempt \in 0 .. MaxAttempts
    /\ r.subject \in Subjects
  BY DEF Flow

LEMMA IdleType == Idle \in Flow /\ Idle.pc = "idle"
  <1>1. (CHOOSE p \in Providers : TRUE) \in Providers /\ (CHOOSE u \in Subjects : TRUE) \in Subjects
    BY FederationAssumption
  <1>2. 0 \in Version /\ 0 \in 0 .. MaxSessions /\ 0 \in 0 .. MaxAttempts
    BY FederationAssumption DEF Version
  <1> QED BY <1>1, <1>2, AccountFields DEF Idle, Flow, Phase, Purpose

(* What an operation holds after its first transaction, and after its calls. *)
PreparedFlow(purpose, p, v, s) ==
  [Idle EXCEPT !.pc = "prepared", !.purpose = purpose, !.provider = p, !.view = v, !.session = s]

PreparedLink(purpose, p, v, s, snap, t, tv) ==
  [Idle EXCEPT !.pc = "prepared", !.purpose = purpose, !.provider = p, !.view = v, !.session = s,
               !.snap = snap, !.target = t, !.target_view = tv]

ClaimedFlow(purpose, p, v, m, a) ==
  [Idle EXCEPT !.pc = "claimed", !.purpose = purpose, !.provider = p, !.view = v,
               !.meaning = m, !.attempt = a]

ExchangedFlow(row, u) == [[row EXCEPT !.pc = "exchanged"] EXCEPT !.subject = u]

RetargetedFlow(row, t, tv) ==
  [[[row EXCEPT !.pc = "retargeted"] EXCEPT !.target = t] EXCEPT !.target_view = tv]

LEMMA FlowPrepared ==
  ASSUME NEW purpose \in Purpose, NEW p \in Providers, NEW v \in Version, NEW s \in 0 .. MaxSessions
  PROVE  LET new == PreparedFlow(purpose, p, v, s) IN
         new \in Flow /\ new.pc = "prepared" /\ new.purpose = purpose /\ new.session = s
  <1>1. "prepared" \in Phase
    BY DEF Phase
  <1> QED BY <1>1, IdleType, Zenon DEF PreparedFlow, Flow

LEMMA FlowLinkPrepared ==
  ASSUME NEW purpose \in Purpose, NEW p \in Providers, NEW v \in Version, NEW s \in 0 .. MaxSessions,
         NEW snap \in AccountState, NEW t \in Providers, NEW tv \in Version
  PROVE  LET new == PreparedLink(purpose, p, v, s, snap, t, tv) IN
         new \in Flow /\ new.pc = "prepared" /\ new.purpose = purpose /\ new.session = s
  <1>1. "prepared" \in Phase
    BY DEF Phase
  <1> QED BY <1>1, IdleType, Zenon DEF PreparedLink, Flow

LEMMA FlowClaimed ==
  ASSUME NEW purpose \in Purpose, NEW p \in Providers, NEW v \in Version, NEW m \in Version,
         NEW a \in 0 .. MaxAttempts
  PROVE  LET new == ClaimedFlow(purpose, p, v, m, a) IN
         /\ new \in Flow /\ new.pc = "claimed" /\ new.purpose = purpose /\ new.provider = p
         /\ new.view = v /\ new.meaning = m /\ new.attempt = a
  <1>1. "claimed" \in Phase
    BY DEF Phase
  <1> QED BY <1>1, IdleType, Zenon DEF ClaimedFlow, Flow

LEMMA FlowExchanged ==
  ASSUME NEW row \in Flow, NEW u \in Subjects
  PROVE  LET new == ExchangedFlow(row, u) IN
         /\ new \in Flow /\ new.pc = "exchanged" /\ new.purpose = row.purpose
         /\ new.provider = row.provider /\ new.view = row.view /\ new.meaning = row.meaning
         /\ new.attempt = row.attempt
  <1>1. "exchanged" \in Phase
    BY DEF Phase
  <1> QED BY <1>1, Zenon DEF ExchangedFlow, Flow

LEMMA FlowRetargeted ==
  ASSUME NEW row \in Flow, NEW t \in Providers, NEW tv \in Version
  PROVE  LET new == RetargetedFlow(row, t, tv) IN
         /\ new \in Flow /\ new.pc = "retargeted" /\ new.purpose = row.purpose
         /\ new.provider = row.provider /\ new.view = row.view /\ new.meaning = row.meaning
         /\ new.attempt = row.attempt
  <1>1. "retargeted" \in Phase
    BY DEF Phase
  <1> QED BY <1>1, Zenon DEF RetargetedFlow, Flow

-----------------------------------------------------------------------------
(* Which steps write what. *)
Quiets ==
  \/ \E f \in Flows, purpose \in Purpose, p \in Providers, s \in 0 .. Len(sessions) :
       prepare_authentication(f, purpose, p, s)
  \/ \E f \in Flows, s \in Ids(sessions), p \in Providers : prepare_link(f, s, p)
  \/ \E f \in Flows, u \in Subjects : exchange(f, u)
  \/ \E f \in Flows : retarget(f) \/ Abandon(f)

ProviderSteps ==
  \E p \in Providers : update_provider(p) \/ \E e \in BOOLEAN : enable_provider(p, e)

GrantSteps ==
  \E g \in Ids(grants) : consume_step_up_on(g) \/ cancel_step_up(g) \/ ExpireGrant(g)

AttemptSteps == \E a \in Ids(attempts) : cancel(a) \/ Expire(a)

Framed ==
  /\ UNCHANGED providers \/ ProviderSteps
  /\ \/ UNCHANGED <<known, accounts>>
     \/ \E f \in Flows : complete_login(f) \/ complete_link(f)
     \/ \E a \in Accounts, c \in Changes : change_account(a, c)
  /\ UNCHANGED identities \/ \E f \in Flows : complete_login(f) \/ complete_link(f)
  /\ \/ UNCHANGED sessions
     \/ \E f \in Flows : complete_login(f) \/ complete_link(f)
     \/ \E a \in Accounts : login_local(a)
     \/ \E s \in Ids(sessions) : EndSession(s)
  /\ \/ UNCHANGED attempts
     \/ \E f \in Flows : begin_authentication(f) \/ begin_link(f)
     \/ \E f \in Flows, a \in Ids(attempts) : claim(f, a)
     \/ AttemptSteps
     \/ \E f \in Flows : complete_login(f) \/ complete_step_up(f) \/ complete_link(f)
     \/ \E f \in Flows : finish_reauthentication(f)
  /\ \/ UNCHANGED intents
     \/ \E f \in Flows : begin_link(f) \/ complete_link(f) \/ finish_reauthentication(f)
  /\ \/ UNCHANGED grants
     \/ \E f \in Flows : complete_step_up(f)
     \/ GrantSteps
  /\ \/ UNCHANGED flow
     \/ Quiets
     \/ \E f \in Flows, a \in Ids(attempts) : claim(f, a)
     \/ \E f \in Flows : Ended(f)

LEMMA Frames == ASSUME [Next]_vars PROVE Framed
  <1>1. ASSUME NEW f \in Flows, NEW purpose \in Purpose, NEW p \in Providers,
               NEW s \in 0 .. Len(sessions), prepare_authentication(f, purpose, p, s)
        PROVE  Framed
    BY <1>1 DEF prepare_authentication, Quiets, Framed
  <1>2. ASSUME NEW f \in Flows, NEW s \in Ids(sessions), NEW p \in Providers, prepare_link(f, s, p)
        PROVE  Framed
    BY <1>2 DEF prepare_link, Quiets, Framed
  <1>3. ASSUME NEW f \in Flows, NEW u \in Subjects, exchange(f, u)
        PROVE  Framed
    BY <1>3 DEF exchange, Quiets, Framed
  <1>4. ASSUME NEW f \in Flows, retarget(f) \/ Abandon(f)
        PROVE  Framed
    BY <1>4 DEF retarget, Abandon, Quiets, Framed
  <1>5. ASSUME NEW f \in Flows, NEW a \in Ids(attempts), claim(f, a)
        PROVE  Framed
    BY <1>5 DEF claim, Framed
  <1>6. ASSUME NEW f \in Flows, begin_authentication(f) \/ begin_link(f)
        PROVE  Framed
    BY <1>6 DEF begin_authentication, begin_link, Framed
  <1>7. ASSUME NEW f \in Flows, complete_login(f)
        PROVE  Framed
    BY <1>7 DEF complete_login, Framed
  <1>8. ASSUME NEW f \in Flows, complete_step_up(f)
        PROVE  Framed
    BY <1>8 DEF complete_step_up, Framed
  <1>9. ASSUME NEW f \in Flows, complete_link(f)
        PROVE  Framed
    BY <1>9 DEF complete_link, Framed
  <1>10. ASSUME NEW f \in Flows, finish_reauthentication(f)
        PROVE  Framed
    BY <1>10 DEF finish_reauthentication, Framed
  <1>11. ASSUME NEW a \in Ids(attempts), cancel(a) \/ Expire(a)
        PROVE  Framed
    BY <1>11 DEF cancel, Expire, AttemptSteps, Framed
  <1>12. ASSUME NEW g \in Ids(grants),
               consume_step_up_on(g) \/ cancel_step_up(g) \/ ExpireGrant(g)
        PROVE  Framed
    BY <1>12 DEF consume_step_up_on, cancel_step_up, ExpireGrant, GrantSteps, Framed
  <1>13. ASSUME NEW p \in Providers,
               update_provider(p) \/ \E e \in BOOLEAN : enable_provider(p, e)
        PROVE  Framed
    BY <1>13 DEF update_provider, enable_provider, ProviderSteps, Framed
  <1>14. ASSUME NEW a \in Accounts, login_local(a)
        PROVE  Framed
    BY <1>14 DEF login_local, Framed
  <1>15. ASSUME NEW a \in Accounts, NEW c \in Changes, change_account(a, c)
        PROVE  Framed
    BY <1>15 DEF change_account, Framed
  <1>16. ASSUME NEW s \in Ids(sessions), EndSession(s)
        PROVE  Framed
    BY <1>16 DEF EndSession, Framed
  <1>17. CASE UNCHANGED vars
    BY <1>17 DEF vars, Framed
  <1> QED
    BY <1>1, <1>2, <1>3, <1>4, <1>5, <1>6, <1>7, <1>8, <1>9, <1>10, <1>11, <1>12, <1>13, <1>14, <1>15, <1>16, <1>17 DEF Next

-----------------------------------------------------------------------------
(* Every step only adds to what the rows rest on. *)
ProvidersOnward ==
  \A p \in Providers :
    /\ providers[p].version <= providers'[p].version
    /\ providers'[p].version = providers[p].version => providers'[p].meaning = providers[p].meaning

LEMMA ProvidersStep ==
  ASSUME FederationInv, [Next]_vars
  PROVE  providers' \in [Providers -> Provider] /\ ProvidersInv' /\ ProvidersOnward
  <1>1. \A p \in Providers : providers[p] \in Provider
    BY DEF FederationInv, TypeOK
  <1>2. ASSUME NEW p \in Providers, NEW new \in Provider,
               providers' = [providers EXCEPT ![p] = new],
               new.version = providers[p].version + 1, new.revocation_epoch <= new.version,
               new.meaning <= new.version
        PROVE  providers' \in [Providers -> Provider] /\ ProvidersInv' /\ ProvidersOnward
    <2>1. providers' \in [Providers -> Provider]
      BY <1>2 DEF FederationInv, TypeOK
    <2>2. \A q \in Providers : q # p => providers'[q] = providers[q]
      BY <1>2 DEF FederationInv, TypeOK
    <2>3. providers'[p] = new
      BY <1>2 DEF FederationInv, TypeOK
    <2>4. ProvidersInv'
      BY <1>2, <2>2, <2>3 DEF FederationInv, ProvidersInv
    <2>5. ProvidersOnward
      BY <1>1, <1>2, <2>2, <2>3, ProviderFields DEF ProvidersOnward
    <2> QED BY <2>1, <2>4, <2>5
  <1>3. ASSUME NEW p \in Providers, providers[p].version < VersionLimit
        PROVE  /\ providers[p].version + 1 \in Version
               /\ providers[p].revocation_epoch + 1 \in Version
               /\ providers[p].meaning + 1 \in Version
               /\ providers[p].revocation_epoch + 1 <= providers[p].version + 1
               /\ providers[p].revocation_epoch <= providers[p].version + 1
               /\ providers[p].meaning + 1 <= providers[p].version + 1
               /\ providers[p].meaning <= providers[p].version + 1
    BY <1>1, <1>3, ProviderFields, FederationAssumption DEF FederationInv, ProvidersInv, Version
  <1>4. ASSUME NEW p \in Providers, update_provider(p)
        PROVE  providers' \in [Providers -> Provider] /\ ProvidersInv' /\ ProvidersOnward
    <2> DEFINE new == Reinterpreted(providers[p])
    <2>1. providers[p].version < VersionLimit /\ providers' = [providers EXCEPT ![p] = new]
      BY <1>4 DEF update_provider
    <2>2. /\ new \in Provider /\ new.version = providers[p].version + 1
          /\ new.revocation_epoch = providers[p].revocation_epoch + 1
          /\ new.meaning = providers[p].meaning + 1
      BY <1>1, <1>3, <2>1, Zenon DEF Reinterpreted, Provider
    <2> HIDE DEF new
    <2>3. new.revocation_epoch <= new.version /\ new.meaning <= new.version
      BY <1>3, <2>1, <2>2
    <2> QED BY <1>2, <2>1, <2>2, <2>3
  <1>5. ASSUME NEW p \in Providers, NEW e \in BOOLEAN, enable_provider(p, e)
        PROVE  providers' \in [Providers -> Provider] /\ ProvidersInv' /\ ProvidersOnward
    <2> DEFINE x == IF providers[p].enabled # e THEN providers[p].revocation_epoch + 1
                    ELSE providers[p].revocation_epoch
               new == Switched(providers[p], e)
    <2>1. providers[p].version < VersionLimit /\ providers' = [providers EXCEPT ![p] = new]
      BY <1>5 DEF enable_provider
    <2>2. x \in Version /\ x <= providers[p].version + 1
      BY <1>1, <1>3, <2>1, ProviderFields
    <2>3. /\ new \in Provider /\ new.version = providers[p].version + 1
          /\ new.revocation_epoch = x /\ new.meaning = providers[p].meaning
      BY <1>1, <1>3, <2>1, <2>2, Zenon DEF Provider, Switched
    <2> HIDE DEF new
    <2>4. new.revocation_epoch <= new.version /\ new.meaning <= new.version
      BY <1>3, <2>1, <2>2, <2>3
    <2> QED BY <1>2, <2>1, <2>3, <2>4
  <1>6. CASE UNCHANGED providers
    BY <1>1, <1>6, ProviderFields DEF FederationInv, TypeOK, ProvidersInv, ProvidersOnward
  <1> QED BY <1>4, <1>5, <1>6, Frames DEF Framed, ProviderSteps

(* What was read of a provider stays of its past, if not of its present. *)
LEMMA ReadOnward ==
  ASSUME FederationInv, ProvidersOnward, providers' \in [Providers -> Provider],
         NEW p \in Providers, NEW version \in Nat, NEW meaning, ReadUnder(p, version, meaning)
  PROVE  ReadUnder(p, version, meaning)'
  <1>1. providers[p] \in Provider /\ providers'[p] \in Provider
    BY DEF FederationInv, TypeOK
  <1>2. providers[p].version \in Nat /\ providers'[p].version \in Nat
    BY <1>1, ProviderFields
  <1> QED BY <1>2 DEF ReadUnder, ProvidersOnward

AccountsOnward ==
  known \subseteq known' /\ \A a \in known : accounts[a].epoch <= accounts'[a].epoch

(* The identity a callback presents is looked up or, for a newcomer, made. *)
IdentitiesOnward ==
  \A k \in Identity : identities[k] # Nobody => identities'[k] = identities[k]

LEMMA PresentedType ==
  ASSUME FederationInv, NEW f \in Flows
  PROVE  flow[f] \in Flow /\ Presented(f) \in Identity /\ Presented(f)[1] = flow[f].provider
  <1>1. flow[f] \in Flow
    BY DEF FederationInv, TypeOK
  <1>2. flow[f].provider \in Providers /\ flow[f].subject \in Subjects
    BY <1>1, FlowFields
  <1> QED BY <1>1, <1>2 DEF Presented, Identity

(* complete_login: whose session is issued. *)
Resolved(a, k) ==
  /\ a \in Accounts /\ a \in known' /\ identities'[k] = a
  /\ accounts'[a] \in AccountState

LEMMA LoginAccounts ==
  ASSUME FederationInv, NEW f \in Flows, complete_login(f)
  PROVE  /\ known' \subseteq Accounts /\ accounts' \in [Accounts -> AccountState]
         /\ identities' \in [Identity -> Accounts \cup {Nobody}]
         /\ AccountsOnward /\ IdentitiesOnward /\ IdentitiesInv'
         /\ \E a \in Accounts :
              /\ Resolved(a, Presented(f))
              /\ attempts[flow[f].attempt].replacement # 0 =>
                   sessions[attempts[flow[f].attempt].replacement].principal = a
              /\ sessions' = insert(a, accounts'[a], attempts[flow[f].attempt].replacement, Facts(f),
                                    flow[f].attempt)
  <1> DEFINE k == Presented(f)
  <1>1. k \in Identity
    BY PresentedType
  <1>2. PICK a \in Accounts :
          /\ \/ /\ identities[k] = a
                /\ UNCHANGED <<known, accounts, identities>>
             \/ /\ identities[k] = Nobody
                /\ a \notin known
                /\ known' = known \cup {a}
                /\ accounts' = [accounts EXCEPT ![a] = new_federated]
                /\ identities' = [identities EXCEPT ![k] = a]
          /\ attempts[flow[f].attempt].replacement # 0 =>
               sessions[attempts[flow[f].attempt].replacement].principal = a
          /\ sessions' = insert(a, accounts'[a], attempts[flow[f].attempt].replacement, Facts(f),
                                flow[f].attempt)
    BY DEF complete_login
  <1> HIDE DEF k
  <1>3. /\ known \subseteq Accounts /\ accounts \in [Accounts -> AccountState]
        /\ identities \in [Identity -> Accounts \cup {Nobody}]
        /\ \A b \in Accounts : accounts[b].epoch \in Nat
    BY AccountFields DEF FederationInv, TypeOK
  <1>4. a # Nobody
    BY FederationAssumption
  <1>5. CASE identities[k] = a /\ UNCHANGED <<known, accounts, identities>>
    <2>1. a \in known
      BY <1>1, <1>4, <1>5 DEF FederationInv, IdentitiesInv
    <2>2. AccountsOnward /\ IdentitiesOnward /\ IdentitiesInv'
      BY <1>3, <1>5 DEF AccountsOnward, IdentitiesOnward, FederationInv, IdentitiesInv
    <2>3. Resolved(a, k)
      BY <1>3, <1>5, <2>1 DEF Resolved
    <2> QED BY <1>2, <1>3, <1>5, <2>2, <2>3 DEF k
  <1>6. CASE /\ identities[k] = Nobody
             /\ a \notin known
             /\ known' = known \cup {a}
             /\ accounts' = [accounts EXCEPT ![a] = new_federated]
             /\ identities' = [identities EXCEPT ![k] = a]
    <2>1. /\ known' \subseteq Accounts /\ accounts' \in [Accounts -> AccountState]
          /\ identities' \in [Identity -> Accounts \cup {Nobody}]
          /\ identities'[k] = a /\ \A l \in Identity : l # k => identities'[l] = identities[l]
          /\ \A b \in known : accounts'[b] = accounts[b]
      BY <1>1, <1>3, <1>6, AccountFields
    <2>2. AccountsOnward
      BY <1>3, <1>6, <2>1 DEF AccountsOnward
    <2>3. IdentitiesOnward
      BY <1>6, <2>1 DEF IdentitiesOnward
    <2>4. IdentitiesInv'
      BY <1>6, <2>1 DEF FederationInv, IdentitiesInv
    <2>5. Resolved(a, k)
      BY <1>6, <2>1 DEF Resolved
    <2> QED BY <1>2, <2>1, <2>2, <2>3, <2>4, <2>5 DEF k
  <1> QED BY <1>2, <1>5, <1>6

(* What holds of a callback at its commit. *)
LEMMA RowTypes ==
  ASSUME FederationInv
  PROVE  /\ Len(sessions) \in Nat /\ \A s \in Ids(sessions) : sessions[s] \in SessionRow
         /\ Len(attempts) \in Nat /\ \A a \in Ids(attempts) : attempts[a] \in AttemptRow
         /\ Len(intents) \in Nat /\ \A i \in Ids(intents) : intents[i] \in IntentRow
         /\ Len(grants) \in Nat /\ \A g \in Ids(grants) : grants[g] \in GrantRow
         /\ \A f \in Flows : flow[f] \in Flow
         /\ \A a \in Accounts : accounts[a] \in AccountState
         /\ \A p \in Providers : providers[p] \in Provider
  BY DEF FederationInv, TypeOK, Ids

LEMMA Committed ==
  ASSUME FederationInv, NEW f \in Flows, NEW purpose, Committing(f, purpose)
  PROVE  LET a == flow[f].attempt IN
         /\ a \in Ids(attempts) /\ attempts[a] \in AttemptRow /\ attempts[a].stage = "claimed"
         /\ attempts[a].purpose = purpose /\ attempts[a].version = flow[f].view
         /\ AttemptOK(a) /\ check_actor(a)
         /\ Facts(f) \in Origin /\ Facts(f).identity = Presented(f) /\ Read(Facts(f))
  <1> DEFINE a == flow[f].attempt
             p == flow[f].provider
  <1>1. /\ flow[f].pc = "exchanged" /\ flow[f].purpose = purpose
        /\ Usable(a, "claimed") /\ exact(p, attempts[a].version) /\ check_actor(a)
    BY DEF Committing
  <1>2. /\ a \in Ids(attempts) /\ attempts[a].purpose = flow[f].purpose
        /\ attempts[a].version = flow[f].view
        /\ ReadUnder(p, flow[f].view, flow[f].meaning)
    BY <1>1 DEF FederationInv, RowsInv, FlowOK, Redeeming
  <1>3. attempts[a] \in AttemptRow /\ AttemptOK(a)
    BY <1>2, RowTypes DEF FederationInv, RowsInv
  <1>4. /\ providers[p].version = flow[f].view /\ flow[f].meaning = providers[p].meaning
    BY <1>1, <1>2 DEF exact, ReadUnder
  <1>5. /\ p \in Providers /\ flow[f].meaning \in Version /\ providers[p] \in Provider
    BY RowTypes, FlowFields
  <1>6. /\ providers[p].version \in Version /\ providers[p].revocation_epoch \in Version
        /\ providers[p].version \in Nat
    BY <1>5, ProviderFields
  <1>7. Facts(f) \in Origin
    BY <1>5, <1>6, PresentedType, OriginType DEF Facts
  <1>8. /\ Facts(f).identity = Presented(f) /\ Facts(f).version = providers[p].version
        /\ Facts(f).meaning = flow[f].meaning /\ Facts(f).identity[1] = p
    BY PresentedType DEF Facts
  <1>9. Read(Facts(f))
    BY <1>4, <1>6, <1>8 DEF Read, ReadUnder
  <1> QED BY <1>1, <1>2, <1>3, <1>7, <1>8, <1>9 DEF Usable

(* A link changes one account, by a new generation. *)
LEMMA LinkAccounts ==
  ASSUME FederationInv, NEW f \in Flows, complete_link(f)
  PROVE  LET i == attempts[flow[f].attempt].link
             a == intents[i].principal
             k == Presented(f)
         IN
         /\ i \in Ids(intents) /\ intents[i].stage = "target_ready"
         /\ a \in known /\ a \in Accounts /\ k \in Identity
         /\ known' = known /\ accounts' \in [Accounts -> AccountState]
         /\ accounts'[a].epoch = accounts[a].epoch + 1
         /\ identities' \in [Identity -> Accounts \cup {Nobody}] /\ identities'[k] = a
         /\ AccountsOnward /\ IdentitiesOnward /\ IdentitiesInv'
         /\ Live(intents[i].session)
  <1> DEFINE i == attempts[flow[f].attempt].link
             a == intents[i].principal
             k == Presented(f)
  <1>1. Committing(f, "link")
    BY DEF complete_link
  <1>2. /\ attempts[flow[f].attempt].purpose = "link" /\ AttemptOK(flow[f].attempt)
        /\ check_actor(flow[f].attempt)
    BY <1>1, Committed
  <1>3. i # 0 /\ i \in 0 .. Len(intents)
    BY <1>2 DEF AttemptOK
  <1>4. i \in Ids(intents)
    BY <1>3, RowTypes DEF Ids
  <1>5. intents[i].stage = "target_ready" /\ Live(intents[i].session)
    BY <1>2, <1>3 DEF check_actor
  <1>6. a \in known /\ a \in Accounts
    BY <1>4 DEF FederationInv, RowsInv, IntentOK, TypeOK
  <1>7. /\ CanRevokeSessions(accounts[a]) /\ accounts' = [accounts EXCEPT ![a] = revoke_sessions(accounts[a])]
        /\ identities' = [identities EXCEPT ![k] = IF identities[k] = Nobody THEN a ELSE identities[k]]
        /\ identities[k] \in {Nobody, a}
        /\ known' = known
    BY DEF complete_link, Relinked, MayBind
  <1>8. k \in Identity
    BY PresentedType
  <1>9. /\ accounts[a] \in AccountState
        /\ revoke_sessions(accounts[a]) \in AccountState
        /\ revoke_sessions(accounts[a]).epoch = accounts[a].epoch + 1
        /\ \A b \in Accounts : accounts[b].epoch \in Nat
    BY <1>6, <1>7, RevokedType, RowTypes, AccountFields
  <1> HIDE DEF i, a, k
  <1>10. /\ accounts' \in [Accounts -> AccountState]
         /\ accounts'[a].epoch = accounts[a].epoch + 1
         /\ \A b \in Accounts : b # a => accounts'[b] = accounts[b]
    BY <1>6, <1>7, <1>9 DEF FederationInv, TypeOK
  <1>11. /\ identities' \in [Identity -> Accounts \cup {Nobody}] /\ identities'[k] = a
         /\ \A l \in Identity : l # k => identities'[l] = identities[l]
    BY <1>6, <1>7, <1>8 DEF FederationInv, TypeOK
  <1>12. AccountsOnward
    BY <1>6, <1>7, <1>9, <1>10 DEF AccountsOnward, FederationInv, TypeOK
  <1>13. IdentitiesOnward
    BY <1>7, <1>11 DEF IdentitiesOnward
  <1>14. IdentitiesInv'
    BY <1>6, <1>7, <1>11 DEF FederationInv, IdentitiesInv
  <1> QED BY <1>4, <1>5, <1>6, <1>7, <1>8, <1>10, <1>11, <1>12, <1>13, <1>14 DEF i, a, k

LEMMA AccountsStep ==
  ASSUME FederationInv, [Next]_vars
  PROVE  /\ known' \subseteq Accounts /\ accounts' \in [Accounts -> AccountState]
         /\ identities' \in [Identity -> Accounts \cup {Nobody}]
         /\ AccountsOnward /\ IdentitiesOnward /\ IdentitiesInv'
  <1>1. CASE \E f \in Flows : complete_login(f)
    BY <1>1, LoginAccounts
  <1>2. CASE \E f \in Flows : complete_link(f)
    BY <1>2, LinkAccounts DEF FederationInv, TypeOK
  <1>3. CASE UNCHANGED identities
    <2>1. /\ identities' \in [Identity -> Accounts \cup {Nobody}] /\ IdentitiesOnward
      BY <1>3 DEF IdentitiesOnward, FederationInv, TypeOK
    <2>2. CASE UNCHANGED <<known, accounts>>
      <3>1. \A a \in known : accounts[a].epoch \in Nat
        BY RowTypes, AccountFields DEF FederationInv, TypeOK
      <3> QED BY <1>3, <2>1, <2>2, <3>1 DEF FederationInv, TypeOK, AccountsOnward, IdentitiesInv
    <2>3. ASSUME NEW a \in Accounts, NEW c \in Changes, change_account(a, c)
          PROVE  /\ known' \subseteq Accounts /\ accounts' \in [Accounts -> AccountState]
                 /\ AccountsOnward /\ IdentitiesInv'
      <3>1. /\ known' = known /\ CanChange(accounts[a], c)
            /\ accounts' = [accounts EXCEPT ![a] = Changed(accounts[a], c)]
        BY <2>3 DEF change_account
      <3>2. /\ Changed(accounts[a], c) \in AccountState
            /\ Changed(accounts[a], c).epoch = accounts[a].epoch + 1
        BY <3>1, ChangedType, RowTypes, FederationAssumption
      <3>3. /\ accounts' \in [Accounts -> AccountState]
            /\ accounts'[a].epoch = accounts[a].epoch + 1
            /\ \A b \in Accounts : b # a => accounts'[b] = accounts[b]
        BY <3>1, <3>2 DEF FederationInv, TypeOK
      <3>4. \A b \in Accounts : accounts[b].epoch \in Nat
        BY RowTypes, AccountFields
      <3>5. AccountsOnward
        BY <3>1, <3>3, <3>4 DEF AccountsOnward, FederationInv, TypeOK
      <3>6. IdentitiesInv'
        BY <1>3, <3>1 DEF FederationInv, IdentitiesInv
      <3> QED BY <3>1, <3>3, <3>5, <3>6 DEF FederationInv, TypeOK
    <2>4. \/ UNCHANGED <<known, accounts>>
          \/ \E f \in Flows : complete_login(f) \/ complete_link(f)
          \/ \E a \in Accounts, c \in Changes : change_account(a, c)
      BY Frames DEF Framed
    <2> QED BY <1>1, <1>2, <2>1, <2>2, <2>3, <2>4
  <1> QED BY <1>1, <1>2, <1>3, Frames DEF Framed

SessionsOnward ==
  /\ sessions' \in Seq(SessionRow) /\ Len(sessions) <= Len(sessions') /\ Len(sessions') <= MaxSessions
  /\ \A s \in Ids(sessions) :
       /\ sessions'[s].principal = sessions[s].principal
       /\ sessions'[s].auth_epoch = sessions[s].auth_epoch
       /\ sessions'[s].origin = sessions[s].origin
       /\ sessions'[s].replaces = sessions[s].replaces
       /\ sessions'[s].attempt = sessions[s].attempt
       /\ sessions[s].revoked => sessions'[s].revoked

(* sessions::insert, from any transaction. *)
Inserts(a, state, replaced, origin, attempt) ==
  /\ Len(sessions') = Len(sessions) + 1
  /\ \A s \in Ids(sessions) : s = replaced => sessions'[s].revoked
  /\ LET new == sessions'[Len(sessions) + 1] IN
     /\ new.principal = a /\ new.auth_epoch = state.epoch /\ new.origin = origin
     /\ new.replaces = replaced /\ new.attempt = attempt

LEMMA InsertSession ==
  ASSUME FederationInv, NEW a \in Accounts, NEW state \in AccountState, NEW replaced \in 0 .. MaxSessions,
         NEW origin \in Origin \cup {NoOrigin}, NEW attempt \in 0 .. MaxAttempts,
         Len(sessions) < MaxSessions, sessions' = insert(a, state, replaced, origin, attempt)
  PROVE  SessionsOnward /\ Inserts(a, state, replaced, origin, attempt)
  <1> DEFINE new == [ principal |-> a, auth_epoch |-> state.epoch,
                      membership_epoch |-> state.membership_epoch, revoked |-> FALSE,
                      origin |-> origin, replaces |-> replaced, attempt |-> attempt ]
             closed == [ s \in Ids(sessions) |-> IF s = replaced
                           THEN [sessions[s] EXCEPT !.revoked = TRUE] ELSE sessions[s] ]
  <1>1. new \in SessionRow
    BY AccountFields DEF SessionRow
  <1>2. Len(sessions) \in Nat /\ MaxSessions \in Nat
    BY RowTypes, FederationAssumption
  <1>3. ASSUME NEW s \in Ids(sessions)
        PROVE  /\ closed[s] \in SessionRow
               /\ closed[s].principal = sessions[s].principal
               /\ closed[s].auth_epoch = sessions[s].auth_epoch
               /\ closed[s].origin = sessions[s].origin
               /\ closed[s].replaces = sessions[s].replaces
               /\ closed[s].attempt = sessions[s].attempt
               /\ sessions[s].revoked \/ s = replaced => closed[s].revoked
    <2>1. sessions[s] \in SessionRow
      BY RowTypes
    <2>2. CASE s = replaced
      <3>1. closed[s] = [sessions[s] EXCEPT !.revoked = TRUE]
        BY <2>2
      <3> QED BY <2>1, <3>1, SessionRevoked
    <2>3. CASE s # replaced
      <3>1. closed[s] = sessions[s]
        BY <2>3
      <3> QED BY <2>1, <2>3, <3>1
    <2> QED BY <2>2, <2>3
  <1>4. closed \in Seq(SessionRow) /\ Len(closed) = Len(sessions)
    <2>1. closed \in [1 .. Len(sessions) -> SessionRow]
      BY <1>3 DEF Ids
    <2> HIDE DEF closed
    <2> QED BY <1>2, <2>1, MappedSeq
  <1>5. sessions' = Append(closed, new)
    BY DEF insert
  <1>6. /\ new.principal = a /\ new.auth_epoch = state.epoch /\ new.origin = origin
        /\ new.replaces = replaced /\ new.attempt = attempt
    OBVIOUS
  <1> HIDE DEF closed, new
  <1>7. /\ sessions' \in Seq(SessionRow) /\ Len(sessions') = Len(sessions) + 1
        /\ sessions'[Len(sessions) + 1] = new
        /\ \A s \in 1 .. Len(sessions) : sessions'[s] = closed[s]
    BY <1>1, <1>4, <1>5, AppendProperties
  <1>8. SessionsOnward
    <2>1. Len(sessions) <= Len(sessions') /\ Len(sessions') <= MaxSessions
      BY <1>2, <1>7
    <2> QED BY <1>3, <1>7, <2>1 DEF SessionsOnward, Ids
  <1> QED BY <1>3, <1>6, <1>7, <1>8 DEF Inserts, Ids

(* What a new session is issued on. *)
LEMMA LoginSession ==
  ASSUME FederationInv, NEW f \in Flows, complete_login(f)
  PROVE  LET t == flow[f].attempt
             replaced == attempts[t].replacement
         IN
         \E a \in Accounts :
           /\ Resolved(a, Presented(f)) /\ SessionsOnward
           /\ Inserts(a, accounts'[a], replaced, Facts(f), t)
           /\ replaced # 0 => Live(replaced)
  <1> DEFINE t == flow[f].attempt
             replaced == attempts[t].replacement
  <1>1. PICK a \in Accounts : /\ Resolved(a, Presented(f))
                              /\ sessions' = insert(a, accounts'[a], replaced, Facts(f), t)
    BY LoginAccounts
  <1>2. Committing(f, "login") /\ Len(sessions) < MaxSessions
    BY DEF complete_login
  <1>3. /\ attempts[t] \in AttemptRow /\ attempts[t].purpose = "login" /\ AttemptOK(t)
        /\ check_actor(t) /\ Facts(f) \in Origin
    BY <1>2, Committed
  <1>4. replaced # 0 => Live(replaced)
    BY <1>3 DEF check_actor, AttemptOK
  <1>5. replaced \in 0 .. MaxSessions /\ t \in 0 .. MaxAttempts
    BY <1>3, RowTypes, AttemptFields, FlowFields
  <1>6. accounts'[a] \in AccountState
    BY <1>1 DEF Resolved
  <1> HIDE DEF t, replaced
  <1>7. SessionsOnward /\ Inserts(a, accounts'[a], replaced, Facts(f), t)
    BY <1>1, <1>2, <1>3, <1>5, <1>6, InsertSession
  <1> QED BY <1>1, <1>4, <1>7 DEF t, replaced

LEMMA LinkSession ==
  ASSUME FederationInv, NEW f \in Flows, complete_link(f)
  PROVE  LET t == flow[f].attempt
             intent == intents[attempts[t].link]
         IN
         /\ SessionsOnward
         /\ Inserts(intent.principal, accounts'[intent.principal], intent.session, intent.origin, t)
         /\ intent.origin # NoOrigin => check_origin(intent.principal, intent.origin)
  <1> DEFINE t == flow[f].attempt
             intent == intents[attempts[t].link]
             a == intent.principal
  <1>1. /\ attempts[t].link \in Ids(intents) /\ a \in Accounts
        /\ accounts' \in [Accounts -> AccountState]
    BY LinkAccounts
  <1>2. /\ intent.session \in 0 .. MaxSessions /\ intent.origin \in Origin \cup {NoOrigin}
        /\ t \in 0 .. MaxAttempts
    BY <1>1, RowTypes, IntentFields, FlowFields
  <1>3. /\ Len(sessions) < MaxSessions
        /\ sessions' = insert(a, accounts'[a], intent.session, intent.origin, t)
        /\ intent.origin # NoOrigin => check_origin(a, intent.origin)
    BY DEF complete_link
  <1> HIDE DEF t, intent
  <1>4. SessionsOnward /\ Inserts(a, accounts'[a], intent.session, intent.origin, t)
    BY <1>1, <1>2, <1>3, InsertSession
  <1> QED BY <1>3, <1>4 DEF t, intent

LEMMA LocalSession ==
  ASSUME FederationInv, NEW a \in Accounts, login_local(a)
  PROVE  /\ a \in known /\ UNCHANGED <<known, accounts>>
         /\ SessionsOnward /\ Inserts(a, accounts[a], 0, NoOrigin, 0)
  <1>1. 0 \in 0 .. MaxSessions /\ 0 \in 0 .. MaxAttempts /\ accounts[a] \in AccountState
    BY FederationAssumption, RowTypes
  <1> QED BY <1>1, InsertSession DEF login_local

LEMMA SessionsStep ==
  ASSUME FederationInv, [Next]_vars
  PROVE  SessionsOnward
  <1>1. CASE UNCHANGED sessions
    BY <1>1, RowTypes DEF SessionsOnward, FederationInv, TypeOK, BoundsInv
  <1>2. ASSUME NEW s \in Ids(sessions), EndSession(s)
        PROVE  SessionsOnward
    <2> DEFINE new == [sessions[s] EXCEPT !.revoked = TRUE]
    <2>1. sessions' = [sessions EXCEPT ![s] = new]
      BY <1>2 DEF EndSession
    <2>2. sessions[s] \in SessionRow
      BY RowTypes
    <2>3. /\ new \in SessionRow /\ new.revoked
          /\ new.principal = sessions[s].principal /\ new.auth_epoch = sessions[s].auth_epoch
          /\ new.origin = sessions[s].origin /\ new.replaces = sessions[s].replaces
          /\ new.attempt = sessions[s].attempt
      BY <2>2, SessionRevoked
    <2> HIDE DEF new
    <2>4. s \in 1 .. Len(sessions) /\ sessions \in Seq(SessionRow)
      BY DEF Ids, FederationInv, TypeOK
    <2>5. /\ sessions' \in Seq(SessionRow) /\ Len(sessions') = Len(sessions)
          /\ \A t \in 1 .. Len(sessions) : sessions'[t] = IF t = s THEN new ELSE sessions[t]
      BY <2>1, <2>3, <2>4, ExceptSeq
    <2> QED BY <2>3, <2>5, RowTypes DEF SessionsOnward, Ids, FederationInv, BoundsInv
  <1>3. \/ UNCHANGED sessions
        \/ \E f \in Flows : complete_login(f) \/ complete_link(f)
        \/ \E a \in Accounts : login_local(a)
        \/ \E s \in Ids(sessions) : EndSession(s)
    BY Frames DEF Framed
  <1> QED BY <1>1, <1>2, <1>3, LoginSession, LinkSession, LocalSession

(* Rows that are the attempts, of which some have moved on. *)
Follows(rows) ==
  /\ rows \in Seq(AttemptRow) /\ Len(rows) = Len(attempts)
  /\ \A a \in Ids(attempts) :
       /\ rows[a].purpose = attempts[a].purpose /\ rows[a].version = attempts[a].version
       /\ rows[a].link = attempts[a].link /\ rows[a].replacement = attempts[a].replacement
       /\ attempts[a].stage = "gone" => rows[a].stage = "gone"
       /\ rows[a].stage = "open" => attempts[a].stage = "open"

AttemptsOnward ==
  /\ attempts' \in Seq(AttemptRow) /\ Len(attempts) <= Len(attempts') /\ Len(attempts') <= MaxAttempts
  /\ \A a \in Ids(attempts) :
       /\ attempts'[a].purpose = attempts[a].purpose /\ attempts'[a].version = attempts[a].version
       /\ attempts'[a].link = attempts[a].link
       /\ attempts'[a].replacement = attempts[a].replacement
       /\ attempts[a].stage = "gone" => attempts'[a].stage = "gone"
       /\ attempts'[a].stage = "open" => attempts[a].stage = "open"

LEMMA Unmoved ==
  ASSUME FederationInv
  PROVE  Follows(attempts)
  BY DEF Follows, FederationInv, TypeOK

LEMMA KeptFollows ==
  ASSUME FederationInv
  PROVE  Follows(Kept)
  <1>1. ASSUME NEW a \in Ids(attempts)
        PROVE  /\ Kept[a] \in AttemptRow
               /\ Kept[a].purpose = attempts[a].purpose /\ Kept[a].version = attempts[a].version
               /\ Kept[a].link = attempts[a].link /\ Kept[a].replacement = attempts[a].replacement
               /\ attempts[a].stage = "gone" => Kept[a].stage = "gone"
               /\ Kept[a].stage = "open" => attempts[a].stage = "open"
    <2>1. attempts[a] \in AttemptRow
      BY RowTypes
    <2>2. CASE attempts[a].stage = "expired"
      <3>1. Kept[a] = [attempts[a] EXCEPT !.stage = "gone"]
        BY <2>2 DEF Kept
      <3>2. "gone" \in {"open", "claimed", "expired", "gone"}
        OBVIOUS
      <3>3. LET new == [attempts[a] EXCEPT !.stage = "gone"] IN
            /\ new \in AttemptRow /\ new.stage = "gone"
            /\ new.purpose = attempts[a].purpose /\ new.provider = attempts[a].provider
            /\ new.version = attempts[a].version
            /\ new.link = attempts[a].link /\ new.replacement = attempts[a].replacement
        BY <2>1, <3>2, AttemptStage
      <3> QED BY <3>1, <3>3
    <2>3. CASE attempts[a].stage # "expired"
      <3>1. Kept[a] = attempts[a]
        BY <2>3 DEF Kept
      <3> QED BY <2>1, <3>1
    <2> QED BY <2>2, <2>3
  <1>2. Kept \in [1 .. Len(attempts) -> AttemptRow]
    BY <1>1 DEF Kept, Ids
  <1>3. Kept \in Seq(AttemptRow) /\ Len(Kept) = Len(attempts)
    BY <1>2, RowTypes, MappedSeq
  <1> QED BY <1>1, <1>3 DEF Follows

(* One attempt moves on. *)
LEMMA Advanced ==
  ASSUME FederationInv, NEW rows, Follows(rows), NEW a \in Ids(attempts),
         NEW st \in {"claimed", "expired", "gone"},
         rows[a].stage = "gone" => st = "gone"
  PROVE  LET new == [rows EXCEPT ![a].stage = st] IN
         Follows(new) /\ new[a].stage = st
  <1> DEFINE row == [rows[a] EXCEPT !.stage = st]
             new == [rows EXCEPT ![a] = row]
  <1>1. rows \in Seq(AttemptRow) /\ a \in 1 .. Len(rows)
    BY DEF Follows, Ids
  <1>2. /\ row \in AttemptRow /\ row.stage = st
        /\ row.purpose = rows[a].purpose /\ row.version = rows[a].version
        /\ row.link = rows[a].link /\ row.replacement = rows[a].replacement
    <2>1. rows[a] \in AttemptRow /\ st \in {"open", "claimed", "expired", "gone"}
      BY <1>1
    <2> QED BY <2>1, AttemptStage
  <1> HIDE DEF row
  <1>3. /\ new \in Seq(AttemptRow) /\ Len(new) = Len(rows)
        /\ \A b \in 1 .. Len(rows) : new[b] = IF b = a THEN row ELSE rows[b]
    BY <1>1, <1>2, ExceptSeq
  <1> HIDE DEF new
  <1>4. Follows(new) /\ new[a].stage = st
    BY <1>1, <1>2, <1>3 DEF Follows, Ids
  <1> QED BY <1>4 DEF new, row

LEMMA ConsumedFollows ==
  ASSUME FederationInv, NEW rows, Follows(rows), NEW a \in Ids(attempts)
  PROVE  Follows(consume(rows, a)) /\ consume(rows, a)[a].stage = "gone"
  BY Advanced DEF consume

LEMMA FollowedOnward ==
  ASSUME FederationInv, NEW rows, Follows(rows), attempts' = rows
  PROVE  AttemptsOnward
  BY RowTypes DEF Follows, AttemptsOnward, FederationInv, BoundsInv

(* insert_attempt, from any transaction. *)
Adds(purpose, link, replacement) ==
  /\ Len(attempts') = Len(attempts) + 1
  /\ LET new == attempts'[Len(attempts) + 1] IN
     new.purpose = purpose /\ new.link = link /\ new.replacement = replacement

LEMMA InsertAttempt ==
  ASSUME FederationInv, NEW rows, Follows(rows), Len(rows) < MaxAttempts,
         NEW purpose \in Purpose, NEW p \in Providers, NEW version \in Version,
         NEW link \in 0 .. MaxIntents, NEW replacement \in 0 .. MaxSessions,
         attempts' = insert_attempt(rows, purpose, p, version, link, replacement)
  PROVE  /\ AttemptsOnward /\ Adds(purpose, link, replacement)
         /\ \A a \in Ids(attempts) : attempts'[a] = rows[a]
  <1> DEFINE new == [ purpose |-> purpose, provider |-> p, version |-> version, link |-> link,
                      replacement |-> replacement, stage |-> "open" ]
  <1>1. /\ new \in AttemptRow
        /\ new.purpose = purpose /\ new.link = link /\ new.replacement = replacement
    BY DEF AttemptRow
  <1>2. attempts' = Append(rows, new)
    BY DEF insert_attempt
  <1> HIDE DEF new
  <1>3. rows \in Seq(AttemptRow) /\ Len(rows) = Len(attempts) /\ Len(rows) \in Nat
    BY RowTypes DEF Follows
  <1>4. /\ attempts' \in Seq(AttemptRow) /\ Len(attempts') = Len(attempts) + 1
        /\ attempts'[Len(attempts) + 1] = new
        /\ \A a \in 1 .. Len(attempts) : attempts'[a] = rows[a]
    BY <1>1, <1>2, <1>3, AppendProperties
  <1>5. Len(attempts) <= Len(attempts') /\ Len(attempts') <= MaxAttempts
    BY <1>3, <1>4, FederationAssumption
  <1> QED BY <1>1, <1>4, <1>5 DEF Follows, AttemptsOnward, Adds, Ids

LEMMA BeginAttempt ==
  ASSUME FederationInv, NEW f \in Flows, begin_authentication(f)
  PROVE  AttemptsOnward /\ Adds(flow[f].purpose, 0, flow[f].session)
  <1>1. /\ flow[f].purpose \in Purpose /\ flow[f].provider \in Providers
        /\ flow[f].view \in Version /\ flow[f].session \in 0 .. MaxSessions
    BY RowTypes, FlowFields
  <1>2. /\ Len(Kept) < MaxAttempts
        /\ attempts' = insert_attempt(Kept, flow[f].purpose, flow[f].provider, flow[f].view, 0,
                                      flow[f].session)
    BY DEF begin_authentication, CanInsert
  <1>3. 0 \in 0 .. MaxIntents
    BY FederationAssumption
  <1> QED BY <1>1, <1>2, <1>3, KeptFollows, InsertAttempt

LEMMA LinkAttempt ==
  ASSUME FederationInv, NEW f \in Flows, begin_link(f)
  PROVE  AttemptsOnward /\ Adds(flow[f].purpose, Len(intents) + 1, 0)
  <1>1. /\ flow[f].purpose \in Purpose /\ flow[f].provider \in Providers
        /\ flow[f].view \in Version
    BY RowTypes, FlowFields
  <1>2. /\ Len(Kept) < MaxAttempts /\ Len(intents) < MaxIntents
        /\ attempts' = insert_attempt(Kept, flow[f].purpose, flow[f].provider, flow[f].view,
                                      Len(intents) + 1, 0)
    BY DEF begin_link, CanInsert
  <1>3. Len(intents) + 1 \in 0 .. MaxIntents /\ 0 \in 0 .. MaxSessions
    BY <1>2, RowTypes, FederationAssumption
  <1> QED BY <1>1, <1>2, <1>3, KeptFollows, InsertAttempt

(* The actor of a re-authentication that is about to be proved. *)
LEMMA Reauthenticated ==
  ASSUME FederationInv, NEW f \in Flows, finish_reauthentication(f)
  PROVE  LET a == flow[f].attempt
             i == attempts[a].link
         IN
         /\ a \in Ids(attempts) /\ i \in Ids(intents)
         /\ intents[i].stage = "reauthentication_required"
         /\ intents[i].origin \in Origin /\ intents[i].origin.identity = Presented(f)
         /\ ReadUnder(flow[f].provider, flow[f].view, flow[f].meaning)
  <1> DEFINE a == flow[f].attempt
             i == attempts[a].link
  <1>1. flow[f].pc = "retargeted" /\ check_actor(a)
    BY DEF finish_reauthentication
  <1>2. /\ a \in Ids(attempts) /\ attempts[a].purpose = "reauthenticate"
        /\ ReadUnder(flow[f].provider, flow[f].view, flow[f].meaning)
    BY <1>1 DEF FederationInv, RowsInv, FlowOK, Redeeming
  <1>3. i # 0 /\ i \in 0 .. Len(intents)
    BY <1>2 DEF FederationInv, RowsInv, AttemptOK
  <1>4. i \in Ids(intents)
    BY <1>3, RowTypes DEF Ids
  <1>5. intents[i].stage = "reauthentication_required"
    BY <1>1, <1>2, <1>3 DEF check_actor
  <1>6. intents[i].origin # NoOrigin /\ intents[i].origin.identity = Presented(f)
    BY DEF finish_reauthentication, ProvenByOwner
  <1>7. intents[i].origin \in Origin
    BY <1>4, <1>6, RowTypes, IntentFields
  <1> QED BY <1>2, <1>4, <1>5, <1>6, <1>7

LEMMA TargetAttempt ==
  ASSUME FederationInv, NEW f \in Flows, finish_reauthentication(f)
  PROVE  /\ AttemptsOnward /\ Adds("link", attempts[flow[f].attempt].link, 0)
         /\ attempts'[flow[f].attempt].stage = "gone"
  <1> DEFINE a == flow[f].attempt
             i == attempts[a].link
  <1>1. /\ flow[f].target \in Providers /\ flow[f].target_view \in Version
        /\ a \in Ids(attempts) /\ i \in 0 .. MaxIntents
    BY RowTypes, FlowFields, AttemptFields, Reauthenticated
  <1>2. /\ Len(consume(Kept, a)) < MaxAttempts
        /\ attempts' = insert_attempt(consume(Kept, a), "link", flow[f].target,
                                      flow[f].target_view, i, 0)
    BY DEF finish_reauthentication, CanInsert
  <1>3. 0 \in 0 .. MaxSessions /\ "link" \in Purpose
    BY FederationAssumption DEF Purpose
  <1>4. Follows(consume(Kept, a)) /\ consume(Kept, a)[a].stage = "gone"
    BY <1>1, KeptFollows, ConsumedFollows
  <1> HIDE DEF a, i
  <1>5. /\ AttemptsOnward /\ Adds("link", i, 0)
        /\ \A b \in Ids(attempts) : attempts'[b] = consume(Kept, a)[b]
    BY <1>1, <1>2, <1>3, <1>4, InsertAttempt
  <1> QED BY <1>1, <1>4, <1>5 DEF a, i

(* Whoever commits uses the attempt up. *)
LEMMA CommitAttempt ==
  ASSUME FederationInv, NEW f \in Flows,
         complete_login(f) \/ complete_step_up(f) \/ complete_link(f)
  PROVE  /\ flow[f].attempt \in Ids(attempts) /\ attempts[flow[f].attempt].stage = "claimed"
         /\ AttemptsOnward /\ Len(attempts') = Len(attempts)
         /\ attempts'[flow[f].attempt].stage = "gone"
  <1>1. \E purpose \in Purpose : Committing(f, purpose)
    BY DEF complete_login, complete_step_up, complete_link, Purpose
  <1>2. flow[f].attempt \in Ids(attempts) /\ attempts[flow[f].attempt].stage = "claimed"
    BY <1>1, Committed
  <1>3. attempts' = consume(attempts, flow[f].attempt)
    BY DEF complete_login, complete_step_up, complete_link
  <1>4. Follows(attempts') /\ attempts'[flow[f].attempt].stage = "gone"
    BY <1>2, <1>3, Unmoved, ConsumedFollows
  <1> QED BY <1>2, <1>4, FollowedOnward DEF Follows

LEMMA ClaimAttempt ==
  ASSUME FederationInv, NEW f \in Flows, NEW a \in Ids(attempts), claim(f, a)
  PROVE  /\ AttemptsOnward /\ Len(attempts') = Len(attempts)
         /\ attempts[a].stage = "open" /\ attempts'[a].stage = "claimed"
  <1>1. attempts[a].stage = "open" /\ attempts' = [attempts EXCEPT ![a].stage = "claimed"]
    BY DEF claim, Usable
  <1>2. Follows(attempts') /\ attempts'[a].stage = "claimed"
    <2>1. attempts[a].stage # "gone" /\ "claimed" \in {"claimed", "expired", "gone"}
      BY <1>1
    <2>2. LET new == [attempts EXCEPT ![a].stage = "claimed"] IN
          Follows(new) /\ new[a].stage = "claimed"
      BY <2>1, Unmoved, Advanced
    <2> QED BY <1>1, <2>2
  <1> QED BY <1>1, <1>2, FollowedOnward DEF Follows

LEMMA MovedAttempt ==
  ASSUME FederationInv, AttemptSteps
  PROVE  AttemptsOnward /\ Len(attempts') = Len(attempts)
  <1>1. PICK a \in Ids(attempts) : cancel(a) \/ Expire(a)
    BY DEF AttemptSteps
  <1>2. \/ attempts' = [attempts EXCEPT ![a].stage = "gone"]
        \/ attempts[a].stage # "gone" /\ attempts' = [attempts EXCEPT ![a].stage = "expired"]
    BY <1>1 DEF cancel, Expire, consume
  <1>3. CASE attempts' = [attempts EXCEPT ![a].stage = "gone"]
    <2>1. "gone" \in {"claimed", "expired", "gone"}
      OBVIOUS
    <2>2. Follows(attempts')
      BY <1>3, <2>1, Unmoved, Advanced
    <2> QED BY <2>2, FollowedOnward DEF Follows
  <1>4. CASE attempts[a].stage # "gone" /\ attempts' = [attempts EXCEPT ![a].stage = "expired"]
    <2>1. "expired" \in {"claimed", "expired", "gone"}
      OBVIOUS
    <2>2. Follows(attempts')
      BY <1>4, <2>1, Unmoved, Advanced
    <2> QED BY <2>2, FollowedOnward DEF Follows
  <1> QED BY <1>2, <1>3, <1>4

LEMMA AttemptsStep ==
  ASSUME FederationInv, [Next]_vars
  PROVE  AttemptsOnward
  <1>1. CASE UNCHANGED attempts
    BY <1>1, Unmoved, FollowedOnward
  <1> QED
    BY <1>1, Frames, BeginAttempt, LinkAttempt, TargetAttempt, CommitAttempt, ClaimAttempt,
       MovedAttempt DEF Framed

LEMMA BeginIntent ==
  ASSUME FederationInv, NEW f \in Flows, begin_link(f)
  PROVE  LET s == flow[f].session
             n == Len(intents) + 1
         IN
         /\ s \in Ids(sessions)
         /\ intents' \in Seq(IntentRow) /\ Len(intents') = n /\ n <= MaxIntents
         /\ \A i \in Ids(intents) : intents'[i] = intents[i]
         /\ intents'[n].principal = sessions[s].principal
         /\ intents'[n].origin \in {NoOrigin, sessions[s].origin}
         /\ intents'[n].stage # "completed"
         /\ intents'[n].stage = "target_ready" => intents'[n].origin = NoOrigin
  <1> DEFINE s == flow[f].session
             local == flow[f].purpose = "link"
             new == [ principal |-> sessions[s].principal, session |-> s, epoch |-> flow[f].snap.epoch,
                      member_epoch |-> flow[f].snap.membership_epoch,
                      origin |-> IF local THEN NoOrigin ELSE sessions[s].origin,
                      target |-> flow[f].target, version |-> flow[f].target_view,
                      stage |-> IF local THEN "target_ready" ELSE "reauthentication_required",
                      proof |-> Nobody, linked |-> Nobody ]
  <1>1. Live(s) /\ Len(intents) < MaxIntents /\ intents' = Append(intents, new)
    BY DEF begin_link
  <1>2. s \in Ids(sessions) /\ sessions[s] \in SessionRow
    BY <1>1, RowTypes DEF Live, Ids
  <1>3. s \in 1 .. MaxSessions
    BY <1>2, RowTypes, FederationAssumption DEF Ids, FederationInv, BoundsInv
  <1>4. /\ sessions[s].principal \in Accounts /\ sessions[s].origin \in Origin \cup {NoOrigin}
        /\ flow[f].snap.epoch \in Epoch /\ flow[f].snap.membership_epoch \in Epoch
        /\ flow[f].target \in Providers /\ flow[f].target_view \in Version
    BY <1>2, RowTypes, SessionFields, FlowFields, AccountFields
  <1>5. new \in IntentRow
    BY <1>3, <1>4 DEF IntentRow
  <1>6. /\ new.principal = sessions[s].principal
        /\ new.origin \in {NoOrigin, sessions[s].origin}
        /\ new.stage # "completed"
        /\ new.stage = "target_ready" => new.origin = NoOrigin
    OBVIOUS
  <1> HIDE DEF new
  <1>7. intents \in Seq(IntentRow) /\ Len(intents) \in Nat
    BY RowTypes DEF FederationInv, TypeOK
  <1>8. /\ intents' \in Seq(IntentRow) /\ Len(intents') = Len(intents) + 1
        /\ intents'[Len(intents) + 1] = new
        /\ \A i \in 1 .. Len(intents) : intents'[i] = intents[i]
    BY <1>1, <1>5, <1>7, AppendProperties
  <1>9. Len(intents) + 1 <= MaxIntents
    BY <1>1, <1>7, FederationAssumption
  <1> QED BY <1>2, <1>6, <1>8, <1>9 DEF Ids

LEMMA CompleteIntent ==
  ASSUME FederationInv, NEW f \in Flows, complete_link(f)
  PROVE  LET i == attempts[flow[f].attempt].link IN
         /\ intents' \in Seq(IntentRow) /\ Len(intents') = Len(intents)
         /\ \A j \in Ids(intents) : j # i => intents'[j] = intents[j]
         /\ intents'[i].principal = intents[i].principal /\ intents'[i].origin = intents[i].origin
         /\ intents'[i].stage = "completed" /\ intents'[i].linked = Presented(f)
  <1> DEFINE i == attempts[flow[f].attempt].link
             row == [[intents[i] EXCEPT !.stage = "completed"] EXCEPT !.linked = Presented(f)]
  <1>1. i \in 1 .. Len(intents) /\ intents \in Seq(IntentRow) /\ intents[i] \in IntentRow
    BY LinkAccounts, RowTypes DEF Ids, FederationInv, TypeOK
  <1>2. intents' = [intents EXCEPT ![i] = row]
    BY <1>1 DEF complete_link
  <1>3. /\ row \in IntentRow /\ row.stage = "completed" /\ row.linked = Presented(f)
        /\ row.principal = intents[i].principal /\ row.origin = intents[i].origin
    BY <1>1, PresentedType, IntentCompleted
  <1> HIDE DEF row, i
  <1>4. /\ intents' \in Seq(IntentRow) /\ Len(intents') = Len(intents)
        /\ \A j \in 1 .. Len(intents) : intents'[j] = IF j = i THEN row ELSE intents[j]
    BY <1>1, <1>2, <1>3, ExceptSeq
  <1>5. /\ intents' \in Seq(IntentRow) /\ Len(intents') = Len(intents)
        /\ \A j \in Ids(intents) : j # i => intents'[j] = intents[j]
        /\ intents'[i] = row
    BY <1>1, <1>4 DEF Ids
  <1> QED BY <1>3, <1>5 DEF i

ProvenRow(row, k, v, m) == ProvenWith(row, k, RenewedOrigin(row.origin, v, m))

LEMMA ProvenType ==
  ASSUME NEW row \in IntentRow, row.origin \in Origin, NEW k \in Identity,
         NEW v \in Version, NEW m \in Version
  PROVE  LET new == ProvenRow(row, k, v, m) IN
         /\ new \in IntentRow /\ new.stage = "target_ready" /\ new.proof = k
         /\ new.principal = row.principal
         /\ new.origin.identity = row.origin.identity
         /\ new.origin.version = v /\ new.origin.meaning = m
  <1> DEFINE o == RenewedOrigin(row.origin, v, m)
  <1>1. o \in Origin /\ o.identity = row.origin.identity /\ o.version = v /\ o.meaning = m
    BY OriginRenewed
  <1>2. ProvenRow(row, k, v, m) = ProvenWith(row, k, o)
    BY DEF ProvenRow
  <1> HIDE DEF o
  <1>3. LET new == ProvenWith(row, k, o) IN
        /\ new \in IntentRow /\ new.stage = "target_ready" /\ new.proof = k /\ new.origin = o
        /\ new.principal = row.principal
    BY <1>1, IntentProven
  <1> QED BY <1>1, <1>2, <1>3

ProvenRows(rows, i, k, v, m) ==
  [rows EXCEPT ![i].stage = "target_ready", ![i].proof = k, ![i].origin.version = v,
               ![i].origin.meaning = m]

LEMMA ProvenUpdate ==
  ASSUME NEW rows \in Seq(IntentRow), NEW i \in 1 .. Len(rows), NEW k, NEW v, NEW m,
         rows[i].origin \in Origin
  PROVE  ProvenRows(rows, i, k, v, m) = [rows EXCEPT ![i] = ProvenRow(rows[i], k, v, m)]
  <1>1. DOMAIN rows = 1 .. Len(rows) /\ rows[i] \in IntentRow
    OBVIOUS
  <1>2. DOMAIN rows[i] = {"principal", "session", "epoch", "member_epoch", "origin", "target",
                          "version", "stage", "proof", "linked"}
    BY <1>1 DEF IntentRow
  <1>3. DOMAIN rows[i].origin = {"identity", "epoch", "version", "meaning"}
    BY DEF Origin
  <1> QED BY <1>1, <1>2, <1>3 DEF ProvenRows, ProvenRow, ProvenWith, RenewedOrigin

LEMMA ProveIntent ==
  ASSUME FederationInv, NEW f \in Flows, finish_reauthentication(f)
  PROVE  LET i == attempts[flow[f].attempt].link
             o == intents'[i].origin
         IN
         /\ intents' \in Seq(IntentRow) /\ Len(intents') = Len(intents)
         /\ \A j \in Ids(intents) : j # i => intents'[j] = intents[j]
         /\ intents'[i].principal = intents[i].principal
         /\ intents'[i].stage = "target_ready" /\ intents'[i].proof = Presented(f)
         /\ o.identity = Presented(f) /\ o.version = flow[f].view /\ o.meaning = flow[f].meaning
  <1> DEFINE i == attempts[flow[f].attempt].link
             row == ProvenRow(intents[i], Presented(f), flow[f].view, flow[f].meaning)
  <1>1. /\ i \in 1 .. Len(intents) /\ intents \in Seq(IntentRow) /\ intents[i] \in IntentRow
        /\ intents[i].origin \in Origin /\ intents[i].origin.identity = Presented(f)
    BY Reauthenticated, RowTypes DEF Ids, FederationInv, TypeOK
  <1>2. intents' = ProvenRows(intents, i, Presented(f), flow[f].view, flow[f].meaning)
    BY DEF finish_reauthentication, ProvenRows
  <1>3. flow[f].view \in Version /\ flow[f].meaning \in Version /\ Presented(f) \in Identity
    BY RowTypes, FlowFields, PresentedType
  <1> HIDE DEF i
  <1>4. intents' = [intents EXCEPT ![i] = row]
    BY <1>1, <1>2, ProvenUpdate
  <1>5. /\ row \in IntentRow /\ row.stage = "target_ready" /\ row.proof = Presented(f)
        /\ row.principal = intents[i].principal
        /\ row.origin.identity = intents[i].origin.identity
        /\ row.origin.version = flow[f].view /\ row.origin.meaning = flow[f].meaning
    BY <1>1, <1>3, ProvenType
  <1> HIDE DEF row
  <1>6. /\ intents' \in Seq(IntentRow) /\ Len(intents') = Len(intents)
        /\ \A j \in 1 .. Len(intents) : intents'[j] = IF j = i THEN row ELSE intents[j]
    BY <1>1, <1>4, <1>5, ExceptSeq
  <1>7. /\ intents' \in Seq(IntentRow) /\ Len(intents') = Len(intents)
        /\ \A j \in Ids(intents) : j # i => intents'[j] = intents[j]
        /\ intents'[i] = row
    BY <1>1, <1>6 DEF Ids
  <1> QED BY <1>1, <1>5, <1>7 DEF i

IntentsOnward ==
  intents' \in Seq(IntentRow) /\ Len(intents) <= Len(intents') /\ Len(intents') <= MaxIntents

LEMMA IntentsStep ==
  ASSUME FederationInv, [Next]_vars
  PROVE  IntentsOnward
  <1>1. Len(intents) \in Nat /\ Len(intents) <= MaxIntents /\ intents \in Seq(IntentRow)
    BY RowTypes DEF FederationInv, BoundsInv, TypeOK
  <1>2. ASSUME NEW f \in Flows, begin_link(f) PROVE IntentsOnward
    BY <1>1, <1>2, BeginIntent DEF IntentsOnward
  <1>3. ASSUME NEW f \in Flows, complete_link(f) \/ finish_reauthentication(f) PROVE IntentsOnward
    BY <1>1, <1>3, CompleteIntent, ProveIntent DEF IntentsOnward
  <1>4. CASE UNCHANGED intents
    BY <1>1, <1>4 DEF IntentsOnward
  <1> QED BY <1>2, <1>3, <1>4, Frames DEF Framed

GrantsOnward ==
  /\ grants' \in Seq(GrantRow) /\ Len(grants) <= Len(grants')
  /\ \A g \in Ids(grants) :
       /\ grants'[g].attempt = grants[g].attempt /\ grants'[g].source = grants[g].source
       /\ grants[g].stage = "valid" /\ grants'[g].stage = "spent" => consume_step_up_on(g)

LEMMA StepUpGrant ==
  ASSUME FederationInv, NEW f \in Flows, complete_step_up(f)
  PROVE  /\ GrantsOnward /\ Len(grants') = Len(grants) + 1
         /\ grants'[Len(grants) + 1].attempt = flow[f].attempt
         /\ grants'[Len(grants) + 1].source = Facts(f)
  <1> DEFINE t == flow[f].attempt
             s == attempts[t].replacement
             a == sessions[s].principal
             new == [ session |-> s, auth_epoch |-> accounts[a].epoch,
                      membership_epoch |-> accounts[a].membership_epoch, source |-> Facts(f),
                      attempt |-> t, stage |-> "valid" ]
  <1>1. Committing(f, "step_up") /\ grants' = Append(grants, new)
    BY DEF complete_step_up
  <1>2. /\ t \in Ids(attempts) /\ attempts[t].purpose = "step_up" /\ AttemptOK(t) /\ check_actor(t)
        /\ Facts(f) \in Origin
    BY <1>1, Committed
  <1>3. Live(s)
    BY <1>2 DEF AttemptOK, check_actor
  <1>4. s \in Ids(sessions) /\ a \in Accounts
    <2>1. s \in Ids(sessions)
      BY <1>3 DEF Live, Ids
    <2> QED BY <2>1, RowTypes, SessionFields
  <1>5. s \in 1 .. MaxSessions /\ t \in 1 .. MaxAttempts
    BY <1>2, <1>4, RowTypes, FederationAssumption DEF Ids, FederationInv, BoundsInv
  <1>6. accounts[a].epoch \in Epoch /\ accounts[a].membership_epoch \in Epoch
    BY <1>4, RowTypes, AccountFields
  <1>7. new \in GrantRow /\ new.attempt = t /\ new.source = Facts(f)
    BY <1>2, <1>5, <1>6 DEF GrantRow
  <1> HIDE DEF new
  <1>8. grants \in Seq(GrantRow) /\ Len(grants) \in Nat
    BY RowTypes DEF FederationInv, TypeOK
  <1>9. /\ grants' \in Seq(GrantRow) /\ Len(grants') = Len(grants) + 1
        /\ grants'[Len(grants) + 1] = new
        /\ \A g \in 1 .. Len(grants) : grants'[g] = grants[g]
    BY <1>1, <1>7, <1>8, AppendProperties
  <1> QED BY <1>7, <1>8, <1>9 DEF GrantsOnward, Ids

LEMMA GrantsStep ==
  ASSUME FederationInv, [Next]_vars
  PROVE  GrantsOnward
  <1>1. grants \in Seq(GrantRow) /\ Len(grants) \in Nat
    BY RowTypes DEF FederationInv, TypeOK
  <1>2. CASE UNCHANGED grants
    BY <1>1, <1>2 DEF GrantsOnward
  <1>3. CASE GrantSteps
    <2>1. PICK g \in Ids(grants) : consume_step_up_on(g) \/ cancel_step_up(g) \/ ExpireGrant(g)
      BY <1>3 DEF GrantSteps
    <2>2. \E st \in {"spent", "gone"} :
            /\ grants' = [grants EXCEPT ![g] = [grants[g] EXCEPT !.stage = st]]
            /\ st = "spent" => consume_step_up_on(g)
      <3>1. CASE consume_step_up_on(g)
        BY <3>1 DEF consume_step_up_on
      <3>2. CASE cancel_step_up(g) \/ ExpireGrant(g)
        <4>1. grants' = [grants EXCEPT ![g] = [grants[g] EXCEPT !.stage = "gone"]]
          BY <3>2 DEF cancel_step_up, ExpireGrant
        <4> QED BY <4>1
      <3> QED BY <2>1, <3>1, <3>2
    <2>3. PICK st \in {"spent", "gone"} :
            /\ grants' = [grants EXCEPT ![g] = [grants[g] EXCEPT !.stage = st]]
            /\ st = "spent" => consume_step_up_on(g)
      BY <2>2
    <2> DEFINE new == [grants[g] EXCEPT !.stage = st]
    <2>4. g \in 1 .. Len(grants) /\ grants[g] \in GrantRow
      BY RowTypes DEF Ids
    <2>5. /\ new \in GrantRow /\ new.stage = st
          /\ new.attempt = grants[g].attempt /\ new.source = grants[g].source
      BY <2>4, GrantStage
    <2>6. grants' = [grants EXCEPT ![g] = new]
      BY <2>3
    <2> HIDE DEF new
    <2>7. /\ grants' \in Seq(GrantRow) /\ Len(grants') = Len(grants)
          /\ \A h \in 1 .. Len(grants) : grants'[h] = IF h = g THEN new ELSE grants[h]
      BY <1>1, <2>4, <2>5, <2>6, ExceptSeq
    <2>8. Len(grants) <= Len(grants')
      BY <1>1, <2>7
    <2> QED BY <2>3, <2>5, <2>7, <2>8 DEF GrantsOnward, Ids
  <1> QED BY <1>2, <1>3, StepUpGrant, Frames DEF Framed

LEMMA EndedFlow ==
  ASSUME FederationInv, NEW f \in Flows, Ended(f)
  PROVE  /\ flow' \in [Flows -> Flow] /\ flow'[f].pc = "idle"
         /\ \A g \in Flows : g # f => flow'[g] = flow[g]
  BY IdleType DEF Ended, FederationInv, TypeOK

LEMMA ClaimFlow ==
  ASSUME FederationInv, NEW f \in Flows, NEW a \in Ids(attempts), claim(f, a)
  PROVE  LET p == attempts[a].provider IN
         /\ flow' \in [Flows -> Flow] /\ \A g \in Flows : g # f => flow'[g] = flow[g]
         /\ flow'[f].pc = "claimed" /\ flow'[f].purpose = attempts[a].purpose
         /\ flow'[f].provider = p /\ flow'[f].view = providers[p].version
         /\ flow'[f].meaning = providers[p].meaning /\ flow'[f].attempt = a
         /\ p \in Providers /\ attempts[a].version = providers[p].version
  <1> DEFINE p == attempts[a].provider
             new == ClaimedFlow(attempts[a].purpose, p, providers[p].version,
                                providers[p].meaning, a)
  <1>1. flow' = [flow EXCEPT ![f] = new] /\ exact(p, attempts[a].version)
    BY DEF claim, ClaimedFlow
  <1>2. attempts[a].purpose \in Purpose /\ p \in Providers
    BY RowTypes, AttemptFields
  <1>3. providers[p].version \in Version /\ providers[p].meaning \in Version
    BY <1>2, RowTypes, ProviderFields
  <1>4. a \in 0 .. MaxAttempts
    BY RowTypes, FederationAssumption DEF Ids, FederationInv, BoundsInv
  <1>5. /\ new \in Flow /\ new.pc = "claimed" /\ new.purpose = attempts[a].purpose
        /\ new.provider = p /\ new.view = providers[p].version
        /\ new.meaning = providers[p].meaning /\ new.attempt = a
    BY <1>2, <1>3, <1>4, FlowClaimed
  <1> HIDE DEF new
  <1>6. /\ flow' \in [Flows -> Flow] /\ flow'[f] = new
        /\ \A g \in Flows : g # f => flow'[g] = flow[g]
    BY <1>1, <1>5 DEF FederationInv, TypeOK
  <1> QED BY <1>1, <1>2, <1>5, <1>6 DEF exact

(* The steps between the transactions of one operation. *)
Moves(f) ==
  /\ flow' \in [Flows -> Flow] /\ \A g \in Flows : g # f => flow'[g] = flow[g]
  /\ \/ flow'[f].pc = "idle"
     \/ flow'[f].pc = "prepared" /\ (flow'[f].purpose = "step_up" => flow'[f].session # 0)
     \/ /\ Redeeming(f)
        /\ flow'[f].pc \in {"exchanged", "retargeted"}
        /\ flow'[f].pc = "retargeted" => flow'[f].purpose = "reauthenticate"
        /\ flow'[f].purpose = flow[f].purpose /\ flow'[f].provider = flow[f].provider
        /\ flow'[f].view = flow[f].view /\ flow'[f].meaning = flow[f].meaning
        /\ flow'[f].attempt = flow[f].attempt

LEMMA QuietFlow ==
  ASSUME FederationInv, Quiets
  PROVE  /\ \E f \in Flows : Moves(f)
         /\ UNCHANGED <<known, accounts, providers, identities, sessions, attempts, intents, grants>>
  <1>1. ASSUME NEW f \in Flows, NEW new \in Flow, flow' = [flow EXCEPT ![f] = new]
        PROVE  /\ flow' \in [Flows -> Flow] /\ flow'[f] = new
               /\ \A g \in Flows : g # f => flow'[g] = flow[g]
    BY <1>1 DEF FederationInv, TypeOK
  <1>2. \A n \in 0 .. Len(sessions) : n \in 0 .. MaxSessions
    BY RowTypes, FederationAssumption DEF FederationInv, BoundsInv
  <1>3. ASSUME NEW f \in Flows, NEW purpose \in Purpose, NEW p \in Providers,
               NEW s \in 0 .. Len(sessions), prepare_authentication(f, purpose, p, s)
        PROVE  Moves(f)
    <2> DEFINE new == PreparedFlow(purpose, p, providers[p].version, s)
    <2>1. flow' = [flow EXCEPT ![f] = new] /\ (purpose = "step_up" => s # 0)
      BY <1>3 DEF prepare_authentication, PreparedFlow
    <2>2. providers[p].version \in Version
      BY RowTypes, ProviderFields
    <2>3. /\ new \in Flow /\ new.pc = "prepared" /\ new.purpose = purpose /\ new.session = s
      BY <1>2, <2>2, FlowPrepared
    <2> HIDE DEF new
    <2> QED BY <1>1, <2>1, <2>3 DEF Moves
  <1>4. ASSUME NEW f \in Flows, NEW s \in Ids(sessions), NEW target \in Providers,
               prepare_link(f, s, target)
        PROVE  Moves(f)
    <2> DEFINE row == sessions[s]
               local == accounts[row.principal].has_local_password
               p == IF local THEN target ELSE row.origin.identity[1]
               purpose == IF local THEN "link" ELSE "reauthenticate"
               new == PreparedLink(purpose, p, providers[p].version, s, accounts[row.principal],
                                   target, providers[target].version)
    <2>1. flow' = [flow EXCEPT ![f] = new] /\ (~local => row.origin # NoOrigin)
      BY <1>4 DEF prepare_link, PreparedLink
    <2>2. row.principal \in Accounts /\ row.origin \in Origin \cup {NoOrigin}
      BY RowTypes, SessionFields
    <2>3. p \in Providers
      BY <2>1, <2>2, OriginFields
    <2>4. /\ providers[p].version \in Version /\ providers[target].version \in Version
          /\ accounts[row.principal] \in AccountState
      BY <2>2, <2>3, RowTypes, ProviderFields
    <2>5. purpose \in Purpose /\ purpose # "step_up" /\ s \in 0 .. MaxSessions
      BY <1>2, RowTypes DEF Purpose, Ids
    <2> HIDE DEF p, purpose
    <2>6. /\ new \in Flow /\ new.pc = "prepared" /\ new.purpose = purpose
      BY <2>3, <2>4, <2>5, FlowLinkPrepared
    <2> HIDE DEF new
    <2> QED BY <1>1, <2>1, <2>5, <2>6 DEF Moves
  <1>5. ASSUME NEW f \in Flows, NEW u \in Subjects, exchange(f, u)
        PROVE  Moves(f)
    <2> DEFINE new == ExchangedFlow(flow[f], u)
    <2>1. flow[f] \in Flow
      BY RowTypes
    <2>2. flow' = [flow EXCEPT ![f] = new] /\ flow[f].pc = "claimed"
      BY <1>5, <2>1 DEF exchange, ExchangedFlow, FederationInv, TypeOK
    <2>3. /\ new \in Flow /\ new.pc = "exchanged" /\ new.purpose = flow[f].purpose
          /\ new.provider = flow[f].provider /\ new.view = flow[f].view
          /\ new.meaning = flow[f].meaning /\ new.attempt = flow[f].attempt
      BY <2>1, FlowExchanged
    <2> HIDE DEF new
    <2> QED BY <1>1, <2>2, <2>3 DEF Moves, Redeeming
  <1>6. ASSUME NEW f \in Flows, retarget(f)
        PROVE  Moves(f)
    <2> DEFINE t == intents[attempts[flow[f].attempt].link].target
               new == RetargetedFlow(flow[f], t, providers[t].version)
    <2>1. flow[f] \in Flow
      BY RowTypes
    <2>2. /\ flow' = [flow EXCEPT ![f] = new]
          /\ flow[f].pc = "exchanged" /\ flow[f].purpose = "reauthenticate"
      BY <1>6, <2>1 DEF retarget, RetargetedFlow, FederationInv, TypeOK
    <2>3. t \in Providers
      <3>1. /\ flow[f].attempt \in Ids(attempts)
            /\ attempts[flow[f].attempt].purpose = "reauthenticate"
            /\ AttemptOK(flow[f].attempt)
        BY <2>2 DEF FederationInv, RowsInv, FlowOK, Redeeming
      <3>2. attempts[flow[f].attempt].link \in Ids(intents)
        BY <3>1, RowTypes DEF AttemptOK, Ids
      <3> QED BY <3>2, RowTypes, IntentFields
    <2>4. providers[t].version \in Version
      BY <2>3, RowTypes, ProviderFields
    <2> HIDE DEF t
    <2>5. /\ new \in Flow /\ new.pc = "retargeted" /\ new.purpose = flow[f].purpose
          /\ new.provider = flow[f].provider /\ new.view = flow[f].view
          /\ new.meaning = flow[f].meaning /\ new.attempt = flow[f].attempt
      BY <2>1, <2>3, <2>4, FlowRetargeted
    <2> HIDE DEF new
    <2> QED BY <1>1, <2>2, <2>5 DEF Moves, Redeeming
  <1>7. ASSUME NEW f \in Flows, Abandon(f)
        PROVE  Moves(f)
    BY <1>7, EndedFlow DEF Abandon, Moves
  <1>8. UNCHANGED <<known, accounts, providers, identities, sessions, attempts, intents, grants>>
    BY DEF Quiets, prepare_authentication, prepare_link, exchange, retarget, Abandon
  <1> QED BY <1>3, <1>4, <1>5, <1>6, <1>7, <1>8 DEF Quiets

LEMMA FlowsStep ==
  ASSUME FederationInv, [Next]_vars
  PROVE  flow' \in [Flows -> Flow]
  <1>1. CASE UNCHANGED flow
    BY <1>1 DEF FederationInv, TypeOK
  <1> QED BY <1>1, QuietFlow, ClaimFlow, EndedFlow, Frames DEF Framed, Moves

-----------------------------------------------------------------------------
(* The rows that are there stay right. *)
Onward ==
  /\ ProvidersOnward /\ AccountsOnward /\ IdentitiesOnward /\ SessionsOnward /\ AttemptsOnward
  /\ IntentsOnward /\ GrantsOnward
  /\ TypeOK' /\ BoundsInv' /\ ProvidersInv' /\ IdentitiesInv'

LEMMA OnwardStep ==
  ASSUME FederationInv, [Next]_vars
  PROVE  Onward
  <1>1. /\ ProvidersOnward /\ ProvidersInv' /\ providers' \in [Providers -> Provider]
        /\ AccountsOnward /\ IdentitiesOnward /\ IdentitiesInv'
        /\ known' \subseteq Accounts /\ accounts' \in [Accounts -> AccountState]
        /\ identities' \in [Identity -> Accounts \cup {Nobody}]
        /\ SessionsOnward /\ AttemptsOnward /\ IntentsOnward /\ GrantsOnward
        /\ flow' \in [Flows -> Flow]
    BY ProvidersStep, AccountsStep, SessionsStep, AttemptsStep, IntentsStep, GrantsStep, FlowsStep
  <1>2. TypeOK' /\ BoundsInv'
    BY <1>1 DEF TypeOK, BoundsInv, SessionsOnward, AttemptsOnward, IntentsOnward, GrantsOnward
  <1> QED BY <1>1, <1>2 DEF Onward

LEMMA ReadLater ==
  ASSUME FederationInv, Onward, NEW o \in Origin, Read(o)
  PROVE  Read(o)'
  <1>1. o.identity[1] \in Providers /\ o.version \in Nat
    BY OriginFields
  <1>2. providers' \in [Providers -> Provider] /\ ProvidersOnward
    BY DEF Onward, TypeOK
  <1>3. ReadUnder(o.identity[1], o.version, o.meaning)
    BY DEF Read
  <1>4. ReadUnder(o.identity[1], o.version, o.meaning)'
    BY <1>1, <1>2, <1>3, ReadOnward
  <1> QED BY <1>4 DEF Read

LEMMA Longer ==
  ASSUME FederationInv, Onward
  PROVE  /\ Ids(sessions) \subseteq Ids(sessions') /\ Ids(attempts) \subseteq Ids(attempts')
         /\ Len(sessions') \in Nat /\ Len(attempts') \in Nat /\ Len(intents') \in Nat
         /\ Len(grants') \in Nat
  <1>1. /\ Len(sessions) \in Nat /\ Len(attempts) \in Nat
    BY RowTypes
  <1>2. /\ Len(sessions') \in Nat /\ Len(attempts') \in Nat /\ Len(intents') \in Nat
        /\ Len(grants') \in Nat /\ Len(sessions) <= Len(sessions') /\ Len(attempts) <= Len(attempts')
    BY DEF Onward, TypeOK, SessionsOnward, AttemptsOnward
  <1> QED BY <1>1, <1>2 DEF Ids

LEMMA KeptSession ==
  ASSUME FederationInv, Onward, NEW s \in Ids(sessions)
  PROVE  SessionOK(s)'
  <1> DEFINE row == sessions[s]
  <1>1. /\ sessions'[s].principal = row.principal /\ sessions'[s].auth_epoch = row.auth_epoch
        /\ sessions'[s].origin = row.origin /\ sessions'[s].replaces = row.replaces
        /\ sessions'[s].attempt = row.attempt
    BY DEF Onward, SessionsOnward
  <1>2. SessionOK(s) /\ row \in SessionRow
    BY RowTypes DEF FederationInv, RowsInv
  <1>3. /\ row.principal \in known /\ row.principal \in known' /\ row.principal \in Accounts
    BY <1>2 DEF SessionOK, Onward, AccountsOnward, FederationInv, TypeOK
  <1>4. row.auth_epoch <= accounts'[row.principal].epoch
    <2>1. /\ row.auth_epoch <= accounts[row.principal].epoch
          /\ accounts[row.principal].epoch <= accounts'[row.principal].epoch
      BY <1>2, <1>3 DEF SessionOK, Onward, AccountsOnward
    <2>2. row.auth_epoch \in Nat /\ accounts[row.principal].epoch \in Nat
      BY <1>2, <1>3, RowTypes, SessionFields, AccountFields
    <2>3. accounts'[row.principal].epoch \in Nat
      BY <1>3, AccountFields DEF Onward, TypeOK
    <2> QED BY <2>1, <2>2, <2>3
  <1>5. \A o \in Origin : Read(o) => Read(o)'
    BY ReadLater
  <1>o. row.origin # NoOrigin => /\ row.origin \in Origin /\ Read(row.origin)
                                 /\ identities[row.origin.identity] = row.principal
    BY <1>2, SessionFields DEF SessionOK
  <1>r. \A o \in Origin : o = row.origin /\ row.origin # NoOrigin =>
          ReadUnder(o.identity[1], o.version, o.meaning)'
    BY <1>5, <1>o DEF Read
  <1>i. row.origin # NoOrigin => identities'[row.origin.identity] = row.principal
    BY <1>3, <1>o, OriginFields, FederationAssumption DEF Onward, IdentitiesOnward
  <1>6. row.attempt # 0 => row.attempt \in Ids(attempts') /\ attempts'[row.attempt].stage = "gone"
    BY <1>2, Longer DEF SessionOK, Onward, AttemptsOnward
  <1>7. row.replaces # 0 => row.replaces \in Ids(sessions') /\ sessions'[row.replaces].revoked
    BY <1>2, Longer DEF SessionOK, Onward, SessionsOnward
  <1> HIDE DEF row
  <1> QED BY <1>1, <1>3, <1>4, <1>o, <1>r, <1>i, <1>6, <1>7 DEF SessionOK, Read

LEMMA KeptAttempt ==
  ASSUME FederationInv, Onward, NEW a \in Ids(attempts)
  PROVE  AttemptOK(a)'
  <1>1. Len(intents) \in Nat /\ Len(intents') \in Nat /\ Len(intents) <= Len(intents')
    BY RowTypes, Longer DEF Onward, IntentsOnward
  <1>2. AttemptOK(a)
    BY DEF FederationInv, RowsInv
  <1> QED BY <1>1, <1>2 DEF AttemptOK, Onward, AttemptsOnward

LEMMA KeptIntent ==
  ASSUME FederationInv, Onward, NEW i \in Ids(intents), intents'[i] = intents[i]
  PROVE  IntentOK(i)'
  <1> DEFINE row == intents[i]
  <1>1. IntentOK(i) /\ row \in IntentRow
    BY RowTypes DEF FederationInv, RowsInv
  <1>2. row.principal \in known' /\ row.principal \in Accounts
    BY <1>1 DEF IntentOK, Onward, AccountsOnward, FederationInv, TypeOK
  <1>3. \A o \in Origin : Read(o) => Read(o)'
    BY ReadLater
  <1>4. row.origin # NoOrigin => row.origin \in Origin /\ Read(row.origin)
    BY <1>1, IntentFields DEF IntentOK
  <1>5. \A o \in Origin : o = row.origin /\ row.origin # NoOrigin =>
          ReadUnder(o.identity[1], o.version, o.meaning)'
    BY <1>3, <1>4 DEF Read
  <1>6. row.stage = "completed" =>
          row.linked \in Identity /\ identities'[row.linked] = row.principal
    BY <1>1, <1>2, FederationAssumption DEF IntentOK, Onward, IdentitiesOnward
  <1>7. row.stage = "target_ready" /\ row.origin # NoOrigin => row.proof = row.origin.identity
    BY <1>1 DEF IntentOK
  <1>8. intents'[i] = row
    OBVIOUS
  <1> HIDE DEF row
  <1> QED BY <1>2, <1>4, <1>5, <1>6, <1>7, <1>8 DEF IntentOK, Read

LEMMA KeptGrant ==
  ASSUME FederationInv, Onward, NEW g \in Ids(grants)
  PROVE  GrantOK(g)'
  <1> DEFINE row == grants[g]
  <1>1. GrantOK(g) /\ row.source \in Origin
    BY RowTypes, GrantFields DEF FederationInv, RowsInv
  <1>2. \A o \in Origin : Read(o) => Read(o)'
    BY ReadLater
  <1>3. \A o \in Origin : o = row.source => ReadUnder(o.identity[1], o.version, o.meaning)'
    BY <1>1, <1>2 DEF Read, GrantOK
  <1>4. grants'[g].attempt = row.attempt /\ grants'[g].source = row.source
    BY DEF Onward, GrantsOnward
  <1>5. row.attempt \in Ids(attempts') /\ attempts'[row.attempt].stage = "gone"
    BY <1>1, Longer DEF GrantOK, Onward, AttemptsOnward
  <1> HIDE DEF row
  <1> QED BY <1>1, <1>3, <1>4, <1>5 DEF GrantOK, Read

LEMMA IdleFlow ==
  ASSUME NEW f \in Flows, flow'[f].pc = "idle"
  PROVE  FlowOK(f)' /\ ~Redeeming(f)'
  BY DEF FlowOK, Redeeming

(* An operation that holds on to its attempt still holds what it read. *)
LEMMA HeldFlow ==
  ASSUME FederationInv, Onward, NEW f \in Flows, Redeeming(f),
         flow'[f].purpose = flow[f].purpose, flow'[f].provider = flow[f].provider,
         flow'[f].view = flow[f].view, flow'[f].meaning = flow[f].meaning,
         flow'[f].attempt = flow[f].attempt,
         flow'[f].pc # "prepared",
         flow'[f].pc = "retargeted" => flow'[f].purpose = "reauthenticate"
  PROVE  FlowOK(f)'
  <1> DEFINE a == flow[f].attempt
  <1>1. /\ a \in Ids(attempts) /\ attempts[a].stage # "open"
        /\ attempts[a].purpose = flow[f].purpose /\ attempts[a].version = flow[f].view
        /\ ReadUnder(flow[f].provider, flow[f].view, flow[f].meaning)
    BY DEF FederationInv, RowsInv, FlowOK
  <1>2. /\ a \in Ids(attempts') /\ attempts'[a].stage # "open"
        /\ attempts'[a].purpose = flow[f].purpose /\ attempts'[a].version = flow[f].view
    BY <1>1, Longer DEF Onward, AttemptsOnward
  <1>3. flow[f].provider \in Providers /\ flow[f].view \in Nat
    BY RowTypes, FlowFields, FederationAssumption DEF Version
  <1>4. providers' \in [Providers -> Provider] /\ ProvidersOnward
    BY DEF Onward, TypeOK
  <1>5. \A p \in Providers, v \in Nat : \A m :
          ReadUnder(p, v, m) => ReadUnder(p, v, m)'
    BY <1>4, ReadOnward
  <1>6. \A p \in Providers, v \in Nat : \A m :
          p = flow[f].provider /\ v = flow[f].view /\ m = flow[f].meaning => ReadUnder(p, v, m)'
    BY <1>1, <1>5
  <1>7. ReadUnder(flow[f].provider, flow[f].view, flow[f].meaning)'
    BY <1>3, <1>6 DEF ReadUnder
  <1> HIDE DEF a
  <1>8. flow'[f].attempt = a
    BY DEF a
  <1> QED BY <1>2, <1>7, <1>8 DEF FlowOK, a

LEMMA KeptFlow ==
  ASSUME FederationInv, Onward, NEW f \in Flows, flow'[f] = flow[f]
  PROVE  FlowOK(f)'
  <1>1. FlowOK(f)
    BY DEF FederationInv, RowsInv
  <1>2. CASE Redeeming(f)
    BY <1>1, <1>2, HeldFlow DEF FlowOK, Redeeming
  <1>3. CASE ~Redeeming(f)
    BY <1>1, <1>3 DEF FlowOK, Redeeming
  <1> QED BY <1>2, <1>3

-----------------------------------------------------------------------------
(* The new rows are right. *)
LEMMA AddedAttempt ==
  ASSUME FederationInv, Onward, NEW purpose, NEW link, NEW replacement,
         Adds(purpose, link, replacement),
         link = 0 <=> purpose \in {"login", "step_up"}, link \in 0 .. Len(intents'),
         purpose = "step_up" => replacement # 0
  PROVE  \A a \in Ids(attempts') : AttemptOK(a)'
  <1>1. \A a \in Ids(attempts') : a \in Ids(attempts) \/ a = Len(attempts) + 1
    BY RowTypes, Longer DEF Adds, Ids
  <1>2. ASSUME NEW a, a = Len(attempts) + 1 PROVE AttemptOK(a)'
    <2>1. /\ attempts'[a].purpose = purpose /\ attempts'[a].link = link
          /\ attempts'[a].replacement = replacement
      BY <1>2 DEF Adds
    <2> QED BY <2>1 DEF AttemptOK
  <1> QED BY <1>1, <1>2, KeptAttempt

LEMMA AttemptRows ==
  ASSUME FederationInv, [Next]_vars
  PROVE  \A a \in Ids(attempts') : AttemptOK(a)'
  <1>o. Onward
    BY OnwardStep
  <1>1. CASE Len(attempts') = Len(attempts)
    BY <1>o, <1>1, KeptAttempt DEF Ids
  <1>2. ASSUME NEW f \in Flows, begin_authentication(f)
        PROVE  \A a \in Ids(attempts') : AttemptOK(a)'
    <2>1. /\ flow[f].pc = "prepared" /\ flow[f].purpose \in {"login", "step_up"}
          /\ FlowOK(f)
      BY <1>2 DEF begin_authentication, FederationInv, RowsInv
    <2>2. flow[f].purpose = "step_up" => flow[f].session # 0
      BY <2>1 DEF FlowOK
    <2>3. 0 \in 0 .. Len(intents')
      BY <1>o, Longer
    <2> QED BY <1>o, <1>2, <2>1, <2>2, <2>3, BeginAttempt, AddedAttempt
  <1>3. ASSUME NEW f \in Flows, begin_link(f)
        PROVE  \A a \in Ids(attempts') : AttemptOK(a)'
    <2>1. flow[f].purpose \in {"link", "reauthenticate"}
      BY <1>3 DEF begin_link
    <2>2. Len(intents') = Len(intents) + 1 /\ Len(intents) \in Nat
      BY <1>3, BeginIntent, RowTypes
    <2>3. Len(intents) + 1 \in 0 .. Len(intents') /\ Len(intents) + 1 # 0
      BY <2>2
    <2> QED BY <1>o, <1>3, <2>1, <2>3, LinkAttempt, AddedAttempt
  <1>4. ASSUME NEW f \in Flows, finish_reauthentication(f)
        PROVE  \A a \in Ids(attempts') : AttemptOK(a)'
    <2> DEFINE i == attempts[flow[f].attempt].link
    <2>1. i \in Ids(intents)
      BY <1>4, Reauthenticated
    <2>2. i # 0 /\ i \in 0 .. Len(intents')
      BY <1>4, <2>1, ProveIntent, RowTypes DEF Ids
    <2>3. Adds("link", i, 0)
      BY <1>4, TargetAttempt
    <2> HIDE DEF i
    <2> QED BY <1>o, <2>2, <2>3, AddedAttempt
  <1> QED
    BY <1>1, <1>2, <1>3, <1>4, Frames, CommitAttempt, ClaimAttempt, MovedAttempt DEF Framed

LEMMA IntentRows ==
  ASSUME FederationInv, [Next]_vars
  PROVE  \A i \in Ids(intents') : IntentOK(i)'
  <1>o. Onward
    BY OnwardStep
  <1>1. CASE UNCHANGED intents
    BY <1>o, <1>1, KeptIntent
  <1>2. ASSUME NEW f \in Flows, begin_link(f)
        PROVE  \A i \in Ids(intents') : IntentOK(i)'
    <2> DEFINE s == flow[f].session
               n == Len(intents) + 1
    <2>1. /\ s \in Ids(sessions) /\ Len(intents') = n
          /\ \A i \in Ids(intents) : intents'[i] = intents[i]
          /\ intents'[n].principal = sessions[s].principal
          /\ intents'[n].origin \in {NoOrigin, sessions[s].origin}
          /\ intents'[n].stage # "completed"
          /\ intents'[n].stage = "target_ready" => intents'[n].origin = NoOrigin
      BY <1>2, BeginIntent
    <2>2. known' = known /\ providers' = providers
      BY <1>2 DEF begin_link
    <2>3. /\ sessions[s].principal \in known
          /\ sessions[s].origin # NoOrigin => Read(sessions[s].origin)
      BY <2>1 DEF FederationInv, RowsInv, SessionOK
    <2> HIDE DEF s
    <2>4. ASSUME NEW i, i = n PROVE IntentOK(i)'
      <3>1. /\ intents'[i].principal = sessions[s].principal
            /\ intents'[i].origin \in {NoOrigin, sessions[s].origin}
            /\ intents'[i].stage # "completed"
            /\ intents'[i].stage = "target_ready" => intents'[i].origin = NoOrigin
        BY <2>1, <2>4
      <3> QED BY <2>2, <2>3, <3>1 DEF IntentOK, Read, ReadUnder
    <2>5. \A i \in Ids(intents') : i \in Ids(intents) \/ i = n
      BY <2>1, RowTypes DEF Ids
    <2> QED BY <1>o, <2>1, <2>4, <2>5, KeptIntent
  <1>3. ASSUME NEW f \in Flows, complete_link(f)
        PROVE  \A i \in Ids(intents') : IntentOK(i)'
    <2>1. /\ Len(intents') = Len(intents)
          /\ \A j \in Ids(intents) : j # attempts[flow[f].attempt].link => intents'[j] = intents[j]
      BY <1>3, CompleteIntent
    <2>2. ASSUME NEW i, i = attempts[flow[f].attempt].link PROVE IntentOK(i)'
      <3>1. /\ i \in Ids(intents) /\ intents[i].principal \in known /\ known' = known
            /\ Presented(f) \in Identity /\ identities'[Presented(f)] = intents[i].principal
        BY <1>3, <2>2, LinkAccounts
      <3>2. /\ intents'[i].principal = intents[i].principal
            /\ intents'[i].origin = intents[i].origin
            /\ intents'[i].stage = "completed" /\ intents'[i].linked = Presented(f)
        BY <1>3, <2>2, CompleteIntent
      <3>3. intents[i].origin # NoOrigin => Read(intents[i].origin)
        BY <3>1 DEF FederationInv, RowsInv, IntentOK
      <3>4. providers' = providers
        BY <1>3 DEF complete_link
      <3> QED BY <3>1, <3>2, <3>3, <3>4 DEF IntentOK, Read, ReadUnder
    <2> QED BY <1>o, <2>1, <2>2, KeptIntent DEF Ids
  <1>4. ASSUME NEW f \in Flows, finish_reauthentication(f)
        PROVE  \A i \in Ids(intents') : IntentOK(i)'
    <2>1. /\ Len(intents') = Len(intents)
          /\ \A j \in Ids(intents) : j # attempts[flow[f].attempt].link => intents'[j] = intents[j]
      BY <1>4, ProveIntent
    <2>2. ASSUME NEW i, i = attempts[flow[f].attempt].link PROVE IntentOK(i)'
      <3>1. /\ i \in Ids(intents) /\ ReadUnder(flow[f].provider, flow[f].view, flow[f].meaning)
        BY <1>4, <2>2, Reauthenticated
      <3>2. /\ intents'[i].principal = intents[i].principal
            /\ intents'[i].stage = "target_ready" /\ intents'[i].proof = Presented(f)
            /\ intents'[i].origin.identity = Presented(f)
            /\ intents'[i].origin.version = flow[f].view
            /\ intents'[i].origin.meaning = flow[f].meaning
        BY <1>4, <2>2, ProveIntent
      <3>3. intents[i].principal \in known /\ Presented(f)[1] = flow[f].provider
        BY <3>1, PresentedType DEF FederationInv, RowsInv, IntentOK
      <3>4. providers' = providers /\ known' = known
        BY <1>4 DEF finish_reauthentication
      <3> QED BY <3>1, <3>2, <3>3, <3>4 DEF IntentOK, Read, ReadUnder
    <2> QED BY <1>o, <2>1, <2>2, KeptIntent DEF Ids
  <1> QED BY <1>1, <1>2, <1>3, <1>4, Frames DEF Framed

LEMMA FlowRows ==
  ASSUME FederationInv, [Next]_vars
  PROVE  \A f \in Flows : FlowOK(f)'
  <1>o. Onward
    BY OnwardStep
  <1>1. CASE UNCHANGED flow
    BY <1>o, <1>1, KeptFlow
  <1>2. CASE Quiets
    <2>1. PICK f \in Flows : Moves(f)
      BY <1>2, QuietFlow
    <2>2. ASSUME NEW g \in Flows, g # f PROVE FlowOK(g)'
      BY <1>o, <2>1, <2>2, KeptFlow DEF Moves
    <2>3. FlowOK(f)'
      <3>1. CASE flow'[f].pc = "idle"
        BY <3>1, IdleFlow
      <3>2. CASE flow'[f].pc = "prepared" /\ (flow'[f].purpose = "step_up" => flow'[f].session # 0)
        BY <3>2 DEF FlowOK, Redeeming
      <3>3. CASE /\ Redeeming(f)
                 /\ flow'[f].pc \in {"exchanged", "retargeted"}
                 /\ flow'[f].pc = "retargeted" => flow'[f].purpose = "reauthenticate"
                 /\ flow'[f].purpose = flow[f].purpose /\ flow'[f].provider = flow[f].provider
                 /\ flow'[f].view = flow[f].view /\ flow'[f].meaning = flow[f].meaning
                 /\ flow'[f].attempt = flow[f].attempt
        BY <1>o, <3>3, HeldFlow
      <3> QED BY <2>1, <3>1, <3>2, <3>3 DEF Moves
    <2> QED BY <2>2, <2>3
  <1>3. ASSUME NEW f \in Flows, NEW a \in Ids(attempts), claim(f, a)
        PROVE  \A g \in Flows : FlowOK(g)'
    <2>1. ASSUME NEW g \in Flows, g # f PROVE FlowOK(g)'
      BY <1>o, <1>3, <2>1, ClaimFlow, KeptFlow
    <2>2. FlowOK(f)'
      <3>1. /\ flow'[f].pc = "claimed" /\ flow'[f].purpose = attempts[a].purpose
            /\ flow'[f].provider = attempts[a].provider
            /\ flow'[f].view = providers[attempts[a].provider].version
            /\ flow'[f].meaning = providers[attempts[a].provider].meaning
            /\ flow'[f].attempt = a /\ attempts[a].provider \in Providers
            /\ attempts[a].version = providers[attempts[a].provider].version
        BY <1>3, ClaimFlow
      <3>2. /\ a \in Ids(attempts') /\ attempts'[a].stage = "claimed"
            /\ attempts'[a].purpose = attempts[a].purpose
            /\ attempts'[a].version = attempts[a].version
        BY <1>o, <1>3, ClaimAttempt, Longer DEF Onward, AttemptsOnward
      <3>3. providers' = providers
        BY <1>3 DEF claim
      <3>4. providers[attempts[a].provider].version \in Nat
        BY <3>1, RowTypes, ProviderFields
      <3> QED BY <3>1, <3>2, <3>3, <3>4 DEF FlowOK, ReadUnder
    <2> QED BY <2>1, <2>2
  <1>4. ASSUME NEW f \in Flows, Ended(f)
        PROVE  \A g \in Flows : FlowOK(g)'
    <2>1. ASSUME NEW g \in Flows, g # f PROVE FlowOK(g)'
      BY <1>o, <1>4, <2>1, EndedFlow, KeptFlow
    <2>2. FlowOK(f)'
      BY <1>4, EndedFlow, IdleFlow
    <2> QED BY <2>1, <2>2
  <1> QED BY <1>1, <1>2, <1>3, <1>4, Frames DEF Framed

(* A row for a callback takes an attempt that was still claimed. *)
Taken(a) ==
  /\ a \in Ids(attempts) /\ attempts[a].stage = "claimed"
  /\ a \in Ids(attempts') /\ attempts'[a].stage = "gone"

LEMMA CommitTakes ==
  ASSUME FederationInv, Onward, NEW f \in Flows,
         complete_login(f) \/ complete_step_up(f) \/ complete_link(f)
  PROVE  Taken(flow[f].attempt) /\ flow[f].attempt # 0
  BY CommitAttempt, Longer, RowTypes DEF Taken, Ids

IssuedSession(s) ==
  /\ s = Len(sessions) + 1
  /\ sessions'[s].attempt # 0 => Taken(sessions'[s].attempt)
  /\ sessions'[s].replaces # 0 => Live(sessions'[s].replaces)
  /\ SessionOK(s)'

LEMMA Issued ==
  ASSUME FederationInv, Onward, NEW a \in known', NEW state, state = accounts'[a],
         NEW replaced, NEW origin \in Origin \cup {NoOrigin}, NEW attempt,
         Inserts(a, state, replaced, origin, attempt), providers' = providers,
         origin # NoOrigin => Read(origin) /\ identities'[origin.identity] = a,
         attempt # 0 => Taken(attempt), replaced # 0 => Live(replaced)
  PROVE  \A s \in Ids(sessions') : s \in Ids(sessions) \/ IssuedSession(s)
  <1>1. /\ Len(sessions') = Len(sessions) + 1 /\ Len(sessions) \in Nat
        /\ \A s \in Ids(sessions) : s = replaced => sessions'[s].revoked
    BY RowTypes DEF Inserts
  <1>2. \A s \in Ids(sessions') : s \in Ids(sessions) \/ s = Len(sessions) + 1
    BY <1>1 DEF Ids
  <1>3. ASSUME NEW s, s = Len(sessions) + 1 PROVE IssuedSession(s)
    <2>1. /\ sessions'[s].principal = a /\ sessions'[s].auth_epoch = state.epoch
          /\ sessions'[s].origin = origin /\ sessions'[s].replaces = replaced
          /\ sessions'[s].attempt = attempt
      BY <1>3 DEF Inserts
    <2>2. replaced # 0 => replaced \in Ids(sessions') /\ sessions'[replaced].revoked
      BY <1>1, Longer DEF Live, Ids
    <2>3. state.epoch \in Nat
      BY AccountFields DEF Onward, TypeOK
    <2>4. SessionOK(s)'
      BY <2>1, <2>2, <2>3 DEF SessionOK, Read, ReadUnder, Taken
    <2> QED BY <1>3, <2>1, <2>4 DEF IssuedSession
  <1> QED BY <1>2, <1>3

LEMMA NewSessions ==
  ASSUME FederationInv, [Next]_vars
  PROVE  \A s \in Ids(sessions') : s \in Ids(sessions) \/ IssuedSession(s)
  <1>o. Onward
    BY OnwardStep
  <1>1. CASE UNCHANGED sessions
    BY <1>1
  <1>2. ASSUME NEW f \in Flows, complete_login(f)
        PROVE  \A s \in Ids(sessions') : s \in Ids(sessions) \/ IssuedSession(s)
    <2> DEFINE t == flow[f].attempt
               replaced == attempts[t].replacement
    <2>1. PICK a \in Accounts : /\ Resolved(a, Presented(f))
                                /\ Inserts(a, accounts'[a], replaced, Facts(f), t)
                                /\ replaced # 0 => Live(replaced)
      BY <1>2, LoginSession
    <2>2. Committing(f, "login") /\ providers' = providers
      BY <1>2 DEF complete_login
    <2>3. Facts(f) \in Origin /\ Facts(f).identity = Presented(f) /\ Read(Facts(f))
      BY <2>2, Committed
    <2>4. a \in known' /\ identities'[Facts(f).identity] = a
      BY <2>1, <2>3 DEF Resolved
    <2>5. Taken(t)
      BY <1>o, <1>2, CommitTakes
    <2> HIDE DEF t, replaced
    <2> QED BY <1>o, <2>1, <2>2, <2>3, <2>4, <2>5, Issued
  <1>3. ASSUME NEW f \in Flows, complete_link(f)
        PROVE  \A s \in Ids(sessions') : s \in Ids(sessions) \/ IssuedSession(s)
    <2> DEFINE t == flow[f].attempt
               i == attempts[t].link
               a == intents[i].principal
               o == intents[i].origin
    <2>1. /\ i \in Ids(intents) /\ a \in known /\ known' = known /\ Live(intents[i].session)
      BY <1>3, LinkAccounts
    <2>2. /\ Inserts(a, accounts'[a], intents[i].session, o, t)
          /\ o # NoOrigin => check_origin(a, o)
      BY <1>3, LinkSession
    <2>3. o \in Origin \cup {NoOrigin} /\ (o # NoOrigin => Read(o))
      BY <2>1, RowTypes, IntentFields DEF FederationInv, RowsInv, IntentOK
    <2>4. a \in Accounts
      BY <2>1 DEF FederationInv, TypeOK
    <2>5. providers' = providers
      BY <1>3 DEF complete_link
    <2>6. Taken(t)
      BY <1>o, <1>3, CommitTakes
    <2> HIDE DEF i
    <2>7. o # NoOrigin => identities'[o.identity] = a
      <3>1. SUFFICES ASSUME o # NoOrigin PROVE identities'[o.identity] = a
        OBVIOUS
      <3>2. identities[o.identity] = a /\ o.identity \in Identity /\ a # Nobody
        BY <2>2, <2>3, <2>4, <3>1, OriginFields, FederationAssumption DEF check_origin
      <3> QED BY <1>o, <3>2 DEF Onward, IdentitiesOnward
    <2> HIDE DEF t, a, o
    <2> QED BY <1>o, <2>1, <2>2, <2>3, <2>5, <2>6, <2>7, Issued
  <1>4. ASSUME NEW a \in Accounts, login_local(a)
        PROVE  \A s \in Ids(sessions') : s \in Ids(sessions) \/ IssuedSession(s)
    <2>1. a \in known' /\ Inserts(a, accounts'[a], 0, NoOrigin, 0)
      BY <1>4, LocalSession
    <2>2. providers' = providers
      BY <1>4 DEF login_local
    <2> QED BY <1>o, <2>1, <2>2, Issued
  <1>5. ASSUME NEW s \in Ids(sessions), EndSession(s)
        PROVE  Ids(sessions') = Ids(sessions)
    <2>1. sessions' = [sessions EXCEPT ![s] = [sessions[s] EXCEPT !.revoked = TRUE]]
      BY <1>5 DEF EndSession
    <2> QED BY <2>1 DEF Ids, FederationInv, TypeOK
  <1> QED BY <1>1, <1>2, <1>3, <1>4, <1>5, Frames DEF Framed

LEMMA SessionRows ==
  ASSUME FederationInv, [Next]_vars
  PROVE  \A s \in Ids(sessions') : SessionOK(s)'
  BY NewSessions, OnwardStep, KeptSession DEF IssuedSession

IssuedGrant(g) ==
  /\ g = Len(grants) + 1 /\ Taken(grants'[g].attempt) /\ grants'[g].attempt # 0
  /\ UNCHANGED sessions /\ GrantOK(g)'

LEMMA NewGrants ==
  ASSUME FederationInv, [Next]_vars
  PROVE  \A g \in Ids(grants') : g \in Ids(grants) \/ IssuedGrant(g)
  <1>o. Onward
    BY OnwardStep
  <1>1. CASE UNCHANGED grants
    BY <1>1
  <1>2. ASSUME NEW f \in Flows, complete_step_up(f)
        PROVE  \A g \in Ids(grants') : g \in Ids(grants) \/ IssuedGrant(g)
    <2>1. /\ Len(grants') = Len(grants) + 1
          /\ grants'[Len(grants) + 1].attempt = flow[f].attempt
          /\ grants'[Len(grants) + 1].source = Facts(f)
      BY <1>2, StepUpGrant
    <2>2. \A g \in Ids(grants') : g \in Ids(grants) \/ g = Len(grants) + 1
      BY <2>1, RowTypes DEF Ids
    <2>3. Committing(f, "step_up") /\ providers' = providers /\ UNCHANGED sessions
      BY <1>2 DEF complete_step_up
    <2>4. Read(Facts(f))
      BY <2>3, Committed
    <2>5. Taken(flow[f].attempt) /\ flow[f].attempt # 0
      BY <1>o, <1>2, CommitTakes
    <2> DEFINE t == flow[f].attempt
               o == Facts(f)
    <2> HIDE DEF t, o
    <2>6. ASSUME NEW g, g = Len(grants) + 1 PROVE IssuedGrant(g)
      <3>1. grants'[g].attempt = t /\ grants'[g].source = o
        BY <2>1, <2>6 DEF t, o
      <3>2. Read(o) /\ Taken(t)
        BY <2>4, <2>5 DEF t, o
      <3>3. GrantOK(g)'
        BY <2>3, <3>1, <3>2 DEF GrantOK, Read, ReadUnder, Taken
      <3> QED BY <2>3, <2>5, <2>6, <3>1, <3>2, <3>3 DEF IssuedGrant, t
    <2> QED BY <2>2, <2>6
  <1>3. CASE GrantSteps
    <2>1. PICK g \in Ids(grants) : consume_step_up_on(g) \/ cancel_step_up(g) \/ ExpireGrant(g)
      BY <1>3 DEF GrantSteps
    <2>2. \E st : grants' = [grants EXCEPT ![g] = st]
      BY <2>1 DEF consume_step_up_on, cancel_step_up, ExpireGrant
    <2>3. Ids(grants') = Ids(grants)
      BY <2>2 DEF Ids, FederationInv, TypeOK
    <2> QED BY <2>3
  <1> QED BY <1>1, <1>2, <1>3, Frames DEF Framed

LEMMA GrantRows ==
  ASSUME FederationInv, [Next]_vars
  PROVE  \A g \in Ids(grants') : GrantOK(g)'
  BY NewGrants, OnwardStep, KeptGrant DEF IssuedGrant

-----------------------------------------------------------------------------
(* No attempt is used twice. *)
FlowsApart ==
  \A f, g \in Flows :
    f # g /\ Redeeming(f) /\ Redeeming(g) => flow[f].attempt # flow[g].attempt

SessionsApart ==
  \A s, t \in Ids(sessions) :
    s # t /\ sessions[s].attempt # 0 => sessions[s].attempt # sessions[t].attempt

GrantsApart ==
  /\ \A g, h \in Ids(grants) : g # h => grants[g].attempt # grants[h].attempt
  /\ \A g \in Ids(grants), s \in Ids(sessions) : grants[g].attempt # sessions[s].attempt

LEMMA FlowsStayApart ==
  ASSUME FederationInv, [Next]_vars
  PROVE  FlowsApart'
  <1>1. FlowsApart
    BY DEF FederationInv, RedeemedOnce, FlowsApart
  <1>2. CASE UNCHANGED flow
    BY <1>1, <1>2 DEF FlowsApart, Redeeming
  <1>3. CASE Quiets
    <2>1. PICK f \in Flows : Moves(f)
      BY <1>3, QuietFlow
    <2>2. \A g \in Flows : Redeeming(g)' => Redeeming(g) /\ flow'[g].attempt = flow[g].attempt
      BY <2>1 DEF Moves, Redeeming
    <2> QED BY <1>1, <2>2 DEF FlowsApart
  <1>4. ASSUME NEW f \in Flows, NEW a \in Ids(attempts), claim(f, a)
        PROVE  FlowsApart'
    <2>1. flow'[f].attempt = a /\ \A g \in Flows : g # f => flow'[g] = flow[g]
      BY <1>4, ClaimFlow
    <2>2. attempts[a].stage = "open"
      BY <1>4, ClaimAttempt
    <2>3. \A g \in Flows : Redeeming(g) => flow[g].attempt # a
      BY <2>2 DEF FederationInv, RowsInv, FlowOK
    <2> QED BY <1>1, <2>1, <2>3 DEF FlowsApart, Redeeming
  <1>5. ASSUME NEW f \in Flows, Ended(f)
        PROVE  FlowsApart'
    <2>1. \A g \in Flows : Redeeming(g)' => Redeeming(g) /\ flow'[g].attempt = flow[g].attempt
      BY <1>5, EndedFlow DEF Redeeming
    <2> QED BY <1>1, <2>1 DEF FlowsApart
  <1> QED BY <1>2, <1>3, <1>4, <1>5, Frames DEF Framed

(* The attempts of old rows are gone, that of a new one was still claimed. *)
LEMMA OldSessions ==
  ASSUME FederationInv, Onward, NEW s \in Ids(sessions)
  PROVE  /\ sessions'[s].attempt = sessions[s].attempt
         /\ sessions'[s].replaces = sessions[s].replaces
         /\ ~Taken(sessions[s].attempt)
         /\ sessions[s].replaces # 0 => ~Live(sessions[s].replaces)
  <1>1. SessionOK(s)
    BY DEF FederationInv, RowsInv
  <1>2. 0 \notin Ids(attempts)
    BY RowTypes DEF Ids
  <1> QED BY <1>1, <1>2 DEF SessionOK, Taken, Live, Onward, SessionsOnward

LEMMA OldGrants ==
  ASSUME FederationInv, Onward, NEW g \in Ids(grants)
  PROVE  /\ grants'[g].attempt = grants[g].attempt
         /\ ~Taken(grants[g].attempt) /\ grants[g].attempt # 0
  <1>1. GrantOK(g)
    BY DEF FederationInv, RowsInv
  <1>2. 0 \notin Ids(attempts)
    BY RowTypes DEF Ids
  <1> QED BY <1>1, <1>2 DEF GrantOK, Taken, Onward, GrantsOnward

LEMMA RowsStayApart ==
  ASSUME FederationInv, [Next]_vars
  PROVE  SessionsApart' /\ GrantsApart' /\ ReplacedOnce'
  <1>o. Onward
    BY OnwardStep
  <1>1. SessionsApart /\ GrantsApart /\ ReplacedOnce
    BY DEF FederationInv, RedeemedOnce, SessionsApart, GrantsApart
  <1>2. \A s \in Ids(sessions') : s \in Ids(sessions) \/ IssuedSession(s)
    BY NewSessions
  <1>3. \A g \in Ids(grants') : g \in Ids(grants) \/ IssuedGrant(g)
    BY NewGrants
  <1>4. \A s \in Ids(sessions) :
          /\ sessions'[s].attempt = sessions[s].attempt
          /\ sessions'[s].replaces = sessions[s].replaces
          /\ ~Taken(sessions[s].attempt)
          /\ sessions[s].replaces # 0 => ~Live(sessions[s].replaces)
    BY <1>o, OldSessions
  <1>5. \A g \in Ids(grants) : /\ grants'[g].attempt = grants[g].attempt
                               /\ ~Taken(grants[g].attempt) /\ grants[g].attempt # 0
    BY <1>o, OldGrants
  <1>6. SessionsApart'
    BY <1>1, <1>2, <1>4 DEF SessionsApart, IssuedSession
  <1>7. ReplacedOnce'
    BY <1>1, <1>2, <1>4 DEF ReplacedOnce, IssuedSession
  <1>8. \A g, h \in Ids(grants') : g # h => grants'[g].attempt # grants'[h].attempt
    BY <1>1, <1>3, <1>5 DEF GrantsApart, IssuedGrant
  <1>9. ASSUME NEW g \in Ids(grants'), NEW s \in Ids(sessions')
        PROVE  grants'[g].attempt # sessions'[s].attempt
    <2>1. CASE g \in Ids(grants)
      BY <1>1, <1>2, <1>4, <1>5, <2>1 DEF GrantsApart, IssuedSession
    <2>2. CASE IssuedGrant(g)
      <3>1. s \in Ids(sessions)
        BY <2>2 DEF IssuedGrant
      <3> QED BY <1>4, <2>2, <3>1 DEF IssuedGrant
    <2> QED BY <1>3, <2>1, <2>2
  <1> QED BY <1>6, <1>7, <1>8, <1>9 DEF GrantsApart

-----------------------------------------------------------------------------
LEMMA InitInv == Init => FederationInv
  <1> SUFFICES ASSUME Init PROVE FederationInv
    OBVIOUS
  <1>1. sessions = << >> /\ attempts = << >> /\ intents = << >> /\ grants = << >>
    BY DEF Init
  <1>2. /\ Ids(sessions) = {} /\ Ids(attempts) = {} /\ Ids(intents) = {} /\ Ids(grants) = {}
        /\ Len(sessions) = 0 /\ Len(attempts) = 0 /\ Len(intents) = 0
    BY <1>1 DEF Ids
  <1>3. flow = [f \in Flows |-> Idle] /\ \A f \in Flows : flow[f].pc = "idle"
    BY IdleType DEF Init
  <1>4. \A p \in Providers :
          /\ providers[p] = [enabled |-> TRUE, version |-> 1, revocation_epoch |-> 1, meaning |-> 1]
          /\ 1 \in Version
    BY FederationAssumption DEF Init, Version
  <1>5. known \subseteq Accounts /\ accounts \in [Accounts -> AccountState]
    BY AccountFields, FederationAssumption DEF Init
  <1>6. providers \in [Providers -> Provider]
    BY <1>4 DEF Init, Provider
  <1>7. identities \in [Identity -> Accounts \cup {Nobody}] /\ IdentitiesInv
    BY FederationAssumption DEF Init, Identity, IdentitiesInv
  <1>8. TypeOK
    BY <1>1, <1>3, <1>5, <1>6, <1>7, IdleType DEF TypeOK
  <1>9. ProvidersInv
    BY <1>4 DEF ProvidersInv
  <1>10. BoundsInv
    BY <1>2, FederationAssumption DEF BoundsInv
  <1>11. \A f \in Flows : FlowOK(f) /\ ~Redeeming(f)
    BY <1>3 DEF FlowOK, Redeeming
  <1> QED BY <1>2, <1>7, <1>8, <1>9, <1>10, <1>11 DEF FederationInv, RowsInv, RedeemedOnce, ReplacedOnce

LEMMA StepInv == FederationInv /\ [Next]_vars => FederationInv'
  <1> SUFFICES ASSUME FederationInv, [Next]_vars PROVE FederationInv'
    OBVIOUS
  <1>1. TypeOK' /\ BoundsInv' /\ ProvidersInv' /\ IdentitiesInv'
    BY OnwardStep DEF Onward
  <1>2. RowsInv'
    BY SessionRows, AttemptRows, IntentRows, GrantRows, FlowRows DEF RowsInv
  <1>3. RedeemedOnce' /\ ReplacedOnce'
    BY FlowsStayApart, RowsStayApart
    DEF RedeemedOnce, FlowsApart, SessionsApart, GrantsApart
  <1> QED BY <1>1, <1>2, <1>3 DEF FederationInv

-----------------------------------------------------------------------------
(* federation.rs: whatever two callbacks, an administrator and a redeployment *)
(* do between the transactions of a flow, the rows agree with each other.     *)
THEOREM FederationInvariant == Spec => []FederationInv
  <1>1. Init => FederationInv
    BY InitInv
  <1>2. FederationInv /\ [Next]_vars => FederationInv'
    BY StepInv
  <1> QED BY <1>1, <1>2, PTL DEF Spec

(* complete: claimed_at keeps a second callback from the nonce and verifier of *)
(* the first, and the row that is deleted at the commit keeps the first from  *)
(* being paid twice, for any number of flows at once.                         *)
THEOREM CallbacksRedeemedOnce == Spec => []RedeemedOnce
  <1>1. FederationInv => RedeemedOnce
    BY DEF FederationInv
  <1> QED BY <1>1, FederationInvariant, PTL

(* complete_login: of all the tabs that carry a session to replace only one    *)
(* finds it live when it commits.                                             *)
THEOREM SessionsReplacedOnce == Spec => []ReplacedOnce
  <1>1. FederationInv => ReplacedOnce
    BY DEF FederationInv
  <1> QED BY <1>1, FederationInvariant, PTL

(* external_identities: no link and no first sign-in ever takes an identity    *)
(* from the account that has it, so what was completed on it stays true.      *)
THEOREM IdentitiesHaveOneOwner == Spec => []OneOwner
  <1>1. FederationInv => OneOwner
    BY DEF FederationInv, RowsInv, SessionOK, IntentOK, OneOwner
  <1> QED BY <1>1, FederationInvariant, PTL

(* by_id and check_origin: because no version of a provider is read in two     *)
(* ways, comparing the version is enough to keep old readings out.            *)
THEOREM LiveFactsAreCurrent == Spec => []FactsAreCurrent
  <1>1. FederationInv => FactsAreCurrent
    BY DEF FederationInv, RowsInv, SessionOK, Read, ReadUnder, FactsAreCurrent, Live, check_origin,
           exact
  <1> QED BY <1>1, FederationInvariant, PTL

LEMMA LinkStep == FederationInv /\ [Next]_vars =>
  [\A i \in Ids(intents) :
     intents[i].stage # "completed" /\ intents'[i].stage = "completed" =>
       /\ intents[i].origin # NoOrigin => intents[i].proof = intents[i].origin.identity
       /\ \A s \in Ids(sessions) : sessions[s].principal = intents[i].principal => ~Live(s)']_vars
  <1> SUFFICES ASSUME FederationInv, [Next]_vars, NEW i \in Ids(intents),
                      intents[i].stage # "completed", intents'[i].stage = "completed"
               PROVE  /\ intents[i].origin # NoOrigin =>
                           intents[i].proof = intents[i].origin.identity
                      /\ \A s \in Ids(sessions) :
                           sessions[s].principal = intents[i].principal => ~Live(s)'
    OBVIOUS
  <1>o. Onward
    BY OnwardStep
  <1>1. PICK f \in Flows : complete_link(f) /\ i = attempts[flow[f].attempt].link
    <2>1. \E f \in Flows : begin_link(f) \/ complete_link(f) \/ finish_reauthentication(f)
      BY Frames DEF Framed
    <2>2. ASSUME NEW f \in Flows, begin_link(f) PROVE FALSE
      BY <2>2, BeginIntent
    <2>3. ASSUME NEW f \in Flows, finish_reauthentication(f) PROVE FALSE
      BY <2>3, ProveIntent
    <2>4. ASSUME NEW f \in Flows, complete_link(f) PROVE i = attempts[flow[f].attempt].link
      BY <2>4, CompleteIntent
    <2> QED BY <2>1, <2>2, <2>3, <2>4
  <1> DEFINE a == intents[i].principal
  <1>2. /\ intents[i].stage = "target_ready" /\ a \in Accounts
        /\ accounts'[a].epoch = accounts[a].epoch + 1
    BY <1>1, LinkAccounts
  <1>3. intents[i].origin # NoOrigin => intents[i].proof = intents[i].origin.identity
    BY <1>2 DEF FederationInv, RowsInv, IntentOK
  <1>4. ASSUME NEW s \in Ids(sessions), sessions[s].principal = a PROVE ~Live(s)'
    <2>1. sessions[s].auth_epoch <= accounts[a].epoch
      BY <1>4 DEF FederationInv, RowsInv, SessionOK
    <2>2. sessions[s].auth_epoch \in Nat /\ accounts[a].epoch \in Nat
      BY <1>2, RowTypes, SessionFields, AccountFields
    <2>3. sessions'[s].auth_epoch = sessions[s].auth_epoch /\ sessions'[s].principal = a
      BY <1>o, <1>4 DEF Onward, SessionsOnward
    <2>4. sessions'[s].auth_epoch # accounts'[a].epoch
      BY <1>2, <2>1, <2>2, <2>3
    <2> HIDE DEF a
    <2> QED BY <2>3, <2>4 DEF Live
  <1> QED BY <1>3, <1>4

(* complete_link and finish_reauthentication: an account without a password    *)
(* gets a link only on the proof of the identity its session came from, and   *)
(* the new generation leaves none of its earlier sessions standing.           *)
THEOREM LinksProvenAndFence == Spec => LinksAreProvenAndFence
  <1> QED BY LinkStep, FederationInvariant, PTL DEF Spec, LinksAreProvenAndFence

LEMMA SpendStep == FederationInv /\ [Next]_vars =>
  [\A g \in Ids(grants) :
     grants[g].stage = "valid" /\ grants'[g].stage = "spent" =>
       LET o == grants[g].source p == providers[o.identity[1]] IN
       p.enabled /\ o.meaning = p.meaning]_vars
  <1> SUFFICES ASSUME FederationInv, [Next]_vars, NEW g \in Ids(grants),
                      grants[g].stage = "valid", grants'[g].stage = "spent"
               PROVE  LET o == grants[g].source p == providers[o.identity[1]] IN
                      p.enabled /\ o.meaning = p.meaning
    OBVIOUS
  <1>1. consume_step_up_on(g)
    BY OnwardStep DEF Onward, GrantsOnward
  <1>2. exact(grants[g].source.identity[1], grants[g].source.version)
    BY <1>1 DEF consume_step_up_on, validate_source, check_origin
  <1>3. Read(grants[g].source)
    BY DEF FederationInv, RowsInv, GrantOK
  <1> QED BY <1>2, <1>3 DEF exact, Read, ReadUnder

(* consume_step_up_on: a proof made under other settings, or at a provider     *)
(* that was switched off, is not spent.                                       *)
THEOREM GrantsAreSpentOnCurrentProof == Spec => GrantsSpentOnCurrentProof
  <1> QED BY SpendStep, FederationInvariant, PTL DEF Spec, GrantsSpentOnCurrentProof
=============================================================================
