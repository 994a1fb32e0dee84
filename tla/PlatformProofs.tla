---------------------------- MODULE PlatformProofs ----------------------------
(***************************************************************************)
(* Proofs about platform challenges, for every number of accounts, devices, *)
(* relying parties and servers, every policy and every bound.               *)
(***************************************************************************)
EXTENDS Platform, TLAPS

(* A binding the host keeps is kept under its own name, and was made under   *)
(* a version the provider has had.                                          *)
BindingsInv ==
  /\ provider.revocation_epoch <= provider.version
  /\ \A id \in Bindings :
       bindings[id] # None => bindings[id].id = id /\ bindings[id].version <= provider.version

(* What a row rests on only moves forward, and it has moved once the row no  *)
(* longer stands.                                                           *)
AccountMoved(row) == row.auth_epoch < accounts[row.binding.account].epoch
ProviderMoved(row) == row.binding.id \in Federated /\ row.binding.version < provider.version
BindingMoved(row) == row.binding.epoch < bindings[row.binding.id].epoch

ChallengeInv(row) ==
  /\ row.auth_epoch <= accounts[row.binding.account].epoch
  /\ row.binding.version <= provider.version
  /\ bindings[row.binding.id] # None
  /\ row.binding.epoch <= bindings[row.binding.id].epoch
  /\ row.stands \/ AccountMoved(row) \/ ProviderMoved(row) \/ BindingMoved(row)

ChallengesInv ==
  /\ Len(challenges) <= MaxChallenges
  /\ \A c \in 1 .. Len(challenges) : challenges[c].stage = "open" => ChallengeInv(challenges[c])

RegistrationInv(row) ==
  /\ row.auth_epoch <= accounts[row.binding.account].epoch
  /\ row.binding.version <= provider.version
  /\ row.stands \/ AccountMoved(row) \/ ProviderMoved(row)

RegistrationsInv ==
  \A id \in Bindings : registrations[id] # None => RegistrationInv(registrations[id])

(* The challenge a session was issued on is spent. *)
SpentInv ==
  \A s \in 1 .. Len(sessions) :
    /\ sessions[s].challenge \in 1 .. Len(challenges)
    /\ challenges[sessions[s].challenge].stage = "gone"

AssertionInv(row) ==
  row.assertion # None =>
    /\ row.assertion.expires_at <= row.lifetime.idle_expires_at
    /\ row.assertion.expires_at <= row.lifetime.absolute_expires_at
    /\ row.authenticated_at # None =>
         /\ row.authenticated_at <= row.lifetime.issued_at
         /\ row.authenticated_at >= row.challenged_at - Skew

AssertionsInv == \A s \in 1 .. Len(sessions) : AssertionInv(sessions[s])

PlatformInv ==
  /\ TypeOK /\ BindingsInv /\ ChallengesInv /\ RegistrationsInv
  /\ SpentInv /\ OneSessionPerChallenge /\ AssertionsInv

-----------------------------------------------------------------------------
(* Facts about the operators of the model. *)

LEMMA MappedSeq ==
  ASSUME NEW S, NEW n \in Nat, NEW f \in [1 .. n -> S]
  PROVE  f \in Seq(S) /\ Len(f) = n
  OBVIOUS

LEMMA ClosedRows ==
  ASSUME NEW rows \in Seq(Challenge \cup {Gone}), NEW gone
  PROVE  /\ Closed(rows, gone) \in Seq(Challenge \cup {Gone})
         /\ Len(Closed(rows, gone)) = Len(rows)
         /\ \A c \in 1 .. Len(rows) :
              Closed(rows, gone)[c] = IF c \in gone THEN Gone ELSE rows[c]
  <1>1. Len(rows) \in Nat /\ \A c \in 1 .. Len(rows) : rows[c] \in Challenge \cup {Gone}
    OBVIOUS
  <1>2. Closed(rows, gone) \in [1 .. Len(rows) -> Challenge \cup {Gone}]
    BY <1>1 DEF Closed
  <1> QED BY <1>1, <1>2, MappedSeq DEF Closed

LEMMA StandsNot ==
  ASSUME NEW row
  PROVE  /\ row \in Challenge => [row EXCEPT !.stands = FALSE] \in Challenge
         /\ row \in Registration => [row EXCEPT !.stands = FALSE] \in Registration
  <1>1. row \in Challenge => [row EXCEPT !.stands = FALSE] \in Challenge
    BY Zenon DEF Challenge
  <1>2. row \in Registration => [row EXCEPT !.stands = FALSE] \in Registration
    BY Zenon DEF Registration
  <1> QED BY <1>1, <1>2

LEMMA LeastOfThree ==
  ASSUME NEW a \in Nat, NEW b \in Nat, NEW c \in Nat
  PROVE  /\ Min({a, b, c}) \in Nat
         /\ Min({a, b, c}) <= a /\ Min({a, b, c}) <= b /\ Min({a, b, c}) <= c
  <1>1. \E x \in {a, b, c} : \A y \in {a, b, c} : x =< y
    <2>1. CASE a <= b /\ a <= c
      BY <2>1
    <2>2. CASE b <= a /\ b <= c
      BY <2>2
    <2>3. CASE c <= a /\ c <= b
      BY <2>3
    <2> QED BY <2>1, <2>2, <2>3
  <1>2. Min({a, b, c}) \in {a, b, c} /\ \A y \in {a, b, c} : Min({a, b, c}) =< y
    BY <1>1 DEF Min
  <1> QED BY <1>2

LEMMA LifetimeType ==
  ASSUME NEW n \in Nat
  PROVE  /\ NewLifetime(n, Policy) \in SessionLifetime
         /\ NewLifetime(n, Policy).issued_at = n
         /\ AssertionExpiry(n, NewLifetime(n, Policy)) \in Nat
         /\ AssertionExpiry(n, NewLifetime(n, Policy)) <= NewLifetime(n, Policy).idle_expires_at
         /\ AssertionExpiry(n, NewLifetime(n, Policy)) <= NewLifetime(n, Policy).absolute_expires_at
  <1>1. /\ NewLifetime(n, Policy) \in SessionLifetime
        /\ NewLifetime(n, Policy).issued_at = n
    BY PlatformAssumption DEF SessionLifetime, SessionPolicy, NewLifetime
  <1>2. n + AssertionSeconds \in Nat
    BY PlatformAssumption
  <1>3. /\ NewLifetime(n, Policy).idle_expires_at \in Nat
        /\ NewLifetime(n, Policy).absolute_expires_at \in Nat
    BY <1>1 DEF SessionLifetime
  <1> QED BY <1>1, <1>2, <1>3, LeastOfThree DEF AssertionExpiry

(* Every change of an account opens a new epoch. *)
LEMMA ChangedType ==
  ASSUME NEW s \in AccountState, NEW change \in LocalChange, CanChange(s, change)
  PROVE  Changed(s, change) \in AccountState /\ Changed(s, change).epoch = s.epoch + 1
  <1>1. /\ s.epoch + 1 \in Epoch
        /\ s.password + 1 \in Nat
        /\ ChangesMembership(s, change) => s.membership_epoch + 1 \in Epoch
    BY EpochLimitAssumption DEF AccountState, CanChange, Epoch
  <1>2. change.value \in BOOLEAN
    BY Zenon DEF LocalChange
  <1> QED BY <1>1, <1>2 DEF AccountState, Changed

-----------------------------------------------------------------------------
(* Initially nothing has been challenged. *)
LEMMA InitInv == Init => PlatformInv
  <1> SUFFICES ASSUME Init PROVE PlatformInv
    OBVIOUS
  <1>1. new_federated \in AccountState
    BY EpochLimitAssumption DEF AccountState, new_federated, NewAccount, Epoch
  <1>2. TypeOK
    BY <1>1, PlatformAssumption DEF Init, TypeOK, Provider, Version, Idle, Flow
  <1> QED
    BY <1>2, PlatformAssumption DEF Init, PlatformInv, BindingsInv, ChallengesInv, RegistrationsInv,
      SpentInv, OneSessionPerChallenge, AssertionsInv

-----------------------------------------------------------------------------
(* A change that concerns some open rows leaves every other row as it is. *)
Shaken(rows, concerned) ==
  [ c \in 1 .. Len(rows) |->
      IF c \in concerned THEN [rows[c] EXCEPT !.stands = FALSE] ELSE rows[c] ]

LEMMA ShakenRows ==
  ASSUME NEW rows \in Seq(Challenge \cup {Gone}), NEW concerned,
         \A c \in concerned : c \in 1 .. Len(rows) /\ rows[c].stage = "open"
  PROVE  /\ Shaken(rows, concerned) \in Seq(Challenge \cup {Gone})
         /\ Len(Shaken(rows, concerned)) = Len(rows)
         /\ \A c \in 1 .. Len(rows) :
              Shaken(rows, concerned)[c] =
                IF c \in concerned THEN [rows[c] EXCEPT !.stands = FALSE] ELSE rows[c]
  <1>1. Len(rows) \in Nat /\ \A c \in 1 .. Len(rows) : rows[c] \in Challenge \cup {Gone}
    OBVIOUS
  <1>2. ASSUME NEW c \in 1 .. Len(rows)
        PROVE  Shaken(rows, concerned)[c] \in Challenge \cup {Gone}
    <2>1. CASE c \in concerned
      <3>1. rows[c] \in Challenge
        BY <1>1, <2>1 DEF Gone
      <3>2. Shaken(rows, concerned)[c] = [rows[c] EXCEPT !.stands = FALSE]
        BY <2>1 DEF Shaken
      <3> QED BY <3>1, <3>2, StandsNot
    <2>2. CASE c \notin concerned
      BY <1>1, <2>2 DEF Shaken
    <2> QED BY <2>1, <2>2
  <1>3. Shaken(rows, concerned) \in [1 .. Len(rows) -> Challenge \cup {Gone}]
    BY <1>2 DEF Shaken
  <1> QED BY <1>1, <1>3, MappedSeq DEF Shaken

(* Type correctness, step by step. *)
LEMMA StepType ==
  ASSUME TypeOK, BindingsInv, Len(challenges) <= MaxChallenges, [Next]_vars
  PROVE  TypeOK' /\ (Len(challenges) <= MaxChallenges)'
  <1> USE PlatformAssumption DEF Version
  <1>0. Len(challenges) \in Nat
    BY DEF TypeOK
  <1>1. ASSUME NEW config \in EnterpriseConfig, NEW id \in Bindings, NEW purpose \in Purposes,
               begin_platform_login(config, id, purpose)
        PROVE  TypeOK' /\ (Len(challenges) <= MaxChallenges)'
    <2> DEFINE b == bindings[id]
               account == accounts[b.account]
               new == [ binding |-> b, auth_epoch |-> account.epoch,
                        membership_epoch |-> account.membership_epoch, purpose |-> purpose,
                        target |-> target(config, purpose), created_at |-> now,
                        expires_at |-> now + ChallengeSeconds, stage |-> "open", stands |-> TRUE ]
    <2>1. b \in Binding /\ account \in AccountState
      BY <1>1 DEF begin_platform_login, TypeOK, Binding
    <2>2. target(config, purpose) \in Target
      BY DEF target, EnterpriseConfig, Target, Purposes
    <2>3. new \in Challenge
      BY <2>1, <2>2 DEF Challenge, AccountState, TypeOK
    <2>4. PICK gone : challenges' = Append(Closed(challenges, gone), new)
      BY <1>1 DEF begin_platform_login
    <2> HIDE DEF new
    <2>5. /\ challenges' \in Seq(Challenge \cup {Gone})
          /\ Len(challenges') = Len(challenges) + 1
      <3>1. /\ Closed(challenges, gone) \in Seq(Challenge \cup {Gone})
            /\ Len(Closed(challenges, gone)) = Len(challenges)
        BY ClosedRows DEF TypeOK
      <3> QED BY <2>3, <2>4, <3>1
    <2> QED BY <1>0, <1>1, <2>5 DEF TypeOK, begin_platform_login
  <1>2. ASSUME NEW proc \in Processes, NEW c \in 1 .. Len(challenges), read_challenge(proc, c)
        PROVE  TypeOK' /\ (Len(challenges) <= MaxChallenges)'
    BY <1>0, <1>2 DEF TypeOK, read_challenge, Flow
  <1>3. ASSUME NEW proc \in Processes, Abandon(proc)
        PROVE  TypeOK' /\ (Len(challenges) <= MaxChallenges)'
    BY <1>3 DEF TypeOK, Abandon, Idle, Flow
  <1>4. ASSUME NEW proc \in Processes, NEW config \in EnterpriseConfig,
               NEW dated \in (0 .. MaxClock) \cup {None}, NEW at \in now .. MaxClock,
               NEW last \in now .. MaxClock, complete_platform_login(proc, config, dated, at, last)
        PROVE  TypeOK' /\ (Len(challenges) <= MaxChallenges)'
    <2> DEFINE c == flow[proc].challenge
               row == challenges[c]
               b == row.binding
               account == accounts[b.account]
               lifetime == NewLifetime(at, Policy)
               assertion == IF row.purpose = Browser THEN None
                            ELSE [ rp |-> row.purpose, target |-> row.target,
                                   expires_at |-> AssertionExpiry(at, lifetime) ]
               new == [ principal |-> b.account, auth_epoch |-> account.epoch,
                        membership_epoch |-> account.membership_epoch, binding |-> b,
                        lifetime |-> lifetime, challenge |-> c, challenged_at |-> row.created_at,
                        authenticated_at |-> dated, assertion |-> assertion ]
    <2>1. c \in 1 .. Len(challenges) /\ c \in 1 .. MaxChallenges /\ row.stage = "open"
      BY <1>0, <1>4 DEF complete_platform_login, Usable
    <2>2. row \in Challenge
      <3>1. row \in Challenge \cup {Gone}
        BY <2>1 DEF TypeOK
      <3> QED BY <3>1, <2>1 DEF Gone
    <2>3. at \in Nat /\ last \in 0 .. MaxClock
      BY DEF TypeOK
    <2>4. lifetime \in SessionLifetime /\ AssertionExpiry(at, lifetime) \in Nat
      BY <2>3, LifetimeType
    <2>5. assertion \in Assertion \cup {None}
      BY <2>2, <2>4 DEF Assertion, Challenge, Purposes
    <2>6. b \in Binding /\ account \in AccountState
      BY <2>2 DEF Challenge, Binding, TypeOK
    <2>7. new \in Session
      <3> HIDE DEF assertion, lifetime
      <3>1. dated \in Nat \cup {None} /\ row.created_at \in Nat
        BY <2>2 DEF Challenge
      <3>2. b.account \in Accounts /\ account.epoch \in Epoch /\ account.membership_epoch \in Epoch
        BY <2>6 DEF Binding, AccountState
      <3> QED BY <2>1, <2>4, <2>5, <2>6, <3>1, <3>2 DEF Session
    <2>8. sessions' = Append(sessions, new)
      BY <1>4 DEF complete_platform_login
    <2>9. sessions' \in Seq(Session)
      <3> HIDE DEF new
      <3> QED BY <2>7, <2>8 DEF TypeOK
    <2>10. challenges' \in Seq(Challenge \cup {Gone}) /\ Len(challenges') = Len(challenges)
      <3>1. challenges' = Closed(challenges, {c})
        BY <1>4 DEF complete_platform_login, Spent
      <3>2. challenges \in Seq(Challenge \cup {Gone})
        BY DEF TypeOK
      <3> QED BY <3>1, <3>2, ClosedRows
    <2>11. flow' \in [Processes -> Flow] /\ now' \in 0 .. MaxClock
      BY <1>4, <2>3 DEF complete_platform_login, TypeOK, Idle, Flow
    <2> QED BY <1>4, <2>9, <2>10, <2>11 DEF complete_platform_login, TypeOK
  <1>5. ASSUME NEW id \in Bindings, admit_platform_subject_on(id)
        PROVE  TypeOK' /\ (Len(challenges) <= MaxChallenges)'
    <2>1. bindings[id] \in Binding /\ accounts[bindings[id].account] \in AccountState
      BY <1>5 DEF admit_platform_subject_on, TypeOK, Binding
    <2>2. [ binding |-> bindings[id], auth_epoch |-> accounts[bindings[id].account].epoch,
            membership_epoch |-> accounts[bindings[id].account].membership_epoch,
            stands |-> TRUE ] \in Registration
      BY <2>1 DEF Registration, AccountState
    <2> QED BY <1>5, <2>2 DEF admit_platform_subject_on, TypeOK
  <1>6. ASSUME NEW a \in Accounts, NEW change \in LocalChange, change_account(a, change)
        PROVE  TypeOK' /\ (Len(challenges) <= MaxChallenges)'
    <2> DEFINE concerned == { c \in 1 .. Len(challenges) :
                                challenges[c].stage = "open" /\ challenges[c].binding.account = a }
    <2>1. accounts' \in [Accounts -> AccountState]
      BY <1>6, ChangedType DEF change_account, TypeOK
    <2>2. challenges' = Shaken(challenges, concerned)
      BY <1>6 DEF change_account, Fallen, Unsettled, Shaken
    <2>3. challenges' \in Seq(Challenge \cup {Gone}) /\ Len(challenges') = Len(challenges)
      <3>1. \A c \in concerned : c \in 1 .. Len(challenges) /\ challenges[c].stage = "open"
        OBVIOUS
      <3>2. challenges \in Seq(Challenge \cup {Gone})
        BY DEF TypeOK
      <3> HIDE DEF concerned
      <3> QED BY <2>2, <3>1, <3>2, ShakenRows
    <2>4. registrations' \in [Bindings -> Registration \cup {None}]
      BY <1>6, StandsNot DEF change_account, Fallen, TypeOK
    <2> QED BY <1>6, <2>1, <2>3, <2>4 DEF change_account, TypeOK
  <1>7. ASSUME NEW enabled \in BOOLEAN, NEW settings \in BOOLEAN, edit_provider(enabled, settings)
        PROVE  TypeOK' /\ (Len(challenges) <= MaxChallenges)'
    <2> DEFINE concerned == { c \in 1 .. Len(challenges) :
                      challenges[c].stage = "open" /\ challenges[c].binding.id \in Federated }
    <2>1. provider' \in Provider
      <3>1. provider.version + 1 \in Version /\ provider.revocation_epoch + 1 \in Version
        BY <1>7 DEF edit_provider, TypeOK, Provider, BindingsInv
      <3>2. provider.revocation_epoch \in Version
        BY DEF TypeOK, Provider
      <3> QED BY <1>7, <3>1, <3>2 DEF edit_provider, Provider
    <2>2. challenges' = Shaken(challenges, concerned)
      BY <1>7 DEF edit_provider, Fallen, Unsettled, Shaken
    <2>3. challenges' \in Seq(Challenge \cup {Gone}) /\ Len(challenges') = Len(challenges)
      <3>1. \A c \in concerned : c \in 1 .. Len(challenges) /\ challenges[c].stage = "open"
        OBVIOUS
      <3>2. challenges \in Seq(Challenge \cup {Gone})
        BY DEF TypeOK
      <3> HIDE DEF concerned
      <3> QED BY <2>2, <3>1, <3>2, ShakenRows
    <2>4. registrations' \in [Bindings -> Registration \cup {None}]
      BY <1>7, StandsNot DEF edit_provider, Fallen, TypeOK
    <2> QED BY <1>7, <2>1, <2>3, <2>4 DEF edit_provider, TypeOK
  <1>8. ASSUME NEW id \in Bindings, NEW a \in Accounts, rebind(id, a)
        PROVE  TypeOK' /\ (Len(challenges) <= MaxChallenges)'
    <2> DEFINE concerned == { c \in 1 .. Len(challenges) :
                      challenges[c].stage = "open" /\ challenges[c].binding.id = id }
               epoch == IF bindings[id] = None THEN 1 ELSE bindings[id].epoch + 1
    <2>1. bindings' \in [Bindings -> Binding \cup {None}]
      <3>1. epoch \in Version
        BY <1>8 DEF rebind, TypeOK, Binding
      <3>2. provider.version \in Version /\ provider.revocation_epoch \in Version
        BY DEF TypeOK, Provider
      <3> HIDE DEF epoch
      <3>3. [ id |-> id, account |-> a, epoch |-> epoch, version |-> provider.version,
              revocation_epoch |-> provider.revocation_epoch ] \in Binding
        BY <3>1, <3>2 DEF Binding
      <3>4. bindings' = [bindings EXCEPT ![id] =
              [ id |-> id, account |-> a, epoch |-> epoch, version |-> provider.version,
                revocation_epoch |-> provider.revocation_epoch ]]
        BY <1>8 DEF rebind, epoch
      <3> QED BY <3>3, <3>4 DEF TypeOK
    <2>2. challenges' = Shaken(challenges, concerned)
      BY <1>8 DEF rebind, Unsettled, Shaken
    <2>3. challenges' \in Seq(Challenge \cup {Gone}) /\ Len(challenges') = Len(challenges)
      <3>1. \A c \in concerned : c \in 1 .. Len(challenges) /\ challenges[c].stage = "open"
        OBVIOUS
      <3>2. challenges \in Seq(Challenge \cup {Gone})
        BY DEF TypeOK
      <3> HIDE DEF concerned
      <3> QED BY <2>2, <3>1, <3>2, ShakenRows
    <2> QED BY <1>8, <2>1, <2>3 DEF rebind, TypeOK
  <1>9. ASSUME Tick
        PROVE  TypeOK' /\ (Len(challenges) <= MaxChallenges)'
    BY <1>9 DEF Tick, TypeOK
  <1>10. CASE UNCHANGED vars
    BY <1>10 DEF vars, TypeOK
  <1> QED
    BY <1>1, <1>2, <1>3, <1>4, <1>5, <1>6, <1>7, <1>8, <1>9, <1>10 DEF Next

-----------------------------------------------------------------------------
(* What rows rest on only moves forward. *)
Forward ==
  /\ \A a \in Accounts : accounts[a].epoch <= accounts'[a].epoch
  /\ provider.version <= provider'.version
  /\ \A id \in Bindings : bindings[id] # None =>
       bindings'[id] # None /\ bindings[id].epoch <= bindings'[id].epoch

LEMMA Numbers ==
  /\ \A s \in AccountState : s.epoch \in Nat
  /\ \A p \in Provider : p.version \in Nat /\ p.revocation_epoch \in Nat
  /\ \A b \in Binding : b.epoch \in Nat /\ b.version \in Nat /\ b # None
  <1>1. \A s \in AccountState : s.epoch \in Nat
    BY EpochLimitAssumption DEF AccountState, Epoch
  <1>2. Version \subseteq Nat
    BY PlatformAssumption DEF Version
  <1>3. \A p \in Provider : p.version \in Nat /\ p.revocation_epoch \in Nat
    BY <1>2 DEF Provider
  <1>4. \A b \in Binding : b.epoch \in Nat /\ b.version \in Nat
    BY <1>2 DEF Binding
  <1> QED BY <1>1, <1>3, <1>4, NoneAssumption

LEMMA BindingNotNone == ASSUME NEW b \in Binding PROVE b # None
  BY NoneAssumption

LEMMA ChangedForward ==
  ASSUME TypeOK, NEW a \in Accounts, NEW change \in LocalChange, change_account(a, change)
  PROVE  /\ \A x \in Accounts : accounts[x].epoch \in Nat /\ accounts[x].epoch <= accounts'[x].epoch
         /\ accounts[a].epoch < accounts'[a].epoch
  <1>1. \A x \in Accounts : accounts[x].epoch \in Nat
    BY Numbers DEF TypeOK
  <1>2. accounts'[a].epoch = accounts[a].epoch + 1
    BY ChangedType DEF change_account, TypeOK
  <1>3. \A x \in Accounts : x # a => accounts'[x] = accounts[x]
    BY DEF change_account, TypeOK
  <1> QED BY <1>1, <1>2, <1>3

LEMMA ReboundForward ==
  ASSUME TypeOK, NEW id \in Bindings, NEW a \in Accounts, rebind(id, a)
  PROVE  /\ bindings'[id] \in Binding /\ bindings'[id] # None /\ bindings'[id].id = id
         /\ bindings'[id].version = provider.version
         /\ bindings[id] # None => bindings[id].epoch < bindings'[id].epoch
         /\ \A x \in Bindings : x # id => bindings'[x] = bindings[x]
  <1> DEFINE epoch == IF bindings[id] = None THEN 1 ELSE bindings[id].epoch + 1
             new == [ id |-> id, account |-> a, epoch |-> epoch, version |-> provider.version,
                      revocation_epoch |-> provider.revocation_epoch ]
  <1>1. epoch \in Version
    BY PlatformAssumption DEF rebind, TypeOK, Binding, Version
  <1>2. provider.version \in Version /\ provider.revocation_epoch \in Version
    BY DEF TypeOK, Provider
  <1>3. bindings' = [bindings EXCEPT ![id] = new]
    BY DEF rebind
  <1>4. bindings[id] # None => bindings[id].epoch \in Nat /\ bindings[id].epoch < epoch
    BY DEF TypeOK, Binding, Version
  <1>5. new \in Binding /\ new.id = id /\ new.version = provider.version /\ new.epoch = epoch
    <2> HIDE DEF epoch
    <2> QED BY <1>1, <1>2 DEF Binding
  <1> HIDE DEF new, epoch
  <1>6. bindings'[id] = new
    BY <1>3 DEF TypeOK
  <1> QED BY <1>3, <1>4, <1>5, <1>6, BindingNotNone DEF TypeOK

(* The steps that move what rows rest on. *)
LEMMA OtherSteps ==
  ASSUME [Next]_vars
  PROVE  \/ UNCHANGED <<accounts, provider, bindings>>
         \/ \E a \in Accounts, change \in LocalChange : change_account(a, change)
         \/ \E enabled, settings \in BOOLEAN : edit_provider(enabled, settings)
         \/ \E id \in Bindings, a \in Accounts : rebind(id, a)
  <1>1. ASSUME NEW config \in EnterpriseConfig, NEW id \in Bindings, NEW purpose \in Purposes,
               begin_platform_login(config, id, purpose)
        PROVE  UNCHANGED <<accounts, provider, bindings>>
    BY <1>1 DEF begin_platform_login
  <1>2. ASSUME NEW proc \in Processes, NEW c \in 1 .. Len(challenges), read_challenge(proc, c)
        PROVE  UNCHANGED <<accounts, provider, bindings>>
    BY <1>2 DEF read_challenge
  <1>3. ASSUME NEW proc \in Processes, Abandon(proc)
        PROVE  UNCHANGED <<accounts, provider, bindings>>
    BY <1>3 DEF Abandon
  <1>4. ASSUME NEW proc \in Processes, NEW config \in EnterpriseConfig,
               NEW dated \in (0 .. MaxClock) \cup {None}, NEW at \in now .. MaxClock,
               NEW last \in now .. MaxClock, complete_platform_login(proc, config, dated, at, last)
        PROVE  UNCHANGED <<accounts, provider, bindings>>
    BY <1>4 DEF complete_platform_login
  <1>5. ASSUME NEW id \in Bindings, admit_platform_subject_on(id)
        PROVE  UNCHANGED <<accounts, provider, bindings>>
    BY <1>5 DEF admit_platform_subject_on
  <1>6. CASE Tick \/ UNCHANGED vars
    BY <1>6 DEF Tick, vars
  <1> QED BY <1>1, <1>2, <1>3, <1>4, <1>5, <1>6 DEF Next

LEMMA StepForward ==
  ASSUME TypeOK, BindingsInv, [Next]_vars
  PROVE  Forward
  <1>1. /\ \A a \in Accounts : accounts[a].epoch \in Nat
        /\ provider.version \in Nat
        /\ \A id \in Bindings : bindings[id] # None => bindings[id].epoch \in Nat
    BY Numbers DEF TypeOK
  <1>2. ASSUME NEW a \in Accounts, NEW change \in LocalChange, change_account(a, change)
        PROVE  Forward
    <2>1. UNCHANGED <<provider, bindings>>
      BY <1>2 DEF change_account
    <2>2. \A x \in Accounts : accounts[x].epoch <= accounts'[x].epoch
      BY <1>2, ChangedForward
    <2> QED BY <1>1, <2>1, <2>2 DEF Forward
  <1>3. ASSUME NEW enabled \in BOOLEAN, NEW settings \in BOOLEAN, edit_provider(enabled, settings)
        PROVE  Forward
    BY <1>1, <1>3 DEF Forward, edit_provider
  <1>4. ASSUME NEW id \in Bindings, NEW a \in Accounts, rebind(id, a)
        PROVE  Forward
    <2>1. UNCHANGED <<accounts, provider>>
      BY <1>4 DEF rebind
    <2>2. ASSUME NEW x \in Bindings, bindings[x] # None
          PROVE  bindings'[x] # None /\ bindings[x].epoch <= bindings'[x].epoch
      <3>1. CASE x = id
        <4>1. /\ bindings[x] \in Binding /\ bindings'[x] \in Binding
              /\ bindings[x].epoch < bindings'[x].epoch
          BY <1>4, <2>2, <3>1, ReboundForward DEF TypeOK
        <4> QED BY <4>1, Numbers
      <3>2. CASE x # id
        BY <1>1, <1>4, <2>2, <3>2, ReboundForward
      <3> QED BY <3>1, <3>2
    <2> QED BY <1>1, <2>1, <2>2 DEF Forward
  <1>5. ASSUME UNCHANGED <<accounts, provider, bindings>>
        PROVE  Forward
    BY <1>1, <1>5 DEF Forward
  <1> QED
    BY <1>2, <1>3, <1>4, <1>5, OtherSteps

LEMMA StepBindings ==
  ASSUME TypeOK, BindingsInv, [Next]_vars
  PROVE  BindingsInv'
  <1>1. /\ provider.version \in Nat /\ provider.revocation_epoch \in Nat
        /\ \A id \in Bindings : bindings[id] # None => bindings[id].version \in Nat
    BY Numbers DEF TypeOK
  <1>2. ASSUME NEW enabled \in BOOLEAN, NEW settings \in BOOLEAN, edit_provider(enabled, settings)
        PROVE  BindingsInv'
    <2>1. /\ provider'.version = provider.version + 1
          /\ provider'.revocation_epoch <= provider.revocation_epoch + 1
      BY <1>1, <1>2 DEF edit_provider
    <2>2. provider'.revocation_epoch \in Nat
      BY <1>1, <1>2 DEF edit_provider
    <2>3. bindings' = bindings
      BY <1>2 DEF edit_provider
    <2> QED BY <1>1, <2>1, <2>2, <2>3 DEF BindingsInv
  <1>3. ASSUME NEW id \in Bindings, NEW a \in Accounts, rebind(id, a)
        PROVE  BindingsInv'
    <2>1. provider' = provider
      BY <1>3 DEF rebind
    <2> QED BY <1>1, <1>3, <2>1, ReboundForward DEF BindingsInv
  <1>4. ASSUME UNCHANGED <<provider, bindings>>
        PROVE  BindingsInv'
    BY <1>4 DEF BindingsInv
  <1>5. ASSUME NEW a \in Accounts, NEW change \in LocalChange, change_account(a, change)
        PROVE  UNCHANGED <<provider, bindings>>
    BY <1>5 DEF change_account
  <1> QED
    BY <1>2, <1>3, <1>4, <1>5, OtherSteps

-----------------------------------------------------------------------------
(* A row that is kept still rests on what it did, further back perhaps. *)
LEMMA KeptRow ==
  ASSUME TypeOK, TypeOK', Forward, NEW row \in Challenge, ChallengeInv(row)
  PROVE  /\ row.auth_epoch <= accounts'[row.binding.account].epoch
         /\ row.binding.version <= provider'.version
         /\ bindings'[row.binding.id] # None
         /\ row.binding.epoch <= bindings'[row.binding.id].epoch
         /\ \/ row.stands
            \/ row.auth_epoch < accounts'[row.binding.account].epoch
            \/ row.binding.id \in Federated /\ row.binding.version < provider'.version
            \/ row.binding.epoch < bindings'[row.binding.id].epoch
  <1>1. row.binding \in Binding /\ row.auth_epoch \in Epoch
    BY DEF Challenge
  <1>2. /\ row.binding.account \in Accounts /\ row.binding.id \in Bindings
        /\ row.binding.version \in Nat /\ row.binding.epoch \in Nat /\ row.auth_epoch \in Nat
    BY <1>1, EpochLimitAssumption, PlatformAssumption DEF Binding, Version, Epoch
  <1>3. /\ \A a \in Accounts : accounts[a].epoch \in Nat /\ accounts'[a].epoch \in Nat
        /\ provider.version \in Nat /\ provider'.version \in Nat
        /\ \A id \in Bindings : /\ bindings[id] # None => bindings[id].epoch \in Nat
                                /\ bindings'[id] # None => bindings'[id].epoch \in Nat
    BY Numbers DEF TypeOK
  <1> QED BY <1>2, <1>3 DEF Forward, ChallengeInv, AccountMoved, ProviderMoved, BindingMoved

LEMMA KeptRegistration ==
  ASSUME TypeOK, TypeOK', Forward, NEW row \in Registration, RegistrationInv(row)
  PROVE  /\ row.auth_epoch <= accounts'[row.binding.account].epoch
         /\ row.binding.version <= provider'.version
         /\ \/ row.stands
            \/ row.auth_epoch < accounts'[row.binding.account].epoch
            \/ row.binding.id \in Federated /\ row.binding.version < provider'.version
  <1>1. row.binding \in Binding /\ row.auth_epoch \in Epoch
    BY DEF Registration
  <1>2. /\ row.binding.account \in Accounts
        /\ row.binding.version \in Nat /\ row.auth_epoch \in Nat
    BY <1>1, EpochLimitAssumption, PlatformAssumption DEF Binding, Version, Epoch
  <1>3. /\ \A a \in Accounts : accounts[a].epoch \in Nat /\ accounts'[a].epoch \in Nat
        /\ provider.version \in Nat /\ provider'.version \in Nat
    BY Numbers DEF TypeOK
  <1> QED BY <1>2, <1>3 DEF Forward, RegistrationInv, AccountMoved, ProviderMoved

(* The open rows after a step that only moves rows or what they rest on. *)
Carried(old, new) ==
  /\ new.binding = old.binding /\ new.auth_epoch = old.auth_epoch
  /\ \/ new.stands = old.stands
     \/ new.auth_epoch < accounts'[new.binding.account].epoch
     \/ new.binding.id \in Federated /\ new.binding.version < provider'.version
     \/ new.binding.epoch < bindings'[new.binding.id].epoch

(* Rows that stop standing do so because what they rest on has moved. *)
LEMMA ShakenCarried ==
  ASSUME TypeOK, NEW concerned, challenges' = Shaken(challenges, concerned),
         \A c \in concerned :
           /\ c \in 1 .. Len(challenges) /\ challenges[c].stage = "open"
           /\ \/ challenges[c].auth_epoch < accounts'[challenges[c].binding.account].epoch
              \/ /\ challenges[c].binding.id \in Federated
                 /\ challenges[c].binding.version < provider'.version
              \/ challenges[c].binding.epoch < bindings'[challenges[c].binding.id].epoch
  PROVE  /\ Len(challenges') = Len(challenges)
         /\ \A c \in 1 .. Len(challenges) :
              /\ challenges'[c].stage = challenges[c].stage
              /\ challenges[c].stage = "open" => Carried(challenges[c], challenges'[c])
  <1>1. challenges \in Seq(Challenge \cup {Gone})
    BY DEF TypeOK
  <1>2. /\ Len(challenges') = Len(challenges)
        /\ \A c \in 1 .. Len(challenges) :
             challenges'[c] = IF c \in concerned THEN [challenges[c] EXCEPT !.stands = FALSE]
                              ELSE challenges[c]
    BY <1>1, ShakenRows
  <1>3. ASSUME NEW c \in concerned
        PROVE  /\ challenges'[c].stage = challenges[c].stage
               /\ challenges'[c].binding = challenges[c].binding
               /\ challenges'[c].auth_epoch = challenges[c].auth_epoch
    <2>1. challenges[c] \in Challenge
      BY <1>1 DEF Gone
    <2>2. challenges'[c] = [challenges[c] EXCEPT !.stands = FALSE]
      BY <1>2
    <2> QED BY <2>1, <2>2 DEF Challenge
  <1> QED BY <1>2, <1>3 DEF Carried

LEMMA StepChallenges ==
  ASSUME TypeOK, TypeOK', BindingsInv, ChallengesInv, (Len(challenges) <= MaxChallenges)',
         [Next]_vars
  PROVE  ChallengesInv'
  <1>0. Forward /\ Len(challenges) \in Nat
    BY StepForward DEF TypeOK
  <1>a. \A c \in 1 .. Len(challenges) : challenges[c].stage = "open" => challenges[c] \in Challenge
    <2>1. \A c \in 1 .. Len(challenges) : challenges[c] \in Challenge \cup {Gone}
      BY DEF TypeOK
    <2> QED BY <2>1 DEF Gone
  <1>b. ASSUME NEW c \in 1 .. Len(challenges), challenges[c].stage = "open",
               c \in 1 .. Len(challenges'), Carried(challenges[c], challenges'[c])
        PROVE  ChallengeInv(challenges[c])'
    <2>1. challenges[c] \in Challenge /\ ChallengeInv(challenges[c])
      BY <1>a, <1>b DEF ChallengesInv
    <2> QED
      BY <1>0, <1>b, <2>1, KeptRow
         DEF Carried, ChallengeInv, AccountMoved, ProviderMoved, BindingMoved
  <1>c. ASSUME Len(challenges') = Len(challenges),
               \A c \in 1 .. Len(challenges) :
                 /\ challenges'[c].stage = challenges[c].stage
                 /\ challenges[c].stage = "open" => Carried(challenges[c], challenges'[c])
        PROVE  ChallengesInv'
    BY <1>b, <1>c DEF ChallengesInv
  <1>d. ASSUME UNCHANGED challenges
        PROVE  ChallengesInv'
    BY <1>c, <1>d DEF Carried
  <1>1. ASSUME NEW config \in EnterpriseConfig, NEW id \in Bindings, NEW purpose \in Purposes,
               begin_platform_login(config, id, purpose)
        PROVE  ChallengesInv'
    <2> DEFINE b == bindings[id]
               account == accounts[b.account]
               new == [ binding |-> b, auth_epoch |-> account.epoch,
                        membership_epoch |-> account.membership_epoch, purpose |-> purpose,
                        target |-> target(config, purpose), created_at |-> now,
                        expires_at |-> now + ChallengeSeconds, stage |-> "open", stands |-> TRUE ]
    <2>1. PICK gone : challenges' = Append(Closed(challenges, gone), new)
      BY <1>1 DEF begin_platform_login
    <2>2. /\ Closed(challenges, gone) \in Seq(Challenge \cup {Gone})
          /\ Len(Closed(challenges, gone)) = Len(challenges)
          /\ \A c \in 1 .. Len(challenges) :
               Closed(challenges, gone)[c] = IF c \in gone THEN Gone ELSE challenges[c]
      BY ClosedRows DEF TypeOK
    <2>3. b \in Binding /\ b # None /\ b.account \in Accounts /\ account \in AccountState
      BY <1>1 DEF begin_platform_login, TypeOK, Binding
    <2>4. b.id = id /\ b.version <= provider.version
      BY <2>3 DEF BindingsInv
    <2>5. UNCHANGED <<accounts, provider, bindings>>
      BY <1>1 DEF begin_platform_login
    <2>6. new.stands /\ new.binding = b /\ new.auth_epoch = account.epoch
      OBVIOUS
    <2> HIDE DEF new
    <2>7. /\ Len(challenges') = Len(challenges) + 1
          /\ challenges'[Len(challenges) + 1] = new
          /\ \A c \in 1 .. Len(challenges) :
               challenges'[c] = IF c \in gone THEN Gone ELSE challenges[c]
      BY <1>0, <2>1, <2>2
    <2>8. ASSUME NEW c \in 1 .. Len(challenges'), challenges'[c].stage = "open"
          PROVE  ChallengeInv(challenges[c])'
      <3>1. CASE c = Len(challenges) + 1
        <4>1. b.epoch <= b.epoch /\ account.epoch <= account.epoch
          BY <2>3, Numbers
        <4> QED BY <1>0, <2>3, <2>4, <2>5, <2>6, <2>7, <3>1, <4>1 DEF ChallengeInv
      <3>2. CASE c \in 1 .. Len(challenges)
        <4>1. challenges'[c] = challenges[c]
          BY <2>7, <2>8, <3>2 DEF Gone
        <4> QED BY <1>b, <2>8, <3>2, <4>1 DEF Carried
      <3> QED BY <1>0, <2>7, <3>1, <3>2
    <2> QED BY <2>8 DEF ChallengesInv
  <1>2. ASSUME NEW proc \in Processes, NEW c \in 1 .. Len(challenges), read_challenge(proc, c)
        PROVE  ChallengesInv'
    BY <1>2, <1>d DEF read_challenge
  <1>3. ASSUME NEW proc \in Processes, Abandon(proc)
        PROVE  ChallengesInv'
    BY <1>3, <1>d DEF Abandon
  <1>4. ASSUME NEW proc \in Processes, NEW config \in EnterpriseConfig,
               NEW dated \in (0 .. MaxClock) \cup {None}, NEW at \in now .. MaxClock,
               NEW last \in now .. MaxClock, complete_platform_login(proc, config, dated, at, last)
        PROVE  ChallengesInv'
    <2> DEFINE spent == flow[proc].challenge
    <2>1. challenges' = Closed(challenges, {spent})
      BY <1>4 DEF complete_platform_login, Spent
    <2>2. challenges \in Seq(Challenge \cup {Gone})
      BY DEF TypeOK
    <2> HIDE DEF spent
    <2>3. /\ Len(challenges') = Len(challenges)
          /\ \A c \in 1 .. Len(challenges) :
               challenges'[c] = IF c \in {spent} THEN Gone ELSE challenges[c]
      BY <2>1, <2>2, ClosedRows
    <2>4. ASSUME NEW c \in 1 .. Len(challenges'), challenges'[c].stage = "open"
          PROVE  ChallengeInv(challenges[c])'
      <3>1. challenges'[c] = challenges[c]
        BY <2>3, <2>4 DEF Gone
      <3> QED BY <1>b, <2>3, <2>4, <3>1 DEF Carried
    <2> QED BY <2>4 DEF ChallengesInv
  <1>5. ASSUME NEW id \in Bindings, admit_platform_subject_on(id)
        PROVE  ChallengesInv'
    BY <1>5, <1>d DEF admit_platform_subject_on
  <1>6. ASSUME NEW a \in Accounts, NEW change \in LocalChange, change_account(a, change)
        PROVE  ChallengesInv'
    <2> DEFINE concerned == { c \in 1 .. Len(challenges) :
                                challenges[c].stage = "open" /\ challenges[c].binding.account = a }
    <2>1. challenges' = Shaken(challenges, concerned)
      BY <1>6 DEF change_account, Fallen, Unsettled, Shaken
    <2>2. accounts[a].epoch < accounts'[a].epoch
      BY <1>6, ChangedForward
    <2>3. \A c \in concerned : /\ c \in 1 .. Len(challenges) /\ challenges[c].stage = "open"
                               /\ challenges[c].auth_epoch < accounts'[challenges[c].binding.account].epoch
      <3>1. ASSUME NEW c \in concerned
            PROVE  challenges[c].auth_epoch < accounts'[challenges[c].binding.account].epoch
        <4>1. /\ challenges[c] \in Challenge /\ challenges[c].binding.account = a
              /\ challenges[c].auth_epoch <= accounts[a].epoch
          BY <1>a DEF ChallengesInv, ChallengeInv
        <4>2. challenges[c].auth_epoch \in Nat
          BY <4>1, EpochLimitAssumption DEF Challenge, Epoch
        <4>3. accounts[a].epoch \in Nat /\ accounts'[a].epoch \in Nat
          BY Numbers DEF TypeOK
        <4> QED BY <2>2, <4>1, <4>2, <4>3
      <3> QED BY <3>1
    <2> HIDE DEF concerned
    <2> QED BY <1>c, <2>1, <2>3, ShakenCarried
  <1>7. ASSUME NEW enabled \in BOOLEAN, NEW settings \in BOOLEAN, edit_provider(enabled, settings)
        PROVE  ChallengesInv'
    <2> DEFINE concerned == { c \in 1 .. Len(challenges) :
                      challenges[c].stage = "open" /\ challenges[c].binding.id \in Federated }
    <2>1. challenges' = Shaken(challenges, concerned)
      BY <1>7 DEF edit_provider, Fallen, Unsettled, Shaken
    <2>2. provider'.version = provider.version + 1
      BY <1>7 DEF edit_provider
    <2>3. \A c \in concerned : /\ c \in 1 .. Len(challenges) /\ challenges[c].stage = "open"
                               /\ challenges[c].binding.id \in Federated
                               /\ challenges[c].binding.version < provider'.version
      <3>1. ASSUME NEW c \in concerned
            PROVE  challenges[c].binding.version < provider'.version
        <4>1. challenges[c] \in Challenge /\ challenges[c].binding.version <= provider.version
          BY <1>a DEF ChallengesInv, ChallengeInv
        <4>2. challenges[c].binding.version \in Nat /\ provider.version \in Nat
          BY <4>1, Numbers DEF Challenge, TypeOK
        <4> QED BY <2>2, <4>1, <4>2
      <3> QED BY <3>1
    <2> HIDE DEF concerned
    <2> QED BY <1>c, <2>1, <2>3, ShakenCarried
  <1>8. ASSUME NEW id \in Bindings, NEW a \in Accounts, rebind(id, a)
        PROVE  ChallengesInv'
    <2> DEFINE concerned == { c \in 1 .. Len(challenges) :
                      challenges[c].stage = "open" /\ challenges[c].binding.id = id }
    <2>1. challenges' = Shaken(challenges, concerned)
      BY <1>8 DEF rebind, Unsettled, Shaken
    <2>3. \A c \in concerned : /\ c \in 1 .. Len(challenges) /\ challenges[c].stage = "open"
                               /\ challenges[c].binding.epoch < bindings'[challenges[c].binding.id].epoch
      <3>1. ASSUME NEW c \in concerned
            PROVE  challenges[c].binding.epoch < bindings'[challenges[c].binding.id].epoch
        <4>1. /\ challenges[c] \in Challenge /\ challenges[c].binding.id = id
              /\ bindings[id] # None
              /\ challenges[c].binding.epoch <= bindings[id].epoch
          BY <1>a DEF ChallengesInv, ChallengeInv
        <4>2. bindings[id].epoch < bindings'[id].epoch /\ bindings'[id] \in Binding
          BY <1>8, <4>1, ReboundForward
        <4>3. challenges[c].binding \in Binding /\ bindings[id] \in Binding
          BY <4>1 DEF Challenge, TypeOK
        <4> QED BY <4>1, <4>2, <4>3, Numbers
      <3> QED BY <3>1
    <2> HIDE DEF concerned
    <2> QED BY <1>c, <2>1, <2>3, ShakenCarried
  <1>9. CASE Tick \/ UNCHANGED vars
    BY <1>9, <1>d DEF Tick, vars
  <1> QED
    BY <1>1, <1>2, <1>3, <1>4, <1>5, <1>6, <1>7, <1>8, <1>9 DEF Next

LEMMA StepRegistrations ==
  ASSUME TypeOK, TypeOK', BindingsInv, RegistrationsInv, [Next]_vars
  PROVE  RegistrationsInv'
  <1>0. Forward
    BY StepForward
  <1>a. \A id \in Bindings : registrations[id] # None => registrations[id] \in Registration
    BY DEF TypeOK
  <1>b. ASSUME UNCHANGED registrations
        PROVE  RegistrationsInv'
    BY <1>0, <1>a, <1>b, KeptRegistration
       DEF RegistrationsInv, RegistrationInv, AccountMoved, ProviderMoved
  <1>c. ASSUME NEW id \in Bindings, registrations[id] # None,
               registrations'[id] = [registrations[id] EXCEPT !.stands = FALSE],
               \/ registrations[id].auth_epoch < accounts'[registrations[id].binding.account].epoch
               \/ /\ registrations[id].binding.id \in Federated
                  /\ registrations[id].binding.version < provider'.version
        PROVE  RegistrationInv(registrations[id])'
    <2>1. registrations[id] \in Registration /\ RegistrationInv(registrations[id])
      BY <1>a, <1>c DEF RegistrationsInv
    <2>2. /\ registrations'[id].binding = registrations[id].binding
          /\ registrations'[id].auth_epoch = registrations[id].auth_epoch
      BY <1>c, <2>1 DEF Registration
    <2> QED
      BY <1>0, <1>c, <2>1, <2>2, KeptRegistration DEF RegistrationInv, AccountMoved, ProviderMoved
  <1>d. ASSUME NEW id \in Bindings, registrations'[id] = registrations[id], registrations'[id] # None
        PROVE  RegistrationInv(registrations[id])'
    <2>1. registrations[id] \in Registration /\ RegistrationInv(registrations[id])
      BY <1>a, <1>d DEF RegistrationsInv
    <2> QED
      BY <1>0, <1>d, <2>1, KeptRegistration DEF RegistrationInv, AccountMoved, ProviderMoved
  <1>1. ASSUME NEW id \in Bindings, admit_platform_subject_on(id)
        PROVE  RegistrationsInv'
    <2> DEFINE b == bindings[id]
               account == accounts[b.account]
               new == [ binding |-> b, auth_epoch |-> account.epoch,
                        membership_epoch |-> account.membership_epoch, stands |-> TRUE ]
    <2>1. b \in Binding /\ b # None /\ b.account \in Accounts /\ account \in AccountState
      BY <1>1 DEF admit_platform_subject_on, TypeOK, Binding
    <2>2. b.version <= provider.version /\ account.epoch <= account.epoch
      BY <2>1, Numbers DEF BindingsInv
    <2>3. UNCHANGED <<accounts, provider>> /\ registrations' = [registrations EXCEPT ![id] = new]
      BY <1>1 DEF admit_platform_subject_on
    <2>4. new.stands /\ new.binding = b /\ new.auth_epoch = account.epoch
      OBVIOUS
    <2> HIDE DEF new
    <2>5. ASSUME NEW x \in Bindings, registrations'[x] # None
          PROVE  RegistrationInv(registrations[x])'
      <3>1. CASE x = id
        <4>1. registrations'[x] = new
          BY <2>3, <3>1 DEF TypeOK
        <4> QED BY <2>2, <2>3, <2>4, <4>1 DEF RegistrationInv
      <3>2. CASE x # id
        <4>1. registrations'[x] = registrations[x]
          BY <2>3, <3>2 DEF TypeOK
        <4> QED BY <1>d, <2>5, <4>1
      <3> QED BY <3>1, <3>2
    <2> QED BY <2>5 DEF RegistrationsInv
  <1>2. ASSUME NEW a \in Accounts, NEW change \in LocalChange, change_account(a, change)
        PROVE  RegistrationsInv'
    <2>1. registrations' = [ id \in Bindings |->
             IF registrations[id] # None /\ registrations[id].binding.account = a
             THEN [registrations[id] EXCEPT !.stands = FALSE] ELSE registrations[id] ]
      BY <1>2 DEF change_account, Fallen
    <2>2. ASSUME NEW id \in Bindings, registrations'[id] # None
          PROVE  RegistrationInv(registrations[id])'
      <3>1. CASE registrations[id] # None /\ registrations[id].binding.account = a
        <4>1. registrations[id] \in Registration /\ registrations[id].auth_epoch <= accounts[a].epoch
          BY <1>a, <3>1 DEF RegistrationsInv, RegistrationInv
        <4>2. registrations[id].auth_epoch \in Nat
          BY <4>1, EpochLimitAssumption DEF Registration, Epoch
        <4>3. accounts[a].epoch \in Nat /\ accounts'[a].epoch \in Nat
          BY Numbers DEF TypeOK
        <4>4. registrations[id].auth_epoch < accounts'[a].epoch
          BY <1>2, <4>1, <4>2, <4>3, ChangedForward
        <4> QED BY <1>c, <2>1, <3>1, <4>4
      <3>2. CASE ~(registrations[id] # None /\ registrations[id].binding.account = a)
        BY <1>d, <2>1, <2>2, <3>2
      <3> QED BY <3>1, <3>2
    <2> QED BY <2>2 DEF RegistrationsInv
  <1>3. ASSUME NEW enabled \in BOOLEAN, NEW settings \in BOOLEAN, edit_provider(enabled, settings)
        PROVE  RegistrationsInv'
    <2>1. registrations' = [ id \in Bindings |->
             IF registrations[id] # None /\ registrations[id].binding.id \in Federated
             THEN [registrations[id] EXCEPT !.stands = FALSE] ELSE registrations[id] ]
      BY <1>3 DEF edit_provider, Fallen
    <2>2. ASSUME NEW id \in Bindings, registrations'[id] # None
          PROVE  RegistrationInv(registrations[id])'
      <3>1. CASE registrations[id] # None /\ registrations[id].binding.id \in Federated
        <4>1. registrations[id] \in Registration /\ registrations[id].binding.version <= provider.version
          BY <1>a, <3>1 DEF RegistrationsInv, RegistrationInv
        <4>2. registrations[id].binding.version \in Nat /\ provider.version \in Nat
          BY <4>1, Numbers DEF Registration, TypeOK
        <4>3. provider'.version = provider.version + 1
          BY <1>3 DEF edit_provider
        <4>4. registrations[id].binding.version < provider'.version
          BY <4>1, <4>2, <4>3
        <4> QED BY <1>c, <2>1, <3>1, <4>4
      <3>2. CASE ~(registrations[id] # None /\ registrations[id].binding.id \in Federated)
        BY <1>d, <2>1, <2>2, <3>2
      <3> QED BY <3>1, <3>2
    <2> QED BY <2>2 DEF RegistrationsInv
  <1>4. ASSUME NEW config \in EnterpriseConfig, NEW id \in Bindings, NEW purpose \in Purposes,
               begin_platform_login(config, id, purpose)
        PROVE  RegistrationsInv'
    BY <1>4, <1>b DEF begin_platform_login
  <1>5. ASSUME NEW proc \in Processes, NEW c \in 1 .. Len(challenges), read_challenge(proc, c)
        PROVE  RegistrationsInv'
    BY <1>5, <1>b DEF read_challenge
  <1>6. ASSUME NEW proc \in Processes, NEW config \in EnterpriseConfig,
               NEW dated \in (0 .. MaxClock) \cup {None}, NEW at \in now .. MaxClock,
               NEW last \in now .. MaxClock, complete_platform_login(proc, config, dated, at, last)
        PROVE  RegistrationsInv'
    BY <1>6, <1>b DEF complete_platform_login
  <1>7. ASSUME NEW id \in Bindings, NEW a \in Accounts, rebind(id, a)
        PROVE  RegistrationsInv'
    BY <1>7, <1>b DEF rebind
  <1>8. ASSUME NEW proc \in Processes, Abandon(proc)
        PROVE  RegistrationsInv'
    BY <1>8, <1>b DEF Abandon
  <1>9. CASE Tick \/ UNCHANGED vars
    BY <1>9, <1>b DEF Tick, vars
  <1> QED
    BY <1>1, <1>2, <1>3, <1>4, <1>5, <1>6, <1>7, <1>8, <1>9 DEF Next

-----------------------------------------------------------------------------
(* Only a completion issues a session, and what is spent stays spent. *)
Kept ==
  /\ UNCHANGED sessions
  /\ Len(challenges) <= Len(challenges')
  /\ \A c \in 1 .. Len(challenges) :
       challenges[c].stage = "gone" => challenges'[c].stage = "gone"

Completes ==
  \E proc \in Processes, config \in EnterpriseConfig,
     dated \in (0 .. MaxClock) \cup {None}, at, last \in now .. MaxClock :
    complete_platform_login(proc, config, dated, at, last)

LEMMA StepSpent ==
  ASSUME TypeOK, [Next]_vars
  PROVE  Kept \/ Completes
  <1>0. challenges \in Seq(Challenge \cup {Gone}) /\ Len(challenges) \in Nat
    BY DEF TypeOK
  <1>1. ASSUME NEW config \in EnterpriseConfig, NEW id \in Bindings, NEW purpose \in Purposes,
               begin_platform_login(config, id, purpose)
        PROVE  Kept
    <2>1. PICK gone, new : challenges' = Append(Closed(challenges, gone), new)
      BY <1>1 DEF begin_platform_login
    <2>2. /\ Closed(challenges, gone) \in Seq(Challenge \cup {Gone})
          /\ Len(Closed(challenges, gone)) = Len(challenges)
          /\ \A c \in 1 .. Len(challenges) :
               Closed(challenges, gone)[c] = IF c \in gone THEN Gone ELSE challenges[c]
      BY <1>0, ClosedRows
    <2>3. /\ Len(challenges') = Len(challenges) + 1
          /\ \A c \in 1 .. Len(challenges) :
               challenges'[c] = IF c \in gone THEN Gone ELSE challenges[c]
      BY <1>0, <2>1, <2>2
    <2>4. UNCHANGED sessions
      BY <1>1 DEF begin_platform_login
    <2> QED BY <1>0, <2>3, <2>4 DEF Gone, Kept
  <1>2. ASSUME NEW concerned, challenges' = Shaken(challenges, concerned),
               \A c \in concerned : c \in 1 .. Len(challenges) /\ challenges[c].stage = "open",
               UNCHANGED sessions
        PROVE  Kept
    <2>1. /\ Len(challenges') = Len(challenges)
          /\ \A c \in 1 .. Len(challenges) :
               challenges'[c] = IF c \in concerned THEN [challenges[c] EXCEPT !.stands = FALSE]
                                ELSE challenges[c]
      BY <1>0, <1>2, ShakenRows
    <2>2. \A c \in 1 .. Len(challenges) : challenges[c].stage = "gone" => c \notin concerned
      BY <1>2
    <2>3. \A c \in 1 .. Len(challenges) : challenges[c].stage = "gone" => challenges'[c].stage = "gone"
      BY <2>1, <2>2
    <2> QED BY <1>0, <1>2, <2>1, <2>3 DEF Kept
  <1>3. ASSUME NEW a \in Accounts, NEW change \in LocalChange, change_account(a, change)
        PROVE  Kept
    <2> DEFINE concerned == { c \in 1 .. Len(challenges) :
                                challenges[c].stage = "open" /\ challenges[c].binding.account = a }
    <2>1. challenges' = Shaken(challenges, concerned) /\ UNCHANGED sessions
      BY <1>3 DEF change_account, Fallen, Unsettled, Shaken
    <2>2. \A c \in concerned : c \in 1 .. Len(challenges) /\ challenges[c].stage = "open"
      OBVIOUS
    <2> HIDE DEF concerned
    <2> QED BY <1>2, <2>1, <2>2
  <1>4. ASSUME NEW enabled \in BOOLEAN, NEW settings \in BOOLEAN, edit_provider(enabled, settings)
        PROVE  Kept
    <2> DEFINE concerned == { c \in 1 .. Len(challenges) :
                      challenges[c].stage = "open" /\ challenges[c].binding.id \in Federated }
    <2>1. challenges' = Shaken(challenges, concerned) /\ UNCHANGED sessions
      BY <1>4 DEF edit_provider, Fallen, Unsettled, Shaken
    <2>2. \A c \in concerned : c \in 1 .. Len(challenges) /\ challenges[c].stage = "open"
      OBVIOUS
    <2> HIDE DEF concerned
    <2> QED BY <1>2, <2>1, <2>2
  <1>5. ASSUME NEW id \in Bindings, NEW a \in Accounts, rebind(id, a)
        PROVE  Kept
    <2> DEFINE concerned == { c \in 1 .. Len(challenges) :
                      challenges[c].stage = "open" /\ challenges[c].binding.id = id }
    <2>1. challenges' = Shaken(challenges, concerned) /\ UNCHANGED sessions
      BY <1>5 DEF rebind, Unsettled, Shaken
    <2>2. \A c \in concerned : c \in 1 .. Len(challenges) /\ challenges[c].stage = "open"
      OBVIOUS
    <2> HIDE DEF concerned
    <2> QED BY <1>2, <2>1, <2>2
  <1>6. ASSUME UNCHANGED <<sessions, challenges>>
        PROVE  Kept
    BY <1>0, <1>6 DEF Kept
  <1>7. ASSUME NEW proc \in Processes, NEW c \in 1 .. Len(challenges), read_challenge(proc, c)
        PROVE  Kept
    BY <1>6, <1>7 DEF read_challenge
  <1>8. ASSUME NEW id \in Bindings, admit_platform_subject_on(id)
        PROVE  Kept
    BY <1>6, <1>8 DEF admit_platform_subject_on
  <1>9. ASSUME NEW proc \in Processes, Abandon(proc)
        PROVE  Kept
    BY <1>6, <1>9 DEF Abandon
  <1>10. CASE Tick \/ UNCHANGED vars
    BY <1>6, <1>10 DEF Tick, vars
  <1>11. ASSUME NEW proc \in Processes, NEW config \in EnterpriseConfig,
                NEW dated \in (0 .. MaxClock) \cup {None}, NEW at \in now .. MaxClock,
                NEW last \in now .. MaxClock, complete_platform_login(proc, config, dated, at, last)
         PROVE  Completes
    BY <1>11 DEF Completes
  <1> QED
    BY <1>1, <1>3, <1>4, <1>5, <1>7, <1>8, <1>9, <1>10, <1>11 DEF Next

(* What a completion adds. *)
LEMMA Completed ==
  ASSUME TypeOK, ChallengesInv, NEW proc \in Processes, NEW config \in EnterpriseConfig,
         NEW dated \in (0 .. MaxClock) \cup {None}, NEW at \in now .. MaxClock,
         NEW last \in now .. MaxClock, complete_platform_login(proc, config, dated, at, last)
  PROVE  LET c == flow[proc].challenge
             new == sessions'[Len(sessions) + 1]
         IN  /\ c \in 1 .. Len(challenges)
             /\ challenges[c].stage = "open" /\ challenges[c].stands
             /\ now' < challenges[c].expires_at
             /\ Len(challenges') = Len(challenges)
             /\ \A x \in 1 .. Len(challenges) : challenges'[x] = IF x = c THEN Gone ELSE challenges[x]
             /\ Len(sessions') = Len(sessions) + 1
             /\ \A s \in 1 .. Len(sessions) : sessions'[s] = sessions[s]
             /\ new.challenge = c
             /\ AssertionInv(new)
  <1> DEFINE c == flow[proc].challenge
             row == challenges[c]
             b == row.binding
             account == accounts[b.account]
             lifetime == NewLifetime(at, Policy)
             assertion == IF row.purpose = Browser THEN None
                          ELSE [ rp |-> row.purpose, target |-> row.target,
                                 expires_at |-> AssertionExpiry(at, lifetime) ]
             new == [ principal |-> b.account, auth_epoch |-> account.epoch,
                      membership_epoch |-> account.membership_epoch, binding |-> b,
                      lifetime |-> lifetime, challenge |-> c, challenged_at |-> row.created_at,
                      authenticated_at |-> dated, assertion |-> assertion ]
  <1>1. /\ c \in 1 .. Len(challenges) /\ row.stage = "open"
        /\ now' < row.expires_at
    BY DEF complete_platform_login, Usable, StillInTime
  <1>2. row \in Challenge
    BY <1>1 DEF TypeOK, Gone
  <1>3. row.stands
    <2>1. account.epoch = row.auth_epoch /\ bindings[b.id] = b /\ external_valid(b)
      BY DEF complete_platform_login, SameGeneration, recheck, HostKnows
    <2>2. row.stands \/ AccountMoved(row) \/ ProviderMoved(row) \/ BindingMoved(row)
      BY <1>1 DEF ChallengesInv, ChallengeInv
    <2>3. b \in Binding /\ account \in AccountState
      BY <1>2 DEF Challenge, Binding, TypeOK
    <2>4. account.epoch \in Nat /\ b.epoch \in Nat /\ b.version \in Nat /\ provider.version \in Nat
      BY <2>3, Numbers DEF TypeOK
    <2> QED
      BY <2>1, <2>2, <2>4 DEF AccountMoved, ProviderMoved, BindingMoved, external_valid
  <1>4. /\ Len(challenges') = Len(challenges)
        /\ \A x \in 1 .. Len(challenges) : challenges'[x] = IF x = c THEN Gone ELSE challenges[x]
    <2>1. challenges' = Closed(challenges, {c})
      BY DEF complete_platform_login, Spent
    <2>2. challenges \in Seq(Challenge \cup {Gone})
      BY DEF TypeOK
    <2> HIDE DEF c
    <2> QED BY <2>1, <2>2, ClosedRows
  <1>5. sessions' = Append(sessions, new)
    BY DEF complete_platform_login
  <1>6. new.challenge = c /\ AssertionInv(new)
    <2>1. at \in Nat
      BY DEF TypeOK
    <2>2. /\ lifetime.issued_at = at
          /\ AssertionExpiry(at, lifetime) <= lifetime.idle_expires_at
          /\ AssertionExpiry(at, lifetime) <= lifetime.absolute_expires_at
      BY <2>1, LifetimeType
    <2>3. dated # None => row.created_at - Skew <= dated /\ dated <= at
      BY DEF complete_platform_login
    <2>4. assertion # None => assertion.expires_at = AssertionExpiry(at, lifetime)
      OBVIOUS
    <2> HIDE DEF lifetime, assertion, row, c, b, account
    <2>5. dated # None => dated >= row.created_at - Skew
      BY <1>2, <2>3, PlatformAssumption DEF Challenge
    <2> QED BY <2>2, <2>3, <2>4, <2>5 DEF AssertionInv
  <1> HIDE DEF new
  <1>7. /\ Len(sessions') = Len(sessions) + 1
        /\ sessions'[Len(sessions) + 1] = new
        /\ \A s \in 1 .. Len(sessions) : sessions'[s] = sessions[s]
    BY <1>5 DEF TypeOK
  <1> QED BY <1>1, <1>3, <1>4, <1>6, <1>7

LEMMA StepSessions ==
  ASSUME TypeOK, TypeOK', ChallengesInv, SpentInv, OneSessionPerChallenge, AssertionsInv,
         [Next]_vars
  PROVE  SpentInv' /\ OneSessionPerChallenge' /\ AssertionsInv'
  <1>0. Len(challenges) \in Nat /\ Len(sessions) \in Nat /\ Len(challenges') \in Nat
    BY DEF TypeOK
  <1>1. CASE Kept
    <2>1. SpentInv'
      BY <1>0, <1>1 DEF SpentInv, Kept
    <2>2. OneSessionPerChallenge' /\ AssertionsInv'
      BY <1>1 DEF OneSessionPerChallenge, AssertionsInv, AssertionInv, Kept
    <2> QED BY <2>1, <2>2
  <1>2. ASSUME NEW proc \in Processes, NEW config \in EnterpriseConfig,
               NEW dated \in (0 .. MaxClock) \cup {None}, NEW at \in now .. MaxClock,
               NEW last \in now .. MaxClock, complete_platform_login(proc, config, dated, at, last)
        PROVE  SpentInv' /\ OneSessionPerChallenge' /\ AssertionsInv'
    <2> DEFINE c == flow[proc].challenge
    <2>1. /\ c \in 1 .. Len(challenges) /\ challenges[c].stage = "open"
          /\ Len(challenges') = Len(challenges)
          /\ \A x \in 1 .. Len(challenges) : challenges'[x] = IF x = c THEN Gone ELSE challenges[x]
          /\ Len(sessions') = Len(sessions) + 1
          /\ \A s \in 1 .. Len(sessions) : sessions'[s] = sessions[s]
          /\ sessions'[Len(sessions) + 1].challenge = c
          /\ AssertionInv(sessions'[Len(sessions) + 1])
      BY <1>2, Completed
    <2> HIDE DEF c
    <2>2. \A s \in 1 .. Len(sessions') : s \in 1 .. Len(sessions) \/ s = Len(sessions) + 1
      BY <1>0, <2>1
    <2>3. \A s \in 1 .. Len(sessions) : sessions[s].challenge # c
      BY <2>1 DEF SpentInv
    <2>4. SpentInv'
      <3>1. ASSUME NEW s \in 1 .. Len(sessions)
            PROVE  /\ sessions'[s].challenge \in 1 .. Len(challenges')
                   /\ challenges'[sessions'[s].challenge].stage = "gone"
        BY <2>1, <2>3 DEF SpentInv
      <3>2. challenges'[c].stage = "gone"
        BY <2>1 DEF Gone
      <3> QED BY <2>1, <2>2, <3>1, <3>2 DEF SpentInv
    <2>5. OneSessionPerChallenge'
      BY <2>1, <2>2, <2>3 DEF OneSessionPerChallenge
    <2>6. AssertionsInv'
      BY <2>1, <2>2 DEF AssertionsInv, AssertionInv
    <2> QED BY <2>4, <2>5, <2>6
  <1> QED BY <1>1, <1>2, StepSpent DEF Completes

-----------------------------------------------------------------------------
(* Whatever the host answers and however the servers' steps interleave, the  *)
(* rows keep their types and rest on what they were made on.                *)
THEOREM PlatformInvariant == Spec => []PlatformInv
  <1>1. Init => PlatformInv
    BY InitInv
  <1>2. PlatformInv /\ [Next]_vars => PlatformInv'
    <2> SUFFICES ASSUME PlatformInv, [Next]_vars PROVE PlatformInv'
      OBVIOUS
    <2> USE DEF PlatformInv
    <2>1. TypeOK' /\ (Len(challenges) <= MaxChallenges)'
      BY StepType DEF ChallengesInv
    <2>2. BindingsInv'
      BY StepBindings
    <2>3. ChallengesInv'
      BY <2>1, StepChallenges
    <2>4. RegistrationsInv'
      BY <2>1, StepRegistrations
    <2>5. SpentInv' /\ OneSessionPerChallenge' /\ AssertionsInv'
      BY <2>1, StepSessions
    <2> QED BY <2>1, <2>2, <2>3, <2>4, <2>5
  <1> QED BY <1>1, <1>2, PTL DEF Spec

(* However many servers read a challenge before one of them settles, it is   *)
(* worth one session (complete_platform_login deletes it with the issue).   *)
THEOREM ChallengesSpentOnce == Spec => []OneSessionPerChallenge
  <1>1. PlatformInv => OneSessionPerChallenge
    BY DEF PlatformInv
  <1> QED BY <1>1, PlatformInvariant, PTL

(* A session is issued only while its challenge stands and its time is not   *)
(* over: the settlement's own checks (SameGeneration, recheck, StillInTime)  *)
(* are enough to exclude every change since the challenge was begun.        *)
THEOREM ChallengeStoodAtIssue == Spec => IssuedOnWhatWasChallenged
  <1>1. ASSUME PlatformInv, [Next]_vars
        PROVE  \A s \in 1 .. Len(sessions') :
                 s > Len(sessions) =>
                   LET row == challenges[sessions'[s].challenge] IN
                   row.stands /\ now' < row.expires_at
    <2>0. TypeOK /\ ChallengesInv /\ Len(sessions) \in Nat
      BY <1>1 DEF PlatformInv, TypeOK
    <2>1. CASE UNCHANGED sessions
      BY <2>0, <2>1
    <2>2. ASSUME NEW proc \in Processes, NEW config \in EnterpriseConfig,
                 NEW dated \in (0 .. MaxClock) \cup {None}, NEW at \in now .. MaxClock,
                 NEW last \in now .. MaxClock, complete_platform_login(proc, config, dated, at, last),
                 NEW s \in 1 .. Len(sessions'), s > Len(sessions)
          PROVE  LET row == challenges[sessions'[s].challenge] IN
                 row.stands /\ now' < row.expires_at
      <3>1. LET c == flow[proc].challenge
                new == sessions'[Len(sessions) + 1]
            IN  /\ challenges[c].stands
                /\ now' < challenges[c].expires_at
                /\ Len(sessions') = Len(sessions) + 1
                /\ new.challenge = c
        BY <2>0, <2>2, Completed
      <3>2. s = Len(sessions) + 1
        BY <2>0, <2>2, <3>1
      <3> QED BY <3>1, <3>2
    <2> QED BY <1>1, <2>0, <2>1, <2>2, StepSpent DEF Kept, Completes
  <1>2. PlatformInv /\ [Next]_vars =>
          [\A s \in 1 .. Len(sessions') :
             s > Len(sessions) =>
               LET row == challenges[sessions'[s].challenge] IN
               row.stands /\ now' < row.expires_at]_vars
    BY <1>1
  <1> QED BY <1>2, PlatformInvariant, PTL DEF Spec, IssuedOnWhatWasChallenged

(* An assertion never outlives the session it speaks of (enterprise::issue), *)
(* and dates its user's authentication within the challenge's time.         *)
THEOREM AssertionsBounded == Spec => []AssertionsFollowTheirSession
  <1>1. PlatformInv => AssertionsFollowTheirSession
    <2> SUFFICES ASSUME PlatformInv, NEW s \in 1 .. Len(sessions), sessions[s].assertion # None
                 PROVE  LET row == sessions[s] IN
                   /\ \A t \in 0 .. MaxClock + AssertionSeconds :
                        t >= row.lifetime.issued_at /\ t < row.assertion.expires_at
                          => valid_at(row.lifetime, t)
                   /\ row.authenticated_at # None =>
                        /\ row.authenticated_at <= row.lifetime.issued_at
                        /\ row.authenticated_at >= row.challenged_at - Skew
      BY DEF AssertionsFollowTheirSession
    <2> DEFINE row == sessions[s]
    <2>1. row \in Session /\ AssertionInv(row)
      BY DEF PlatformInv, TypeOK, AssertionsInv
    <2>2. /\ row.lifetime.idle_expires_at \in Nat /\ row.lifetime.absolute_expires_at \in Nat
          /\ row.assertion.expires_at \in Nat
      BY <2>1 DEF Session, SessionLifetime, Assertion
    <2>3. MaxClock + AssertionSeconds \in Nat
      BY PlatformAssumption
    <2> HIDE DEF row
    <2>4. \A t \in 0 .. MaxClock + AssertionSeconds :
            t >= row.lifetime.issued_at /\ t < row.assertion.expires_at => valid_at(row.lifetime, t)
      BY <2>1, <2>2, <2>3 DEF AssertionInv, valid_at, row
    <2> QED BY <2>1, <2>4 DEF AssertionInv, row
  <1> QED BY <1>1, PlatformInvariant, PTL

(* A native registration whose account, membership or provider changed is    *)
(* never admitted again, whatever was restored since                        *)
(* (admit_platform_subject_on compares the expected version).               *)
THEOREM RegistrationsFallForGood == Spec => []RegistrationsStayDead
  <1>1. PlatformInv => RegistrationsStayDead
    <2> SUFFICES ASSUME PlatformInv, NEW id \in Bindings, registrations[id] # None,
                        AdmittedAs(registrations[id])
                 PROVE  registrations[id].stands
      BY DEF RegistrationsStayDead
    <2> DEFINE r == registrations[id]
    <2>1. r \in Registration /\ RegistrationInv(r)
      BY DEF PlatformInv, TypeOK, RegistrationsInv
    <2>2. r.binding \in Binding /\ accounts[r.binding.account] \in AccountState /\ provider \in Provider
      BY <2>1 DEF Registration, Binding, PlatformInv, TypeOK
    <2>3. /\ accounts[r.binding.account].epoch \in Nat
          /\ r.binding.version \in Nat /\ provider.version \in Nat
      BY <2>2, Numbers
    <2>4. accounts[r.binding.account].epoch = r.auth_epoch /\ external_valid(r.binding)
      BY DEF AdmittedAs, Admitted, SameGeneration
    <2> HIDE DEF r
    <2>5. r.stands
      BY <2>1, <2>3, <2>4 DEF RegistrationInv, AccountMoved, ProviderMoved, external_valid
    <2> QED BY <2>5 DEF r
  <1> QED BY <1>1, PlatformInvariant, PTL
=============================================================================
