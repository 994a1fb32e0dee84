------------------------------- MODULE Platform -------------------------------
(***************************************************************************)
(* Sign-in through a platform the host vouches for, with the assertions for *)
(* enterprise relying parties, and the admission of subjects to the host's  *)
(* native protocols (crates/identity-postgres: platform.rs,                 *)
(* platform/enterprise.rs, platform/admission.rs).                          *)
(*                                                                         *)
(* A challenge is a row of platform_challenges.  Completing it takes a      *)
(* transaction that reads it, the host's verification outside any           *)
(* transaction, and a transaction that reads it again and settles.  Each    *)
(* transaction holds the tenant guard and is one action; one that rejects   *)
(* changes nothing.  The host's calls inside the settling transaction take  *)
(* time, so it reads the clock at three instants.                           *)
(*                                                                         *)
(* Abstractions.  Nonce and browser cookie are the challenge's number: a    *)
(* request names one challenge or is refused.  The attempt limiter asked    *)
(* before a challenge is PasswordAttempts', and the profile that may come    *)
(* with the evidence is left out.  The host (bindings, their                *)
(* verification, which purposes it approves) is external: it may answer     *)
(* anything the code in src/ allows it to.                                   *)
(***************************************************************************)
EXTENDS AccountPolicy, Sequences, FiniteSets, FiniteSetsExt

CONSTANTS
  Accounts,          \* principals
  Bindings,          \* devices the host has bound, each to an account
  Federated,         \* the bindings that rest on an external identity
  Targets,           \* enterprise relying parties
  Processes,         \* servers, each at work on one completion at a time
  ChallengeSeconds,  \* life of a challenge
  AssertionSeconds,  \* longest life of an assertion
  Skew,              \* seconds an authentication may precede its challenge
  Policy,            \* the session policy
  ChallengeCapacity, \* challenges a tenant may hold
  Batch,             \* expired challenges removed by one begin
  VersionLimit,      \* bound on host, provider and configuration versions
  MaxChallenges,     \* bound on challenges ever begun
  MaxClock,          \* bound on the clock
  None               \* no evidence of authentication, no registration, no assertion

ASSUME PlatformAssumption ==
  /\ Federated \subseteq Bindings
  /\ {ChallengeSeconds, AssertionSeconds, Skew, ChallengeCapacity, Batch,
      MaxChallenges} \subseteq Nat
  /\ {VersionLimit, MaxClock} \subseteq Nat \ {0}
  /\ Policy \in SessionPolicy

VARIABLES
  now,           \* the database's clock
  accounts,      \* account and membership rows
  provider,      \* the provider behind the external identities
  bindings,      \* the host's bindings as they are
  challenges,    \* platform_challenges rows in the order begun
  sessions,      \* sessions these challenges led to, in the order issued
  registrations, \* native registrations the host keeps, one a binding
  flow           \* what a process holds between its transactions

vars == <<now, accounts, provider, bindings, challenges, sessions,
          registrations, flow>>

Version == 0 .. VersionLimit
Browser == "browser_login"
Purposes == {Browser} \cup Targets

Provider == [ enabled : BOOLEAN, version : Version, revocation_epoch : Version ]

(* PlatformBinding: `epoch` numbers the host's binding and its source,       *)
(* version and revocation_epoch are those of the ExternalBinding, if any.   *)
Binding ==
  [ id : Bindings, account : Accounts, epoch : Version, version : Version,
    revocation_epoch : Version ]

(* The settings of a relying party, by version; 0 where it is not installed. *)
(* Processes may run with different ones while a deployment is under way.   *)
Target == Version
EnterpriseConfig == [Targets -> Target]

(* `stands` is history: nothing the challenge rests on changed since.       *)
Challenge ==
  [ binding : Binding, auth_epoch : Epoch, membership_epoch : Epoch, purpose : Purposes,
    target : Target, created_at : Nat, expires_at : Nat, stage : {"open"}, stands : BOOLEAN ]

(* A row that was deleted. *)
Gone == [ stage |-> "gone" ]

Assertion == [ rp : Targets, target : Target, expires_at : Nat ]

(* `challenge` and `challenged_at` are history. *)
Session ==
  [ principal : Accounts, auth_epoch : Epoch, membership_epoch : Epoch, binding : Binding,
    lifetime : SessionLifetime, challenge : 1 .. MaxChallenges, challenged_at : Nat,
    authenticated_at : Nat \cup {None}, assertion : Assertion \cup {None} ]

(* PlatformSubjectVersion as the host stored it; `stands` as above. *)
Registration ==
  [ binding : Binding, auth_epoch : Epoch, membership_epoch : Epoch, stands : BOOLEAN ]

Flow == [ pc : {"idle", "read"}, challenge : 0 .. MaxChallenges ]

(* Nothing is not a value. *)
ASSUME NoneAssumption == None \notin Nat \cup Binding \cup Registration \cup Assertion

TypeOK ==
  /\ now \in 0 .. MaxClock
  /\ accounts \in [Accounts -> AccountState]
  /\ provider \in Provider
  /\ bindings \in [Bindings -> Binding \cup {None}]
  /\ challenges \in Seq(Challenge \cup {Gone})
  /\ sessions \in Seq(Session)
  /\ registrations \in [Bindings -> Registration \cup {None}]
  /\ flow \in [Processes -> Flow]

Idle == [ pc |-> "idle", challenge |-> 0 ]

-----------------------------------------------------------------------------
(***************************************************************************)
(* Checks the transactions share.                                          *)
(***************************************************************************)

(* external_valid: a binding that rests on an external identity counts while *)
(* the provider is enabled and exactly the one it was made under.           *)
external_valid(b) ==
  b.id \in Federated =>
    /\ provider.enabled
    /\ provider.version = b.version
    /\ provider.revocation_epoch = b.revocation_epoch

(* PlatformVerifier::recheck: the host still knows exactly this binding. *)
HostKnows(b) == bindings[b.id] = b

recheck(b) == HostKnows(b) /\ external_valid(b)

(* EnterpriseConfig::target: 0 where the purpose needs none; a relying party *)
(* the process does not know, or a process without targets, is refused.     *)
target(config, purpose) == IF purpose = Browser THEN 0 ELSE config[purpose]

Configured(config, purpose) == purpose # Browser => config[purpose] # 0

(* challenge: the row exists and the clock is within its life. *)
Usable(c) ==
  /\ c \in 1 .. Len(challenges)
  /\ challenges[c].stage = "open"
  /\ challenges[c].created_at <= now
  /\ now < challenges[c].expires_at

(* The account is active in the generation the row was made in. *)
SameGeneration(row, account) ==
  /\ active(account)
  /\ account.epoch = row.auth_epoch
  /\ account.membership_epoch = row.membership_epoch

-----------------------------------------------------------------------------
(***************************************************************************)
(* begin_platform_login: expired challenges make room, at most Batch of     *)
(* them, and the challenge records what it rests on.                        *)
(***************************************************************************)
Expired == { c \in 1 .. Len(challenges) :
               challenges[c].stage = "open" /\ challenges[c].expires_at <= now }

Closed(rows, gone) ==
  [ c \in 1 .. Len(rows) |-> IF c \in gone THEN Gone ELSE rows[c] ]

begin_platform_login(config, id, purpose) ==
  LET b == bindings[id] account == accounts[b.account] IN
  /\ Len(challenges) < MaxChallenges
  /\ Configured(config, purpose)
  /\ b # None
  /\ active(account)
  /\ external_valid(b)
  /\ \E gone \in kSubset(Min({Batch, Cardinality(Expired)}), Expired) :
       LET kept == Closed(challenges, gone) IN
       /\ Cardinality({ c \in 1 .. Len(kept) : kept[c].stage = "open" }) < ChallengeCapacity
       /\ challenges' = Append(kept,
            [ binding |-> b, auth_epoch |-> account.epoch,
              membership_epoch |-> account.membership_epoch, purpose |-> purpose,
              target |-> target(config, purpose), created_at |-> now,
              expires_at |-> now + ChallengeSeconds, stage |-> "open", stands |-> TRUE ])
  /\ UNCHANGED <<now, accounts, provider, bindings, sessions, registrations, flow>>

(* complete_platform_login, first transaction: the context the host verifies. *)
(* The verification itself runs while the flow is "read", outside any        *)
(* transaction, and touches nothing here: evidence it accepts is what the     *)
(* second transaction starts from; evidence without possession of the key,    *)
(* or dated without user verification, the host's errors and the deadline    *)
(* end the flow (Abandon).                                                   *)
read_challenge(proc, c) ==
  /\ flow[proc].pc = "idle"
  /\ Usable(c)
  /\ flow' = [flow EXCEPT ![proc] = [ pc |-> "read", challenge |-> c ]]
  /\ UNCHANGED <<now, accounts, provider, bindings, challenges, sessions,
                 registrations>>

(* A plausible slip: an assertion runs its full time. *)
Mutant_AssertionFull(at, lifetime) == at + AssertionSeconds

(* enterprise::issue: an assertion never runs past the session it came with. *)
AssertionExpiry(at, lifetime) ==
  Min({at + AssertionSeconds, lifetime.idle_expires_at, lifetime.absolute_expires_at})

(* A plausible slip: the row is left to the cleanup. *)
Mutant_LeftToCleanup(c) == challenges

(* The challenge is deleted in the transaction that issues the session. *)
Spent(c) == Closed(challenges, {c})

(* A plausible slip: the time is only looked at when the row is read. *)
Mutant_NotAskedAgain(row, last) == TRUE

(* The last question of the settlement, after the host's calls. *)
StillInTime(row, last) == last < row.expires_at

(* complete_platform_login, second transaction.  `dated` is the evidence's    *)
(* authenticated_at or None, `at` the clock when the session is issued and   *)
(* `last` the clock when the settlement is over.                             *)
complete_platform_login(proc, config, dated, at, last) ==
  LET c == flow[proc].challenge row == challenges[c] b == row.binding
      account == accounts[b.account]
      lifetime == NewLifetime(at, Policy) IN
  /\ flow[proc].pc = "read"
  /\ now <= at /\ at <= last
  /\ Usable(c)
  /\ SameGeneration(row, account)
  /\ recheck(b)
  /\ Configured(config, row.purpose)
  /\ row.target = target(config, row.purpose)
  /\ dated # None => row.created_at - Skew <= dated /\ dated <= at
  /\ StillInTime(row, last)
  /\ now' = last
  /\ sessions' = Append(sessions,
       [ principal |-> b.account, auth_epoch |-> account.epoch,
         membership_epoch |-> account.membership_epoch, binding |-> b, lifetime |-> lifetime,
         challenge |-> c, challenged_at |-> row.created_at, authenticated_at |-> dated,
         assertion |-> IF row.purpose = Browser THEN None
                       ELSE [ rp |-> row.purpose, target |-> row.target,
                              expires_at |-> AssertionExpiry(at, lifetime) ] ])
  /\ challenges' = Spent(c)
  /\ flow' = [flow EXCEPT ![proc] = Idle]
  /\ UNCHANGED <<accounts, provider, bindings, registrations>>

(* The host's refusal, the caller's deadline, a rejection, a crash. *)
Abandon(proc) ==
  /\ flow[proc].pc # "idle"
  /\ flow' = [flow EXCEPT ![proc] = Idle]
  /\ UNCHANGED <<now, accounts, provider, bindings, challenges, sessions,
                 registrations>>

-----------------------------------------------------------------------------
(***************************************************************************)
(* Native registrations.  The host asks admit_platform_subject_on in its    *)
(* own transaction, keeps the version it answered, and supplies it as       *)
(* `expected` whenever the registration is used.                            *)
(***************************************************************************)
Admitted(b) == active(accounts[b.account]) /\ external_valid(b)

(* Registering: nothing is expected yet. *)
admit_platform_subject_on(id) ==
  LET b == bindings[id] account == accounts[b.account] IN
  /\ b # None
  /\ Admitted(b)
  /\ registrations' = [registrations EXCEPT ![id] =
       [ binding |-> b, auth_epoch |-> account.epoch,
         membership_epoch |-> account.membership_epoch, stands |-> TRUE ]]
  /\ UNCHANGED <<now, accounts, provider, bindings, challenges, sessions, flow>>

(* A plausible slip: the expected version is not compared. *)
Mutant_AdmittedAnew(r) == Admitted(r.binding)

(* Using the registration: the version must be the expected one. *)
AdmittedAs(r) == Admitted(r.binding) /\ SameGeneration(r, accounts[r.binding.account])

-----------------------------------------------------------------------------
(***************************************************************************)
(* What challenges and registrations rest on, changing.  Fallen marks the   *)
(* open rows a change concerns (history, read by the properties only).      *)
(***************************************************************************)
Unsettled(Concerns(_)) ==
  [ c \in 1 .. Len(challenges) |->
      IF challenges[c].stage = "open" /\ Concerns(challenges[c].binding)
      THEN [challenges[c] EXCEPT !.stands = FALSE] ELSE challenges[c] ]

Fallen(Concerns(_)) ==
  /\ challenges' = Unsettled(Concerns)
  /\ registrations' = [ id \in Bindings |->
       IF registrations[id] # None /\ Concerns(registrations[id].binding)
       THEN [registrations[id] EXCEPT !.stands = FALSE] ELSE registrations[id] ]

(* Account administration, as in SessionAuthority. *)
change_account(a, change) ==
  /\ CanChange(accounts[a], change)
  /\ accounts' = [accounts EXCEPT ![a] = Changed(@, change)]
  /\ Fallen(LAMBDA b : b.account = a)
  /\ UNCHANGED <<now, provider, bindings, sessions, flow>>

(* edit_provider: `enabled` as wanted, and other settings or not. *)
edit_provider(enabled, settings) ==
  /\ provider.version < VersionLimit
  /\ provider' = [ enabled |-> enabled, version |-> provider.version + 1,
                   revocation_epoch |-> IF settings \/ enabled # provider.enabled
                                        THEN provider.revocation_epoch + 1
                                        ELSE provider.revocation_epoch ]
  /\ Fallen(LAMBDA b : b.id \in Federated)
  /\ UNCHANGED <<now, accounts, bindings, sessions, flow>>

(* The host binds a device, or binds it anew, to whom it likes. *)
rebind(id, a) ==
  LET epoch == IF bindings[id] = None THEN 1 ELSE bindings[id].epoch + 1 IN
  /\ epoch <= VersionLimit
  /\ bindings' = [bindings EXCEPT ![id] =
       [ id |-> id, account |-> a, epoch |-> epoch, version |-> provider.version,
         revocation_epoch |-> provider.revocation_epoch ]]
  /\ challenges' = Unsettled(LAMBDA b : b.id = id)
  /\ UNCHANGED <<now, accounts, provider, sessions, registrations, flow>>

Tick ==
  /\ now < MaxClock
  /\ now' = now + 1
  /\ UNCHANGED <<accounts, provider, bindings, challenges, sessions,
                 registrations, flow>>

-----------------------------------------------------------------------------
Init ==
  /\ now = 1
  /\ accounts = [a \in Accounts |-> new_federated]
  /\ provider = [enabled |-> TRUE, version |-> 1, revocation_epoch |-> 1]
  /\ bindings = [id \in Bindings |-> None]
  /\ challenges = << >> /\ sessions = << >>
  /\ registrations = [id \in Bindings |-> None]
  /\ flow = [proc \in Processes |-> Idle]

Next ==
  \/ \E config \in EnterpriseConfig, id \in Bindings, purpose \in Purposes :
       begin_platform_login(config, id, purpose)
  \/ \E proc \in Processes, c \in 1 .. Len(challenges) : read_challenge(proc, c)
  \/ \E proc \in Processes : Abandon(proc)
  \/ \E proc \in Processes, config \in EnterpriseConfig, dated \in (0 .. MaxClock) \cup {None},
         at, last \in now .. MaxClock :
       complete_platform_login(proc, config, dated, at, last)
  \/ \E id \in Bindings : admit_platform_subject_on(id)
  \/ \E a \in Accounts, change \in LocalChange : change_account(a, change)
  \/ \E enabled, settings \in BOOLEAN : edit_provider(enabled, settings)
  \/ \E id \in Bindings, a \in Accounts : rebind(id, a)
  \/ Tick

Spec == Init /\ [][Next]_vars

-----------------------------------------------------------------------------
(***************************************************************************)
(* Properties.                                                             *)
(***************************************************************************)

(* A challenge is worth one session, however many servers read it and have   *)
(* its evidence verified before the first of them settles.                  *)
OneSessionPerChallenge ==
  \A s, t \in 1 .. Len(sessions) : s # t => sessions[s].challenge # sessions[t].challenge

(* A session is issued only while everything its challenge was made for has  *)
(* stood still since: the account was not disabled and enabled again, the    *)
(* device not bound anew, the provider not edited, and the time not over,    *)
(* the time the settlement itself takes included.                            *)
IssuedOnWhatWasChallenged ==
  [][\A s \in 1 .. Len(sessions') :
       s > Len(sessions) =>
         LET row == challenges[sessions'[s].challenge] IN row.stands /\ now' < row.expires_at]_vars

(* An assertion to a relying party is good for no longer than the session    *)
(* it speaks of, however short the session policy is, and says of its user   *)
(* no authentication that predates the challenge or lies in the future.      *)
AssertionsFollowTheirSession ==
  \A s \in 1 .. Len(sessions) :
    LET row == sessions[s] IN
    row.assertion # None =>
      /\ \A t \in 0 .. MaxClock + AssertionSeconds :
           t >= row.lifetime.issued_at /\ t < row.assertion.expires_at => valid_at(row.lifetime, t)
      /\ row.authenticated_at # None =>
           /\ row.authenticated_at <= row.lifetime.issued_at
           /\ row.authenticated_at >= row.challenged_at - Skew

(* A native registration made before its account was disabled, its           *)
(* membership ended or its provider changed is never admitted again,         *)
(* whatever was restored since.                                             *)
RegistrationsStayDead ==
  \A id \in Bindings :
    registrations[id] # None /\ AdmittedAs(registrations[id]) => registrations[id].stands
=============================================================================
