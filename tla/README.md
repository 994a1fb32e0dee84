# TLA+ models of rss-identity

rss-identity is an embeddable identity authority: local accounts and passwords,
sessions, federated sign-in, passkeys and operation proofs, kept in PostgreSQL
and reached through a host's own HTTP server. These modules model the parts of
it whose correctness depends on the order of events, check them with TLC on
small instances, and prove the central ones with TLAPS.

Paths below are relative to `crates/identity-postgres/src/` unless they name a
crate. `PROJECT.json` maps every definition to the lines it models.

## 1. The system

| Component | State it keeps | Operations | Talks to |
|---|---|---|---|
| Account rules (`identity-core/src/account/policy.rs`) | enabled, membership, password, `auth_epoch`, `membership_epoch` | change, recover, revoke, with checked epochs | pure; used by every other part |
| Session authority (`sessions.rs`, `session_storage.rs`, `operations.rs`, `bearer.rs`, `session_reference.rs`) | `accounts`, `memberships`, `local_credentials`, `sessions` | sign in, exchange, rotate, touch, revoke one or all, change password, recover, administer | KDF pool, attempts, audit |
| Password attempts (`attempts.rs`, `password_attempts.rs`) | `attempts`, `password_attempts` | reserve, claim, settle, clean up, clear | in front of every verification |
| KDF pool (`identity-core/src/account.rs`) | open flag, semaphore, task tracker | compute, close, wait | host's shutdown (`app/identity/src/lifecycle.rs`) |
| Federation (`federation*.rs`) | `providers`, `external_identities`, `oidc_transactions`, `link_intents` | begin, complete, cancel, link, reauthenticate, configure and reconcile providers | OIDC adapter (network), sessions, grants |
| Step-up (`step_up.rs`) | `step_up_grants` | issue, consume, cancel | federation, WebAuthn, host transactions |
| WebAuthn (`webauthn.rs`) | `webauthn_rp`, `_accounts`, `_credentials`, `_ceremonies` | connect, register, authenticate, remove, recover, cancel, activate a relying party | authenticators, grants |
| Platform and enterprise (`platform*.rs`) | `platform_challenges` | create, complete, confirm | host's verifier, sessions |
| Profiles (`profiles.rs`, `profile_admission.rs`) | `local_profiles`, `profile_observations`, `profile_operations` | observe, update with receipts | federation, host's admission |
| Facts (`auth_facts.rs`, `groups.rs`, `department.rs`, `entra.rs`) | facts beside a session | read with a session, validate | federation |
| Directory (`personnel.rs`, `account_directory.rs`, `session_reference.rs`) | the tenant's generation | pages with cursors, relations with revisions | sessions, profiles, facts |
| Provider credentials (`credentials.rs`, `app/identity/src/rekey.rs`) | `provider_credentials` | store, open, re-encrypt | federation |
| Settlement (`transaction.rs`) | outcome of a commit | read, write, settle events | all |
| HTTP adapter, OIDC adapter, audit, schema, reference host | connections and configuration | mapping, I/O, setup | the authority |

How they interact. Every business transaction first takes the tenant's guard
row `FOR UPDATE` under READ COMMITTED, so two transactions of a tenant never
overlap and a transaction is one atomic action of a model. What is hard is
between them: a sign-in, a federated callback, a link or a passkey ceremony is
two to four transactions, with a password computation, a network exchange or an
authenticator in between. What was read before is stale afterwards; the caller
may be cancelled and the process may die at any point; the browser may deliver
an answer twice, late or never; clocks pass deadlines between two reads.

What makes each part correct:

* sessions: a credential that stopped being accepted never returns; a session
  is exchanged once; nothing is issued on a superseded password; no session
  outlives its policy;
* attempts: guesses per login and admissions per source are bounded whatever
  the interleaving, one verification at a time, blocking ends;
* KDF pool: never more computations than permits, and shutdown waits for them;
* federation: an answer counts once, on the provider's present settings; a link
  belongs to the one who asked and proved it, and ends earlier sessions;
* WebAuthn: an answer counts once, counters do not go back, first enrolment
  happens once, nothing crosses a change of relying party;
* profiles: a repeated command is answered from its receipt, and a session reads
  what its own sign-in observed, while the source would still say so;
* platform: a challenge yields one session, on the account, binding, provider and
  configuration it was begun with; an assertion never outlives its session;
* directory: pages under one cursor are parts of one list, a relation a host keeps
  is right while its revision and window say so, and the two readers (SQL and
  Rust) agree;
* provider credentials: every secret stays readable to every server that has to
  read it, through rotation; a secret is used with the settings it was stored for;
* settlement: what a caller is told is what was committed, and an edit repeated
  after a lost answer is applied and recorded once.

The list `hazards` of `PROJECT.json` says where each of these can go wrong in
the code and which property watches it.

## 2. Modules

| Module | Models | EXTENDS |
|---|---|---|
| `AccountPolicy` | account state and its transitions, session lifetime arithmetic | |
| `CredentialLedger` | abstract: the set of credentials that are good now | |
| `CommandRegister` | abstract: the revision of what commands change, and the commands that took effect | |
| `SessionAuthority` | accounts, sessions and requests in flight | `AccountPolicy`, instantiates `CredentialLedger` |
| `PasswordAttempts` | admission and the claim of a login | `AccountPolicy` |
| `PasswordKdf` | the pool and its shutdown | |
| `Federation` | providers, attempts, links, upstream grants | `AccountPolicy` |
| `Webauthn` | relying party, ceremonies, passkeys, grants | |
| `Profiles` | commands and receipts of local profiles, observations, reads | instantiates `CommandRegister` |
| `Platform` | platform challenges, enterprise assertions, native admission | `AccountPolicy` |
| `AccountListing` | the directory's columns, the order of a list, the condition of a cursor | |
| `AccountQuery` | the directory's filter language and its parser | `AccountListing` |
| `Directory` | the reads of people, sessions and facts | `AccountPolicy`, `AccountListing` |
| `ProviderCredentials` | secrets of providers, their administration, rotation, settlement | instantiates `CommandRegister` |
| `SessionAuthorityProofs` | theorems: types, fences, exchange, lifetimes, refinement of the ledger | `SessionAuthority` |
| `PasswordProofs` | theorems: rates, capacity, claims, late answers; width of the pool, drain | `PasswordAttempts`, `PasswordKdf` |
| `FederationProofs` | theorems: callbacks, identities, links, grants | `Federation` |
| `WebauthnProofs` | theorems: ceremonies, enrolment, generations, counters | `Webauthn` |
| `ProfilesProofs` | theorems: receipts, observations, reads, refinement of the register | `Profiles` |
| `PlatformProofs` | theorems: challenges, assertions, registrations | `Platform` |
| `ProviderCredentialsProofs` | theorems: secrets, tests, answers, refinement of the register | `ProviderCredentials` |
| `DirectoryProofs` | theorems: revisions, agreement of readers, pages | `Directory` |
| `MC...` | instances for TLC | |

Types. `TypeOK` of `SessionAuthority` is checked by a run, because there it says
something of the code (epochs stay in range). Elsewhere the types a proof needs
are a conjunct of its invariant (`TypesInv` in most of the proof modules).

Conventions. An action is a transaction and has the name of the function it
models. A transaction that rejects rolls back and changes nothing, so a reject
is a disabled action; the operation then ends by `Abandon` or `Stop`, which may
happen at any time and also stands for cancellation, a crash and a lost answer.
What an operation holds between two transactions is in `req`, `worker`, `flow`
or `op`. Secrets, digests and ids are fresh names; a repeated secret is outside
the models. Definitions named `Mutant_...` are faulty versions of the definition
after them; no specification uses them, they show that a property can fail.

### SessionAuthority
`accounts` joins `accounts`, `memberships` and `local_credentials`; `password`
is a version number of the stored encoding. `sessions` holds the rows in the
order issued, with two history fields: `verified` (the password a session was
issued for) and `replaces`. `Live` is `by_id`, the one acceptance rule of
cookies, bearers and references; `lookup`, `recheck` and `current` are the code's
functions of these names. Local sign-in is `local_login_key`, `check_password`,
`password_verified`, `settle_password`, `create_session_for`; time is the
database's clock. The attempt rows are left to `PasswordAttempts`.

### PasswordAttempts
Timestamps are the time left until they pass. A statement that reads
`clock_timestamp()` twice may see the two sides of an instant, so in that
instant the two reads are chosen separately. `rejected` and `admitted` are
histories the rates are stated on. The account behind a login changes by
administration, revocation and recovery as in `AccountPolicy`.

### PasswordKdf
The mutex, the gate's permits and the tracker's tokens are separate: a closure
holds its permit and token after its caller is gone.

### Federation
An attempt's name stands for state, nonce, verifier and browser cookie. The
exchange with the provider is external and answers with a subject or fails.
`meaning` numbers what a provider's settings and the host's assurance profile
mean together. `Linked` are the identities bound at first, `Changes` what
administrators do to accounts meanwhile. Left out: what `accept` and
`retain_binding` do to profiles, the issuer comparison, the context of a grant,
the age of upstream authentication and the assurance it must reach (part of the
exchange), the administrator's own proof when a provider is changed. Just-in-time
creation is a constant of a provider. Clocks are the actions `Expire` and
`ExpireGrant`.

### Webauthn
One relying party of one tenant. A passkey is named by the authenticator's
answer; `maker` is the challenge it was made for and `signed` the assertions
made so far, which may be delivered any number of times. `generation` of a
ceremony and `made` are history. Clocks are the actions `Expire`,
`ExpireGrant` and `Age`; the age of a sign-in is not asked once its account has
enrolled, and `Age` stops there. A session ends while a request is held for it (one
that ends otherwise is one that sends no more requests), and ends for good,
which is what `SessionAuthority` shows of sessions. Upstream grants appear as
`Federation` issues them. The permits of `verify` are left out: without one a request stops.

### Profiles
`local`, `operations` and `observations` are the three tables, `sequence` the
counter of the tenant's guard. A command is one transaction; `Reply` is what it
is answered in a state, so that a lost answer needs no state of its own:
`RepeatedCommandsAreAnswered` asks in every state what a repetition would get.
`changes` (the commands applied) and `root` of a session (the sign-in it goes
back to) are histories. A sign-in at a provider takes its place in the order
when it begins, its token's time at the exchange, and settles later; between
them other sign-ins may do the same. Accounts stay active and identities linked.

### Platform
A completion is two transactions with the host's verification between them, and
the settling one calls the host again, so it reads the clock at three instants
that may differ. Two servers may hold evidence for one challenge. The host is
external: it vouches for any binding and approves or refuses. Left out: the
profile that may come with the evidence.

### Directory, AccountListing and AccountQuery
The last two are pure: the order of a list with its NULLs and the condition of a
cursor; the parser of filters and the selection. `Directory` knows of the
language only which requests are accepted, with what they become (`Parsed`), and
whether a row meets a filter (`Selects`); `MCDirectory` gives both from
`AccountQuery`. `QueriesReadAsWritten` (an assumption of `MCDirectory`,
evaluated with its run) writes expressions of up to three levels with the fewest
parentheses and asks that the parser reads them back, or refuses exactly those
beyond the limits. `Directory` has what is read: accounts, sessions, facts and
observations, with the triggers that advance a tenant's generation. A write that
only renews a session's idle time advances nothing, as in the code. A read takes
time, so it ends later than the instant it is about. The two readers of a
session (`session_reference.sql` and the Rust recheck) are two definitions,
translated separately. Cursors are authentic.

### ProviderCredentials
`commands` are what administrators send, with the answer they got; a commit may
be applied and its answer lost, and the command is then sent again. A sealed
secret is its key and its context (tenant, provider and version). The
context makes a comparison of versions after the read redundant: without it the
secret does not open, and the test fails closed. `operator` is what the owner
concluded of a rotation: after a commit in doubt it verifies before it destroys
a key. Servers have keyrings of their own and may be started with an older one;
reads and the check at their start take no guard. A creation that is repeated
makes another provider (the code has no key for it), so `AnsweredAsSettled`
claims single application of edits only.

## 3. Runs

| Run | Instance | Shows |
|---|---|---|
| `session_races` | 1 account, 2 requests, 3 sessions, both credential kinds, time stands still | `OneSuccessor`, `TypeOK`: requests that proved the same session race to exchange, rotate and revoke it |
| `session_management` | 2 accounts, 1 request, 2 sessions, clock 1 to 4, idle time 2 of 3 | `OnlyCurrentPassword`, `VerificationIsFenced`, `NoneOutlivesItsPolicy`, `CredentialsNeverReturn`: changes, recoveries, disablement and re-enablement fall between the steps of a verification, and renewal never passes the absolute end |
| `attempts_admission` | 1 login, 2 workers, 1 source, 1 scope, 2 rows, limit 2 | `GuessRate`, `OneVerifier`, `WithinCapacity`, `AdmissionRate`, `LateAnswersAreIgnored`, `BlockingEnds`: cancelled, crashed and late verifications; the shared cap is reached; a lockout and an orphaned claim end |
| `attempts_window` | 1 login, 1 worker | violation: `FixedWindow` (finding 1) |
| `federation_callbacks` | 1 linked local account, 1 provider with 2 versions, 2 flows, 2 attempts, 2 sessions | `RedeemedOnce`, `FactsAreCurrent`, `GrantsSpentOnCurrentProof`: repeated callbacks of sign-ins and step-ups, with the provider and the account changing in between |
| `federation_links` | 2 accounts (one local, one to be created), 2 subjects, 1 flow, 3 attempts, 1 link | `OneOwner`, `LinksAreProvenAndFence`, `ReplacedOnce`: a first sign-in and a link contend for an identity; accounts with and without a password link |
| `kdf_pool` | 5 calls, the code's 4 permits | `NeverWider`, `DrainedForGood`, `ShutdownEnds` |
| `profiles_observed` | 3 commands, 2 receipts, 2 sign-ins at a provider, 3 sessions, 2 provider versions, clock 0 to 2 | `RepeatedCommandsAreAnswered`, `OwnObservation`, `ProfilesAreCurrent`, `ObservationsOnlyAdvance`: overlapping sign-ins complete in either order, and the table of receipts fills up |
| `webauthn_passkeys` | 2 passkeys, 3 ceremonies, 1 operation, 2 servers, 2 generations of one configuration | `EnrolledOnce`, `PasskeysOfThisGeneration`, `AnsweredOnce`, `CountersOnlyGrow`, `ChangedOnStandingProof`: registration, removal and recovery while proofs are withdrawn and the relying party is activated anew |
| `platform_challenges` | 1 account, 1 federated device, 1 relying party, 2 servers, 2 challenges, clock 0 to 2 | `OneSessionPerChallenge`, `IssuedOnWhatWasChallenged`, `AssertionsFollowTheirSession`, `RegistrationsStayDead`: a challenge completed twice, while what it rests on changes and time runs out |
| `directory_reads` | 3 accounts (2 at first), 2 sessions, 3 generations, clock 0 to 3 | `PagesMakeOneList`, `RevisionsPinTheRelation`, `ReadersAgree`: writes and expiry between and during the reads |
| `credentials_rotation` | 2 tenants, 2 providers, 2 keys, 2 servers, 1 command (repeated), 1 test | `SecretsStayReadable`, `TestedAsConfigured`, `AnsweredAsSettled`: rotation beside writers, with commits in doubt |

Bounds. The races are between two actors on one object, so two requests,
workers, flows or servers, one or two accounts and two or three sessions reach
them; limits of the code (5 failures, 30 admissions, 16 passkeys, 8 ceremonies, 32
grants, windows of minutes) are 1 to 3, so that the limit is
reached, exceeded in attempt and left again. Epochs, versions and generations
go to 2 or 3: enough for a change and the change back. Ids are used once, and a
state in which they are used up only stops new work. `Purposes`, `Uses`,
`Changes` and `Edits` restrict an instance to what its question is about.
What the bounds leave out:

* `federation_links` has one operation in flight and no change of the provider.
  What a flow holds across its network calls is raced in `federation_callbacks`;
  here attempts and links stay open meanwhile, and the first sign-in and the
  link of another account complete in either order. Two links of two accounts
  that are open at once are beyond `MaxIntents`.
* `webauthn_passkeys` has one operation in flight at a time: the last transaction
  of a ceremony repeats every check of the first, so an older snapshot that
  still commits could as well have been taken just before; several ceremonies
  and several signed answers are open all the same. A relying party is
  activated again with the same configuration, which only the generation tells
  apart.
* `credentials_rotation` has one command beside the rotation. A command races with
  its own repetitions and with the owner's transactions. Two administrators are
  ordered by the tenant guard.

Deadlock is not checked where ids or the clock may run out.

Symmetry is used for requests, flows, passkeys, ceremonies, servers and subjects,
only in runs without liveness properties.

Fairness. `FairSpec` of `PasswordAttempts` assumes only that time passes
(`WF(Tick)`): nothing is assumed of workers, which may stop anywhere.
`FairSpec` of `PasswordKdf` assumes that a blocking thread that was started runs
to its end, that a mutex holder releases it, and that the host's shutdown goes
on: a computation has no loop that depends on others, and the runtime does not
drop blocking closures.

## 4. Proofs

Every safety property of every component is a theorem, for all values of the
constants that satisfy the assumptions named here.
The assumptions say what the code's constants, types and schema say: limits are
numbers, those the code has as positive are positive, a null is none of the values
it stands beside. Each component has one inductive invariant (the session
authority one for each of its questions), which TLC finds to hold in the
component's instances and which is proved by one lemma per action; the
properties are consequences of it, or of it and a step.

**Session authority** (`EpochLimitAssumption`, `SessionAssumption`).

* `TypeCorrect`: `TypeOK` of `SessionAuthority`; that epochs stay in range rests
  on the checked increments of `AccountPolicy`.
* `GenerationsFence`: `GenerationInv` is inductive. A session row or a password
  check in flight is never of a later epoch than its account, and one of the
  current epoch agrees with it in membership and password. `OnlyCurrentPassword`
  alone is not inductive: a dead row could become live again if epochs could be
  reached from above, and a check in flight could issue a session for a password
  replaced in the meantime. The invariant says that every change of what a row
  depends on advances the epoch (`Advance`), and that all other steps leave it
  alone (`QuietGeneration`).
* `LiveSessionsKnowThePassword`, `ChecksAreFenced`: consequences of it.
* `ExchangedOnce`: `OneSuccessor`, from `ExchangeInv`: whatever was exchanged is
  closed, so a second recheck of it fails.
* `SessionsEndOnTime`: `NoneOutlivesItsPolicy`, from `LifetimeInv`: the absolute
  end is the policy's, and renewal moves the idle expiry only.
* `AuthorityImplementsLedger`: the authority implements `CredentialLedger`, where
  `good` is the set of `<<session, token>>` that `Live` accepts. Each action is
  shown to issue, rotate or withdraw; revival of a row is excluded by
  `GenerationInv` and by `now` only growing.

**Password attempts** (`AttemptsAssumption`, `NobodyAssumption`,
`EpochLimitAssumption`).

* `AttemptsInvariant`. The rates speak of histories, the code only of what is
  left of a window and of a count. The invariant joins them: what is left of a
  window says how long ago the event was that opened it, the events since are
  the count, and those before were an earlier window's. A row without a window
  has counted nothing, an exhausted one is nobody's, and a verification whose
  lease runs holds the row of its login. The instant in which a window passes,
  where the two reads of the clock may differ, is the one case that adds an event
  to the bound.
* `GuessesAreRationed`, `AdmissionsAreRationed`, `TablesAreBounded`,
  `ClaimsExclude` and the action property `LateAnswersDoNothing`: `GuessRate`,
  `AdmissionRate`, `WithinCapacity`, `OneVerifier` and `LateAnswersAreIgnored`.

**KDF pool** (`KdfAssumption`).

* `PermitsAreComputations`: the permits and the tracker's tokens that are out are
  exactly the computations under way, cancelled callers or not. Neither property
  below is inductive alone: that a permit is taken once per call needs that the
  caller inside the mutex computes nothing yet (`LockedInv`), and the drain needs
  that admission is over when shutdown waits (`ClosedInv`).
* `PoolNeverWider` and `PoolDrainedForGood`: `NeverWider` and `DrainedForGood`.

**Federation** (`FederationAssumption`, which includes that there is a provider
and a subject, `EpochLimitAssumption`).

* `FederationInvariant`. What a row or an operation took from a provider is of a
  version the provider has had and, if that is the present one, carries the
  present meaning; so one comparison of versions at the end of a callback stands
  for all that could have changed since it began. An attempt behind a session or
  a grant is gone from the table, and an operation that claimed one is the only
  one that holds it. An identity that a session or a completed link rests on is
  its principal's, and identities are never unbound. An intent goes on to its
  target only with its proof.
* `CallbacksRedeemedOnce`, `SessionsReplacedOnce`, `IdentitiesHaveOneOwner`,
  `LiveFactsAreCurrent`, and the action properties `LinksProvenAndFence` and
  `GrantsAreSpentOnCurrentProof`.

**WebAuthn** (`WebauthnAssumption`: the limits are numbers, generations and
provider versions begin at one).

* `WebauthnInvariant`. What a request verified between its two transactions is an
  answer to a ceremony which, while its row exists, is of the present relying
  party and of an epoch its account has had, over passkeys whose versions only
  grew; a ceremony that was answered has no row. A ceremony of a first enrolment
  that is still open for an account that has enrolled is of an epoch before its
  present one: enrolling advances the epoch. A signed answer over a passkey that
  was not changed since counts at least as far as the stored counter.
* `CeremoniesAnsweredOnce`, `FirstEnrolmentOnce`, `PresentGeneration`, and the
  action properties `CountersNeverGoBack` and `PasskeysChangeOnProof`.

**Platform** (`PlatformAssumption`, `NoneAssumption`, `EpochLimitAssumption`).

* `PlatformInvariant`. Epochs and versions of whatever a challenge or a native
  registration rests on only move forward, and have moved once the row does not
  stand; a challenge behind a session is spent. So the settling transaction, which
  compares numbers, excludes every change since the challenge was begun, an
  account disabled and restored included.
* `ChallengesSpentOnce`, `AssertionsBounded`, and the action properties
  `ChallengeStoodAtIssue` and `RegistrationsFallForGood`.

**Profiles** (`ProfilesAssumption`, `NoneAssumption`).

* `ProfilesInvariant`. A profile is at the revision its last command made, each
  applied command has a receipt under its id and each receipt is of a command that
  was applied, to the revision it expected: neither half is inductive alone. What
  was read of a provider is of a version it has had, with the present meaning
  if that is the present one; an observation of the local profile is of no later
  revision than there is; a session is bound to its own sign-in's observation or
  to none.
* `CommandsAreAnswered`, `ReadsAreOwn`, `GoodProfilesAreCurrent` and the action
  property `LaterObservationsOnly`.
* `ProfilesImplementRegister`: commands on profiles implement `CommandRegister`
  (`CommandsTakeEffectOnce`), where a command is known by its operation id, the
  revisions are those of the profiles and the effects are the receipts. A receipt
  is under its command's id, so an unused id has had no effect.

**Provider credentials** (`CredentialsAssumption`: finitely many tenants are
there at first and one key is the first, `NoneAssumption`).

* `CredentialsInvariant`. A provider and its secret are of one edit and bound to
  each other. While the owner's check counts tenants, all secrets of the tenants
  it found good are under its only key, and nobody who may still write has
  another (`AllUnder`): without the second half a server with the older keyring
  could undo the first between the check and the destruction of a key. The log
  names the versions of a provider one after the other, and what is recorded of a
  command is the version after the one its sender saw.
* `SecretsAreKept`, `TestsAreOfOneEdit`, `AnswersAreTrue`: `SecretsStayReadable`,
  `TestedAsConfigured` and `AnsweredAsSettled`.
* `AdministrationImplementsRegister`: the same register with another memory of
  what was done. There is no receipt here: the effects are the events of the
  audit log, and what keeps an edit from being applied again after its answer was
  lost is that an earlier event of it names a version the provider has left. An
  attempt at a creation is a command of its own for the provider it makes, and
  expects none to be there (`SentInv`).

`CommandsTakeEffectOnce` is a theorem of both modules and a property of no run:
what the runs check of commands are the answers, `RepeatedCommandsAreAnswered` and
`AnsweredAsSettled`.

**Directory** (`DirectoryAssumption`, `EpochLimitAssumption`, `NullAssumption` and
`CursorAssumption`: a null is no number and no cursor; `QueriesAssumption`: a parsed
query filters for what was asked and sorts by columns of which one is the
principal's id, which `AccountQuery::parse` appends; that a filter is parsed as it
was written is the assumption of `MCDirectory` above).

* `DirectoryInvariant`. Until `valid_until` none of the boundaries of what was read
  lies ahead of the clock (`Quiet`), while the generation stands still: no later
  step could otherwise keep the answer. So the relation in the reader's hands is
  the one there is (`PinnedInv`), and a cursor is at the last row of a beginning of
  the list as it is now (`ListingInv`). Renewals are the one write that advances no
  generation; they need a live session, whose idle expiry is a boundary ahead and
  only moves further away. The department of an account that signed in through the
  provider is a fact of the provider's and no session is from the future
  (`SessionsInv`); what was kept of a session's facts is those facts, observed in
  the past (`FactsInv`).
* `RevisionsPin` and `ReadersAgreeAlways`: `RevisionsPinTheRelation` and
  `ReadersAgree`.
* `PagesAreOneList`: the action property `PagesMakeOneList`. The order of any
  query is strict, transitive and total on rows of different accounts, `NULLS
  LAST` in either direction included, so every row has a place (`SortedAt`);
  the condition of a cursor selects exactly the rows after the one it is at
  (`AfterIsBefore`), and these are the list from there on (`SortedRest`).

Only model-checked:

* `BlockingEnds` and `ShutdownEnds`. Liveness under fairness and `ENABLED` are
  outside the prover.
* `QueriesReadAsWritten`. The filter language (`AccountQuery`) is recursive over
  expressions, and the prover has no arithmetic in a module that reaches a
  recursive operator; that the parser reads back what was written is an induction
  over expressions, out of its reach as well. It is compared on bounded inputs, and
  the proofs of `Directory` hold for any language (`Parsed`, `Selects`).
* `FixedWindow` of `PasswordAttempts` does not hold (finding 1); what does hold
  of the window is `GuessRate`.

## 5. Findings

1. `password_attempts.rs:77`. Counting a rejection reads the clock twice in one
   statement. If the window ends between the reads, the count of the old window
   continues in a new one, although the window is documented to be fixed from
   the first rejection. Run `attempts_window`.

Also worth knowing: a correct password whose account epoch moved during the
computation (`operations.rs:80`) is settled like a wrong one and costs one of
the five failures. The model counts it the same way (outcome `moved`), and
`VerificationIsFenced` and `GuessRate` hold with it.

## 6. Plan

Done, in this order: account rules, session authority and ledger, attempts, KDF
pool, federation, WebAuthn, profiles, platform, directory, provider credentials
with rekey and settlement; the proofs of all of them, the directory's last; the command
register and its two refinements.

Next: the profile that comes with platform evidence, in `Profiles`; the order in
which the reference host stops its other resources.

Not modelled, and why: the HTTP adapter maps requests without state of its own,
beyond the statuses a caller concludes from; token validation, discovery and
transport of the OIDC adapter, ciphers, Argon2 and WebAuthn verification are I/O
or cryptography; schema setup runs before the server; the wording of audit rows
and assertions and the encoding of cursors are formatting inside transactions
that are modelled.
