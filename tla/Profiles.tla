------------------------------- MODULE Profiles -------------------------------
(***************************************************************************)
(* Profiles (crates/identity-postgres/src/profiles.rs): the profile an      *)
(* administrator keeps for an account, changed by commands that may be      *)
(* repeated, and the observations of profiles that sign-ins leave behind.   *)
(*                                                                         *)
(* A transaction holds the tenant guard and is one action; one that rejects *)
(* changes nothing.  A command is one transaction, so requests in flight    *)
(* have no state here: a command may arrive at any time, any number of      *)
(* times, whether or not the caller learned what became of it before (an    *)
(* answer is lost with a CommitUnknown, a RollbackFailed or the caller).    *)
(* Reply is what the server answers it in the present state.                *)
(*                                                                         *)
(* Abstractions.  A profile is a name; a digest is the command itself.      *)
(* Snapshot ids are the number of the session they were collected for.      *)
(* The identity behind a provider's sign-in stays linked (nothing removes    *)
(* one), accounts stay active and callers admitted, and a session that       *)
(* ended reads nothing, which leaves fewer reads than the properties speak   *)
(* of.  Other operations take numbers from the guard's sequence and store    *)
(* none of them here.                                                       *)
(***************************************************************************)
EXTENDS Integers, Sequences, FiniteSets, FiniteSetsExt

CONSTANTS
  Accounts,        \* principals
  Actors,          \* administrators
  Operations,      \* operation ids of commands
  Values,          \* local profiles, a removal included
  Providers,       \* upstream providers
  Flows,           \* sign-ins at a provider under way
  Local,           \* ProfileSource::IdentityLocal
  None,            \* no observation
  MAX_OPERATIONS,  \* receipts kept for a principal
  MaxAge,          \* seconds a profile is good for after it was issued
  TokenSeconds,    \* lifetime of an ID token
  Skew,            \* seconds a provider's clock may be ahead
  SessionSeconds,  \* absolute lifetime of a session
  MaxSessions,     \* bound on sessions ever issued
  MaxSequence,     \* bound on the guard's profile_sequence
  VersionLimit,    \* bound on provider versions
  MaxClock         \* bound on the clock

ASSUME ProfilesAssumption ==
  /\ {MAX_OPERATIONS, MaxAge, TokenSeconds, Skew, SessionSeconds, MaxSessions, MaxSequence,
      VersionLimit, MaxClock} \subseteq Nat
  /\ Local \notin Providers

VARIABLES
  now,           \* the database's clock, in seconds
  local,         \* local_profiles: revision and value of each account
  operations,    \* profile_operations: what became of each operation id
  changes,       \* history: the commands applied to each account, in order
  providers,     \* provider rows
  sequence,      \* guard.profile_sequence
  observations,  \* profile_observations, by account and source
  sessions,      \* sessions, each with the locator of its observation
  flow           \* sign-ins between their transactions

vars == <<now, local, operations, changes, providers, sequence, observations, sessions, flow>>

Sources == Providers \cup {Local}
Revision == 0 .. MAX_OPERATIONS
Version == 0 .. VersionLimit

Command ==
  [ operation : Operations, actor : Actors, target : Accounts, expected : Revision, value : Values ]

Receipt == [ command : Command, revision : Nat ]

(* `meaning` numbers the settings a provider's claims are read under. *)
Provider == [ enabled : BOOLEAN, version : Version, revocation_epoch : Version, meaning : Version ]

Observation ==
  [ snapshot : Nat, sequence : Nat, version : Nat, epoch : Nat, meaning : Nat, revision : Nat,
    observed_at : Nat, expires_at : Nat ]

ASSUME NoneAssumption == None \notin Receipt \cup Observation

(* snapshot 0: no observation was accepted.  `root` is history: the sign-in  *)
(* a session goes back to.                                                  *)
Session ==
  [ principal : Accounts, absolute : Nat, source : Sources, snapshot : 0 .. MaxSessions,
    root : 1 .. MaxSessions ]

Flow ==
  [ pc : {"idle", "begun", "exchanged"}, account : Accounts, provider : Providers,
    version : Version, meaning : Version, sequence : 0 .. MaxSequence, issued_at : Nat ]

TypeOK ==
  /\ now \in 0 .. MaxClock
  /\ local \in [Accounts -> [revision : Revision, value : Values \cup {None}]]
  /\ operations \in [Operations -> Receipt \cup {None}]
  /\ changes \in [Accounts -> Seq(Command)]
  /\ providers \in [Providers -> Provider]
  /\ sequence \in 0 .. MaxSequence
  /\ observations \in [Accounts \X Sources -> Observation \cup {None}]
  /\ sessions \in Seq(Session)
  /\ flow \in [Flows -> Flow]

-----------------------------------------------------------------------------
(***************************************************************************)
(* Commands on the local profile.                                          *)
(***************************************************************************)

(* A plausible slip: whoever knows the operation id gets its receipt. *)
Mutant_SameOperation(cmd) == TRUE

(* The receipt under this operation id is of this very command. *)
SameCommand(cmd) == operations[cmd.operation].command = cmd

ReceiptsOf(a) == { o \in Operations : operations[o] # None /\ operations[o].command.target = a }

(* Room for another receipt of the principal. *)
Admitted(cmd) == Cardinality(ReceiptsOf(cmd.target)) < MAX_OPERATIONS

(* A plausible slip: a principal with no room left is refused at once. *)
Mutant_AdmittedFirst(cmd) ==
  IF ~Admitted(cmd) THEN [ kind |-> "rejected" ]
  ELSE IF operations[cmd.operation] # None
  THEN IF SameCommand(cmd)
       THEN [ kind |-> "receipt", revision |-> operations[cmd.operation].revision ]
       ELSE [ kind |-> "operation_conflict" ]
  ELSE IF local[cmd.target].revision # cmd.expected THEN [ kind |-> "revision_conflict" ]
  ELSE [ kind |-> "applied", revision |-> cmd.expected + 1 ]

(***************************************************************************)
(* update_local_profile's answer, for an actor the policy admits and a      *)
(* target that is active: a known operation is answered from its receipt    *)
(* before anything else is asked.                                           *)
(***************************************************************************)
Reply(cmd) ==
  IF operations[cmd.operation] # None
  THEN IF SameCommand(cmd)
       THEN [ kind |-> "receipt", revision |-> operations[cmd.operation].revision ]
       ELSE [ kind |-> "operation_conflict" ]
  ELSE IF ~Admitted(cmd) THEN [ kind |-> "rejected" ]
  ELSE IF local[cmd.target].revision # cmd.expected THEN [ kind |-> "revision_conflict" ]
  ELSE [ kind |-> "applied", revision |-> cmd.expected + 1 ]

(* local_profile_receipt: what the actor is told of an operation later.  *)
local_profile_receipt(actor, target, operation) ==
  LET receipt == operations[operation] IN
  IF /\ receipt # None
     /\ receipt.command.target = target /\ receipt.command.actor = actor
  THEN receipt.revision ELSE 0

(* The profile and the receipt are written together. *)
update_local_profile(cmd) ==
  LET reply == Reply(cmd) IN
  /\ reply.kind = "applied"
  /\ local' = [local EXCEPT ![cmd.target] = [revision |-> reply.revision, value |-> cmd.value]]
  /\ operations' = [operations EXCEPT ![cmd.operation] =
                      [command |-> cmd, revision |-> reply.revision]]
  /\ changes' = [changes EXCEPT ![cmd.target] = Append(@, cmd)]
  /\ UNCHANGED <<now, providers, sequence, observations, sessions, flow>>

-----------------------------------------------------------------------------
(***************************************************************************)
(* Observations.                                                           *)
(***************************************************************************)

(* A plausible slip: whoever commits last is the latest. *)
Mutant_LastCommitWins(new, old) == old.version # new.version \/ old.sequence # new.sequence

(* The one row of an account and a source is replaced only by a later one. *)
Latest(new, old) ==
  /\ old.sequence < new.sequence
  /\ old.version # new.version \/ old.observed_at <= new.observed_at

(***************************************************************************)
(* accept, in the transaction that issues session s: an observation that is *)
(* good now becomes the latest of its source and the session is bound to    *)
(* it; any other leaves the session without a profile.                      *)
(***************************************************************************)
accept(a, source, absolute, o, token_expiry) ==
  LET s == Len(sessions) + 1
      expiry == Min({o.observed_at + MaxAge, token_expiry, absolute})
      new == [o EXCEPT !.snapshot = s, !.expires_at = expiry]
      old == observations[<<a, source>>]
      accepted == /\ o.observed_at <= now /\ now < expiry
                  /\ old = None \/ Latest(new, old)
  IN
  /\ observations' = IF accepted THEN [observations EXCEPT ![<<a, source>>] = new]
                     ELSE observations
  /\ sessions' = Append(sessions,
       [ principal |-> a, absolute |-> absolute, source |-> source,
         snapshot |-> IF accepted THEN s ELSE 0, root |-> s ])

Absolute == now + SessionSeconds

(* create_session_for: a local sign-in observes the local profile as it is. *)
login_local(a) ==
  /\ Len(sessions) < MaxSessions
  /\ sequence < MaxSequence
  /\ sequence' = sequence + 1
  /\ accept(a, Local, Absolute,
            [ snapshot |-> 1, sequence |-> sequence + 1, version |-> 0, epoch |-> 0, meaning |-> 0,
              revision |-> local[a].revision, observed_at |-> now, expires_at |-> 0 ],
            now + MaxAge)
  /\ UNCHANGED <<now, local, operations, changes, providers, flow>>

Idle ==
  [ pc |-> "idle", account |-> CHOOSE a \in Accounts : TRUE,
    provider |-> CHOOSE p \in Providers : TRUE, version |-> 0, meaning |-> 0, sequence |-> 0,
    issued_at |-> 0 ]

exact(p, version) == providers[p].enabled /\ providers[p].version = version

(* insert_attempt: a sign-in's place in the order is the one it began in. *)
begin_login(f, a, p) ==
  /\ flow[f].pc = "idle"
  /\ providers[p].enabled
  /\ sequence < MaxSequence
  /\ sequence' = sequence + 1
  /\ flow' = [flow EXCEPT ![f] =
       [ Idle EXCEPT !.pc = "begun", !.account = a, !.provider = p,
                     !.version = providers[p].version, !.sequence = sequence + 1 ]]
  /\ UNCHANGED <<now, local, operations, changes, providers, observations, sessions>>

(* The claim and the exchange: the provider issues a token, dated by its own *)
(* clock, read under the settings of this moment.                           *)
exchange(f, issued_at) ==
  LET p == flow[f].provider IN
  /\ flow[f].pc = "begun"
  /\ exact(p, flow[f].version)
  /\ flow' = [flow EXCEPT ![f] = [flow[f] EXCEPT !.pc = "exchanged", !.issued_at = issued_at,
                                                !.meaning = providers[p].meaning]]
  /\ UNCHANGED <<now, local, operations, changes, providers, sequence, observations, sessions>>

(* oidc_observation: what a sign-in observed, under the provider's row of now. *)
oidc_observation(f) ==
  LET p == flow[f].provider IN
  [ snapshot |-> 1, sequence |-> flow[f].sequence, version |-> providers[p].version,
    epoch |-> providers[p].revocation_epoch, meaning |-> flow[f].meaning, revision |-> 0,
    observed_at |-> flow[f].issued_at, expires_at |-> 0 ]

(* complete, last transaction.  The sign-in's facts take a number of their   *)
(* own from the guard.                                                      *)
complete_login(f) ==
  /\ flow[f].pc = "exchanged"
  /\ exact(flow[f].provider, flow[f].version)
  /\ Len(sessions) < MaxSessions
  /\ sequence < MaxSequence
  /\ sequence' = sequence + 1
  /\ accept(flow[f].account, flow[f].provider, Absolute, oidc_observation(f),
            flow[f].issued_at + TokenSeconds)
  /\ flow' = [flow EXCEPT ![f] = Idle]
  /\ UNCHANGED <<now, local, operations, changes, providers>>

(* The sign-in is given up or refused. *)
Abandon(f) ==
  /\ flow[f].pc # "idle"
  /\ flow' = [flow EXCEPT ![f] = Idle]
  /\ UNCHANGED <<now, local, operations, changes, providers, sequence, observations, sessions>>

(* A plausible slip: a linked session takes the latest of its source along. *)
Mutant_RetainLatest(row) ==
  LET o == observations[<<row.principal, row.source>>] IN
  IF o = None THEN row.snapshot ELSE o.snapshot

(* retain_binding: only the locator is copied. *)
Retained(row) == row.snapshot

(* A link replaces a session by a new one that keeps the old one's profile. *)
retain_binding(s) ==
  /\ Len(sessions) < MaxSessions
  /\ sessions' = Append(sessions,
       [sessions[s] EXCEPT !.absolute = Absolute, !.snapshot = Retained(sessions[s])])
  /\ UNCHANGED <<now, local, operations, changes, providers, sequence, observations, flow>>

(* edit_provider with settings, and with `enabled`. *)
update_provider(p) ==
  LET row == providers[p] IN
  /\ row.version < VersionLimit
  /\ providers' = [providers EXCEPT ![p] =
       [row EXCEPT !.version = row.version + 1, !.revocation_epoch = row.revocation_epoch + 1,
                   !.meaning = row.meaning + 1]]
  /\ UNCHANGED <<now, local, operations, changes, sequence, observations, sessions, flow>>

enable_provider(p, enabled) ==
  LET row == providers[p] IN
  /\ row.version < VersionLimit
  /\ providers' = [providers EXCEPT ![p] =
       [row EXCEPT !.version = row.version + 1, !.enabled = enabled,
          !.revocation_epoch = IF row.enabled # enabled THEN row.revocation_epoch + 1
                               ELSE row.revocation_epoch]]
  /\ UNCHANGED <<now, local, operations, changes, sequence, observations, sessions, flow>>

Tick ==
  /\ now < MaxClock
  /\ now' = now + 1
  /\ UNCHANGED <<local, operations, changes, providers, sequence, observations, sessions, flow>>

-----------------------------------------------------------------------------
(***************************************************************************)
(* Reading a profile.                                                      *)
(***************************************************************************)

(* A plausible slip: the provider is not asked again. *)
Mutant_TrustedForGood(source, o) == TRUE

(* The source would still vouch for what it said. *)
Vouched(source, o) ==
  source # Local => exact(source, o.version) /\ providers[source].revocation_epoch = o.epoch

End(o, absolute) == Min({o.expires_at, absolute, o.observed_at + MaxAge})

(* read_profile for current_profile: the session's own observation, while it *)
(* is the latest of its source and good.                                    *)
current_profile(s) ==
  LET row == sessions[s] o == observations[<<row.principal, row.source>>] IN
  IF /\ row.snapshot # 0 /\ o # None
     /\ o.snapshot = row.snapshot
     /\ Vouched(row.source, o)
     /\ now < End(o, row.absolute)
  THEN o ELSE None

(* read_profile for latest_profile: the latest observation and whether it is *)
(* good, to whoever the host's policy lets read it with session s.          *)
latest_profile(s, a, source) ==
  LET o == observations[<<a, source>>] IN
  IF o # None /\ Vouched(source, o)
  THEN [ observation |-> o, available |-> now < End(o, sessions[s].absolute) ]
  ELSE [ observation |-> None, available |-> FALSE ]

-----------------------------------------------------------------------------
Init ==
  /\ now = 0
  /\ local = [a \in Accounts |-> [revision |-> 0, value |-> None]]
  /\ operations = [o \in Operations |-> None]
  /\ changes = [a \in Accounts |-> << >>]
  /\ providers = [p \in Providers |->
       [enabled |-> TRUE, version |-> 1, revocation_epoch |-> 1, meaning |-> 1]]
  /\ sequence = 0
  /\ observations = [k \in Accounts \X Sources |-> None]
  /\ sessions = << >>
  /\ flow = [f \in Flows |-> Idle]

Next ==
  \/ \E cmd \in Command : update_local_profile(cmd)
  \/ \E a \in Accounts : login_local(a)
  \/ \E f \in Flows, a \in Accounts, p \in Providers : begin_login(f, a, p)
  \/ \E f \in Flows, ahead \in 0 .. Skew : exchange(f, now + ahead)
  \/ \E f \in Flows : complete_login(f) \/ Abandon(f)
  \/ \E s \in 1 .. Len(sessions) : retain_binding(s)
  \/ \E p \in Providers : update_provider(p) \/ \E e \in BOOLEAN : enable_provider(p, e)
  \/ Tick

Spec == Init /\ [][Next]_vars

-----------------------------------------------------------------------------
(***************************************************************************)
(* Properties.                                                             *)
(***************************************************************************)

(* A command is answered with a receipt exactly when it was applied, and with *)
(* its own: for ever after, however often it is repeated and whatever was    *)
(* applied since, a full table of receipts included.  A caller who lost the  *)
(* answer can always find out, is never told of a conflict with itself, and  *)
(* is never told that another's change was its own.                         *)
RepeatedCommandsAreAnswered ==
  /\ \A a \in Accounts : \A r \in 1 .. Len(changes[a]) :
       LET cmd == changes[a][r] IN
       /\ Reply(cmd) = [kind |-> "receipt", revision |-> r]
       /\ local_profile_receipt(cmd.actor, a, cmd.operation) = r
  /\ \A cmd \in Command :
       LET reply == Reply(cmd) IN
       reply.kind = "receipt" =>
         /\ reply.revision \in 1 .. Len(changes[cmd.target])
         /\ changes[cmd.target][reply.revision] = cmd
         /\ reply.revision = cmd.expected + 1

(* A session reads the profile its own sign-in brought, or none: never one   *)
(* of another sign-in, of the same provider or not, also after a link        *)
(* replaced the session.                                                    *)
OwnObservation ==
  \A s \in 1 .. Len(sessions) :
    current_profile(s) # None => current_profile(s).snapshot = sessions[s].root

(* A profile that is given out as good was read under the settings its       *)
(* provider has now, and the provider is enabled.                           *)
ProfilesAreCurrent ==
  \A s \in 1 .. Len(sessions), a \in Accounts, p \in Providers :
    LET read == latest_profile(s, a, p) IN
    read.available => /\ providers[p].enabled
                      /\ read.observation.meaning = providers[p].meaning

(* The latest observation of a source never goes back: not to a sign-in that *)
(* began earlier, not to an earlier token under the same settings, and not   *)
(* to an older revision of the local profile, in whatever order the          *)
(* sign-ins complete.                                                       *)
ObservationsOnlyAdvance ==
  [][\A k \in Accounts \X Sources :
       LET old == observations[k] new == observations'[k] IN
       old # None =>
         /\ new.sequence >= old.sequence
         /\ new.revision >= old.revision
         /\ new.version = old.version => new.observed_at >= old.observed_at]_vars

(* The commands that took effect, by their receipts, and the revisions they    *)
(* left.                                                                     *)
Effect(cmd) == [ id |-> cmd.operation, object |-> cmd.target, expected |-> cmd.expected ]

Register == INSTANCE CommandRegister
              WITH Objects <- Accounts, Ids <- Operations,
                   revision <- [a \in Accounts |-> local[a].revision],
                   effects <- { Effect(operations[o].command) :
                                  o \in { id \in Operations : operations[id] # None } }

(* A command on a profile takes effect once at most, on the revision its       *)
(* sender saw, whatever arrives again, late or in between                    *)
(* (update_local_profile); no receipt is dropped, no revision skipped.         *)
CommandsTakeEffectOnce == Register!RegisterSpec
=============================================================================
