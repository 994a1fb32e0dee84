------------------------------ MODULE Federation ------------------------------
(***************************************************************************)
(* Sign-in, account linking and step-up through upstream OIDC providers     *)
(* (crates/identity-postgres: federation.rs, federation_storage.rs,         *)
(* federation_login.rs, federation_link.rs, step_up.rs).                    *)
(*                                                                         *)
(* A flow leaves a row in oidc_transactions (an attempt), the browser goes  *)
(* to the provider, and the callback comes back once, twice or never, at    *)
(* any time later.  Each operation works in several transactions with the   *)
(* provider's network calls between them; what it read in one and uses in   *)
(* the next is in `flow`.  A transaction holds the tenant guard, so it is   *)
(* one action; one that rejects changes nothing and is a disabled action.   *)
(*                                                                         *)
(* Abstractions.  Only the order of events matters here, so the attempt     *)
(* and grant clocks are the actions Expire and ExpireGrant, which may come  *)
(* at any moment.  An attempt never outlives its link intent (insert_attempt *)
(* takes the earlier expiry), so an intent's expiry is that of its attempt. *)
(* State, nonce, verifier and browser cookie are the attempt's name: a      *)
(* callback names one attempt or is refused.  Local sign-in and its         *)
(* password check are SessionAuthority's and PasswordAttempts'.             *)
(***************************************************************************)
EXTENDS AccountPolicy, Sequences, FiniteSets

CONSTANTS
  Accounts,         \* principals
  Locals,           \* the ones that exist at first, each with a local password
  Linked,           \* external_identities at first
  Providers,        \* configured providers
  Jit,              \* the ones whose settings create accounts on first sight
  Subjects,         \* subjects at the providers
  Flows,            \* concurrent operations
  Uses,             \* what flows are for, of "login", "step_up" and "link"
  Changes,          \* what administrators do to accounts, of LocalChange
  VersionLimit,     \* bound on provider versions
  MaxSessions,      \* bound on sessions ever issued
  MaxAttempts,      \* bound on attempts ever begun
  MaxIntents,       \* bound on link intents ever begun
  AttemptCapacity,  \* rows oidc_transactions may hold
  GrantCapacity,    \* grants a principal may hold
  Nobody            \* the principal of an identity that is not linked

ASSUME FederationAssumption ==
  /\ Locals \subseteq Accounts
  /\ Jit \subseteq Providers
  /\ Uses \subseteq {"login", "step_up", "link"}
  /\ Changes \subseteq LocalChange
  /\ Providers # {} /\ Subjects # {}
  /\ VersionLimit \in Nat \ {0}
  /\ {MaxSessions, MaxAttempts, MaxIntents, AttemptCapacity, GrantCapacity} \subseteq Nat
  /\ Nobody \notin Accounts
  /\ Linked \in [Providers \X Subjects -> Locals \cup {Nobody}]

VARIABLES
  known,      \* accounts that exist
  accounts,   \* account and membership rows
  providers,  \* provider rows
  identities, \* external_identities: provider and subject to principal
  sessions,   \* session rows in the order issued
  attempts,   \* oidc_transactions rows in the order begun
  intents,    \* link_intents rows
  grants,     \* step_up_grants rows
  flow        \* what each operation holds between its transactions

vars == <<known, accounts, providers, identities, sessions, attempts, intents, grants, flow>>

(***************************************************************************)
(* `meaning` numbers the settings and the assurance profile that claims are *)
(* interpreted under; no code compares it, the versions stand in for it.    *)
(***************************************************************************)
Version == 0 .. VersionLimit
Provider == [ enabled : BOOLEAN, version : Version, revocation_epoch : Version, meaning : Version ]

Identity == Providers \X Subjects

(* Where a session's facts come from; NoOrigin for a local password. *)
Origin == [ identity : Identity, epoch : Version, version : Version, meaning : Version ]
NoOrigin == [ identity |-> Nobody ]

(* `replaces` and `attempt` are history the properties read. *)
SessionRow ==
  [ principal : Accounts, auth_epoch : Epoch, membership_epoch : Epoch, revoked : BOOLEAN,
    origin : Origin \cup {NoOrigin}, replaces : 0 .. MaxSessions, attempt : 0 .. MaxAttempts ]

Purpose == {"login", "step_up", "reauthenticate", "link"}

AttemptRow ==
  [ purpose : Purpose, provider : Providers, version : Version, link : 0 .. MaxIntents,
    replacement : 0 .. MaxSessions, stage : {"open", "claimed", "expired", "gone"} ]

(* `proof` and `linked` are history: who re-authenticated, what was linked. *)
IntentRow ==
  [ principal : Accounts, session : 1 .. MaxSessions, epoch : Epoch, member_epoch : Epoch,
    origin : Origin \cup {NoOrigin}, target : Providers, version : Version,
    stage : {"reauthentication_required", "target_ready", "completed"},
    proof : Identity \cup {Nobody}, linked : Identity \cup {Nobody} ]

GrantRow ==
  [ session : 1 .. MaxSessions, auth_epoch : Epoch, membership_epoch : Epoch, source : Origin,
    attempt : 1 .. MaxAttempts, stage : {"valid", "spent", "gone"} ]

Phase == {"idle", "prepared", "claimed", "exchanged", "retargeted"}

(* view: the provider row the flow read; meaning: what claims were read under. *)
Flow ==
  [ pc : Phase, purpose : Purpose, provider : Providers, view : Version, meaning : Version,
    session : 0 .. MaxSessions, snap : AccountState, target : Providers, target_view : Version,
    attempt : 0 .. MaxAttempts, subject : Subjects ]

TypeOK ==
  /\ known \subseteq Accounts
  /\ accounts \in [Accounts -> AccountState]
  /\ providers \in [Providers -> Provider]
  /\ identities \in [Identity -> Accounts \cup {Nobody}]
  /\ sessions \in Seq(SessionRow)
  /\ attempts \in Seq(AttemptRow)
  /\ intents \in Seq(IntentRow)
  /\ grants \in Seq(GrantRow)
  /\ flow \in [Flows -> Flow]

-----------------------------------------------------------------------------
(***************************************************************************)
(* Checks the transactions share.                                          *)
(***************************************************************************)

(* exact: the provider is enabled and still the one that was read. *)
exact(p, version) == providers[p].enabled /\ providers[p].version = version

(* check_origin: the identity is still the principal's and the provider is  *)
(* the one the facts came from.                                             *)
check_origin(a, o) ==
  LET p == o.identity[1] IN
  /\ identities[o.identity] = a
  /\ exact(p, o.version)
  /\ providers[p].revocation_epoch = o.epoch

(* by_id: the session stands for its principal right now. *)
Live(s) ==
  LET row == sessions[s] account == accounts[row.principal] IN
  /\ s \in 1 .. Len(sessions)
  /\ ~row.revoked
  /\ active(account)
  /\ row.auth_epoch = account.epoch
  /\ row.membership_epoch = account.membership_epoch
  /\ row.origin # NoOrigin => check_origin(row.principal, row.origin)

(* check_step_up: the provider is enabled and linked to the principal. *)
check_step_up(a, p) ==
  providers[p].enabled /\ \E u \in Subjects : identities[<<p, u>>] = a

(* A plausible slip: the callback does not ask whether the attempt was       *)
(* already claimed.                                                         *)
Mutant_UsableTwice(a, stage) == a \in 1 .. Len(attempts) /\ attempts[a].stage \in {stage, "claimed"}

(* attempt: the row exists, has not expired, and is (un)claimed as expected. *)
Usable(a, stage) == a \in 1 .. Len(attempts) /\ attempts[a].stage = stage

(* A plausible slip: the actor's session is compared, not looked up. *)
Mutant_ActorOnTrust(a) ==
  attempts[a].link # 0 =>
    intents[attempts[a].link].stage =
      IF attempts[a].purpose = "reauthenticate" THEN "reauthentication_required" ELSE "target_ready"

(* check_actor: the session the attempt is bound to is live, and a link      *)
(* intent still awaits this attempt in the generation it was opened in.     *)
check_actor(a) ==
  LET attempt == attempts[a] intent == intents[attempt.link] IN
  /\ attempt.link # 0 =>
       /\ intent.stage = IF attempt.purpose = "reauthenticate"
                         THEN "reauthentication_required" ELSE "target_ready"
       /\ Live(intent.session)
       /\ accounts[intent.principal].epoch = intent.epoch
       /\ accounts[intent.principal].membership_epoch = intent.member_epoch
  /\ attempt.link = 0 /\ attempt.replacement # 0 => Live(attempt.replacement)

Ids(rows) == 1 .. Len(rows)

consume(rows, a) == [rows EXCEPT ![a].stage = "gone"]

(* insert_attempt, with its clean-up of the expired rows. *)
Kept == [ a \in Ids(attempts) |-> IF attempts[a].stage = "expired"
                                  THEN [attempts[a] EXCEPT !.stage = "gone"] ELSE attempts[a] ]

CanInsert(rows, p, version) ==
  /\ exact(p, version)
  /\ Cardinality({ a \in Ids(rows) : rows[a].stage # "gone" }) < AttemptCapacity
  /\ Len(rows) < MaxAttempts

insert_attempt(rows, purpose, p, version, link, replacement) ==
  Append(rows, [ purpose |-> purpose, provider |-> p, version |-> version, link |-> link,
                 replacement |-> replacement, stage |-> "open" ])

(* sessions::insert: the replaced session is closed, the new one carries the *)
(* account's generation.                                                    *)
insert(a, state, replaced, origin, attempt) ==
  Append([ s \in Ids(sessions) |-> IF s = replaced THEN [sessions[s] EXCEPT !.revoked = TRUE]
                                   ELSE sessions[s] ],
         [ principal |-> a, auth_epoch |-> state.epoch, membership_epoch |-> state.membership_epoch,
           revoked |-> FALSE, origin |-> origin, replaces |-> replaced, attempt |-> attempt ])

Idle ==
  [ pc |-> "idle", purpose |-> "login", provider |-> CHOOSE p \in Providers : TRUE, view |-> 0,
    meaning |-> 0, session |-> 0, snap |-> new_local, target |-> CHOOSE p \in Providers : TRUE,
    target_view |-> 0, attempt |-> 0, subject |-> CHOOSE u \in Subjects : TRUE ]

Ended(f) == flow' = [flow EXCEPT ![f] = Idle]

-----------------------------------------------------------------------------
(***************************************************************************)
(* Beginning a flow.  `prepare` contacts the provider between the first     *)
(* reads and the transaction that stores the attempt.                       *)
(***************************************************************************)

(* begin_authentication up to the call upstream: sign in, with or without a  *)
(* session to replace, or step up the session.                              *)
prepare_authentication(f, purpose, p, s) ==
  /\ flow[f].pc = "idle"
  /\ purpose \in Uses \cap {"login", "step_up"}
  /\ s # 0 => Live(s)
  /\ purpose = "step_up" => s # 0 /\ check_step_up(sessions[s].principal, p)
  /\ providers[p].enabled
  /\ flow' = [flow EXCEPT ![f] = [Idle EXCEPT !.pc = "prepared", !.purpose = purpose,
                !.provider = p, !.view = providers[p].version, !.session = s]]
  /\ UNCHANGED <<known, accounts, providers, identities, sessions, attempts, intents, grants>>

(* begin_authentication's last transaction. *)
begin_authentication(f) ==
  LET p == flow[f].provider s == flow[f].session IN
  /\ flow[f].pc = "prepared"
  /\ flow[f].purpose \in {"login", "step_up"}
  /\ s # 0 => Live(s)
  /\ flow[f].purpose = "step_up" => check_step_up(sessions[s].principal, p)
  /\ CanInsert(Kept, p, flow[f].view)
  /\ attempts' = insert_attempt(Kept, flow[f].purpose, p, flow[f].view, 0, s)
  /\ Ended(f)
  /\ UNCHANGED <<known, accounts, providers, identities, sessions, intents, grants>>

(* begin_link up to the call upstream.  An account with a local password    *)
(* has just proved it and goes to the target; another must first prove      *)
(* itself again at the provider its session came from.                      *)
prepare_link(f, s, target) ==
  LET row == sessions[s]
      local == accounts[row.principal].has_local_password
      p == IF local THEN target ELSE row.origin.identity[1] IN
  /\ "link" \in Uses
  /\ flow[f].pc = "idle"
  /\ Live(s)
  /\ ~local => row.origin # NoOrigin
  /\ providers[target].enabled
  /\ flow' = [flow EXCEPT ![f] = [Idle EXCEPT !.pc = "prepared",
                !.purpose = IF local THEN "link" ELSE "reauthenticate",
                !.provider = p, !.view = providers[p].version, !.session = s,
                !.snap = accounts[row.principal],
                !.target = target, !.target_view = providers[target].version]]
  /\ UNCHANGED <<known, accounts, providers, identities, sessions, attempts, intents, grants>>

(* begin_link's last transaction: the intent and its first attempt. *)
begin_link(f) ==
  LET s == flow[f].session row == sessions[s] a == row.principal local == flow[f].purpose = "link" IN
  /\ flow[f].pc = "prepared"
  /\ flow[f].purpose \in {"link", "reauthenticate"}
  /\ Live(s)
  /\ matches_verification(accounts[a], flow[f].snap)
  /\ exact(flow[f].target, flow[f].target_view)
  /\ CanInsert(Kept, flow[f].provider, flow[f].view)
  /\ Len(intents) < MaxIntents
  /\ intents' = Append(intents,
       [ principal |-> a, session |-> s, epoch |-> flow[f].snap.epoch,
         member_epoch |-> flow[f].snap.membership_epoch,
         origin |-> IF local THEN NoOrigin ELSE row.origin,
         target |-> flow[f].target, version |-> flow[f].target_view,
         stage |-> IF local THEN "target_ready" ELSE "reauthentication_required",
         proof |-> Nobody, linked |-> Nobody ])
  /\ attempts' = insert_attempt(Kept, flow[f].purpose, flow[f].provider, flow[f].view,
                                Len(intents) + 1, 0)
  /\ Ended(f)
  /\ UNCHANGED <<known, accounts, providers, identities, sessions, grants>>

-----------------------------------------------------------------------------
(***************************************************************************)
(* The callback.                                                           *)
(***************************************************************************)

(* cancel: the provider answered with an error; the attempt is over. *)
cancel(a) ==
  /\ Usable(a, "open")
  /\ exact(attempts[a].provider, attempts[a].version)
  /\ check_actor(a)
  /\ attempts' = consume(attempts, a)
  /\ UNCHANGED <<known, accounts, providers, identities, sessions, intents, grants, flow>>

(* complete's first transaction: the nonce and verifier leave the database   *)
(* and the attempt is marked claimed.                                       *)
claim(f, a) ==
  LET p == attempts[a].provider IN
  /\ flow[f].pc = "idle"
  /\ Usable(a, "open")
  /\ exact(p, attempts[a].version)
  /\ check_actor(a)
  /\ attempts[a].purpose = "step_up" => check_step_up(sessions[attempts[a].replacement].principal, p)
  /\ attempts' = [attempts EXCEPT ![a].stage = "claimed"]
  /\ flow' = [flow EXCEPT ![f] = [Idle EXCEPT !.pc = "claimed", !.purpose = attempts[a].purpose,
                !.provider = p, !.view = providers[p].version, !.meaning = providers[p].meaning,
                !.attempt = a]]
  /\ UNCHANGED <<known, accounts, providers, identities, sessions, intents, grants>>

(* UpstreamOidc::exchange: the code is redeemed and the provider vouches for *)
(* a subject.  Whether it does, and for whom, is the provider's; a failure   *)
(* ends the flow and leaves the attempt claimed.                            *)
exchange(f, u) ==
  /\ flow[f].pc = "claimed"
  /\ flow' = [flow EXCEPT ![f].pc = "exchanged", ![f].subject = u]
  /\ UNCHANGED <<known, accounts, providers, identities, sessions, attempts, intents, grants>>

(* What complete's last transaction checks for every purpose. *)
Committing(f, purpose) ==
  /\ flow[f].pc = "exchanged"
  /\ flow[f].purpose = purpose
  /\ Usable(flow[f].attempt, "claimed")
  /\ exact(flow[f].provider, attempts[flow[f].attempt].version)
  /\ check_actor(flow[f].attempt)

Presented(f) == <<flow[f].provider, flow[f].subject>>

(* The facts a session or grant takes from this callback. *)
Facts(f) ==
  [ identity |-> Presented(f), epoch |-> providers[flow[f].provider].revocation_epoch,
    version |-> providers[flow[f].provider].version, meaning |-> flow[f].meaning ]

(* Sign in: the identity's principal, or a new one where the provider admits *)
(* newcomers; a session being replaced must be that principal's.            *)
complete_login(f) ==
  LET k == Presented(f) replaced == attempts[flow[f].attempt].replacement IN
  /\ Committing(f, "login")
  /\ Len(sessions) < MaxSessions
  /\ \E a \in Accounts :
       /\ \/ /\ identities[k] = a
             /\ UNCHANGED <<known, accounts, identities>>
          \/ /\ identities[k] = Nobody
             /\ flow[f].provider \in Jit
             /\ a \notin known
             /\ known' = known \cup {a}
             /\ accounts' = [accounts EXCEPT ![a] = new_federated]
             /\ identities' = [identities EXCEPT ![k] = a]
       /\ active(accounts'[a])
       /\ replaced # 0 => sessions[replaced].principal = a
       /\ sessions' = insert(a, accounts'[a], replaced, Facts(f), flow[f].attempt)
  /\ attempts' = consume(attempts, flow[f].attempt)
  /\ Ended(f)
  /\ UNCHANGED <<providers, intents, grants>>

(* Step up: the subject must be the session's own principal; the session     *)
(* stays, a grant is issued for it.                                         *)
complete_step_up(f) ==
  LET s == attempts[flow[f].attempt].replacement a == sessions[s].principal IN
  /\ Committing(f, "step_up")
  /\ check_step_up(a, flow[f].provider)
  /\ identities[Presented(f)] = a
  /\ Cardinality({ g \in Ids(grants) : /\ sessions[grants[g].session].principal = a
                                       /\ grants[g].stage = "valid" }) < GrantCapacity
  /\ grants' = Append(grants,
       [ session |-> s, auth_epoch |-> accounts[a].epoch,
         membership_epoch |-> accounts[a].membership_epoch, source |-> Facts(f),
         attempt |-> flow[f].attempt, stage |-> "valid" ])
  /\ attempts' = consume(attempts, flow[f].attempt)
  /\ Ended(f)
  /\ UNCHANGED <<known, accounts, providers, identities, sessions, intents>>

(* A plausible slip: a row that is already there is left to the insert. *)
Mutant_MayBindTaken(k, a) == TRUE

(* FederationError::Conflict otherwise. *)
MayBind(k, a) == identities[k] \in {Nobody, a}

(* A plausible slip: linking leaves the other sessions alone. *)
Mutant_LinkKeepsSessions(s) == s

(* The account after a link: every earlier session is of an older epoch. *)
Relinked(s) == revoke_sessions(s)

(* Link: the identity becomes the actor's, every earlier session ends and    *)
(* one new session takes the place of the actor's, with its facts.          *)
complete_link(f) ==
  LET i == attempts[flow[f].attempt].link
      intent == intents[i] a == intent.principal k == Presented(f) IN
  /\ Committing(f, "link")
  /\ Len(sessions) < MaxSessions
  /\ MayBind(k, a)
  /\ CanRevokeSessions(accounts[a])
  /\ intent.target = flow[f].provider
  /\ intent.version = providers[flow[f].provider].version
  /\ intent.origin # NoOrigin => check_origin(a, intent.origin)
  /\ identities' = [identities EXCEPT ![k] = IF @ = Nobody THEN a ELSE @]
  /\ accounts' = [accounts EXCEPT ![a] = Relinked(@)]
  /\ intents' = [intents EXCEPT ![i].stage = "completed", ![i].linked = k]
  /\ sessions' = insert(a, accounts'[a], intent.session, intent.origin, flow[f].attempt)
  /\ attempts' = consume(attempts, flow[f].attempt)
  /\ Ended(f)
  /\ UNCHANGED <<known, providers, grants>>

(* finish_reauthentication up to the call upstream for the target. *)
retarget(f) ==
  LET intent == intents[attempts[flow[f].attempt].link] IN
  /\ flow[f].pc = "exchanged"
  /\ flow[f].purpose = "reauthenticate"
  /\ exact(intent.target, intent.version)
  /\ flow' = [flow EXCEPT ![f].pc = "retargeted", ![f].target = intent.target,
                          ![f].target_view = providers[intent.target].version]
  /\ UNCHANGED <<known, accounts, providers, identities, sessions, attempts, intents, grants>>

(* A plausible slip: any subject of the provider will do. *)
Mutant_ProvenByAnyone(f, o) == o.identity[1] = flow[f].provider

(* The one who re-authenticated is the one the session belongs to. *)
ProvenByOwner(f, o) == o.identity = Presented(f)

(* finish_reauthentication's last transaction: the intent advances, its facts *)
(* are renewed, and the attempt at the target takes over.                   *)
finish_reauthentication(f) ==
  LET a == flow[f].attempt i == attempts[a].link intent == intents[i] IN
  /\ flow[f].pc = "retargeted"
  /\ Usable(a, "claimed")
  /\ exact(flow[f].provider, flow[f].view)
  /\ check_actor(a)
  /\ intent.origin # NoOrigin
  /\ check_origin(intent.principal, intent.origin)
  /\ ProvenByOwner(f, intent.origin)
  /\ CanInsert(consume(Kept, a), flow[f].target, flow[f].target_view)
  /\ intents' = [intents EXCEPT ![i].stage = "target_ready", ![i].proof = Presented(f),
                   ![i].origin.version = flow[f].view, ![i].origin.meaning = flow[f].meaning]
  /\ attempts' = insert_attempt(consume(Kept, a), "link", flow[f].target, flow[f].target_view, i, 0)
  /\ Ended(f)
  /\ UNCHANGED <<known, accounts, providers, identities, sessions, grants>>

(* The caller's deadline, a failed exchange, a crash, a rejection. *)
Abandon(f) ==
  /\ flow[f].pc # "idle"
  /\ Ended(f)
  /\ UNCHANGED <<known, accounts, providers, identities, sessions, attempts, intents, grants>>

-----------------------------------------------------------------------------
(***************************************************************************)
(* Step-up grants.                                                         *)
(***************************************************************************)

(* A plausible slip: the provider is not asked for again when a grant is     *)
(* redeemed.                                                                *)
Mutant_SourceOnTrust(a, o) == identities[o.identity] = a

(* validate_source: the proof would still be accepted today. *)
validate_source(a, o) == check_origin(a, o)

(* consume_step_up_on, inside the host's own transaction. *)
consume_step_up_on(g) ==
  LET row == grants[g] a == sessions[row.session].principal IN
  /\ row.stage = "valid"
  /\ Live(row.session)
  /\ row.auth_epoch = accounts[a].epoch
  /\ row.membership_epoch = accounts[a].membership_epoch
  /\ validate_source(a, row.source)
  /\ grants' = [grants EXCEPT ![g].stage = "spent"]
  /\ UNCHANGED <<known, accounts, providers, identities, sessions, attempts, intents, flow>>

(* cancel_step_up: the session takes its own unused grant back. *)
cancel_step_up(g) ==
  /\ grants[g].stage = "valid"
  /\ Live(grants[g].session)
  /\ grants' = [grants EXCEPT ![g].stage = "gone"]
  /\ UNCHANGED <<known, accounts, providers, identities, sessions, attempts, intents, flow>>

(* 300 seconds after the proof, or with its session, a grant is over. *)
ExpireGrant(g) ==
  /\ grants[g].stage = "valid"
  /\ grants' = [grants EXCEPT ![g].stage = "gone"]
  /\ UNCHANGED <<known, accounts, providers, identities, sessions, attempts, intents, flow>>

-----------------------------------------------------------------------------
(***************************************************************************)
(* Administration and the passage of time.                                 *)
(***************************************************************************)

(* A plausible slip: only the epoch moves when the host reads claims anew. *)
Mutant_ReconciledSameVersion(row) ==
  [row EXCEPT !.revocation_epoch = @ + 1, !.meaning = @ + 1]

(* The row after its settings or its assurance profile changed. *)
Reinterpreted(row) ==
  [row EXCEPT !.version = @ + 1, !.revocation_epoch = @ + 1, !.meaning = @ + 1]

(* edit_provider with settings, or reconcile_assurance_profiles after the    *)
(* host was deployed with another reading of ACR and AMR.                   *)
update_provider(p) ==
  /\ providers[p].version < VersionLimit
  /\ providers' = [providers EXCEPT ![p] = Reinterpreted(@)]
  /\ UNCHANGED <<known, accounts, identities, sessions, attempts, intents, grants, flow>>

(* The row after `enabled` was set: repeating the current value still opens a *)
(* new version, not a new epoch.                                            *)
Switched(row, enabled) ==
  [row EXCEPT !.version = @ + 1, !.enabled = enabled,
              !.revocation_epoch = IF row.enabled # enabled THEN @ + 1 ELSE @]

(* edit_provider with `enabled`. *)
enable_provider(p, enabled) ==
  /\ providers[p].version < VersionLimit
  /\ providers' = [providers EXCEPT ![p] = Switched(@, enabled)]
  /\ UNCHANGED <<known, accounts, identities, sessions, attempts, intents, grants, flow>>

(* Account administration and revocation of every session, as in             *)
(* SessionAuthority.                                                        *)
change_account(a, change) ==
  /\ a \in known
  /\ CanChange(accounts[a], change)
  /\ accounts' = [accounts EXCEPT ![a] = Changed(@, change)]
  /\ UNCHANGED <<known, providers, identities, sessions, attempts, intents, grants, flow>>

(* A local sign-in, settled by SessionAuthority. *)
login_local(a) ==
  /\ a \in known
  /\ active(accounts[a]) /\ accounts[a].has_local_password
  /\ Len(sessions) < MaxSessions
  /\ sessions' = insert(a, accounts[a], 0, NoOrigin, 0)
  /\ UNCHANGED <<known, accounts, providers, identities, attempts, intents, grants, flow>>

(* Sign-out, or the end of the session's lifetime. *)
EndSession(s) ==
  /\ ~sessions[s].revoked
  /\ sessions' = [sessions EXCEPT ![s].revoked = TRUE]
  /\ UNCHANGED <<known, accounts, providers, identities, attempts, intents, grants, flow>>

(* 120 seconds after it began, claimed or not, an attempt is over. *)
Expire(a) ==
  /\ attempts[a].stage \in {"open", "claimed"}
  /\ attempts' = [attempts EXCEPT ![a].stage = "expired"]
  /\ UNCHANGED <<known, accounts, providers, identities, sessions, intents, grants, flow>>

-----------------------------------------------------------------------------
Init ==
  /\ known = Locals
  /\ accounts = [a \in Accounts |-> new_local]
  /\ providers = [p \in Providers |->
       [enabled |-> TRUE, version |-> 1, revocation_epoch |-> 1, meaning |-> 1]]
  /\ identities = Linked
  /\ sessions = << >> /\ attempts = << >> /\ intents = << >> /\ grants = << >>
  /\ flow = [f \in Flows |-> Idle]

Next ==
  \/ \E f \in Flows, purpose \in Purpose, p \in Providers, s \in 0 .. Len(sessions) :
       prepare_authentication(f, purpose, p, s)
  \/ \E f \in Flows, s \in Ids(sessions), p \in Providers : prepare_link(f, s, p)
  \/ \E f \in Flows, a \in Ids(attempts) : claim(f, a)
  \/ \E f \in Flows, u \in Subjects : exchange(f, u)
  \/ \E f \in Flows : \/ begin_authentication(f) \/ begin_link(f)
                      \/ complete_login(f) \/ complete_step_up(f) \/ complete_link(f)
                      \/ retarget(f) \/ finish_reauthentication(f) \/ Abandon(f)
  \/ \E a \in Ids(attempts) : cancel(a) \/ Expire(a)
  \/ \E g \in Ids(grants) : consume_step_up_on(g) \/ cancel_step_up(g) \/ ExpireGrant(g)
  \/ \E p \in Providers : update_provider(p) \/ \E e \in BOOLEAN : enable_provider(p, e)
  \/ \E a \in Accounts : login_local(a) \/ \E c \in Changes : change_account(a, c)
  \/ \E s \in Ids(sessions) : EndSession(s)

Spec == Init /\ [][Next]_vars
-----------------------------------------------------------------------------
(***************************************************************************)
(* Properties.                                                             *)
(***************************************************************************)

Redeeming(f) == flow[f].pc \in {"claimed", "exchanged", "retargeted"}

(* An attempt is worth one callback: however often the browser repeats it,   *)
(* one operation at a time holds its nonce and verifier, and at most one     *)
(* session or grant ever comes of it.                                       *)
RedeemedOnce ==
  /\ \A f, g \in Flows :
       f # g /\ Redeeming(f) /\ Redeeming(g) => flow[f].attempt # flow[g].attempt
  /\ \A s, t \in Ids(sessions) :
       s # t /\ sessions[s].attempt # 0 => sessions[s].attempt # sessions[t].attempt
  /\ \A g, h \in Ids(grants) : g # h => grants[g].attempt # grants[h].attempt
  /\ \A g \in Ids(grants), s \in Ids(sessions) : grants[g].attempt # sessions[s].attempt

(* A session that is good today carries facts read under the provider's      *)
(* settings and the host's assurance profile of today, however the change    *)
(* fell between the callback's claim, its exchange and its commit.          *)
FactsAreCurrent ==
  \A s \in Ids(sessions) :
    LET o == sessions[s].origin IN
    Live(s) /\ o # NoOrigin => o.meaning = providers[o.identity[1]].meaning

(* Two tabs that replace one session do not both succeed. *)
ReplacedOnce ==
  \A s, t \in Ids(sessions) :
    s # t /\ sessions[s].replaces # 0 => sessions[s].replaces # sessions[t].replaces

(* An upstream identity is one account's for good: when a first sign-in and  *)
(* another account's link contend for it, the one that comes second leaves    *)
(* neither a completed link nor a session on it.                            *)
OneOwner ==
  /\ \A i \in Ids(intents) :
       intents[i].stage = "completed" => identities[intents[i].linked] = intents[i].principal
  /\ \A s \in Ids(sessions) :
       sessions[s].origin # NoOrigin =>
         identities[sessions[s].origin.identity] = sessions[s].principal

(* A link completes for an account without a password only after the very    *)
(* identity its session came from was proved again, and for any account it   *)
(* ends every session the principal had, those of other devices included.    *)
LinksAreProvenAndFence ==
  [][\A i \in Ids(intents) :
       intents[i].stage # "completed" /\ intents'[i].stage = "completed" =>
         /\ intents[i].origin # NoOrigin => intents[i].proof = intents[i].origin.identity
         /\ \A s \in Ids(sessions) : sessions[s].principal = intents[i].principal => ~Live(s)']_vars

(* A grant is spent only while the provider that proved it is enabled and    *)
(* means what it meant when the proof was made.                             *)
GrantsSpentOnCurrentProof ==
  [][\A g \in Ids(grants) :
       grants[g].stage = "valid" /\ grants'[g].stage = "spent" =>
         LET o == grants[g].source p == providers[o.identity[1]] IN
         p.enabled /\ o.meaning = p.meaning]_vars
=============================================================================
