-------------------------- MODULE ProviderCredentials --------------------------
(***************************************************************************)
(* The secrets identity providers are reached with, the administration of   *)
(* providers, and the rotation of the keys the secrets are sealed with      *)
(* (crates/identity-postgres: credentials.rs, federation.rs; the reference  *)
(* host's rekey.rs), with the way every write is settled and answered       *)
(* (transaction.rs, audit/mod.rs; identity-http-axum: boundary.rs).         *)
(*                                                                         *)
(* A write is one transaction under the tenant guard, with its audit events. *)
(* Rotation is one transaction over all tenants: it takes one guard after   *)
(* another and keeps them until it ends, so writers of a tenant it has      *)
(* reached wait.  Reads of a secret take no guard.  Servers may run with    *)
(* different keyrings.                                                      *)
(*                                                                         *)
(* Abstractions.  The settings and the secret an administrator sends are    *)
(* the number of the command that carries them, so both say which edit they *)
(* are of.  AES-GCM is ideal: a sealed secret opens with its key and its    *)
(* context only.  What an edit does to sign-ins is Federation's.  Sign-ins   *)
(* take the first two steps of a connection test and end there.             *)
(***************************************************************************)
EXTENDS Naturals, Sequences, FiniteSets, SequencesExt

CONSTANTS
  Tenants,        \* how many tenants there are; they are numbered in the order of their ids
  Providers,      \* identity providers
  Founded,        \* the providers there are at first
  TenantOf,       \* the tenant of each
  Keys,           \* credential keys
  Rings,          \* keyrings the owner configures
  FirstKey,       \* the key secrets are under at first
  Servers,        \* server processes
  ProviderLimit,  \* providers of a tenant
  Edits,          \* the edits administrators make: "update", "enable", "disable"
  MaxCommands,    \* bound on commands administrators send
  MaxTests,       \* bound on recorded connection tests
  None            \* no provider, no secret, no key

ASSUME CredentialsAssumption ==
  /\ TenantOf \in [Providers -> 1 .. Tenants]
  /\ Founded \subseteq Providers /\ IsFiniteSet(Founded)
  /\ FirstKey \in Keys
  /\ Rings \subseteq [active : Keys, keys : SUBSET Keys]
  /\ Edits \subseteq {"update", "enable", "disable"}
  /\ {Tenants, ProviderLimit, MaxCommands, MaxTests} \subseteq Nat

Provider ==
  [ version : Nat, enabled : BOOLEAN, settings : Nat, credential_version : Nat ]
Sealed == [ key_id : Keys, aad : Providers \X Nat, secret : Nat ]
ProviderCredential == [ credential_version : Nat, sealed : Sealed ]
ASSUME NoneAssumption == None \notin Provider \cup ProviderCredential

VARIABLES
  providers,    \* providers rows
  credentials,  \* provider_credentials rows
  audit,        \* the security events, in the order committed
  commands,     \* commands of administrators, with what was answered
  servers,      \* the processes and their keyrings
  flow,         \* a connection test under way
  rekey,        \* the owner's rotation or verification under way
  operator      \* what the owner concluded, and the keys destroyed

vars == <<providers, credentials, audit, commands, servers, flow, rekey, operator>>

-----------------------------------------------------------------------------
(***************************************************************************)
(* Keys and sealed secrets.                                                *)
(***************************************************************************)
CredentialKeys == { ring \in Rings : ring.active \in ring.keys }

(* seal: under the active key, bound to the provider and the version. *)
seal(ring, p, version, secret) ==
  [ key_id |-> ring.active, aad |-> <<p, version>>, secret |-> secret ]

open(ring, p, version, sealed) == sealed.key_id \in ring.keys /\ sealed.aad = <<p, version>>

Credential(version, sealed) == [ credential_version |-> version, sealed |-> sealed ]

Of(t) == { p \in Providers : TenantOf[p] = t /\ credentials[p] # None }

(* A plausible slip: a secret under another key is none of this ring's. *)
Mutant_OwnKeysOnly(ring, t) ==
  \A p \in Of(t) : credentials[p].sealed.key_id \in ring.keys =>
    open(ring, p, credentials[p].credential_version, credentials[p].sealed)

(* Every secret of the tenant is authenticated. *)
Authentic(ring, t) ==
  \A p \in Of(t) : open(ring, p, credentials[p].credential_version, credentials[p].sealed)

(* reencrypt_value: what is under the active key stays as it is. *)
reencrypt_value(ring, p, row) ==
  IF row.sealed.key_id = ring.active THEN row
  ELSE Credential(row.credential_version,
                  seal(ring, p, row.credential_version, row.sealed.secret))

-----------------------------------------------------------------------------
(***************************************************************************)
(* Settlement.  How a transaction ends: "commit_lost" is a commit nobody     *)
(* saw, "commit_unknown" one that did not happen and nobody knows,          *)
(* "conflict" a rollback the database asked for.                            *)
(***************************************************************************)
Outcomes ==
  {"committed", "commit_lost", "commit_unknown", "not_started", "rolled_back",
   "conflict", "rollback_failed", "fenced"}

Applied(outcome) == outcome \in {"committed", "commit_lost"}

(* An operation that refused never reaches its commit. *)
Possible(outcome, domain) ==
  domain # "ok" => outcome \notin {"committed", "commit_lost", "commit_unknown", "conflict"}

(* read_bundle and domain_result: the reason of a refusal is told only when  *)
(* the rollback is confirmed.                                               *)
domain_result(outcome, domain) ==
  IF outcome = "committed" THEN "ok"
  ELSE IF outcome = "rolled_back" /\ domain # "ok" THEN domain ELSE outcome

(* The status a client sees. *)
status(answer) ==
  CASE answer = "ok" -> 200
    [] answer = "stale" -> 409
    [] answer = "configuration" -> 400
    [] answer \in {"rule", "limit", "conflict"} -> 401
    [] OTHER -> 503

(* settle_events, append_events: the events are part of the transaction. *)
append_events(outcome, events) ==
  audit' = IF Applied(outcome) THEN audit \o events ELSE audit

-----------------------------------------------------------------------------
(***************************************************************************)
(* Administration.  A command is sent with the version its sender saw and    *)
(* may be sent again as long as what became of it is not known.             *)
(***************************************************************************)
Waiting == 0

Command(t, kind, p, expected) ==
  [ tenant |-> t, kind |-> kind, provider |-> p, expected |-> expected,
    status |-> Waiting, doubted |-> FALSE ]

send(command) ==
  /\ Len(commands) < MaxCommands
  /\ commands' = Append(commands, command)
  /\ UNCHANGED <<providers, credentials, audit, servers, flow, rekey, operator>>

send_create(t) == send(Command(t, "create", None, 0))

(* The version is the one list_providers showed. *)
send_edit(p, kind) ==
  /\ providers[p] # None
  /\ send(Command(TenantOf[p], kind, p, providers[p].version))

Serves(s, t) == servers[s].pc = "running" /\ t > rekey.locked

(* A 503 leaves in doubt what became of the command. *)
AnsweredRow(row, answer) ==
  [row EXCEPT !.status = answer, !.doubted = row.doubted \/ answer = 503]

(* The request is handled by server s and its answer arrives. *)
Answered(s, i, domain, outcome) ==
  /\ commands[i].status \in {Waiting, 503}
  /\ Serves(s, commands[i].tenant)
  /\ Possible(outcome, domain)
  /\ commands' = [commands EXCEPT
                    ![i] = AnsweredRow(@, status(domain_result(outcome, domain)))]
  /\ UNCHANGED <<servers, flow, rekey, operator>>

Event(p, action, version, i) ==
  [ provider |-> p, action |-> action, version |-> version, command |-> i, secret |-> None ]

(* write_credentials *)
write_credentials(s, p, version, secret) ==
  credentials' = [credentials EXCEPT ![p] =
                    Credential(version, seal(servers[s].ring, p, version, secret))]

(* Management policy, and whether the settings and the secret are acceptable. *)
Verdicts == {"ok", "rule", "configuration"}

(* persist_create_provider: a provider of its own for every attempt. *)
create_provider(s, i, p, verdict, outcome) ==
  LET t == commands[i].tenant
      existing == { q \in Providers : TenantOf[q] = t /\ providers[q] # None }
      domain == IF verdict # "ok" THEN verdict
                ELSE IF Cardinality(existing) >= ProviderLimit THEN "limit" ELSE "ok"
  IN /\ commands[i].kind = "create"
     /\ TenantOf[p] = t
     /\ domain = "ok" => providers[p] = None
     /\ Answered(s, i, domain, outcome)
     /\ append_events(outcome, <<Event(p, "created", 1, i)>>)
     /\ IF Applied(outcome)
        THEN /\ providers' = [providers EXCEPT ![p] =
                  [ version |-> 1, enabled |-> FALSE, settings |-> i, credential_version |-> 1 ]]
             /\ write_credentials(s, p, 1, i)
        ELSE UNCHANGED <<providers, credentials>>

(* A plausible slip: the expected version is not compared. *)
Mutant_LastWins(row, expected) == TRUE

Expected(row, expected) == row.version = expected

(* edit_provider: "update" replaces settings and secret together, "enable"   *)
(* and "disable" leave them.                                                *)
edit_provider(s, i, verdict, outcome) ==
  LET command == commands[i] p == command.provider row == providers[p]
      update == command.kind = "update"
      domain == IF verdict # "ok" THEN verdict
                ELSE IF ~Expected(row, command.expected) THEN "stale" ELSE "ok"
      next == [ version |-> row.version + 1,
                enabled |-> IF update THEN row.enabled ELSE command.kind = "enable",
                settings |-> IF update THEN i ELSE row.settings,
                credential_version |-> IF update THEN row.credential_version + 1
                                       ELSE row.credential_version ]
  IN /\ command.kind \in {"update", "enable", "disable"}
     /\ verdict = "configuration" => update
     /\ Answered(s, i, domain, outcome)
     /\ append_events(outcome, <<Event(p, command.kind, next.version, i)>>)
     /\ IF Applied(outcome)
        THEN /\ providers' = [providers EXCEPT ![p] = next]
             /\ IF update THEN write_credentials(s, p, next.credential_version, i)
                ELSE UNCHANGED credentials
        ELSE UNCHANGED <<providers, credentials>>

-----------------------------------------------------------------------------
(***************************************************************************)
(* Connection tests: the provider is read, then its secret, each in a        *)
(* transaction; the provider is called; the result is recorded.             *)
(***************************************************************************)
Idle == [ stage |-> "idle" ]

read_provider(s, p) ==
  /\ flow.stage = "idle"
  /\ Serves(s, TenantOf[p])
  /\ providers[p] # None
  /\ flow' = [ stage |-> "viewed", server |-> s, provider |-> p, view |-> providers[p] ]
  /\ UNCHANGED <<providers, credentials, audit, commands, servers, rekey, operator>>

(* A plausible slip: the secret there is, opened as what it is. *)
Mutant_WhateverThereIs(ring, p, view) ==
  open(ring, p, credentials[p].credential_version, credentials[p].sealed)

(* The secret is of the version that was read, and opens as such. *)
Released(ring, p, view) ==
  /\ credentials[p].credential_version = view.credential_version
  /\ open(ring, p, view.credential_version, credentials[p].sealed)

(* provider_credentials: from "called" on the secret is at the provider. *)
provider_credentials ==
  LET p == flow.provider IN
  /\ flow.stage = "viewed"
  /\ flow' = IF Released(servers[flow.server].ring, p, flow.view)
             THEN [ stage |-> "called", server |-> flow.server, provider |-> p,
                    view |-> flow.view, secret |-> credentials[p].sealed.secret ]
             ELSE Idle
  /\ UNCHANGED <<providers, credentials, audit, commands, servers, rekey, operator>>

Current(p, view) == providers[p].version = view.version

(* persist_test_provider: the result, passed or failed, is released once it  *)
(* is recorded as that of the version tested.                               *)
test_provider(outcome) ==
  LET p == flow.provider
      domain == IF Current(p, flow.view) THEN "ok" ELSE "stale" IN
  /\ flow.stage = "called"
  /\ Serves(flow.server, TenantOf[p])
  /\ Possible(outcome, domain)
  /\ Cardinality({ n \in 1 .. Len(audit) : audit[n].action = "tested" }) < MaxTests
  /\ append_events(outcome, <<[Event(p, "tested", flow.view.version, flow.view.settings)
                                 EXCEPT !.secret = flow.secret]>>)
  /\ flow' = Idle
  /\ UNCHANGED <<providers, credentials, commands, servers, rekey, operator>>

(* A deadline, a refusal, the end of a sign-in. *)
Abandon ==
  /\ flow.stage # "idle"
  /\ flow' = Idle
  /\ UNCHANGED <<providers, credentials, audit, commands, servers, rekey, operator>>

-----------------------------------------------------------------------------
(***************************************************************************)
(* Rotation.  The owner may destroy the other keys once a check with a       *)
(* single key succeeded while no process wrote with another: `clean` says    *)
(* so of the check under way, operator.verified of the last that ended.     *)
(***************************************************************************)
Writers ==
  { servers[s].ring.active : s \in { r \in Servers : servers[r].pc # "stopped" } }
    \cup (IF rekey.pc = "rekey" THEN {rekey.ring.active} ELSE {})

NoRekey == [ pc |-> "idle", locked |-> 0, ring |-> None, clean |-> FALSE ]

(* A process that writes with `key` is no help to a check of another key. *)
Spoilt(check, key) ==
  IF check.pc \in {"checking", "verify"} /\ check.ring.active # key
  THEN [check EXCEPT !.clean = FALSE] ELSE check

Doubted(key) ==
  operator' = IF operator.verified # key THEN [operator EXCEPT !.verified = None] ELSE operator

Alone(ring) == ring.keys = {ring.active} /\ Writers \subseteq ring.keys

Concluded(ring, clean) ==
  operator' = IF clean
              THEN [operator EXCEPT !.verified = ring.active] ELSE operator

begin_rekey(ring, verify_only) ==
  /\ rekey.pc = "idle"
  /\ ring.keys \cap operator.destroyed = {}
  /\ verify_only => ring.keys = {ring.active}
  /\ rekey' = [ pc |-> IF verify_only THEN "verify" ELSE "rekey", locked |-> 0, ring |-> ring,
                clean |-> verify_only /\ Alone(ring) ]
  /\ IF verify_only THEN UNCHANGED <<servers, operator>>
     ELSE /\ servers' = [ s \in Servers |-> Spoilt(servers[s], ring.active) ]
          /\ Doubted(ring.active)
  /\ UNCHANGED <<providers, credentials, audit, commands, flow>>

(* reencrypt_tenant: one failure ends the whole. *)
reencrypt_tenant ==
  LET t == rekey.locked + 1 IN
  /\ rekey.pc # "idle" /\ t <= Tenants
  /\ rekey' = IF Authentic(rekey.ring, t) THEN [rekey EXCEPT !.locked = t] ELSE NoRekey
  /\ UNCHANGED <<providers, credentials, audit, commands, servers, flow, operator>>

(* rekey::run, at the end: a verification rolls back.  Under the guards the   *)
(* rows are still those that were authenticated.                            *)
finish_rekey(outcome) ==
  /\ rekey.pc # "idle" /\ rekey.locked = Tenants
  /\ IF rekey.pc = "verify"
     THEN /\ outcome = "rolled_back"
          /\ Concluded(rekey.ring, rekey.clean)
          /\ UNCHANGED credentials
     ELSE /\ outcome \in {"committed", "commit_lost", "commit_unknown"}
          /\ credentials' = [ p \in Providers |->
               IF Applied(outcome) /\ credentials[p] # None
               THEN reencrypt_value(rekey.ring, p, credentials[p]) ELSE credentials[p] ]
          /\ UNCHANGED operator
  /\ rekey' = NoRekey
  /\ UNCHANGED <<providers, audit, commands, servers, flow>>

(* A timeout or a crash before the end: nothing is changed, all guards free. *)
fail_rekey ==
  /\ rekey.pc # "idle"
  /\ rekey' = NoRekey
  /\ UNCHANGED <<providers, credentials, audit, commands, servers, flow, operator>>

(* serve: a process starts by authenticating every tenant's secrets, each    *)
(* tenant in a transaction of its own.                                      *)
start(s, ring) ==
  /\ servers[s].pc = "stopped"
  /\ ring.keys \cap operator.destroyed = {}
  /\ servers' = [ r \in Servers |->
       IF r # s THEN Spoilt(servers[r], ring.active)
       ELSE [ pc |-> "checking", ring |-> ring, checked |-> 0,
              clean |-> Alone(ring) ] ]
  /\ rekey' = Spoilt(rekey, ring.active)
  /\ Doubted(ring.active)
  /\ UNCHANGED <<providers, credentials, audit, commands, flow>>

Stopped == [ pc |-> "stopped" ]

check_credential_keys(s) ==
  LET t == servers[s].checked + 1 IN
  /\ servers[s].pc = "checking"
  /\ IF t > Tenants
     THEN /\ servers' = [servers EXCEPT ![s] = [ pc |-> "running", ring |-> servers[s].ring ]]
          /\ Concluded(servers[s].ring, servers[s].clean)
     ELSE /\ servers' = [servers EXCEPT ![s] = IF Authentic(@.ring, t)
                                              THEN [@ EXCEPT !.checked = t] ELSE Stopped]
          /\ UNCHANGED operator
  /\ UNCHANGED <<providers, credentials, audit, commands, flow, rekey>>

stop(s) ==
  /\ servers[s].pc # "stopped"
  /\ servers' = [servers EXCEPT ![s] = Stopped]
  /\ flow' = IF flow.stage # "idle" /\ flow.server = s THEN Idle ELSE flow
  /\ UNCHANGED <<providers, credentials, audit, commands, rekey, operator>>

(* The owner destroys every key but the one verified. *)
destroy ==
  /\ operator.verified # None
  /\ Writers \subseteq {operator.verified}
  /\ operator' = [operator EXCEPT !.destroyed = @ \cup (Keys \ {operator.verified})]
  /\ UNCHANGED <<providers, credentials, audit, commands, servers, flow, rekey>>

-----------------------------------------------------------------------------
Init ==
  /\ providers = [ p \in Providers |-> IF p \notin Founded THEN None ELSE
       [ version |-> 1, enabled |-> FALSE, settings |-> 0, credential_version |-> 1 ] ]
  /\ credentials = [ p \in Providers |-> IF p \notin Founded THEN None ELSE
       Credential(1, [ key_id |-> FirstKey, aad |-> <<p, 1>>, secret |-> 0 ]) ]
  /\ audit = SetToSeq({ Event(p, "created", 1, 0) : p \in Founded })
  /\ commands = << >>
  /\ servers = [ s \in Servers |-> Stopped ] /\ flow = Idle
  /\ rekey = NoRekey
  /\ operator = [ verified |-> None, destroyed |-> {} ]

Next ==
  \/ \E t \in 1 .. Tenants : send_create(t)
  \/ \E p \in Providers, kind \in Edits : send_edit(p, kind)
  \/ \E s \in Servers, i \in 1 .. Len(commands), verdict \in Verdicts, outcome \in Outcomes :
       \/ \E p \in Providers : create_provider(s, i, p, verdict, outcome)
       \/ edit_provider(s, i, verdict, outcome)
  \/ \E s \in Servers, p \in Providers : read_provider(s, p)
  \/ provider_credentials
  \/ \E outcome \in Outcomes : test_provider(outcome)
  \/ Abandon
  \/ \E ring \in CredentialKeys, verify_only \in BOOLEAN : begin_rekey(ring, verify_only)
  \/ reencrypt_tenant
  \/ \E outcome \in Outcomes : finish_rekey(outcome)
  \/ fail_rekey
  \/ \E s \in Servers, ring \in CredentialKeys : start(s, ring)
  \/ \E s \in Servers : check_credential_keys(s) \/ stop(s)
  \/ destroy

Spec == Init /\ [][Next]_vars

-----------------------------------------------------------------------------
(***************************************************************************)
(* Properties.                                                             *)
(***************************************************************************)

(* The version a provider is at, 0 before there is one. *)
Version(p) == IF providers[p] = None THEN 0 ELSE providers[p].version

(* No stored secret is ever lost: whatever was rotated, written meanwhile,    *)
(* committed without anyone knowing or found good by a server's start, the    *)
(* keys that were not destroyed open every provider's secret, and it is the   *)
(* one that was stored with the provider's settings.                         *)
SecretsStayReadable ==
  \A p \in Providers : providers[p] # None =>
    /\ credentials[p].sealed.key_id \notin operator.destroyed
    /\ credentials[p].sealed.aad = <<p, providers[p].credential_version>>
    /\ credentials[p].sealed.secret = providers[p].settings

(* A secret is sent only to the provider it was stored for: the settings a    *)
(* process calls with and the secret it read later are of the same edit.     *)
(* A recorded test is of the very settings and secret that the version it     *)
(* names had.                                                                *)
TestedAsConfigured ==
  /\ flow.stage = "called" => flow.secret = flow.view.settings
  /\ \A n \in 1 .. Len(audit) : audit[n].action = "tested" =>
       \E m \in 1 .. n - 1 :
         /\ audit[m].provider = audit[n].provider
         /\ audit[m].action \in {"created", "update"}
         /\ audit[m].command = audit[n].command /\ audit[m].command = audit[n].secret
         /\ \A k \in m + 1 .. n - 1 :
              audit[k].provider = audit[n].provider => audit[k].action # "update"

(* What an administrator is told is what happened, and the audit log has it   *)
(* once: an edit answered 2xx is recorded exactly once, however often it was  *)
(* sent again; one refused without ever having been in doubt is not; and the  *)
(* events of a provider name its versions one after the other.               *)
AnsweredAsSettled ==
  /\ \A i \in 1 .. Len(commands) :
       LET command == commands[i]
           recorded == { n \in 1 .. Len(audit) : audit[n].command = i /\ audit[n].action # "tested" } IN
       /\ command.status = 200 => recorded # {}
       /\ command.status \in {Waiting, 400, 401, 409} /\ ~command.doubted => recorded = {}
       /\ command.kind # "create" => Cardinality(recorded) <= 1
  /\ \A p \in Providers :
       LET last == Version(p)
           changes == { n \in 1 .. Len(audit) : audit[n].provider = p /\ audit[n].action # "tested" } IN
       /\ \A n \in changes : audit[n].version \in 1 .. last
       /\ \A m, n \in changes : m < n => audit[m].version < audit[n].version
       /\ \A v \in 1 .. last : \E n \in changes : audit[n].version = v

(* The commands that took effect, by the events they recorded: an edit is one  *)
(* command however often it is sent, a creation makes a provider of its own    *)
(* for every attempt.  What was founded is of no command.                    *)
Effect(event) ==
  [ id |-> <<event.command, event.provider>>, object |-> event.provider,
    expected |-> commands[event.command].expected ]

Register == INSTANCE CommandRegister
              WITH Objects <- Providers, Ids <- (1 .. MaxCommands) \X Providers,
                   revision <- [p \in Providers |-> Version(p)],
                   effects <- { Effect(audit[n]) :
                                  n \in { m \in 1 .. Len(audit) :
                                            audit[m].command # 0 /\ audit[m].action # "tested" } }

(* An administrator's command takes effect once at most, on the version its    *)
(* sender saw, however its commits and answers are lost and whatever servers   *)
(* it is sent to again (edit_provider, create_provider); the audit log has     *)
(* every one, and only these move a version.                                 *)
CommandsTakeEffectOnce == Register!RegisterSpec
=============================================================================
