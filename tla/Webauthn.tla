------------------------------- MODULE Webauthn -------------------------------
(***************************************************************************)
(* Passkeys and the operation proofs made with them                        *)
(* (crates/identity-postgres: webauthn.rs, step_up.rs).                     *)
(*                                                                         *)
(* A ceremony is begun in one transaction, answered by an authenticator,    *)
(* and finished in two more: the first reads the ceremony, the answer is    *)
(* verified outside any transaction, the last reads everything again and    *)
(* commits.  A transaction holds the tenant guard, so it is one action; one *)
(* that rejects changes nothing and is a disabled action.                   *)
(*                                                                         *)
(* Abstractions.  One tenant and one relying party.  Only the order of      *)
(* events matters, so the clocks of ceremonies and grants and the age of a  *)
(* sign-in are the actions Expire, ExpireGrant and Age, which may come at   *)
(* any moment; a grant too old to authorise the end of a ceremony is a      *)
(* ceremony that expires.  A session lives until it ends for good, which    *)
(* SessionAuthority shows; a rotated credential ends the operation that     *)
(* holds it, and operations may stop at any time.  The host's policy may    *)
(* refuse, which is again an operation that stops.  The four permits of     *)
(* verify are left out: without one an operation stops.                     *)
(***************************************************************************)
EXTENDS Naturals, FiniteSets, FiniteSetsExt

CONSTANTS
  Accounts,         \* principals
  Sessions,         \* their sessions
  Owner,            \* the principal of each session
  Deployments,      \* server processes, each connecting once
  Configs,          \* fingerprints of relying party configurations
  Keys,             \* passkeys, each made in answer to one challenge
  Ceremonies,       \* ceremony ids, each used once
  Operations,       \* requests that finish a ceremony
  Purposes,         \* what proofs are asked for: "register", "recover", "remove", "host"
  MAX_CREDENTIALS,  \* passkeys of one account and configuration
  MAX_CEREMONIES,   \* ceremony rows of one account
  MAX_GRANTS,       \* grant rows of one account
  GenerationLimit,  \* bound on relying party generations
  CounterLimit,     \* bound on the signatures of all authenticators
  ProviderLimit,    \* bound on versions of the upstream provider
  None              \* no key, ceremony, session, configuration or deployment

ASSUME WebauthnAssumption ==
  /\ Owner \in [Sessions -> Accounts]
  /\ Purposes \subseteq {"register", "recover", "remove", "host"}
  /\ {MAX_CREDENTIALS, MAX_CEREMONIES, MAX_GRANTS, CounterLimit} \subseteq Nat
  /\ {GenerationLimit, ProviderLimit} \subseteq Nat \ {0}
  /\ None \notin Accounts \cup Keys \cup Ceremonies \cup Sessions \cup Configs \cup Deployments

VARIABLES
  rp,          \* webauthn_rp: fingerprint and generation, 0 before the first connect
  pinned,      \* what each deployment connected with
  enrolled,    \* webauthn_accounts.enrolled
  epoch,       \* webauthn_accounts.epoch
  credentials, \* webauthn_credentials by passkey
  ceremonies,  \* webauthn_ceremonies; of the rows deleted, those a passkey came of
  open,        \* the ids whose row exists
  grants,      \* step_up_grants
  live,        \* sessions that are still accepted
  recent,      \* sessions whose sign-in is less than 300 s old
  provider,    \* version of the upstream provider that also makes grants
  maker,       \* the challenge each passkey was made for
  signed,      \* assertions made by authenticators, for ceremonies that are open
  signatures,  \* how often each authenticator signed
  op,          \* what each operation holds between its transactions
  made         \* history: passkeys and grants that came of each ceremony

vars == <<rp, pinned, enrolled, epoch, credentials, ceremonies, open, grants, live, recent,
          provider, maker, signed, signatures, op, made>>

rows == <<enrolled, epoch, credentials, grants>>
environment == <<live, recent, provider>>
answers == <<signed, signatures>>
-----------------------------------------------------------------------------
(***************************************************************************)
(* State.                                                                  *)
(***************************************************************************)
Party == [config : Configs \cup {None}, generation : 0 .. GenerationLimit]
Unconnected == [config |-> None, generation |-> 0]

(* webauthn_management_context, and one context of the host's own. *)
Contexts ==
  [operation : {"register", "recover", "host"}, credential : {None}]
    \cup [operation : {"remove"}, credential : Keys]
(* A passkey's id is known once it is registered. *)
Asked == {x \in Contexts :
            /\ x.operation \in Purposes
            /\ x.operation = "remove" => credentials[x.credential].state = "valid"}
Context(o) == [operation |-> o, credential |-> None]
Removal(k) == [operation |-> "remove", credential |-> k]

(* GrantSource, the two authorisations of a registration without one, and     *)
(* the method alone of a registration that is over.                         *)
Sources ==
  [method : {"first", "host", "oidc", "webauthn"}, credential : {None}, epoch : {0}, configuration : {0}]
    \cup [method : {"oidc"}, credential : {None}, epoch : {0}, configuration : 1 .. ProviderLimit]
    \cup [method : {"webauthn"}, credential : Keys, epoch : Nat, configuration : 1 .. GenerationLimit]
Unproven(m) == [method |-> m, credential |-> None, epoch |-> 0, configuration |-> 0]

Grants == [session : Sessions, context : Contexts, source : Sources,
           ceremony : Ceremonies \cup {None}]

Credentials == [state : {"absent", "valid", "revoked"}, principal : Accounts \cup {None},
                config : Configs \cup {None}, epoch : Nat, version : Nat, counter : Nat]
Absent == [state |-> "absent", principal |-> None, config |-> None, epoch |-> 0,
           version |-> 0, counter |-> 0]

(* The kind of an unused id is "none"; `generation` is history. *)
Stored == [kind : {"none", "register", "authenticate", "gone"}, session : Sessions \cup {None},
           epoch : Nat, config : Configs \cup {None}, recover : BOOLEAN, source : Sources,
           context : Contexts, keys : SUBSET Keys, version : [Keys -> Nat], generation : Nat]
Unused == [kind |-> "none", session |-> None, epoch |-> 0, config |-> None, recover |-> FALSE,
           source |-> Unproven("first"), context |-> Context("host"), keys |-> {},
           version |-> [k \in Keys |-> 0], generation |-> 0]
Gone == [Unused EXCEPT !.kind = "gone"]
(* What is remembered of the ceremony a passkey came of. *)
Past(row) == [Gone EXCEPT !.source = Unproven(row.source.method), !.generation = row.generation]

Assertions == [ceremony : Ceremonies, key : Keys, counter : Nat]

Held == [deployment : Deployments \cup {None}, session : Sessions \cup {None},
         ceremony : Ceremonies \cup {None}, key : Keys \cup {None}, counter : Nat]
Idle == [deployment |-> None, session |-> None, ceremony |-> None, key |-> None, counter |-> 0]

(* Everything is of its type. *)
TypeOK ==
  /\ rp \in Party /\ pinned \in [Deployments -> Party]
  /\ enrolled \in [Accounts -> BOOLEAN] /\ epoch \in [Accounts -> Nat]
  /\ credentials \in [Keys -> Credentials]
  /\ ceremonies \in [Ceremonies -> Stored] /\ open \subseteq Ceremonies
  /\ grants \subseteq Grants
  /\ live \subseteq Sessions /\ recent \subseteq Sessions /\ provider \in 1 .. ProviderLimit
  /\ maker \in [Keys -> Ceremonies \cup {None}] /\ signed \subseteq Assertions
  /\ signatures \in [Keys -> Nat]
  /\ op \in [Operations -> Held] /\ made \in [Ceremonies -> Nat]

Init ==
  /\ rp = Unconnected /\ pinned = [d \in Deployments |-> Unconnected]
  /\ enrolled = [a \in Accounts |-> FALSE] /\ epoch = [a \in Accounts |-> 1]
  /\ credentials = [k \in Keys |-> Absent]
  /\ ceremonies = [c \in Ceremonies |-> Unused] /\ open = {}
  /\ grants = {}
  /\ live = Sessions /\ recent = Sessions /\ provider = 1
  /\ maker = [k \in Keys |-> None] /\ signed = {} /\ signatures = [k \in Keys |-> 0]
  /\ op = [o \in Operations |-> Idle] /\ made = [c \in Ceremonies |-> 0]
-----------------------------------------------------------------------------
(***************************************************************************)
(* What the transactions ask and do.                                       *)
(***************************************************************************)

(* check_configuration: the relying party is the one the process started with. *)
check_configuration(d) == pinned[d].generation # 0 /\ pinned[d] = rp

(* credentials: the account's passkeys under the deployment's settings. *)
Registered(d, a) ==
  {k \in Keys : /\ credentials[k].state = "valid" /\ credentials[k].principal = a
                /\ credentials[k].config = pinned[d].config}

(* The ceremony is not bound to the account's set of credentials. *)
Mutant_ReadAcrossEpochs(d, s, c) ==
  c \in open /\ ceremonies[c].session = s /\ ceremonies[c].config = pinned[d].config

(* read_loaded: the row exists, belongs to the session, and the account's     *)
(* credentials have not changed since.                                       *)
Readable(d, s, c) ==
  /\ c \in open
  /\ ceremonies[c].session = s
  /\ ceremonies[c].epoch = epoch[Owner[s]]
  /\ ceremonies[c].config = pinned[d].config

(* The proof of a grant is not looked at again. *)
Mutant_SourceOnTrust(a, source) == TRUE

(* validate_source: what proved the grant would be accepted today. *)
validate_source(a, source) ==
  CASE source.method = "oidc" -> source.configuration = provider
    [] source.method = "webauthn" ->
         LET k == credentials[source.credential] IN
         /\ k.state = "valid" /\ k.principal = a /\ k.epoch = source.epoch
         /\ k.config = rp.config /\ source.configuration = rp.generation
    [] OTHER -> FALSE

(* consume_step_up_on: the grant is the session's own, for this operation. *)
Spendable(s, context, g) ==
  /\ g \in grants /\ g.session = s /\ g.context = context
  /\ validate_source(Owner[s], g.source)

GrantsOf(a) == {g \in grants : Owner[g.session] = a}
OpenOf(a) == {c \in open : Owner[ceremonies[c].session] = a}

(* store: a new row, unless the account has too many. *)
store(c, row) ==
  /\ ceremonies[c].kind = "none"
  /\ Cardinality(OpenOf(Owner[row.session])) < MAX_CEREMONIES
  /\ ceremonies' = [ceremonies EXCEPT ![c] = row]
  /\ open' = open \cup {c}

(* The row of an assertion stays after its ceremony is done. *)
Mutant_Kept(c) == IF ceremonies[c].kind = "authenticate" THEN open ELSE open \ {c}

(* consume. *)
Consumed(c) == open \ {c}

(* The rows that are not `left` are deleted. *)
Close(left, remembered) ==
  /\ open' = left
  /\ ceremonies' = [c \in Ceremonies |->
       CASE c \notin open \ left -> ceremonies[c]
         [] c \in (open \ left) \cap remembered -> Past(ceremonies[c])
         [] OTHER -> Gone]
  /\ signed' = {x \in signed : x.ceremony \in left}

(* Revocation of a set of passkeys. *)
Revoked(ks) ==
  [k \in Keys |-> IF k \in ks THEN [credentials[k] EXCEPT !.state = "revoked", !.epoch = @ + 1]
                  ELSE credentials[k]]

Valid(a) == {k \in Keys : credentials[k].state = "valid" /\ credentials[k].principal = a}
-----------------------------------------------------------------------------
(***************************************************************************)
(* The relying party.                                                      *)
(***************************************************************************)

(* connect: the first one registers its configuration, the others must match. *)
connect(d, config) ==
  /\ pinned[d] = Unconnected
  /\ rp.config \in {None, config}
  /\ rp' = IF rp = Unconnected THEN [config |-> config, generation |-> 1] ELSE rp
  /\ pinned' = [pinned EXCEPT ![d] = rp']
  /\ UNCHANGED <<rows, environment, ceremonies, open, maker, answers, op, made>>

(* Ceremonies of before stay. *)
Mutant_CeremoniesSurvive(config) == open

(* The ceremonies that are left when a configuration is replaced. *)
Surviving(config) == {c \in open : ceremonies[c].config # config}

(* activate_webauthn_rp_on, by the owner of the deployment. *)
activate_webauthn_rp_on(config) ==
  /\ rp # Unconnected /\ rp.generation < GenerationLimit
  /\ rp' = [config |-> config, generation |-> rp.generation + 1]
  /\ Close(Surviving(rp.config), {})
  /\ credentials' = Revoked({k \in Keys : credentials[k].state = "valid"})
  /\ UNCHANGED <<pinned, enrolled, epoch, grants, environment, maker, signatures, op, made>>
-----------------------------------------------------------------------------
(***************************************************************************)
(* Ceremonies.                                                             *)
(***************************************************************************)

(* The account may enrol afresh once its last passkey is gone. *)
Mutant_MayEnrolAgain(s) == Valid(Owner[s]) = {} /\ s \in recent

(* RegistrationAuthorization::First. *)
MayEnrol(s) == ~enrolled[Owner[s]] /\ s \in recent

begin_registration(d, s, c, recover, source) ==
  /\ s \in live /\ check_configuration(d)
  /\ ~recover => Cardinality(Registered(d, Owner[s])) < MAX_CREDENTIALS
  /\ store(c, [Unused EXCEPT !.kind = "register", !.session = s, !.epoch = epoch[Owner[s]],
                             !.config = pinned[d].config, !.recover = recover, !.source = source,
                             !.generation = rp.generation])
  /\ UNCHANGED <<rp, pinned, enrolled, epoch, credentials, environment, maker, answers, op, made>>

begin_first(d, s, c) ==
  /\ MayEnrol(s)
  /\ begin_registration(d, s, c, FALSE, Unproven("first"))
  /\ UNCHANGED grants

begin_with_grant(d, s, c, recover, g) ==
  /\ Spendable(s, Context(IF recover THEN "recover" ELSE "register"), g)
  /\ begin_registration(d, s, c, recover, g.source)
  /\ grants' = grants \ {g}

begin_host_recovery(d, s, c) ==
  /\ begin_registration(d, s, c, TRUE, Unproven("host"))
  /\ UNCHANGED grants

begin_authentication(d, s, c, context) ==
  LET ks == Registered(d, Owner[s]) IN
  /\ s \in live /\ check_configuration(d)
  /\ ks # {}
  /\ store(c, [Unused EXCEPT !.kind = "authenticate", !.session = s, !.epoch = epoch[Owner[s]],
                             !.config = pinned[d].config, !.context = context, !.keys = ks,
                             !.version = [k \in Keys |-> IF k \in ks THEN credentials[k].version ELSE 0],
                             !.generation = rp.generation])
  /\ UNCHANGED <<rp, pinned, rows, environment, maker, answers, op, made>>

(* An authenticator makes a passkey for the challenge. *)
Attest(c, k) ==
  /\ c \in open /\ ceremonies[c].kind = "register" /\ maker[k] = None
  /\ maker' = [maker EXCEPT ![k] = c]
  /\ UNCHANGED <<rp, pinned, rows, environment, ceremonies, open, answers, op, made>>

(* The bound on signatures is reached. *)
Exhausted == MapThenSumSet(LAMBDA x : signatures[x], Keys) >= CounterLimit

(* An authenticator signs the challenge and counts its signatures. *)
Sign(c, k) ==
  LET n == signatures[k] + 1 IN
  /\ c \in open /\ k \in ceremonies[c].keys
  /\ ~Exhausted
  /\ signed' = signed \cup {[ceremony |-> c, key |-> k, counter |-> n]}
  /\ signatures' = [signatures EXCEPT ![k] = n]
  /\ UNCHANGED <<rp, pinned, rows, environment, ceremonies, open, maker, op, made>>

(* snapshot: the first transaction of a finish, with the answer in hand.  The *)
(* answer may be delivered again.                                            *)
snapshot(o, d, s, c, k, n) ==
  /\ op[o] = Idle
  /\ s \in live /\ check_configuration(d) /\ Readable(d, s, c)
  /\ IF ceremonies[c].kind = "register" THEN maker[k] = c /\ n = 0
     ELSE [ceremony |-> c, key |-> k, counter |-> n] \in signed
  /\ op' = [op EXCEPT ![o] = [deployment |-> d, session |-> s, ceremony |-> c, key |-> k,
                              counter |-> n]]
  /\ UNCHANGED <<rp, pinned, rows, environment, ceremonies, open, maker, answers, made>>

(* The last transaction of a finish reads it all again and uses up the row. *)
settle(o, kind) ==
  LET c == op[o].ceremony IN
  /\ op[o] # Idle
  /\ op[o].session \in live /\ check_configuration(op[o].deployment)
  /\ Readable(op[o].deployment, op[o].session, c) /\ ceremonies[c].kind = kind
  /\ Close(Consumed(c), IF kind = "register" THEN {c} ELSE {})
  /\ made' = [made EXCEPT ![c] = @ + 1]
  /\ op' = [op EXCEPT ![o] = Idle]
  /\ UNCHANGED <<rp, pinned, environment, maker, signatures>>

(* The registration is still authorised at its end. *)
Authorised(s, source) ==
  CASE source.method = "host" -> TRUE
    [] source.method = "first" -> s \in recent
    [] OTHER -> validate_source(Owner[s], source)

finish_registration(o) ==
  LET r == ceremonies[op[o].ceremony]
      k == op[o].key
      a == Owner[op[o].session]
  IN
  /\ settle(o, "register")
  /\ Authorised(op[o].session, r.source)
  /\ credentials[k].state = "absent"
  /\ credentials' = [Revoked(IF r.recover THEN Valid(a) ELSE {}) EXCEPT
                       ![k] = [state |-> "valid", principal |-> a, config |-> pinned[op[o].deployment].config,
                               epoch |-> 1, version |-> 1, counter |-> 0]]
  /\ enrolled' = [enrolled EXCEPT ![a] = TRUE]
  /\ epoch' = [epoch EXCEPT ![a] = @ + 1]
  /\ UNCHANGED grants

(* The update of the passkey does not compare its version. *)
Mutant_LastWriterWins(o) == credentials[op[o].key].state = "valid"

(* The passkey is the one the answer was verified against.  Its epoch, which   *)
(* the update compares too, moves only when it is revoked.                   *)
Unmoved(o) ==
  LET k == op[o].key IN
  /\ credentials[k].state = "valid"
  /\ credentials[k].version = ceremonies[op[o].ceremony].version[k]

finish_authentication(o) ==
  LET r == ceremonies[op[o].ceremony]
      k == op[o].key
  IN
  /\ settle(o, "authenticate")
  /\ Unmoved(o)
  /\ Cardinality(GrantsOf(Owner[op[o].session])) < MAX_GRANTS
  /\ credentials' = [credentials EXCEPT ![k].version = @ + 1, ![k].counter = op[o].counter]
  /\ grants' = grants \cup {[session |-> op[o].session, context |-> r.context,
                             ceremony |-> op[o].ceremony,
                             source |-> [method |-> "webauthn", credential |-> k,
                                         epoch |-> credentials[k].epoch,
                                         configuration |-> pinned[op[o].deployment].generation]]}
  /\ UNCHANGED <<enrolled, epoch>>

remove(d, s, k, g) ==
  /\ s \in live /\ check_configuration(d)
  /\ Spendable(s, Removal(k), g)
  /\ k \in Valid(Owner[s])
  /\ credentials' = Revoked({k})
  /\ epoch' = [epoch EXCEPT ![Owner[s]] = @ + 1]
  /\ grants' = grants \ {g}
  /\ UNCHANGED <<rp, pinned, enrolled, environment, ceremonies, open, maker, answers, op, made>>

cancel(d, s, c) ==
  /\ s \in live /\ Readable(d, s, c) /\ check_configuration(d)
  /\ Close(Consumed(c), {})
  /\ UNCHANGED <<rp, pinned, rows, environment, maker, signatures, op, made>>

(* consume_step_up_on in a transaction of the host's, for whatever operation   *)
(* the host performs.                                                        *)
consume_step_up_on(s, g) ==
  /\ s \in live /\ Spendable(s, g.context, g)
  /\ grants' = grants \ {g}
  /\ UNCHANGED <<rp, pinned, enrolled, epoch, credentials, environment, ceremonies, open, maker, answers, op, made>>

cancel_step_up(s, g) ==
  /\ s \in live /\ g \in grants /\ g.session = s
  /\ grants' = grants \ {g}
  /\ UNCHANGED <<rp, pinned, enrolled, epoch, credentials, environment, ceremonies, open, maker, answers, op, made>>
-----------------------------------------------------------------------------
(***************************************************************************)
(* The surroundings.                                                       *)
(***************************************************************************)

(* A request fails, is rejected, or its caller is gone. *)
Stop(o) ==
  /\ op[o] # Idle
  /\ op' = [op EXCEPT ![o] = Idle]
  /\ UNCHANGED <<rp, pinned, rows, environment, ceremonies, open, maker, answers, made>>

Expire(c) ==
  /\ c \in open /\ Close(open \ {c}, {})
  /\ UNCHANGED <<rp, pinned, rows, environment, maker, signatures, op, made>>

ExpireGrant(g) ==
  /\ grants' = grants \ {g}
  /\ UNCHANGED <<rp, pinned, enrolled, epoch, credentials, environment, ceremonies, open, maker, answers, op, made>>

(* A grant made by an upstream provider (Federation). *)
UpstreamGrant(s, context) ==
  LET g == [session |-> s, context |-> context, ceremony |-> None,
            source |-> [Unproven("oidc") EXCEPT !.configuration = provider]]
  IN
  /\ s \in live /\ g \notin grants /\ Cardinality(GrantsOf(Owner[s])) < MAX_GRANTS
  /\ grants' = grants \cup {g}
  /\ UNCHANGED <<rp, pinned, enrolled, epoch, credentials, environment, ceremonies, open, maker, answers, op, made>>

(* The provider's settings change, which withdraws its proofs (Federation). *)
ChangeProvider ==
  /\ provider < ProviderLimit /\ provider' = provider + 1
  /\ UNCHANGED <<rp, pinned, rows, live, recent, ceremonies, open, maker, answers, op, made>>

(* A sign-in is no longer recent, which is asked of it until its account has  *)
(* enrolled and not after, and a session ends (SessionAuthority) that a       *)
(* request is held for: another is one that sends no more requests.          *)
Age(s) ==
  /\ s \in recent /\ ~enrolled[Owner[s]]
  /\ recent' = recent \ {s}
  /\ UNCHANGED <<rp, pinned, rows, live, provider, ceremonies, open, maker, answers, op, made>>

EndSession(s) ==
  /\ s \in live /\ \E o \in Operations : op[o].session = s
  /\ live' = live \ {s}
  /\ UNCHANGED <<rp, pinned, rows, recent, provider, ceremonies, open, maker, answers, op, made>>

Next ==
  \/ \E d \in Deployments, config \in Configs : connect(d, config)
  \/ \E config \in Configs : activate_webauthn_rp_on(config)
  \/ \E d \in Deployments, s \in Sessions, c \in Ceremonies :
       \/ begin_first(d, s, c)
       \/ begin_host_recovery(d, s, c)
       \/ \E recover \in BOOLEAN, g \in grants : begin_with_grant(d, s, c, recover, g)
       \/ \E context \in Asked : begin_authentication(d, s, c, context)
       \/ cancel(d, s, c)
  \/ \E c \in Ceremonies, k \in Keys : Attest(c, k) \/ Sign(c, k)
  \/ \E o \in Operations, d \in Deployments, s \in Sessions, c \in Ceremonies, k \in Keys,
        n \in 0 .. CounterLimit : snapshot(o, d, s, c, k, n)
  \/ \E o \in Operations : finish_registration(o) \/ finish_authentication(o) \/ Stop(o)
  \/ \E d \in Deployments, s \in Sessions, k \in Keys, g \in grants : remove(d, s, k, g)
  \/ \E s \in Sessions, g \in grants : consume_step_up_on(s, g) \/ cancel_step_up(s, g)
  \/ \E c \in Ceremonies : Expire(c)
  \/ \E g \in grants : ExpireGrant(g)
  \/ \E s \in Sessions, context \in Asked : UpstreamGrant(s, context)
  \/ ChangeProvider
  \/ \E s \in Sessions : Age(s) \/ EndSession(s)

Spec == Init /\ [][Next]_vars
-----------------------------------------------------------------------------
(***************************************************************************)
(* Properties.                                                             *)
(***************************************************************************)

(* A ceremony ends in one passkey or one grant, however often and with        *)
(* whichever authenticator its challenge is answered.                        *)
AnsweredOnce == \A c \in Ceremonies : made[c] <= 1

(* The stored signature counter of a passkey never goes back, in whichever    *)
(* order two verified answers are committed: a copy of the authenticator      *)
(* stays detectable.                                                         *)
CountersOnlyGrow == [][\A k \in Keys : credentials'[k].counter >= credentials[k].counter]_vars

(* Only one passkey of an account is ever registered on a recent sign-in      *)
(* alone, also when the first ones are removed, lost or recovered.           *)
EnrolledOnce ==
  \A a \in Accounts :
    Cardinality({k \in Keys : /\ credentials[k].principal = a
                              /\ ceremonies[maker[k]].source.method = "first"}) <= 1

(* A passkey that is accepted was registered by a ceremony of the present      *)
(* generation of the relying party: none survives an activation, not even one *)
(* of the same configuration or one that finishes in a process of before.     *)
PasskeysOfThisGeneration ==
  \A k \in Keys : credentials[k].state = "valid" =>
    /\ credentials[k].config = rp.config
    /\ ceremonies[maker[k]].generation = rp.generation

Stands(source) ==
  CASE source.method = "oidc" -> source.configuration = provider
    [] source.method = "webauthn" -> credentials[source.credential].state = "valid"
    [] OTHER -> TRUE

(* A passkey is added or removed only while the proof that allows it stands,   *)
(* from the issue of the grant over the ceremony to its last transaction.     *)
ChangedOnStandingProof ==
  [][/\ \A k \in Keys : credentials[k].state = "absent" /\ credentials'[k].state = "valid" =>
          Stands(ceremonies[maker[k]].source)
     /\ \A g \in grants \ grants' : credentials' # credentials => Stands(g.source)]_vars
=============================================================================
