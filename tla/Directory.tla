------------------------------ MODULE Directory ------------------------------
(***************************************************************************)
(* What hosts and administrators read about a tenant's people              *)
(* (crates/identity-postgres: account_directory.rs, personnel.rs,           *)
(* session_reference.rs and their SQL), with the authentication facts of    *)
(* sessions (auth_facts.rs, groups.rs, department.rs) that the reads show.  *)
(*                                                                         *)
(* Reads depend on the clock: sessions, observations and departments begin  *)
(* and end without a write.  A reader who comes back (with a cursor, or     *)
(* with a revision it cached by) is told by two numbers whether what it saw *)
(* still stands: the generation, which triggers advance on writes, and      *)
(* valid_until, the next instant at which the clock alone changes the       *)
(* answer.  A read is one transaction under the tenant guard; it reads the  *)
(* clock once and takes time, so it ends at a later instant.                *)
(*                                                                         *)
(* Abstractions.  One identity provider, which is also the source queries   *)
(* name; every account that signed in through it stays bound to it.  The    *)
(* triggers advance the generation once a row, the model once a             *)
(* transaction.  The host's permissions are the reader's parameters, its    *)
(* word on platform sessions (requires_platform_check) is Platform's.  A     *)
(* cursor is authentic; its position is the last row's.                     *)
(***************************************************************************)
EXTENDS AccountPolicy, AccountListing

CONSTANTS
  Accounts,          \* principals, numbers in the order of their ids
  Founded,           \* the accounts there are at first
  Login,             \* login key of each account, Null where it has none
  Administrator,     \* an account with a login, signed in at first
  Parsed,            \* directory requests that are accepted, with their queries
  Selects(_, _),     \* a row meets a filter
  Permissions,       \* what the host lets readers of personnel see
  Claims,            \* department claims tokens carry
  Names,             \* display names a profile may have
  DepartmentMaxAge,  \* life of a department fact
  GroupFactsMaxAge,  \* life of a group fact
  ProfileMaxAge,     \* life of a profile observation
  TokenSeconds,      \* life of an identity token
  Skew,              \* seconds a token may be issued ahead of the clock
  Window,            \* longest validity of one read
  Policy,            \* the session policy
  MaxChain,          \* longest chain of parents in a department tree
  MaxSessions,       \* bound on sessions ever issued
  MaxGeneration,     \* bound on the generation
  MaxClock           \* bound on the clock

(* Reasons a token's claim gives for having no department. *)
ClaimReasons == {"not_configured", "claim_missing", "invalid_claim"}

ASSUME DirectoryAssumption ==
  /\ Accounts \subseteq Nat /\ Founded \subseteq Accounts /\ IsFiniteSet(Founded)
  /\ Login \in [Accounts -> Int \cup {Null}] /\ Names \subseteq Int
  /\ Administrator \in Founded /\ Login[Administrator] # Null
  /\ \A claim \in Claims : claim.kind \in {"snapshot"} \cup ClaimReasons
  /\ Permissions \subseteq [logins : BOOLEAN, profiles : {"none", "self_only", "all"}]
  /\ {DepartmentMaxAge, GroupFactsMaxAge, ProfileMaxAge, TokenSeconds, Window} \subseteq Nat \ {0}
  /\ {Skew, MaxChain, MaxSessions, MaxGeneration, MaxClock} \subseteq Nat
  /\ Policy \in SessionPolicy

(* A request that is accepted becomes a query for what it wants, ordered by    *)
(* columns that tell any two accounts apart.                                *)
ASSUME QueriesAssumption ==
  \A request \in DOMAIN Parsed :
    LET query == Parsed[request] IN
    /\ query.filter = request.wanted
    /\ query.sort \in Seq([field : Sortable, descending : BOOLEAN])
    /\ \E i \in 1 .. Len(query.sort) : query.sort[i].field = "principalId"
    /\ query.limit \in Nat \ {0}

(* A cursor: what it is bound to, when it ends, and the last row shown. *)
Cursor ==
  [ binding : [ session : Nat, generation : Nat, request : DOMAIN Parsed ],
    expires : Nat, position : Seq(Int \cup {Null}) ]

ASSUME CursorAssumption == Null \notin Cursor

VARIABLES
  now,           \* the database's clock
  accounts,      \* account and membership rows, Null before creation
  provider,      \* the provider's row
  observations,  \* profile_observations of the provider, one an account
  sessions,      \* sessions rows in the order of their facts_sequence
  generation,    \* guard.personnel_revision
  held           \* what a reader kept from its last read

vars == <<now, accounts, provider, observations, sessions, generation, held>>

-----------------------------------------------------------------------------
(***************************************************************************)
(* Authentication facts.  A fact is available within a window fixed by the   *)
(* signed token it came from, or has a reason why it never is.              *)
(***************************************************************************)
Unavailable(reason) == [ status |-> reason ]
Available(observed_at, expires_at, value) ==
  [ status |-> "available", observed_at |-> observed_at, expires_at |-> expires_at,
    value |-> value ]

(* acceptable_observation *)
acceptable_observation(observed_at, at) == observed_at > 0 /\ observed_at - at <= Skew

(* facts::expires_at: the token decides, not the time of the sign-in. *)
CanObserve(token, at) == acceptable_observation(token.issued_at, at) /\ at < token.expires_at
expires_at(max_age, token) == LeastOf(token.issued_at + max_age, token.expires_at)

(* DepartmentSnapshot::new: one root, and every chain of parents reaches it  *)
(* within MaxChain nodes; members are nodes.                                *)
Chain(parent, id) ==
  LET up[k \in 1 .. MaxChain + 1] ==
        IF k = 1 THEN id
        ELSE IF up[k - 1] \in DOMAIN parent THEN parent[up[k - 1]] ELSE up[k - 1]
  IN up

DepartmentSnapshot(s) ==
  /\ s.parent # << >>
  /\ Cardinality({ id \in DOMAIN s.parent : s.parent[id] = Null }) = 1
  /\ \A id \in DOMAIN s.parent : \E k \in 1 .. MaxChain + 1 : Chain(s.parent, id)[k] = Null
  /\ s.memberships \subseteq DOMAIN s.parent

(* DepartmentObservation::collect: a claim that is no tree is withheld, the  *)
(* sign-in goes on.                                                         *)
Departments(claim, token) ==
  CASE claim.kind = "snapshot" /\ DepartmentSnapshot(claim.snapshot) ->
         Available(token.issued_at, expires_at(DepartmentMaxAge, token), claim.snapshot)
    [] claim.kind = "snapshot" /\ ~DepartmentSnapshot(claim.snapshot) ->
         Unavailable("invalid_claim")
    [] OTHER -> Unavailable(claim.kind)

(* AuthenticationFacts::collect *)
AuthenticationFacts(claim, token) ==
  [ groups |-> Available(token.issued_at, expires_at(GroupFactsMaxAge, token), Null),
    department |-> Departments(claim, token) ]

NoFacts(reason) ==
  [ groups |-> Unavailable(reason), department |-> Unavailable(reason) ]

(* AuthenticationFacts::project and DepartmentFacts::new: the fact as a       *)
(* session shows it at `at`.                                                *)
project(fact, at) ==
  IF fact.status # "available" THEN fact
  ELSE IF at < fact.observed_at THEN Unavailable("not_yet_valid")
  ELSE IF at >= fact.expires_at THEN Unavailable("expired") ELSE fact

-----------------------------------------------------------------------------
(***************************************************************************)
(* Sessions, as by_id checks them.                                         *)
(***************************************************************************)
Present == { a \in Accounts : accounts[a] # Null }

ExactProvider(origin) ==
  /\ provider.enabled
  /\ provider.version = origin.version
  /\ provider.revocation_epoch = origin.revocation_epoch

(* The row speaks for its account's present generation. *)
OfThisGeneration(row) ==
  LET account == accounts[row.principal] IN
  /\ active(account)
  /\ row.auth_epoch = account.epoch
  /\ row.membership_epoch = account.membership_epoch

Live(s) ==
  LET row == sessions[s] IN
  /\ OfThisGeneration(row)
  /\ ~row.revoked
  /\ row.source # "local_password" => ExactProvider(row.origin)
  /\ valid_at(row.lifetime, now)

Expiry(s) ==
  LeastOf(sessions[s].lifetime.idle_expires_at, sessions[s].lifetime.absolute_expires_at)

(* identity_session_references (session_reference.sql), a relation of its    *)
(* own with the same intent.                                                *)
References ==
  { s \in 1 .. Len(sessions) :
      LET row == sessions[s] account == accounts[row.principal] IN
      /\ account.enabled /\ account.member_active
      /\ row.auth_epoch = account.epoch /\ row.membership_epoch = account.membership_epoch
      /\ ~row.revoked
      /\ row.lifetime.idle_expires_at > now /\ row.lifetime.absolute_expires_at > now
      /\ row.source \in {"oidc", "platform"} =>
           /\ provider.enabled
           /\ provider.revocation_epoch = row.origin.revocation_epoch
           /\ provider.version = row.origin.version }

-----------------------------------------------------------------------------
(***************************************************************************)
(* The relations over accounts.                                            *)
(***************************************************************************)
ObservationEnd(o) == LeastOf(o.expires_at, o.observed_at + ProfileMaxAge)

(* None is from the future when it is accepted (complete_login), so the       *)
(* clause of account-directory.sql for one that is never applies.            *)
ProfileStatus(a) ==
  LET o == observations[a] IN
  CASE ~active(accounts[a]) -> "unavailable"
    [] active(accounts[a]) /\ o = Null -> "missing"
    [] active(accounts[a]) /\ o # Null /\ ~ExactProvider(o.origin) -> "unavailable"
    [] OTHER -> IF ObservationEnd(o) <= now THEN "expired" ELSE "available"

(* The session whose facts speak for the account: the latest through the     *)
(* provider, ended or not; 0 where there is none.                           *)
Latest(a) ==
  LET through == { s \in 1 .. Len(sessions) :
                     sessions[s].principal = a /\ sessions[s].source = "oidc" }
  IN IF through = {} THEN 0 ELSE CHOOSE s \in through : \A t \in through : t <= s

(* A plausible slip: the last instant of a fact is one too late. *)
Mutant_DepartmentLinger(fact) ==
  CASE fact.status # "available" -> fact.status
    [] fact.status = "available" /\ fact.observed_at > now -> "not_yet_valid"
    [] OTHER -> IF fact.expires_at < now THEN "expired" ELSE "available"

FactStatus(fact) ==
  CASE fact.status # "available" -> fact.status
    [] fact.status = "available" /\ fact.observed_at > now -> "not_yet_valid"
    [] OTHER -> IF fact.expires_at <= now THEN "expired" ELSE "available"

DepartmentStatus(a) ==
  LET s == Latest(a) IN
  CASE ~active(accounts[a]) -> "unavailable"
    [] active(accounts[a]) /\ s = 0 -> "missing"
    [] OTHER -> IF ExactProvider(sessions[s].origin) /\ OfThisGeneration(sessions[s])
                THEN FactStatus(sessions[s].facts.department) ELSE "unavailable"

(* The departments an account is in, and with the ones above them. *)
Ancestors(s) ==
  LET up[k \in 1 .. MaxChain] ==
        IF k = 1 THEN s.memberships
        ELSE up[k - 1] \cup ({ s.parent[id] : id \in up[k - 1] } \ {Null})
  IN up[MaxChain]

NoDepartments == [ parent |-> << >>, memberships |-> {} ]

(* account_rows: a column the query does not need is "unavailable". *)
AccountRow(a, query) ==
  LET profile == IF needs_profiles(query) THEN ProfileStatus(a) ELSE "unavailable"
      department == IF needs_departments(query) THEN DepartmentStatus(a) ELSE "unavailable"
      snapshot == IF department = "available"
                  THEN sessions[Latest(a)].facts.department.value ELSE NoDepartments
  IN [ principalId |-> a, login |-> Login[a], enabled |-> Bool(accounts[a].enabled),
       memberActive |-> Bool(accounts[a].member_active),
       hasLocalPassword |-> Bool(Login[a] # Null),
       displayName |-> IF profile = "available" THEN observations[a].name ELSE Null,
       profileStatus |-> Text(profile), departmentStatus |-> Text(department),
       department |-> Null, departmentSubtree |-> Null,
       memberships |-> snapshot.memberships, ancestors |-> Ancestors(snapshot) ]

(* identity_personnel, for a reader who may see logins or not, and the        *)
(* profiles of `shown`.                                                      *)
Personnel(logins, shown) ==
  [ a \in Present |->
      LET o == observations[a]
          status == IF a \in shown THEN ProfileStatus(a) ELSE "unavailable" IN
      [ active |-> active(accounts[a]),
        login |-> IF logins /\ active(accounts[a]) THEN Login[a] ELSE Null,
        status |-> status,
        display_name |-> IF status = "available" THEN o.name ELSE Null,
        expires_at |-> IF a \in shown /\ o # Null THEN ObservationEnd(o) ELSE Null ] ]

-----------------------------------------------------------------------------
(***************************************************************************)
(* read_window: the next instant the clock alone may change the answer.     *)
(***************************************************************************)
SessionBoundaries ==
  UNION { {sessions[s].lifetime.idle_expires_at, sessions[s].lifetime.absolute_expires_at} :
            s \in { t \in 1 .. Len(sessions) : ~sessions[t].revoked } }

ProfileBoundaries ==
  UNION { {observations[a].expires_at, observations[a].observed_at + ProfileMaxAge} :
            a \in { b \in Accounts : observations[b] # Null } }

LatestDepartments ==
  { sessions[Latest(a)].facts.department : a \in { b \in Accounts : Latest(b) # 0 } }

(* A plausible slip: only the ends of departments are boundaries. *)
Mutant_EndsOnly ==
  { f.expires_at : f \in { g \in LatestDepartments : g.status = "available" } }

DepartmentBoundaries ==
  UNION { {f.observed_at, f.expires_at} :
            f \in { g \in LatestDepartments : g.status = "available" } }

(* A plausible slip: the answer stands as long as nothing is written. *)
Mutant_UntilWritten(profiles, departments, actor_until) ==
  LeastOf(actor_until, now + Window)

valid_until(profiles, departments, actor_until) ==
  LET boundaries ==
        SessionBoundaries \cup (IF profiles THEN ProfileBoundaries ELSE {})
          \cup (IF departments THEN DepartmentBoundaries ELSE {})
          \cup {actor_until, now + Window}
      ahead == { t \in boundaries : t > now }
  IN CHOOSE t \in ahead : \A u \in ahead : t <= u

(* The read ends at `last`, before its answer could be stale; its locks kept  *)
(* everything but the clock still.                                          *)
Ends(last, until) ==
  /\ last < until
  /\ now' = last
  /\ UNCHANGED <<accounts, provider, observations, sessions, generation>>

-----------------------------------------------------------------------------
(***************************************************************************)
(* Reads.                                                                  *)
(***************************************************************************)
NoRead == [ kind |-> "none" ]

(* What a cursor is good for: this session's query at this generation. *)
Binding(actor, request) ==
  [ session |-> actor, generation |-> generation, request |-> request ]

Position(row, sort) == [ i \in 1 .. Len(sort) |-> row[sort[i].field] ]

Resumes(cursor, actor, request) ==
  cursor # Null /\ cursor.binding = Binding(actor, request) /\ now < cursor.expires

Rows(query, wanted) ==
  { row \in { AccountRow(a, query) : a \in Present } : Selects(row, wanted) }

(* The accounts that are left to show from `position` on, in order. *)
Remaining(query, resume, position) ==
  Sorted({ row \in Rows(query, query.filter) : resume => after(row, position, query.sort) },
         query.sort)

(* list_accounts: `held` remembers the pages a client put together. *)
list_accounts(actor, request, resume, last) ==
  LET query == Parsed[request] IN
  /\ Live(actor)
  /\ resume => held.kind = "listing" /\ Resumes(held.cursor, actor, request)
  /\ \E left \in {Remaining(query, resume, IF resume THEN held.cursor.position ELSE << >>)},
        until \in {valid_until(needs_profiles(query), needs_departments(query), Expiry(actor))} :
       LET size == LeastOf(query.limit, Len(left)) IN
       /\ held' = [ kind |-> "listing", request |-> request,
                    rows |-> (IF resume THEN held.rows ELSE << >>)
                               \o [ i \in 1 .. size |-> left[i].principalId ],
                    cursor |-> IF Len(left) <= query.limit THEN Null
                               ELSE [ binding |-> Binding(actor, request), expires |-> until,
                                      position |-> Position(left[size], query.sort) ] ]
       /\ Ends(last, until)

(* PersonnelProfileScope: whose profiles the reader may see. *)
InScope(profiles, reader) ==
  CASE profiles = "none" -> {} [] profiles = "self_only" -> {reader} [] profiles = "all" -> Accounts

(* with_personnel_read: the host's policy lets the reader see logins or not, *)
(* and everyone's profile, its own, or none.                                *)
with_personnel_read(actor, permission, last) ==
  LET shown == InScope(permission.profiles, sessions[actor].principal) IN
  /\ Live(actor)
  /\ \E until \in {valid_until(TRUE, FALSE, Expiry(actor))} :
       /\ held' = [ kind |-> "personnel", generation |-> generation, valid_until |-> until,
                    logins |-> permission.logins, shown |-> shown,
                    personnel |-> Personnel(permission.logins, shown),
                    references |-> References ]
       /\ Ends(last, until)

(* with_session_references_read: no reader, and no other relation. *)
with_session_references_read(last) ==
  \E until \in {valid_until(FALSE, FALSE, now + Window)} :
    /\ held' = [ kind |-> "references", generation |-> generation, valid_until |-> until,
                 references |-> References ]
    /\ Ends(last, until)

(* recheck_session_reference: the facts of a session, kept by a host. *)
recheck_session_reference(s) ==
  /\ Live(s)
  /\ held' = [ kind |-> "facts", session |-> s, proof |-> Expiry(s),
               groups |-> project(sessions[s].facts.groups, now),
               department |-> project(sessions[s].facts.department, now) ]
  /\ UNCHANGED <<now, accounts, provider, observations, sessions, generation>>

(* TrustedGroups::values, TrustedDepartmentSnapshot::snapshot: a kept fact   *)
(* is still given out.                                                      *)
values(fact) == fact.status = "available" /\ now < held.proof /\ now < fact.expires_at

-----------------------------------------------------------------------------
(***************************************************************************)
(* Writes, and what the triggers do with them.                             *)
(***************************************************************************)

(* advance_personnel_revision *)
Advance == generation < MaxGeneration /\ generation' = generation + 1

create_account(a) ==
  /\ a \notin Present
  /\ accounts' = [accounts EXCEPT ![a] = NewAccount(Login[a] # Null)]
  /\ Advance
  /\ UNCHANGED <<now, provider, observations, sessions, held>>

SessionRow(a, account, source, facts) ==
  [ principal |-> a, source |-> source, auth_epoch |-> account.epoch,
    membership_epoch |-> account.membership_epoch,
    origin |-> [ version |-> provider.version, revocation_epoch |-> provider.revocation_epoch ],
    lifetime |-> NewLifetime(now, Policy), revoked |-> FALSE, facts |-> facts ]

Issued(a, source, facts) ==
  /\ active(accounts[a])
  /\ Len(sessions) < MaxSessions
  /\ sessions' = Append(sessions, SessionRow(a, accounts[a], source, facts))
  /\ Advance

login_local(a) ==
  /\ a \in Present /\ Login[a] # Null
  /\ Issued(a, "local_password", NoFacts("local_identity"))
  /\ UNCHANGED <<now, accounts, provider, observations, held>>

complete_platform_login(a) ==
  /\ a \in Present /\ provider.enabled
  /\ Issued(a, "platform", NoFacts("not_configured"))
  /\ UNCHANGED <<now, accounts, provider, observations, held>>

(* complete: the session with its facts, and the profile unless it is from   *)
(* the future, over, or older than the one observed.                        *)
complete_login(a, claim, token, name) ==
  LET o == [ origin |-> [ version |-> provider.version,
                          revocation_epoch |-> provider.revocation_epoch ],
             observed_at |-> token.issued_at, name |-> name,
             expires_at |-> LeastOf(expires_at(ProfileMaxAge, token), now + Policy.absolute) ]
      old == observations[a]
  IN /\ a \in Present /\ provider.enabled
     /\ CanObserve(token, now)
     /\ Issued(a, "oidc", AuthenticationFacts(claim, token))
     /\ observations' =
          IF /\ o.observed_at <= now /\ now < o.expires_at
             /\ old # Null /\ old.origin.version = o.origin.version
                  => old.observed_at <= o.observed_at
          THEN [observations EXCEPT ![a] = o] ELSE observations
     /\ UNCHANGED <<now, accounts, provider, held>>

(* touch: the idle expiry moves, the generation does not. *)
touch(s) ==
  /\ Live(s)
  /\ sessions' = [sessions EXCEPT ![s].lifetime = Renewed(@, now)]
  /\ UNCHANGED <<now, accounts, provider, observations, generation, held>>

close(s) ==
  /\ ~sessions[s].revoked
  /\ sessions' = [sessions EXCEPT ![s].revoked = TRUE]
  /\ Advance
  /\ UNCHANGED <<now, accounts, provider, observations, held>>

change_account(a, change) ==
  /\ a \in Present
  /\ CanChange(accounts[a], change)
  /\ accounts' = [accounts EXCEPT ![a] = Changed(@, change)]
  /\ Advance
  /\ UNCHANGED <<now, provider, observations, sessions, held>>

edit_provider(enabled, settings) ==
  /\ provider' = [ enabled |-> enabled, version |-> provider.version + 1,
                   revocation_epoch |-> IF settings \/ enabled # provider.enabled
                                        THEN provider.revocation_epoch + 1
                                        ELSE provider.revocation_epoch ]
  /\ Advance
  /\ UNCHANGED <<now, accounts, observations, sessions, held>>

Tick ==
  /\ now < MaxClock
  /\ now' = now + 1
  /\ UNCHANGED <<accounts, provider, observations, sessions, generation, held>>

-----------------------------------------------------------------------------
Init ==
  /\ now = 1
  /\ accounts = [ a \in Accounts |-> IF a \in Founded THEN NewAccount(Login[a] # Null) ELSE Null ]
  /\ provider = [ enabled |-> TRUE, version |-> 1, revocation_epoch |-> 1 ]
  /\ observations = [ a \in Accounts |-> Null ]
  /\ sessions = <<SessionRow(Administrator, new_local, "local_password",
                            NoFacts("local_identity"))>>
  /\ generation = 1
  /\ held = NoRead

Tokens == { [ issued_at |-> t, expires_at |-> t + TokenSeconds ] : t \in now - 1 .. now + Skew }

Next ==
  \/ \E actor \in 1 .. Len(sessions), request \in DOMAIN Parsed, resume \in BOOLEAN,
         last \in now .. MaxClock :
       list_accounts(actor, request, resume, last)
  \/ \E actor \in 1 .. Len(sessions), permission \in Permissions, last \in now .. MaxClock :
       with_personnel_read(actor, permission, last)
  \/ \E last \in now .. MaxClock : with_session_references_read(last)
  \/ \E s \in 1 .. Len(sessions) :
       recheck_session_reference(s) \/ touch(s) \/ close(s)
  \/ \E a \in Accounts :
       create_account(a) \/ login_local(a) \/ complete_platform_login(a)
  \/ \E a \in Accounts, claim \in Claims, token \in Tokens, name \in Names :
       complete_login(a, claim, token, name)
  \/ \E a \in Accounts, change \in LocalChange : change_account(a, change)
  \/ \E enabled, settings \in BOOLEAN : edit_provider(enabled, settings)
  \/ Tick

Spec == Init /\ [][Next]_vars

-----------------------------------------------------------------------------
(***************************************************************************)
(* Properties.                                                             *)
(***************************************************************************)

(* The pages a client holds are how the list it asked for begins, and all of  *)
(* it when no cursor came with the last one.                                *)
HeldIsThePrefix ==
  LET query == Parsed[held.request] IN
  \A rows \in {Rows(query, held.request.wanted)} : \A whole \in {Sorted(rows, query.sort)} :
    /\ Len(held.rows) <= Len(whole)
    /\ \A i \in 1 .. Len(held.rows) : held.rows[i] = whole[i].principalId
    /\ held.cursor = Null <=> Len(held.rows) = Len(whole)

(* The pages a client collects with one cursor after another are one list:   *)
(* whenever a page arrives, all of them together are how the whole list      *)
(* of what it wants begins at that moment, and the whole of it when no cursor *)
(* came along.                                                               *)
(* No account is skipped or shown twice, accounts without a value in a sort   *)
(* column included, whatever was written and however long the client waited. *)
PagesMakeOneList ==
  [][held' # held /\ held'.kind = "listing" => HeldIsThePrefix']_vars

(* Until valid_until, an unchanged generation means an unchanged answer: a   *)
(* host that kept a revision may keep what it read under it, although idle   *)
(* expiries move without advancing the generation.                           *)
RevisionsPinTheRelation ==
  held.kind \in {"personnel", "references"} /\ held.generation = generation
    /\ now < held.valid_until =>
      /\ held.references = References
      /\ held.kind = "personnel" => held.personnel = Personnel(held.logins, held.shown)

(* The relations in SQL and the session checks in Rust agree: a host that    *)
(* joins session references sees the sessions a recheck would accept, and     *)
(* the directory shows of an account's department what the account's own      *)
(* latest session shows.  What a host kept of a session's facts is given out  *)
(* only while a new reading of the session would show it.                    *)
ReadersAgree ==
  /\ References = { s \in 1 .. Len(sessions) : Live(s) }
  /\ \A a \in Present :
       LET s == Latest(a) IN
       s # 0 /\ Live(s) =>
         DepartmentStatus(a) = project(sessions[s].facts.department, now).status
  /\ held.kind = "facts" =>
       LET facts == sessions[held.session].facts IN
       /\ values(held.groups) => project(facts.groups, now) = facts.groups
       /\ values(held.department) => project(facts.department, now) = facts.department
=============================================================================
