---------------------- MODULE ProviderCredentialsProofs ----------------------
(***************************************************************************)
(* Proofs about providers' secrets, their administration and the rotation    *)
(* of their keys, for every number of tenants, providers, servers, keys,     *)
(* keyrings, commands and tests.                                            *)
(***************************************************************************)
EXTENDS ProviderCredentials, SequenceTheorems, FiniteSetTheorems, TLAPS

(* What an audit event may be. *)
Actions == {"created", "update", "enable", "disable", "tested"}
AuditEvent ==
  [ provider : Providers, action : Actions, version : Nat, command : Nat, secret : Nat \cup {None} ]

(* A provider and its secret: stored together, bound to each other, and under *)
(* a key there is.                                                          *)
ProviderOK(p) ==
  LET row == providers[p] stored == credentials[p] IN
  /\ row \in Provider \cup {None} /\ stored \in ProviderCredential \cup {None}
  /\ (row = None) <=> (stored = None)
  /\ row # None =>
       /\ stored.credential_version = row.credential_version
       /\ stored.sealed.aad = <<p, row.credential_version>>
       /\ stored.sealed.secret = row.settings

KeyKept(p) == credentials[p] # None => credentials[p].sealed.key_id \notin operator.destroyed

(* Processes hold keyrings the owner configured. *)
ServerOK(s) ==
  /\ servers[s].pc \in {"stopped", "checking", "running"}
  /\ servers[s].pc # "stopped" => servers[s].ring \in CredentialKeys
  /\ servers[s].pc = "checking" => servers[s].checked \in Nat

RekeyOK ==
  /\ rekey.pc \in {"idle", "verify", "rekey"} /\ rekey.locked \in Nat
  /\ rekey.pc # "idle" => rekey.ring \in CredentialKeys

(* Every secret of the first n tenants is under `key`, and so is every write  *)
(* there may be.                                                            *)
AllUnder(key, n) ==
  /\ Writers \subseteq {key}
  /\ \A p \in Providers :
       credentials[p] # None /\ TenantOf[p] <= n => credentials[p].sealed.key_id = key

CheckOK(s) ==
  servers[s].pc = "checking" /\ servers[s].clean =>
    /\ servers[s].ring.keys = {servers[s].ring.active}
    /\ AllUnder(servers[s].ring.active, servers[s].checked)

VerifyOK ==
  rekey.pc = "verify" /\ rekey.clean =>
    /\ rekey.ring.keys = {rekey.ring.active}
    /\ AllUnder(rekey.ring.active, rekey.locked)

KeysInv ==
  /\ operator.destroyed \subseteq Keys
  /\ Writers \cap operator.destroyed = {}
  /\ operator.verified # None => AllUnder(operator.verified, Tenants)

(* What a connection test has read is of a version the provider has had, and  *)
(* is the present edit if the version is the present one.                   *)
FlowOK ==
  LET p == flow.provider IN
  /\ flow.stage \in {"idle", "viewed", "called"}
  /\ flow.stage # "idle" =>
       /\ p \in Providers /\ providers[p] # None /\ flow.view \in Provider
       /\ flow.view.version <= providers[p].version
       /\ flow.view.version = providers[p].version => flow.view.settings = providers[p].settings
       /\ flow.view.credential_version <= providers[p].credential_version
       /\ flow.view.credential_version = providers[p].credential_version =>
            flow.view.settings = providers[p].settings
  /\ flow.stage = "called" => flow.secret = flow.view.settings /\ flow.secret \in Nat

(* The n-th event is that of command c, the last to store settings before the *)
(* end-th.                                                                  *)
StoredBy(p, c, n, end) ==
  /\ audit[n].provider = p /\ audit[n].action \in {"created", "update"} /\ audit[n].command = c
  /\ \A k \in n + 1 .. end : audit[k].provider = p => audit[k].action # "update"

StoredOK(p) ==
  providers[p] # None => \E n \in 1 .. Len(audit) : StoredBy(p, providers[p].settings, n, Len(audit))

TestOK(n) ==
  audit[n].action = "tested" =>
    \E m \in 1 .. n - 1 :
      StoredBy(audit[n].provider, audit[n].command, m, n - 1) /\ audit[m].command = audit[n].secret

(* The events of a provider name its versions one after the other. *)
Change(n, p) == n \in 1 .. Len(audit) /\ audit[n].provider = p /\ audit[n].action # "tested"

VersionsOK(p) ==
  /\ \A n \in 1 .. Len(audit) : Change(n, p) => audit[n].version \in 1 .. Version(p)
  /\ \A m, n \in 1 .. Len(audit) :
       Change(m, p) /\ Change(n, p) /\ m < n => audit[m].version < audit[n].version
  /\ \A v \in 1 .. Version(p) : \E n \in 1 .. Len(audit) : Change(n, p) /\ audit[n].version = v

EditKinds == {"update", "enable", "disable"}
AdminCommand ==
  [ tenant : 1 .. Tenants, kind : EditKinds \cup {"create"}, provider : Providers \cup {None},
    expected : Nat, status : Nat, doubted : BOOLEAN ]

(* A command's events name the version after the one its sender saw; as long  *)
(* as it is not in doubt it has none before it is answered 200.             *)
Records(n, i) == audit[n].command = i /\ audit[n].action # "tested"

CommandOK(i) ==
  LET command == commands[i] IN
  /\ command.kind # "create" =>
       /\ command.provider \in Providers /\ providers[command.provider] # None
       /\ \A n \in 1 .. Len(audit) : Records(n, i) =>
            audit[n].provider = command.provider /\ audit[n].version = command.expected + 1
  /\ command.status = 503 => command.doubted
  /\ command.status = 200 => \E n \in 1 .. Len(audit) : Records(n, i)
  /\ command.status \in {Waiting, 400, 401, 409} /\ ~command.doubted =>
       \A n \in 1 .. Len(audit) : ~Records(n, i)

TypesInv ==
  /\ DOMAIN providers = Providers /\ DOMAIN credentials = Providers
  /\ DOMAIN servers = Servers
  /\ audit \in Seq(AuditEvent)
  /\ commands \in Seq(AdminCommand)
  /\ \A n \in 1 .. Len(audit) : audit[n].command <= Len(commands)

CredentialsInv ==
  /\ TypesInv
  /\ \A p \in Providers : ProviderOK(p) /\ KeyKept(p) /\ StoredOK(p) /\ VersionsOK(p)
  /\ \A s \in Servers : ServerOK(s) /\ CheckOK(s)
  /\ RekeyOK /\ VerifyOK /\ KeysInv /\ FlowOK
  /\ \A n \in 1 .. Len(audit) : TestOK(n)
  /\ \A i \in 1 .. Len(commands) : CommandOK(i)

-----------------------------------------------------------------------------
(* Keys. *)
LEMMA Assumed ==
  /\ \A p \in Providers : TenantOf[p] \in 1 .. Tenants /\ TenantOf[p] \in Nat
  /\ Founded \subseteq Providers /\ IsFiniteSet(Founded) /\ FirstKey \in Keys
  /\ \A ring \in CredentialKeys : ring.active \in Keys /\ ring.active \in ring.keys
  /\ Tenants \in Nat
  BY CredentialsAssumption DEF CredentialKeys

LEMMA TheWriters ==
  /\ \A s \in Servers : servers[s].pc # "stopped" => servers[s].ring.active \in Writers
  /\ rekey.pc = "rekey" => rekey.ring.active \in Writers
  BY DEF Writers

LEMMA NewWriters ==
  ASSUME NEW W,
         \A s \in Servers : servers'[s].pc # "stopped" => servers'[s].ring.active \in W,
         rekey'.pc = "rekey" => rekey'.ring.active \in W
  PROVE  Writers' \subseteq W
  BY DEF Writers

LEMMA FirstWriters ==
  ASSUME NEW W,
         \A s \in Servers : servers[s].pc # "stopped" => servers[s].ring.active \in W,
         rekey.pc = "rekey" => rekey.ring.active \in W
  PROVE  Writers \subseteq W
  BY DEF Writers

(* Every secret is as it was, or under a key somebody writes with. *)
KeyWrites ==
  \A p \in Providers : credentials'[p] # None =>
    \/ credentials[p] # None /\ credentials'[p].sealed.key_id = credentials[p].sealed.key_id
    \/ credentials'[p].sealed.key_id \in Writers

LEMMA AllUnderKept ==
  ASSUME KeyWrites, NEW key, NEW n, Writers' \subseteq {key}, AllUnder(key, n)
  PROVE  AllUnder(key, n)'
  BY DEF KeyWrites, AllUnder

LEMMA KeyKeptKept ==
  ASSUME KeyWrites, KeysInv, operator' = operator, \A p \in Providers : KeyKept(p)
  PROVE  \A p \in Providers : KeyKept(p)'
  BY DEF KeyWrites, KeysInv, KeyKept

KeysAll ==
  /\ \A p \in Providers : KeyKept(p)
  /\ \A s \in Servers : ServerOK(s) /\ CheckOK(s)
  /\ RekeyOK /\ VerifyOK /\ KeysInv

(* Steps that write secrets and leave processes and owner alone. *)
Administers == KeyWrites /\ UNCHANGED <<servers, rekey, operator>>

LEMMA AdministersKeys ==
  ASSUME KeysAll, Administers
  PROVE  KeysAll'
  <1>1. Writers' = Writers
    BY DEF Administers, Writers
  <1>2. \A key, n : AllUnder(key, n) => AllUnder(key, n)'
    <2> SUFFICES ASSUME NEW key, NEW n, AllUnder(key, n) PROVE AllUnder(key, n)'
      OBVIOUS
    <2>1. Writers' \subseteq {key}
      BY <1>1 DEF AllUnder
    <2> QED BY <2>1, AllUnderKept DEF Administers
  <1>3. \A p \in Providers : KeyKept(p)'
    BY KeyKeptKept DEF Administers, KeysAll
  <1>4. KeysInv'
    BY <1>1, <1>2 DEF KeysAll, KeysInv, Administers
  <1>5. ASSUME NEW s \in Servers PROVE ServerOK(s)' /\ CheckOK(s)'
    <2>1. servers'[s] = servers[s] /\ ServerOK(s) /\ CheckOK(s)
      BY DEF Administers, KeysAll
    <2>2. ServerOK(s)'
      BY <2>1 DEF ServerOK
    <2>3. AllUnder(servers[s].ring.active, servers[s].checked)
            => AllUnder(servers[s].ring.active, servers[s].checked)'
      BY <1>2, <2>1 DEF Administers
    <2> QED BY <2>1, <2>2, <2>3 DEF CheckOK
  <1>6. RekeyOK' /\ VerifyOK'
    BY <1>2 DEF KeysAll, Administers, RekeyOK, VerifyOK
  <1> QED BY <1>3, <1>4, <1>5, <1>6 DEF KeysAll

(* Fewer writers break no check. *)
LEMMA ChecksKept ==
  ASSUME KeyWrites, Writers' \subseteq Writers
  PROVE  \A key, n : AllUnder(key, n) => AllUnder(key, n)'
  <1> SUFFICES ASSUME NEW key, NEW n, AllUnder(key, n) PROVE AllUnder(key, n)'
    OBVIOUS
  <1>1. Writers' \subseteq {key}
    BY DEF AllUnder
  <1> QED BY <1>1, AllUnderKept

LEMMA ServerKept ==
  ASSUME NEW s \in Servers, servers'[s] = servers[s], ServerOK(s), CheckOK(s),
         \A key, n : AllUnder(key, n) => AllUnder(key, n)'
  PROVE  ServerOK(s)' /\ CheckOK(s)'
  <1>1. ServerOK(s)'
    BY DEF ServerOK
  <1>2. ASSUME NEW row, row = servers[s], row = servers'[s] PROVE CheckOK(s)'
    <2>1. AllUnder(row.ring.active, row.checked) => AllUnder(row.ring.active, row.checked)'
      OBVIOUS
    <2> QED BY <1>2, <2>1 DEF CheckOK
  <1> QED BY <1>1, <1>2

LEMMA RekeyKept ==
  ASSUME rekey' = rekey, RekeyOK, VerifyOK, \A key, n : AllUnder(key, n) => AllUnder(key, n)'
  PROVE  RekeyOK' /\ VerifyOK'
  <1>1. RekeyOK'
    BY DEF RekeyOK
  <1>2. ASSUME NEW row, row = rekey, row = rekey' PROVE VerifyOK'
    <2>1. AllUnder(row.ring.active, row.locked) => AllUnder(row.ring.active, row.locked)'
      OBVIOUS
    <2> QED BY <1>2, <2>1 DEF VerifyOK
  <1> QED BY <1>1, <1>2

LEMMA OperatorKept ==
  ASSUME KeyWrites, Writers' \subseteq Writers, operator' = operator, KeysInv,
         \A p \in Providers : KeyKept(p)
  PROVE  KeysInv' /\ \A p \in Providers : KeyKept(p)'
  <1>1. \A key, n : AllUnder(key, n) => AllUnder(key, n)'
    BY ChecksKept
  <1>2. ASSUME NEW key, key = operator.verified, key = operator'.verified
        PROVE  (operator.verified # None => AllUnder(operator.verified, Tenants))'
    <2>1. AllUnder(key, Tenants) => AllUnder(key, Tenants)'
      BY <1>1
    <2> QED BY <1>2, <2>1 DEF KeysInv
  <1>3. KeysInv'
    <2>1. (operator.verified # None => AllUnder(operator.verified, Tenants))'
      BY <1>2
    <2>2. (operator.destroyed \subseteq Keys /\ Writers \cap operator.destroyed = {})'
      BY DEF KeysInv
    <2> QED BY <2>1, <2>2 DEF KeysInv
  <1> QED BY <1>3, KeyKeptKept

(* What a check that finds the tenant's secrets authentic has learnt. *)
LEMMA LearnsTenant ==
  ASSUME NEW ring \in CredentialKeys, ring.keys = {ring.active}, NEW n \in Nat,
         AllUnder(ring.active, n), Authentic(ring, n + 1)
  PROVE  AllUnder(ring.active, n + 1)
  <1> SUFFICES ASSUME NEW p \in Providers, credentials[p] # None, TenantOf[p] <= n + 1
               PROVE  credentials[p].sealed.key_id = ring.active
    BY DEF AllUnder
  <1>1. CASE TenantOf[p] <= n
    BY <1>1 DEF AllUnder
  <1>2. CASE TenantOf[p] = n + 1
    <2>1. credentials[p].sealed.key_id \in ring.keys
      BY <1>2 DEF Authentic, Of, open
    <2> QED BY <2>1
  <1> QED BY <1>1, <1>2, Assumed

LEMMA NothingYet ==
  ASSUME NEW key, Writers \subseteq {key}
  PROVE  AllUnder(key, 0)
  BY Assumed DEF AllUnder

LEMMA AllTenants ==
  ASSUME NEW key, NEW n \in Nat, AllUnder(key, n), n >= Tenants
  PROVE  AllUnder(key, Tenants)
  BY Assumed DEF AllUnder

LEMMA StopKeys ==
  ASSUME TypesInv, KeysAll, NEW s \in Servers, stop(s)
  PROVE  KeysAll'
  <1>1. /\ servers' = [servers EXCEPT ![s] = Stopped] /\ DOMAIN servers = Servers
        /\ UNCHANGED <<credentials, rekey, operator>>
    BY DEF stop, TypesInv
  <1>2. servers'[s].pc = "stopped" /\ \A r \in Servers : r # s => servers'[r] = servers[r]
    BY <1>1 DEF Stopped
  <1>3. KeyWrites
    BY <1>1 DEF KeyWrites
  <1>4. Writers' \subseteq Writers
    BY <1>1, <1>2, NewWriters, TheWriters
  <1>5. \A key, n : AllUnder(key, n) => AllUnder(key, n)'
    BY <1>3, <1>4, ChecksKept
  <1>6. ASSUME NEW r \in Servers PROVE ServerOK(r)' /\ CheckOK(r)'
    <2>1. CASE r = s
      BY <1>2, <2>1 DEF ServerOK, CheckOK
    <2>2. CASE r # s
      BY <1>2, <1>5, <2>2, ServerKept DEF KeysAll
    <2> QED BY <2>1, <2>2
  <1>7. RekeyOK' /\ VerifyOK'
    BY <1>1, <1>5, RekeyKept DEF KeysAll
  <1>8. KeysInv' /\ \A p \in Providers : KeyKept(p)'
    BY <1>1, <1>3, <1>4, OperatorKept DEF KeysAll
  <1> QED BY <1>6, <1>7, <1>8 DEF KeysAll

(* The end of a rotation that does not conclude anything. *)
LEMMA RekeyEnds ==
  ASSUME KeysAll, KeyWrites, rekey' = NoRekey, UNCHANGED <<servers, operator>>
  PROVE  KeysAll'
  <1>1. Writers' \subseteq Writers
    BY NewWriters, TheWriters DEF NoRekey
  <1>2. \A key, n : AllUnder(key, n) => AllUnder(key, n)'
    BY <1>1, ChecksKept
  <1>3. ASSUME NEW r \in Servers PROVE ServerOK(r)' /\ CheckOK(r)'
    BY <1>2, ServerKept DEF KeysAll
  <1>4. RekeyOK' /\ VerifyOK'
    BY DEF RekeyOK, VerifyOK, NoRekey
  <1>5. KeysInv' /\ \A p \in Providers : KeyKept(p)'
    BY <1>1, OperatorKept DEF KeysAll
  <1> QED BY <1>3, <1>4, <1>5 DEF KeysAll

LEMMA ReencryptKeys ==
  ASSUME KeysAll, reencrypt_tenant
  PROVE  KeysAll'
  <1>1. /\ rekey.pc # "idle" /\ rekey.locked + 1 <= Tenants
        /\ UNCHANGED <<credentials, servers, operator>>
    BY DEF reencrypt_tenant
  <1>2. KeyWrites
    BY <1>1 DEF KeyWrites
  <1>3. CASE rekey' = NoRekey
    BY <1>1, <1>2, <1>3, RekeyEnds
  <1>4. CASE /\ rekey' = [rekey EXCEPT !.locked = rekey.locked + 1]
             /\ Authentic(rekey.ring, rekey.locked + 1)
    <2>1. /\ rekey'.pc = rekey.pc /\ rekey'.ring = rekey.ring /\ rekey'.clean = rekey.clean
          /\ rekey'.locked = rekey.locked + 1
      BY <1>4
    <2>2. Writers' = Writers
      BY <1>1, <2>1 DEF Writers
    <2>3. \A key, n : AllUnder(key, n) => AllUnder(key, n)'
      BY <1>2, <2>2, ChecksKept
    <2>4. ASSUME NEW r \in Servers PROVE ServerOK(r)' /\ CheckOK(r)'
      BY <1>1, <2>3, ServerKept DEF KeysAll
    <2>5. RekeyOK'
      BY <2>1 DEF RekeyOK, KeysAll
    <2>6. VerifyOK'
      <3> SUFFICES ASSUME rekey.pc = "verify", rekey.clean PROVE VerifyOK'
        BY <2>1 DEF VerifyOK
      <3>1. /\ rekey.ring.keys = {rekey.ring.active} /\ AllUnder(rekey.ring.active, rekey.locked)
            /\ rekey.locked \in Nat /\ rekey.ring \in CredentialKeys
        BY DEF KeysAll, VerifyOK, RekeyOK
      <3>2. AllUnder(rekey.ring.active, rekey.locked + 1)
        BY <1>4, <3>1, LearnsTenant
      <3>3. ASSUME NEW key, key = rekey.ring.active, NEW n, n = rekey.locked + 1 PROVE VerifyOK'
        <4>1. AllUnder(key, n)'
          BY <2>3, <3>2, <3>3
        <4> QED BY <2>1, <3>1, <3>3, <4>1 DEF VerifyOK
      <3> QED BY <3>3
    <2>7. KeysInv' /\ \A p \in Providers : KeyKept(p)'
      BY <1>1, <1>2, <2>2, OperatorKept DEF KeysAll
    <2> QED BY <2>4, <2>5, <2>6, <2>7 DEF KeysAll
  <1> QED BY <1>3, <1>4 DEF reencrypt_tenant

LEMMA ReencryptedRow ==
  ASSUME NEW ring, NEW p, NEW row
  PROVE  \/ reencrypt_value(ring, p, row) = row /\ row.sealed.key_id = ring.active
         \/ reencrypt_value(ring, p, row).sealed.key_id = ring.active
  BY DEF reencrypt_value, Credential, seal

LEMMA FinishKeys ==
  ASSUME TypesInv, KeysAll, NEW outcome \in Outcomes, finish_rekey(outcome)
  PROVE  KeysAll'
  <1>1. /\ rekey.pc # "idle" /\ rekey.locked = Tenants /\ rekey' = NoRekey
        /\ UNCHANGED servers /\ RekeyOK
    BY DEF finish_rekey, KeysAll
  <1>2. CASE rekey.pc = "verify"
    <2>1. UNCHANGED credentials /\ Concluded(rekey.ring, rekey.clean)
      BY <1>2 DEF finish_rekey
    <2>2. KeyWrites
      BY <2>1 DEF KeyWrites
    <2>3. CASE ~rekey.clean
      BY <1>1, <2>1, <2>2, <2>3, RekeyEnds DEF Concluded
    <2>4. CASE rekey.clean
      <3>1. operator' = [operator EXCEPT !.verified = rekey.ring.active]
        BY <2>1, <2>4 DEF Concluded
      <3>2. Writers' \subseteq Writers
        BY <1>1, NewWriters, TheWriters DEF NoRekey
      <3>3. \A key, n : AllUnder(key, n) => AllUnder(key, n)'
        BY <2>2, <3>2, ChecksKept
      <3>4. ASSUME NEW r \in Servers PROVE ServerOK(r)' /\ CheckOK(r)'
        BY <1>1, <3>3, ServerKept DEF KeysAll
      <3>5. RekeyOK' /\ VerifyOK'
        BY <1>1 DEF RekeyOK, VerifyOK, NoRekey
      <3>6. operator'.destroyed = operator.destroyed /\ operator'.verified = rekey.ring.active
        BY <3>1
      <3>7. ASSUME NEW key, key = rekey.ring.active PROVE AllUnder(key, Tenants)'
        BY <1>1, <1>2, <2>4, <3>3, <3>7 DEF KeysAll, VerifyOK
      <3>8. KeysInv'
        <4>1. AllUnder(operator.verified, Tenants)'
          BY <3>6, <3>7
        <4>2. (operator.destroyed \subseteq Keys /\ Writers \cap operator.destroyed = {})'
          BY <3>2, <3>6 DEF KeysInv, KeysAll
        <4> QED BY <4>1, <4>2 DEF KeysInv
      <3>9. \A p \in Providers : KeyKept(p)'
        BY <2>1, <3>6 DEF KeysAll, KeyKept
      <3> QED BY <3>4, <3>5, <3>8, <3>9 DEF KeysAll
    <2> QED BY <2>3, <2>4
  <1>3. CASE rekey.pc # "verify"
    <2>1. /\ credentials' = [ p \in Providers |->
               IF Applied(outcome) /\ credentials[p] # None
               THEN reencrypt_value(rekey.ring, p, credentials[p]) ELSE credentials[p] ]
          /\ UNCHANGED operator
      BY <1>3 DEF finish_rekey
    <2>2. rekey.ring.active \in Writers
      BY <1>1, <1>3, TheWriters DEF RekeyOK
    <2>3. KeyWrites
      <3> SUFFICES ASSUME NEW p \in Providers, credentials'[p] # None
                   PROVE  \/ credentials[p] # None
                             /\ credentials'[p].sealed.key_id = credentials[p].sealed.key_id
                          \/ credentials'[p].sealed.key_id \in Writers
        BY DEF KeyWrites
      <3>1. \/ credentials'[p] = credentials[p]
            \/ credentials[p] # None /\ credentials'[p] = reencrypt_value(rekey.ring, p, credentials[p])
        BY <2>1
      <3> QED BY <2>2, <3>1, ReencryptedRow
    <2> QED BY <1>1, <2>1, <2>3, RekeyEnds
  <1> QED BY <1>2, <1>3

(* A process that starts to write spoils the checks of other keys. *)
LEMMA SpoiltCheck ==
  ASSUME NEW check, NEW key, NEW new, new = Spoilt(check, key)
  PROVE  /\ new.pc = check.pc /\ new.ring = check.ring
         /\ new.checked = check.checked /\ new.locked = check.locked
         /\ check.pc \in {"checking", "verify"} /\ new.clean => check.clean /\ check.ring.active = key
  <1>1. CASE check.pc \in {"checking", "verify"} /\ check.ring.active # key
    BY <1>1 DEF Spoilt
  <1>2. CASE ~(check.pc \in {"checking", "verify"} /\ check.ring.active # key)
    BY <1>2 DEF Spoilt
  <1> QED BY <1>1, <1>2

LEMMA KeptUnder ==
  ASSUME UNCHANGED credentials, NEW key, Writers' \subseteq Writers \cup {key}
  PROVE  \A n : AllUnder(key, n) => AllUnder(key, n)'
  <1>1. KeyWrites
    BY DEF KeyWrites
  <1> SUFFICES ASSUME NEW n, AllUnder(key, n) PROVE AllUnder(key, n)'
    OBVIOUS
  <1>2. Writers' \subseteq {key}
    BY DEF AllUnder
  <1> QED BY <1>1, <1>2, AllUnderKept

LEMMA SpoiltServer ==
  ASSUME NEW s \in Servers, NEW key, servers'[s] = Spoilt(servers[s], key),
         ServerOK(s), CheckOK(s), \A n : AllUnder(key, n) => AllUnder(key, n)'
  PROVE  ServerOK(s)' /\ CheckOK(s)'
  <1>1. /\ servers'[s].pc = servers[s].pc /\ servers'[s].ring = servers[s].ring
        /\ servers'[s].checked = servers[s].checked
        /\ servers[s].pc = "checking" /\ servers'[s].clean
             => servers[s].clean /\ servers[s].ring.active = key
    BY SpoiltCheck
  <1>2. ServerOK(s)'
    BY <1>1 DEF ServerOK
  <1>3. ASSUME NEW n, n = servers[s].checked PROVE CheckOK(s)'
    <2> SUFFICES ASSUME servers[s].pc = "checking", servers'[s].clean PROVE CheckOK(s)'
      BY <1>1 DEF CheckOK
    <2>1. servers[s].ring.keys = {key} /\ servers[s].ring.active = key /\ AllUnder(key, n)
      BY <1>1, <1>3 DEF CheckOK
    <2>2. AllUnder(key, n)'
      BY <2>1
    <2>3. /\ servers'[s].ring.keys = {servers'[s].ring.active}
          /\ servers'[s].ring.active = key /\ servers'[s].checked = n
      BY <1>1, <1>3, <2>1
    <2>4. AllUnder(servers[s].ring.active, servers[s].checked)'
      BY <2>2, <2>3
    <2> QED BY <2>3, <2>4 DEF CheckOK
  <1> QED BY <1>2, <1>3

LEMMA SpoiltVerify ==
  ASSUME NEW key, rekey' = Spoilt(rekey, key),
         RekeyOK, VerifyOK, \A n : AllUnder(key, n) => AllUnder(key, n)'
  PROVE  RekeyOK' /\ VerifyOK'
  <1>1. /\ rekey'.pc = rekey.pc /\ rekey'.ring = rekey.ring /\ rekey'.locked = rekey.locked
        /\ rekey.pc = "verify" /\ rekey'.clean => rekey.clean /\ rekey.ring.active = key
    BY SpoiltCheck
  <1>2. RekeyOK'
    BY <1>1 DEF RekeyOK
  <1>3. ASSUME NEW n, n = rekey.locked PROVE VerifyOK'
    <2> SUFFICES ASSUME rekey.pc = "verify", rekey'.clean PROVE VerifyOK'
      BY <1>1 DEF VerifyOK
    <2>1. rekey.ring.keys = {key} /\ rekey.ring.active = key /\ AllUnder(key, n)
      BY <1>1, <1>3 DEF VerifyOK
    <2>2. AllUnder(key, n)'
      BY <2>1
    <2>3. /\ rekey'.ring.keys = {rekey'.ring.active}
          /\ rekey'.ring.active = key /\ rekey'.locked = n
      BY <1>1, <1>3, <2>1
    <2>4. AllUnder(rekey.ring.active, rekey.locked)'
      BY <2>2, <2>3
    <2> QED BY <2>3, <2>4 DEF VerifyOK
  <1> QED BY <1>2, <1>3

LEMMA DoubtedKeys ==
  ASSUME NEW key, Doubted(key), KeysInv, \A n : AllUnder(key, n) => AllUnder(key, n)',
         Writers' \subseteq Writers \cup {key}, key \notin operator.destroyed,
         UNCHANGED credentials, \A p \in Providers : KeyKept(p)
  PROVE  KeysInv' /\ \A p \in Providers : KeyKept(p)'
  <1>1. /\ operator'.destroyed = operator.destroyed
        /\ operator'.verified # None => operator'.verified = key /\ operator.verified = key
    BY DEF Doubted
  <1>2. (operator.destroyed \subseteq Keys /\ Writers \cap operator.destroyed = {})'
    BY <1>1 DEF KeysInv
  <1>3. ASSUME operator'.verified # None PROVE AllUnder(operator.verified, Tenants)'
    <2>1. AllUnder(key, Tenants)'
      BY <1>1, <1>3 DEF KeysInv
    <2> QED BY <1>1, <1>3, <2>1
  <1>4. KeysInv'
    BY <1>2, <1>3 DEF KeysInv
  <1> QED BY <1>1, <1>4 DEF KeyKept

LEMMA BeginKeys ==
  ASSUME TypesInv, KeysAll, NEW ring \in CredentialKeys, NEW verify_only \in BOOLEAN,
         begin_rekey(ring, verify_only)
  PROVE  KeysAll'
  <1> DEFINE key == ring.active
  <1>1. /\ rekey.pc = "idle" /\ ring.keys \cap operator.destroyed = {}
        /\ rekey' = [ pc |-> IF verify_only THEN "verify" ELSE "rekey", locked |-> 0, ring |-> ring,
                      clean |-> verify_only /\ Alone(ring) ]
        /\ UNCHANGED credentials
    BY DEF begin_rekey
  <1>2. key \notin operator.destroyed
    BY <1>1, Assumed
  <1>3. /\ rekey'.locked = 0 /\ rekey'.ring = ring
        /\ rekey'.pc = IF verify_only THEN "verify" ELSE "rekey"
    BY <1>1
  <1>4. rekey'.clean => verify_only /\ Alone(ring)
    BY <1>1, Zenon
  <1>5. RekeyOK'
    BY <1>3 DEF RekeyOK
  <1>6. KeyWrites
    BY <1>1 DEF KeyWrites
  <1>7. CASE verify_only
    <2>1. UNCHANGED <<servers, operator>>
      BY <1>7 DEF begin_rekey
    <2>2. Writers' \subseteq Writers
      BY <1>3, <1>7, <2>1, NewWriters, TheWriters
    <2>3. \A k, n : AllUnder(k, n) => AllUnder(k, n)'
      BY <1>6, <2>2, ChecksKept
    <2>4. VerifyOK'
      <3> SUFFICES ASSUME rekey'.clean PROVE VerifyOK'
        BY DEF VerifyOK
      <3>1. ring.keys = {key} /\ Writers \subseteq {key}
        BY <1>4 DEF Alone
      <3>2. AllUnder(key, 0)'
        BY <2>3, <3>1, NothingYet
      <3>3. AllUnder(rekey.ring.active, rekey.locked)'
        BY <1>3, <3>2
      <3> QED BY <1>3, <3>1, <3>3 DEF VerifyOK
    <2>5. ASSUME NEW r \in Servers PROVE ServerOK(r)' /\ CheckOK(r)'
      BY <2>1, <2>3, ServerKept DEF KeysAll
    <2>6. KeysInv' /\ \A p \in Providers : KeyKept(p)'
      BY <1>6, <2>1, <2>2, OperatorKept DEF KeysAll
    <2> QED BY <1>5, <2>4, <2>5, <2>6 DEF KeysAll
  <1>8. CASE ~verify_only
    <2>1. servers' = [ s \in Servers |-> Spoilt(servers[s], key) ] /\ Doubted(key)
      BY <1>8 DEF begin_rekey
    <2>2. \A s \in Servers : servers'[s].pc = servers[s].pc /\ servers'[s].ring = servers[s].ring
      BY <2>1, SpoiltCheck
    <2>3. Writers' \subseteq Writers \cup {key}
      BY <1>3, <2>2, NewWriters, TheWriters
    <2> HIDE DEF key
    <2>4. \A n : AllUnder(key, n) => AllUnder(key, n)'
      BY <1>1, <2>3, KeptUnder
    <2>5. ASSUME NEW r \in Servers PROVE ServerOK(r)' /\ CheckOK(r)'
      BY <2>1, <2>4, SpoiltServer DEF KeysAll
    <2>6. VerifyOK'
      BY <1>3, <1>8 DEF VerifyOK
    <2>7. KeysInv' /\ \A p \in Providers : KeyKept(p)'
      BY <1>1, <1>2, <2>1, <2>3, <2>4, DoubtedKeys DEF KeysAll
    <2> QED BY <1>5, <2>5, <2>6, <2>7 DEF KeysAll
  <1> QED BY <1>7, <1>8

LEMMA StartKeys ==
  ASSUME TypesInv, KeysAll, NEW s \in Servers, NEW ring \in CredentialKeys, start(s, ring)
  PROVE  KeysAll'
  <1> DEFINE key == ring.active
             new == [ pc |-> "checking", ring |-> ring, checked |-> 0, clean |-> Alone(ring) ]
  <1>1. /\ servers[s].pc = "stopped" /\ ring.keys \cap operator.destroyed = {}
        /\ servers' = [ r \in Servers |-> IF r # s THEN Spoilt(servers[r], key) ELSE new ]
        /\ rekey' = Spoilt(rekey, key) /\ Doubted(key) /\ UNCHANGED credentials
    BY DEF start
  <1>2. key \notin operator.destroyed
    BY <1>1, Assumed
  <1>3. servers'[s] = new /\ \A r \in Servers : r # s => servers'[r] = Spoilt(servers[r], key)
    BY <1>1
  <1>4. new.pc = "checking" /\ new.ring = ring /\ new.checked = 0
    OBVIOUS
  <1>5. new.clean => Alone(ring)
    BY Zenon
  <1> HIDE DEF key, new
  <1>6. \A r \in Servers : r # s =>
          servers'[r].pc = servers[r].pc /\ servers'[r].ring = servers[r].ring
    BY <1>3, SpoiltCheck
  <1>7. rekey'.pc = rekey.pc /\ rekey'.ring = rekey.ring
    BY <1>1, SpoiltCheck
  <1>8. Writers' \subseteq Writers \cup {key}
    <2>1. \A r \in Servers : servers'[r].pc # "stopped" => servers'[r].ring.active \in Writers \cup {key}
      <3> SUFFICES ASSUME NEW r \in Servers, servers'[r].pc # "stopped"
                   PROVE  servers'[r].ring.active \in Writers \cup {key}
        OBVIOUS
      <3>1. CASE r = s
        BY <1>3, <1>4, <3>1 DEF key
      <3>2. CASE r # s
        BY <1>6, <3>2, TheWriters
      <3> QED BY <3>1, <3>2
    <2>2. rekey'.pc = "rekey" => rekey'.ring.active \in Writers \cup {key}
      BY <1>7, TheWriters
    <2> QED BY <2>1, <2>2, NewWriters
  <1>9. \A n : AllUnder(key, n) => AllUnder(key, n)'
    BY <1>1, <1>8, KeptUnder
  <1>10. ASSUME NEW r \in Servers, r # s PROVE ServerOK(r)' /\ CheckOK(r)'
    BY <1>3, <1>9, <1>10, SpoiltServer DEF KeysAll
  <1>11. ServerOK(s)' /\ CheckOK(s)'
    <2>1. ServerOK(s)'
      BY <1>3, <1>4 DEF ServerOK
    <2> SUFFICES ASSUME new.clean PROVE CheckOK(s)'
      BY <1>3, <2>1 DEF CheckOK
    <2>2. ring.keys = {key} /\ Writers \subseteq {key}
      BY <1>5 DEF Alone, key
    <2>3. AllUnder(key, 0)'
      BY <1>9, <2>2, NothingYet
    <2>4. servers'[s].ring.active = key /\ servers'[s].checked = 0 /\ servers'[s].ring.keys = {key}
      BY <1>3, <1>4, <2>2 DEF key
    <2>5. AllUnder(servers[s].ring.active, servers[s].checked)'
      BY <2>3, <2>4
    <2> QED BY <2>4, <2>5 DEF CheckOK
  <1>12. RekeyOK' /\ VerifyOK'
    BY <1>1, <1>9, SpoiltVerify DEF KeysAll
  <1>13. KeysInv' /\ \A p \in Providers : KeyKept(p)'
    BY <1>1, <1>2, <1>8, <1>9, DoubtedKeys DEF KeysAll
  <1> QED BY <1>10, <1>11, <1>12, <1>13 DEF KeysAll

LEMMA CheckKeys ==
  ASSUME TypesInv, KeysAll, NEW s \in Servers, check_credential_keys(s)
  PROVE  KeysAll'
  <1> DEFINE t == servers[s].checked + 1
             ring == servers[s].ring
  <1>1. /\ servers[s].pc = "checking" /\ UNCHANGED <<credentials, rekey>> /\ DOMAIN servers = Servers
        /\ ServerOK(s) /\ CheckOK(s) /\ ring \in CredentialKeys /\ servers[s].checked \in Nat
    BY DEF check_credential_keys, TypesInv, KeysAll, ServerOK
  <1>2. KeyWrites
    BY <1>1 DEF KeyWrites
  <1>3. ASSUME NEW new, servers' = [servers EXCEPT ![s] = new],
               new.pc # "stopped" => new.ring = ring
        PROVE  /\ servers'[s] = new /\ \A r \in Servers : r # s => servers'[r] = servers[r]
               /\ Writers' \subseteq Writers
               /\ \A key, n : AllUnder(key, n) => AllUnder(key, n)'
               /\ \A r \in Servers : r # s => ServerOK(r)' /\ CheckOK(r)'
               /\ RekeyOK' /\ VerifyOK'
               /\ operator' = operator => KeysInv' /\ \A p \in Providers : KeyKept(p)'
    <2>1. servers'[s] = new /\ \A r \in Servers : r # s => servers'[r] = servers[r]
      BY <1>1, <1>3
    <2>2. Writers' \subseteq Writers
      BY <1>1, <1>3, <2>1, NewWriters, TheWriters
    <2>3. \A key, n : AllUnder(key, n) => AllUnder(key, n)'
      BY <1>2, <2>2, ChecksKept
    <2>4. \A r \in Servers : r # s => ServerOK(r)' /\ CheckOK(r)'
      BY <2>1, <2>3, ServerKept DEF KeysAll
    <2>5. RekeyOK' /\ VerifyOK'
      BY <1>1, <2>3, RekeyKept DEF KeysAll
    <2>6. operator' = operator => KeysInv' /\ \A p \in Providers : KeyKept(p)'
      BY <1>2, <2>2, OperatorKept DEF KeysAll
    <2> QED BY <2>1, <2>2, <2>3, <2>4, <2>5, <2>6
  <1>4. CASE t > Tenants
    <2> DEFINE new == [ pc |-> "running", ring |-> ring ]
    <2>1. servers' = [servers EXCEPT ![s] = new] /\ Concluded(ring, servers[s].clean)
      BY <1>4 DEF check_credential_keys
    <2>2. new.pc = "running" /\ new.ring = ring
      OBVIOUS
    <2> HIDE DEF new
    <2>3. ServerOK(s)' /\ CheckOK(s)'
      BY <1>1, <1>3, <2>1, <2>2 DEF ServerOK, CheckOK
    <2>4. \A key, n : AllUnder(key, n) => AllUnder(key, n)'
      BY <1>3, <2>1, <2>2
    <2>5. Writers' \subseteq Writers
      BY <1>3, <2>1, <2>2
    <2>6. KeysInv' /\ \A p \in Providers : KeyKept(p)'
      <3>1. CASE ~servers[s].clean
        BY <1>3, <2>1, <2>2, <3>1 DEF Concluded
      <3>2. CASE servers[s].clean
        <4>1. operator' = [operator EXCEPT !.verified = ring.active]
          BY <2>1, <3>2 DEF Concluded
        <4>2. operator'.destroyed = operator.destroyed /\ operator'.verified = ring.active
          BY <4>1
        <4>3. ASSUME NEW key, key = ring.active PROVE AllUnder(key, Tenants)'
          <5>1. AllUnder(key, servers[s].checked)
            BY <1>1, <3>2, <4>3 DEF CheckOK
          <5>2. AllUnder(key, Tenants)
            BY <1>1, <1>4, <5>1, AllTenants, Assumed
          <5> QED BY <2>4, <5>2
        <4>4. AllUnder(operator.verified, Tenants)'
          BY <4>2, <4>3
        <4>5. (operator.destroyed \subseteq Keys /\ Writers \cap operator.destroyed = {})'
          BY <2>5, <4>2 DEF KeysInv, KeysAll
        <4>6. \A p \in Providers : KeyKept(p)'
          BY <1>1, <4>2 DEF KeysAll, KeyKept
        <4> QED BY <4>4, <4>5, <4>6 DEF KeysInv
      <3> QED BY <3>1, <3>2
    <2> QED BY <1>3, <2>1, <2>2, <2>3, <2>6 DEF KeysAll
  <1>5. CASE ~(t > Tenants)
    <2>1. /\ servers' = [servers EXCEPT ![s] = IF Authentic(ring, t)
                           THEN [servers[s] EXCEPT !.checked = t] ELSE Stopped]
          /\ operator' = operator
      BY <1>5 DEF check_credential_keys
    <2>2. CASE ~Authentic(ring, t)
      <3>1. servers' = [servers EXCEPT ![s] = Stopped] /\ Stopped.pc = "stopped"
        BY <2>1, <2>2 DEF Stopped
      <3>2. ServerOK(s)' /\ CheckOK(s)'
        BY <1>3, <3>1 DEF ServerOK, CheckOK
      <3> QED BY <1>3, <2>1, <3>1, <3>2 DEF KeysAll
    <2>3. CASE Authentic(ring, t)
      <3> DEFINE new == [servers[s] EXCEPT !.checked = t]
      <3>1. servers' = [servers EXCEPT ![s] = new]
        BY <2>1, <2>3
      <3>2. /\ new.pc = servers[s].pc /\ new.ring = ring /\ new.clean = servers[s].clean
            /\ new.checked = t
        OBVIOUS
      <3> HIDE DEF new
      <3>3. servers'[s] = new /\ \A key, n : AllUnder(key, n) => AllUnder(key, n)'
        BY <1>3, <3>1, <3>2
      <3>4. ServerOK(s)'
        BY <1>1, <3>2, <3>3 DEF ServerOK
      <3>5. ASSUME NEW key, key = ring.active, NEW n, n = t PROVE CheckOK(s)'
        <4> SUFFICES ASSUME servers[s].clean PROVE CheckOK(s)'
          BY <3>2, <3>3 DEF CheckOK
        <4>1. ring.keys = {key} /\ AllUnder(key, servers[s].checked)
          BY <1>1, <3>5 DEF CheckOK
        <4>2. AllUnder(key, n)
          BY <1>1, <2>3, <3>5, <4>1, LearnsTenant
        <4>3. AllUnder(key, n)'
          BY <3>3, <4>2
        <4>4. /\ servers'[s].ring.active = key /\ servers'[s].checked = n
              /\ servers'[s].ring.keys = {key}
          BY <3>2, <3>3, <3>5, <4>1
        <4>5. AllUnder(servers[s].ring.active, servers[s].checked)'
          BY <4>3, <4>4
        <4> QED BY <4>4, <4>5 DEF CheckOK
      <3> QED BY <1>3, <2>1, <3>1, <3>2, <3>4, <3>5 DEF KeysAll
    <2> QED BY <2>2, <2>3
  <1> QED BY <1>4, <1>5

LEMMA DestroyKeys ==
  ASSUME KeysAll, destroy
  PROVE  KeysAll'
  <1> DEFINE key == operator.verified
  <1>1. /\ key # None /\ Writers \subseteq {key}
        /\ operator' = [operator EXCEPT !.destroyed = operator.destroyed \cup (Keys \ {key})]
        /\ UNCHANGED <<credentials, servers, rekey>>
    BY DEF destroy
  <1>2. operator'.verified = key /\ operator'.destroyed = operator.destroyed \cup (Keys \ {key})
    BY <1>1
  <1>3. KeyWrites
    BY <1>1 DEF KeyWrites
  <1>4. Writers' = Writers
    BY <1>1 DEF Writers
  <1>5. \A k, n : AllUnder(k, n) => AllUnder(k, n)'
    BY <1>3, <1>4, ChecksKept
  <1>6. AllUnder(key, Tenants)
    BY <1>1 DEF KeysAll, KeysInv
  <1>7. \A p \in Providers : KeyKept(p)'
    BY <1>1, <1>2, <1>6, Assumed DEF KeysAll, KeyKept, AllUnder
  <1>8. KeysInv'
    <2>1. ASSUME NEW k, k = key PROVE AllUnder(operator.verified, Tenants)'
      <3>1. AllUnder(k, Tenants)'
        BY <1>5, <1>6, <2>1
      <3> QED BY <1>2, <2>1, <3>1
    <2>2. (operator.destroyed \subseteq Keys /\ Writers \cap operator.destroyed = {})'
      BY <1>1, <1>2, <1>4 DEF KeysAll, KeysInv
    <2> QED BY <2>1, <2>2 DEF KeysInv
  <1>9. ASSUME NEW r \in Servers PROVE ServerOK(r)' /\ CheckOK(r)'
    BY <1>1, <1>5, ServerKept DEF KeysAll
  <1>10. RekeyOK' /\ VerifyOK'
    BY <1>1, <1>5, RekeyKept DEF KeysAll
  <1> QED BY <1>7, <1>8, <1>9, <1>10 DEF KeysAll

-----------------------------------------------------------------------------
(* The audit log grows by one event. *)
Grows(e) ==
  /\ audit' \in Seq(AuditEvent) /\ Len(audit') = Len(audit) + 1
  /\ \A n \in 1 .. Len(audit) : audit'[n] = audit[n]
  /\ audit'[Len(audit) + 1] = e

LEMMA Logged ==
  ASSUME audit \in Seq(AuditEvent), NEW e \in AuditEvent, audit' = audit \o <<e>>
  PROVE  Grows(e)
  <1>1. /\ audit' = Append(audit, e)
    BY AppendIsConcat
  <1>2. /\ Append(audit, e) \in Seq(AuditEvent) /\ Len(Append(audit, e)) = Len(audit) + 1
        /\ \A n \in 1 .. Len(audit) : Append(audit, e)[n] = audit[n]
        /\ Append(audit, e)[Len(audit) + 1] = e
    BY AppendProperties
  <1> QED BY <1>1, <1>2 DEF Grows

LEMMA EventType ==
  ASSUME NEW p \in Providers, NEW action \in Actions, NEW version \in Nat, NEW i \in Nat
  PROVE  LET e == Event(p, action, version, i) IN
         /\ e \in AuditEvent /\ e.provider = p /\ e.action = action /\ e.version = version
         /\ e.command = i
  BY DEF Event, AuditEvent

TestedEvent(p, version, i, secret) ==
  [Event(p, "tested", version, i) EXCEPT !.secret = secret]

LEMMA TestedType ==
  ASSUME NEW p \in Providers, NEW version \in Nat, NEW i \in Nat, NEW secret \in Nat
  PROVE  LET e == TestedEvent(p, version, i, secret) IN
         /\ e \in AuditEvent /\ e.provider = p /\ e.action = "tested" /\ e.version = version
         /\ e.command = i /\ e.secret = secret
  BY DEF TestedEvent, Event, AuditEvent, Actions

LEMMA TestsKept ==
  ASSUME audit \in Seq(AuditEvent), NEW e, Grows(e), e.action # "tested",
         \A n \in 1 .. Len(audit) : TestOK(n)
  PROVE  \A n \in 1 .. Len(audit') : TestOK(n)'
  <1> SUFFICES ASSUME NEW n \in 1 .. Len(audit'), audit'[n].action = "tested" PROVE TestOK(n)'
    BY DEF TestOK
  <1>1. /\ Len(audit) \in Nat /\ n \in 1 .. Len(audit)
        /\ \A k \in 1 .. n : audit'[k] = audit[k]
    BY DEF Grows
  <1>2. audit'[n] = audit[n] /\ TestOK(n) /\ n \in Nat
    BY <1>1
  <1>3. PICK m \in 1 .. n - 1 :
          StoredBy(audit[n].provider, audit[n].command, m, n - 1) /\ audit[m].command = audit[n].secret
    BY <1>2 DEF TestOK
  <1>4. audit'[m] = audit[m] /\ \A k \in m + 1 .. n - 1 : audit'[k] = audit[k]
    BY <1>1, <1>2, <1>3
  <1>5. ASSUME NEW p, p = audit[n].provider, NEW c, c = audit[n].command
        PROVE  StoredBy(p, c, m, n - 1)'
    BY <1>3, <1>4, <1>5 DEF StoredBy
  <1>6. StoredBy(audit[n].provider, audit[n].command, m, n - 1)'
    BY <1>2, <1>5
  <1> QED BY <1>2, <1>3, <1>4, <1>6 DEF TestOK

LEMMA StoredKept ==
  ASSUME audit \in Seq(AuditEvent), NEW e, Grows(e), NEW p \in Providers, NEW c, NEW n \in 1 .. Len(audit),
         StoredBy(p, c, n, Len(audit)), e.provider = p => e.action # "update"
  PROVE  StoredBy(p, c, n, Len(audit))'
  <1>1. Len(audit) \in Nat
    OBVIOUS
  <1>2. audit'[n] = audit[n] /\ Len(audit') = Len(audit) + 1
    BY DEF Grows
  <1>3. ASSUME NEW k \in n + 1 .. Len(audit) + 1, audit'[k].provider = p
        PROVE  audit'[k].action # "update"
    BY <1>1, <1>3 DEF Grows, StoredBy
  <1> QED BY <1>2, <1>3 DEF StoredBy

LEMMA StoredNow ==
  ASSUME audit \in Seq(AuditEvent), NEW e, Grows(e), NEW p \in Providers,
         e.provider = p, e.action \in {"created", "update"}
  PROVE  (Len(audit) \in 1 .. Len(audit) /\ StoredBy(p, e.command, Len(audit), Len(audit)))'
  BY DEF Grows, StoredBy

(* Version. *)
LEMMA VersionsKept ==
  ASSUME audit \in Seq(AuditEvent), NEW e, Grows(e), NEW p \in Providers, VersionsOK(p),
         e.provider # p \/ e.action = "tested", Version(p)' = Version(p)
  PROVE  VersionsOK(p)'
  <1>1. Len(audit) \in Nat
    OBVIOUS
  <1>2. \A n : /\ Change(n, p) => n \in 1 .. Len(audit)
               /\ Change(n, p)' <=> Change(n, p)
    BY <1>1 DEF Grows, Change
  <1>3. \A n : Change(n, p) => audit'[n] = audit[n]
    BY <1>2 DEF Grows
  <1>4. 1 .. Len(audit) \subseteq 1 .. Len(audit')
    BY <1>1 DEF Grows
  <1>5. \A n \in 1 .. Len(audit') : Change(n, p)' => audit'[n].version \in 1 .. Version(p)'
    BY <1>2, <1>3 DEF VersionsOK
  <1>6. \A m, n \in 1 .. Len(audit') :
          Change(m, p)' /\ Change(n, p)' /\ m < n => audit'[m].version < audit'[n].version
    BY <1>2, <1>3 DEF VersionsOK
  <1>7. \A v \in 1 .. Version(p)' : \E n \in 1 .. Len(audit') : Change(n, p)' /\ audit'[n].version = v
    BY <1>2, <1>3, <1>4 DEF VersionsOK
  <1> QED BY <1>5, <1>6, <1>7 DEF VersionsOK

LEMMA VersionsNext ==
  ASSUME audit \in Seq(AuditEvent), NEW e, Grows(e), NEW p \in Providers, VersionsOK(p),
         e.provider = p, e.action # "tested", Version(p) \in Nat,
         e.version = Version(p) + 1, Version(p)' = Version(p) + 1
  PROVE  VersionsOK(p)'
  <1> DEFINE L == Len(audit)
             last == Version(p)
  <1>1. L \in Nat /\ Len(audit') = L + 1 /\ audit'[L + 1] = e
    BY DEF Grows
  <1>2. \A n : /\ Change(n, p) => n \in 1 .. L
               /\ Change(n, p)' <=> Change(n, p) \/ n = L + 1
    BY <1>1 DEF Grows, Change
  <1>3. \A n : Change(n, p) => audit'[n] = audit[n] /\ audit[n].version \in 1 .. last
    BY <1>2 DEF Grows, VersionsOK
  <1>4. \A m, n : Change(m, p) /\ Change(n, p) /\ m < n => audit[m].version < audit[n].version
    BY <1>2 DEF VersionsOK
  <1>5. \A v \in 1 .. last : \E n : Change(n, p) /\ audit[n].version = v
    BY DEF VersionsOK
  <1> HIDE DEF L, last
  <1>6. last \in Nat /\ e.version = last + 1 /\ Version(p)' = last + 1
    BY DEF last
  <1>7. \A n : Change(n, p)' => audit'[n].version \in 1 .. last + 1
    BY <1>1, <1>2, <1>3, <1>6
  <1>8. ASSUME NEW m, NEW n, m < n, Change(m, p)', Change(n, p)'
        PROVE  audit'[m].version < audit'[n].version
    <2>1. CASE Change(m, p) /\ Change(n, p)
      BY <1>3, <1>4, <1>8, <2>1
    <2>2. CASE Change(m, p) /\ n = L + 1
      BY <1>1, <1>3, <1>6, <2>2
    <2>3. CASE m = L + 1
      BY <1>1, <1>2, <1>8, <2>3
    <2> QED BY <1>2, <1>8, <2>1, <2>2, <2>3
  <1>9. ASSUME NEW v \in 1 .. last + 1
        PROVE  \E n \in 1 .. L + 1 : Change(n, p)' /\ audit'[n].version = v
    <2>1. CASE v = last + 1
      BY <1>1, <1>2, <1>6, <2>1
    <2>2. CASE v # last + 1
      <3>1. PICK n : Change(n, p) /\ audit[n].version = v
        BY <1>5, <1>6, <2>2
      <3> QED BY <1>1, <1>2, <1>3, <3>1
    <2> QED BY <2>1, <2>2
  <1> QED BY <1>1, <1>6, <1>7, <1>8, <1>9 DEF VersionsOK

-----------------------------------------------------------------------------
(* Connection tests. *)
RowAhead(p) ==
  providers[p] # None =>
    /\ providers'[p] # None /\ providers'[p] \in Provider
    /\ providers'[p].version >= providers[p].version
    /\ providers'[p].version = providers[p].version => providers'[p].settings = providers[p].settings
    /\ providers'[p].credential_version >= providers[p].credential_version
    /\ providers'[p].credential_version = providers[p].credential_version =>
         providers'[p].settings = providers[p].settings

LEMMA ProviderFields ==
  \A r \in Provider : /\ r.version \in Nat /\ r.enabled \in BOOLEAN
                      /\ r.settings \in Nat /\ r.credential_version \in Nat
  BY DEF Provider

LEMMA CredentialFields ==
  \A c \in ProviderCredential :
    /\ c.credential_version \in Nat /\ c.sealed \in Sealed
    /\ c.sealed.key_id \in Keys /\ c.sealed.secret \in Nat
  BY DEF ProviderCredential, Sealed

LEMMA FlowKept ==
  ASSUME FlowOK, UNCHANGED flow, \A p \in Providers : RowAhead(p) /\ ProviderOK(p)
  PROVE  FlowOK'
  <1> DEFINE p == flow.provider
             row == providers[p]
             new == providers'[p]
  <1>1. CASE flow.stage = "idle"
    BY <1>1 DEF FlowOK
  <1>2. CASE flow.stage # "idle"
    <2>1. /\ p \in Providers /\ row # None /\ flow.view \in Provider
          /\ flow.view.version <= row.version
          /\ flow.view.version = row.version => flow.view.settings = row.settings
          /\ flow.view.credential_version <= row.credential_version
          /\ flow.view.credential_version = row.credential_version =>
               flow.view.settings = row.settings
      BY <1>2 DEF FlowOK
    <2>2. row \in Provider /\ RowAhead(p)
      BY <2>1 DEF ProviderOK
    <2>3. /\ row.version \in Nat /\ row.credential_version \in Nat
          /\ flow.view.version \in Nat /\ flow.view.credential_version \in Nat
      BY <2>1, <2>2, ProviderFields
    <2>4. /\ new # None /\ new.version \in Nat /\ new.credential_version \in Nat
          /\ new.version >= row.version
          /\ new.version = row.version => new.settings = row.settings
          /\ new.credential_version >= row.credential_version
          /\ new.credential_version = row.credential_version => new.settings = row.settings
      BY <2>1, <2>2, ProviderFields DEF RowAhead
    <2>5. /\ flow.view.version <= new.version
          /\ flow.view.version = new.version => flow.view.settings = new.settings
          /\ flow.view.credential_version <= new.credential_version
          /\ flow.view.credential_version = new.credential_version =>
               flow.view.settings = new.settings
      <3> HIDE DEF row, new
      <3> QED BY <2>1, <2>3, <2>4
    <2>6. (flow.provider)' = p /\ flow' = flow
      OBVIOUS
    <2> QED BY <1>2, <2>1, <2>4, <2>5 DEF FlowOK
  <1> QED BY <1>1, <1>2

LEMMA FlowEnds ==
  ASSUME flow' = Idle
  PROVE  FlowOK'
  BY DEF Idle, FlowOK

LEMMA FlowViews ==
  ASSUME NEW s, NEW p \in Providers, ProviderOK(p), read_provider(s, p)
  PROVE  FlowOK'
  <1>1. /\ providers[p] # None /\ providers[p] \in Provider
    BY DEF ProviderOK, read_provider
  <1>2. /\ flow' = [ stage |-> "viewed", server |-> s, provider |-> p, view |-> providers[p] ]
        /\ providers' = providers
    BY DEF read_provider
  <1>3. flow'.stage = "viewed" /\ flow'.provider = p /\ flow'.view = providers[p]
    BY <1>2
  <1> QED BY <1>1, <1>2, <1>3, ProviderFields DEF FlowOK

LEMMA FlowCalls ==
  ASSUME FlowOK, \A p \in Providers : ProviderOK(p), provider_credentials
  PROVE  FlowOK'
  <1> DEFINE p == flow.provider
  <1>1. /\ flow.stage = "viewed" /\ providers' = providers /\ p \in Providers /\ providers[p] # None
        /\ flow.view \in Provider /\ ProviderOK(p)
    BY DEF provider_credentials, FlowOK
  <1>2. CASE ~Released(servers[flow.server].ring, p, flow.view)
    BY <1>2, FlowEnds DEF provider_credentials
  <1>3. CASE Released(servers[flow.server].ring, p, flow.view)
    <2>1. flow' = [ stage |-> "called", server |-> flow.server, provider |-> p,
                    view |-> flow.view, secret |-> credentials[p].sealed.secret ]
      BY <1>3 DEF provider_credentials
    <2>2. /\ flow'.stage = "called" /\ flow'.provider = p /\ flow'.view = flow.view
          /\ flow'.secret = credentials[p].sealed.secret
      BY <2>1
    <2>3. /\ credentials[p].sealed.secret = providers[p].settings
          /\ credentials[p].credential_version = providers[p].credential_version
          /\ providers[p] \in Provider
      BY <1>1 DEF ProviderOK
    <2>4. flow.view.credential_version = providers[p].credential_version
      BY <1>3, <2>3 DEF Released
    <2>5. flow.view.settings = providers[p].settings
      BY <1>1, <2>4 DEF FlowOK
    <2>6. providers[p].settings \in Nat
      BY <2>3, ProviderFields
    <2> QED BY <1>1, <2>2, <2>3, <2>5, <2>6 DEF FlowOK
  <1> QED BY <1>2, <1>3

-----------------------------------------------------------------------------
(* Commands. *)
LEMMA CommandKept ==
  ASSUME TypesInv, NEW j \in 1 .. Len(commands), CommandOK(j), commands'[j] = commands[j],
         \A p \in Providers : providers[p] # None => providers'[p] # None,
         \/ audit' = audit
         \/ \E e : Grows(e) /\ (e.command # j \/ e.action = "tested")
  PROVE  CommandOK(j)'
  <1>1. /\ \A n : n \in 1 .. Len(audit') /\ Records(n, j)' <=> n \in 1 .. Len(audit) /\ Records(n, j)
        /\ \A n \in 1 .. Len(audit) : audit'[n] = audit[n]
    <2>1. CASE audit' = audit
      BY <2>1 DEF Records
    <2>2. ASSUME NEW e, Grows(e), e.command # j \/ e.action = "tested"
          PROVE  /\ \A n : n \in 1 .. Len(audit') /\ Records(n, j)'
                             <=> n \in 1 .. Len(audit) /\ Records(n, j)
                 /\ \A n \in 1 .. Len(audit) : audit'[n] = audit[n]
      <3>1. /\ Len(audit) \in Nat /\ Len(audit') = Len(audit) + 1
            /\ \A n \in 1 .. Len(audit) : audit'[n] = audit[n]
            /\ audit'[Len(audit) + 1] = e
        BY <2>2 DEF Grows, TypesInv
      <3>2. \A n : n = Len(audit) + 1 => ~Records(n, j)'
        BY <2>2, <3>1 DEF Records
      <3>3. \A n \in 1 .. Len(audit) : Records(n, j)' <=> Records(n, j)
        BY <3>1 DEF Records
      <3>4. \A n : n \in 1 .. Len(audit') <=> n \in 1 .. Len(audit) \/ n = Len(audit) + 1
        BY <3>1
      <3> QED BY <3>1, <3>2, <3>3, <3>4
    <2> QED BY <2>1, <2>2
  <1> QED BY <1>1 DEF CommandOK

LEMMA RowAnswered ==
  ASSUME NEW row \in AdminCommand, NEW st \in Nat, NEW new, new = AnsweredRow(row, st)
  PROVE  /\ new \in AdminCommand /\ new.kind = row.kind /\ new.provider = row.provider
         /\ new.tenant = row.tenant /\ new.expected = row.expected
         /\ new.status = st /\ (new.doubted <=> row.doubted \/ st = 503)
         /\ new.doubted \in BOOLEAN
  <1>1. (row.doubted \/ st = 503) \in BOOLEAN
    OBVIOUS
  <1> QED BY <1>1, Zenon DEF AnsweredRow, AdminCommand

LEMMA CommandAnswered ==
  ASSUME NEW i, commands[i] \in AdminCommand, NEW st \in Nat,
         commands'[i] = AnsweredRow(commands[i], st)
  PROVE  /\ commands'[i] \in AdminCommand /\ commands'[i].kind = commands[i].kind
         /\ commands'[i].provider = commands[i].provider
         /\ commands'[i].expected = commands[i].expected
         /\ commands'[i].status = st
         /\ commands'[i].doubted <=> commands[i].doubted \/ st = 503
  BY RowAnswered

Domains == {"ok", "rule", "configuration", "limit", "stale"}

LEMMA Statuses ==
  ASSUME NEW outcome \in Outcomes, NEW domain \in Domains, Possible(outcome, domain)
  PROVE  LET st == status(domain_result(outcome, domain)) IN
         /\ st \in {200, 400, 401, 409, 503}
         /\ st = 200 <=> outcome = "committed"
         /\ outcome = "commit_lost" => st = 503
         /\ Applied(outcome) => domain = "ok"
  BY DEF Outcomes, Domains, Possible, domain_result, status, Applied

(* A command is answered without having been applied. *)
LEMMA CommandRefused ==
  ASSUME TypesInv, NEW i \in 1 .. Len(commands), CommandOK(i), commands[i].status \in {Waiting, 503},
         NEW st \in {400, 401, 409, 503}, commands'[i] = AnsweredRow(commands[i], st),
         \A p \in Providers : providers[p] # None => providers'[p] # None, audit' = audit
  PROVE  CommandOK(i)'
  <1> DEFINE row == commands[i]
             new == commands'[i]
  <1>1. row \in AdminCommand /\ st \in Nat
    BY DEF TypesInv
  <1>2. /\ new.kind = row.kind /\ new.provider = row.provider /\ new.expected = row.expected
        /\ new.status = st /\ (new.doubted <=> row.doubted \/ st = 503)
    BY <1>1, CommandAnswered
  <1>3. /\ new.status = 503 => new.doubted
        /\ ~new.doubted => ~row.doubted
    BY <1>2, Zenon
  <1>9. st # 200
    OBVIOUS
  <1>4. ~new.doubted => \A n \in 1 .. Len(audit) : ~Records(n, i)
    <2>1. ~new.doubted => row.status \in {Waiting, 400, 401, 409} /\ ~row.doubted
      <3>1. row.status = 503 => row.doubted
        BY DEF CommandOK
      <3> QED BY <1>3, <3>1
    <2> QED BY <2>1 DEF CommandOK
  <1> HIDE DEF new
  <1>5. \A n : Records(n, i)' <=> Records(n, i)
    BY DEF Records
  <1>6. row.kind # "create" =>
          /\ row.provider \in Providers /\ providers'[row.provider] # None
          /\ \A n \in 1 .. Len(audit) : Records(n, i) =>
               audit[n].provider = row.provider /\ audit[n].version = row.expected + 1
    BY DEF CommandOK
  <1> HIDE DEF row
  <1> QED BY <1>2, <1>3, <1>4, <1>5, <1>6, <1>9 DEF CommandOK, new

(* A command is applied, and its event recorded. *)
LEMMA CommandApplied ==
  ASSUME TypesInv, NEW i \in 1 .. Len(commands), CommandOK(i),
         NEW st \in {200, 503}, commands'[i] = AnsweredRow(commands[i], st),
         \A p \in Providers : providers[p] # None => providers'[p] # None,
         NEW e, Grows(e), e.command = i, e.action # "tested",
         commands[i].kind # "create" =>
           e.provider = commands[i].provider /\ e.version = commands[i].expected + 1
  PROVE  CommandOK(i)'
  <1> DEFINE row == commands[i]
             new == commands'[i]
             L == Len(audit)
  <1>1. row \in AdminCommand /\ st \in Nat
    BY DEF TypesInv
  <1>2. /\ new.kind = row.kind /\ new.provider = row.provider /\ new.expected = row.expected
        /\ new.status = st /\ (new.doubted <=> row.doubted \/ st = 503)
    BY <1>1, CommandAnswered
  <1>3. /\ new.status = 503 => new.doubted
        /\ new.status \notin {Waiting, 400, 401, 409}
    <2>1. new.status = 503 => new.doubted
      BY <1>2, Zenon
    <2> QED BY <1>2, <2>1 DEF Waiting
  <1>4. /\ L \in Nat /\ Len(audit') = L + 1 /\ audit'[L + 1] = e
        /\ \A n \in 1 .. L : audit'[n] = audit[n]
    BY DEF Grows, TypesInv
  <1> HIDE DEF new, L
  <1>5. \A n \in 1 .. L + 1 : (n \in 1 .. L /\ (Records(n, i)' <=> Records(n, i))) \/ n = L + 1
    BY <1>4 DEF Records
  <1>6. \A n : n = L + 1 => Records(n, i)'
    BY <1>4 DEF Records
  <1>7. row.kind # "create" =>
          /\ row.provider \in Providers /\ providers'[row.provider] # None
          /\ \A n \in 1 .. L : Records(n, i) =>
               audit[n].provider = row.provider /\ audit[n].version = row.expected + 1
          /\ e.provider = row.provider /\ e.version = row.expected + 1
    BY DEF CommandOK, L
  <1> HIDE DEF row
  <1>8. new.kind # "create" =>
          /\ new.provider \in Providers /\ providers'[new.provider] # None
          /\ \A n \in 1 .. Len(audit') : Records(n, i)' =>
               audit'[n].provider = new.provider /\ audit'[n].version = new.expected + 1
    BY <1>2, <1>4, <1>5, <1>7
  <1>9. \E n \in 1 .. Len(audit') : Records(n, i)'
    BY <1>4, <1>6
  <1> QED BY <1>3, <1>8, <1>9 DEF CommandOK, new

(* A command is sent. *)
LEMMA CommandSent ==
  ASSUME TypesInv, NEW command \in AdminCommand, command.status = Waiting, ~command.doubted,
         command.kind # "create" => command.provider \in Providers /\ providers[command.provider] # None,
         commands' = Append(commands, command), UNCHANGED <<providers, audit>>,
         \A j \in 1 .. Len(commands) : CommandOK(j)
  PROVE  /\ commands' \in Seq(AdminCommand)
         /\ \A n \in 1 .. Len(audit') : audit'[n].command <= Len(commands')
         /\ \A j \in 1 .. Len(commands') : CommandOK(j)'
  <1> DEFINE L == Len(commands)
  <1>1. /\ commands \in Seq(AdminCommand) /\ L \in Nat
        /\ \A n \in 1 .. Len(audit) : audit[n].command <= L /\ audit[n].command \in Nat
    <2>1. \A n \in 1 .. Len(audit) : audit[n] \in AuditEvent
      BY ElementOfSeq DEF TypesInv
    <2>2. \A n \in 1 .. Len(audit) : audit[n].command \in Nat
      BY <2>1 DEF AuditEvent
    <2> QED BY <2>2 DEF TypesInv
  <1>2. /\ commands' \in Seq(AdminCommand) /\ Len(commands') = L + 1
        /\ \A j \in 1 .. L : commands'[j] = commands[j]
        /\ commands'[L + 1] = command
    BY <1>1, AppendProperties
  <1> HIDE DEF L
  <1>3. ASSUME NEW j \in 1 .. L PROVE CommandOK(j)'
    BY <1>2, <1>3, CommandKept DEF L
  <1>4. ASSUME NEW j, j = L + 1 PROVE CommandOK(j)'
    <2>1. \A n \in 1 .. Len(audit') : ~Records(n, j)'
      BY <1>1, <1>4 DEF Records
    <2>2. commands'[j] = command
      BY <1>2, <1>4
    <2> QED BY <2>1, <2>2 DEF CommandOK, Waiting
  <1>5. \A n \in 1 .. Len(audit') : audit'[n].command <= Len(commands')
    BY <1>1, <1>2
  <1> QED BY <1>1, <1>2, <1>3, <1>4, <1>5

-----------------------------------------------------------------------------
(* Rows, events and commands. *)
RowsInv ==
  /\ TypesInv
  /\ \A p \in Providers : ProviderOK(p) /\ StoredOK(p) /\ VersionsOK(p)
  /\ FlowOK
  /\ \A n \in 1 .. Len(audit) : TestOK(n)
  /\ \A i \in 1 .. Len(commands) : CommandOK(i)

(* Steps that administer nothing. *)
LEMMA QuietRows ==
  ASSUME RowsInv, UNCHANGED <<providers, audit, commands>>,
         DOMAIN servers' = Servers, DOMAIN credentials' = Providers,
         \A p \in Providers : ProviderOK(p)', FlowOK'
  PROVE  RowsInv'
  <1>1. TypesInv'
    BY DEF RowsInv, TypesInv
  <1>2. \A p \in Providers : StoredOK(p)'
    BY DEF RowsInv, StoredOK, StoredBy
  <1>3. \A p \in Providers : VersionsOK(p)'
    <2> SUFFICES ASSUME NEW p \in Providers PROVE VersionsOK(p)'
      OBVIOUS
    <2>1. VersionsOK(p) /\ Version(p)' = Version(p) /\ \A n : Change(n, p)' <=> Change(n, p)
      BY DEF RowsInv, Version, Change
    <2> QED BY <2>1 DEF VersionsOK
  <1>4. \A n \in 1 .. Len(audit') : TestOK(n)'
    BY DEF RowsInv, TestOK, StoredBy
  <1>5. \A i \in 1 .. Len(commands') : CommandOK(i)'
    BY CommandKept DEF RowsInv
  <1> QED BY <1>1, <1>2, <1>3, <1>4, <1>5 DEF RowsInv

LEMMA UntouchedRows ==
  ASSUME RowsInv, UNCHANGED <<providers, credentials, audit, commands>>,
         DOMAIN servers' = Servers, FlowOK'
  PROVE  RowsInv'
  <1>1. \A p \in Providers : ProviderOK(p)'
    BY DEF RowsInv, ProviderOK
  <1>2. DOMAIN credentials' = Providers
    BY DEF RowsInv, TypesInv
  <1> QED BY <1>1, <1>2, QuietRows

LEMMA SameFlow ==
  ASSUME FlowOK, UNCHANGED <<flow, providers>>
  PROVE  FlowOK'
  BY DEF FlowOK

(* The owner's steps, starts and stops. *)
LEMMA ProcessRows ==
  ASSUME RowsInv,
         \/ \E ring \in CredentialKeys, verify_only \in BOOLEAN : begin_rekey(ring, verify_only)
         \/ reencrypt_tenant
         \/ fail_rekey
         \/ \E s \in Servers, ring \in CredentialKeys : start(s, ring)
         \/ \E s \in Servers : check_credential_keys(s) \/ stop(s)
         \/ destroy
  PROVE  RowsInv'
  <1>1. UNCHANGED <<providers, credentials, audit, commands>>
    BY DEF begin_rekey, reencrypt_tenant, fail_rekey, start, check_credential_keys, stop, destroy
  <1>2. DOMAIN servers' = Servers
    <2>1. DOMAIN servers = Servers
      BY DEF RowsInv, TypesInv
    <2> QED BY <2>1 DEF begin_rekey, reencrypt_tenant, fail_rekey, start, check_credential_keys,
                        stop, destroy
  <1>3. FlowOK'
    <2>1. flow' = flow \/ flow' = Idle
      BY DEF begin_rekey, reencrypt_tenant, fail_rekey, start, check_credential_keys, stop, destroy
    <2> QED BY <1>1, <2>1, SameFlow, FlowEnds DEF RowsInv
  <1> QED BY <1>1, <1>2, <1>3, UntouchedRows

LEMMA ResealedRow ==
  ASSUME NEW ring \in CredentialKeys, NEW p \in Providers, NEW row \in ProviderCredential,
         NEW new, new = reencrypt_value(ring, p, row)
  PROVE  /\ new \in ProviderCredential /\ new.credential_version = row.credential_version
         /\ new.sealed.secret = row.sealed.secret
         /\ new.sealed.aad \in {row.sealed.aad, <<p, row.credential_version>>}
  <1>1. CASE row.sealed.key_id = ring.active
    BY <1>1 DEF reencrypt_value
  <1>2. CASE row.sealed.key_id # ring.active
    <2>1. /\ ring.active \in Keys /\ row.credential_version \in Nat /\ row.sealed.secret \in Nat
      BY Assumed, CredentialFields
    <2>2. new = [ credential_version |-> row.credential_version,
                  sealed |-> [ key_id |-> ring.active, aad |-> <<p, row.credential_version>>,
                               secret |-> row.sealed.secret ] ]
      BY <1>2 DEF reencrypt_value, Credential, seal
    <2> QED BY <2>1, <2>2 DEF ProviderCredential, Sealed
  <1> QED BY <1>1, <1>2

LEMMA FinishRows ==
  ASSUME RowsInv, RekeyOK, NEW outcome \in Outcomes, finish_rekey(outcome)
  PROVE  RowsInv'
  <1>1. UNCHANGED <<providers, audit, commands, servers, flow>> /\ rekey.ring \in CredentialKeys
    BY DEF finish_rekey, RekeyOK
  <1>2. DOMAIN servers' = Servers
    BY <1>1 DEF RowsInv, TypesInv
  <1>3. FlowOK'
    BY <1>1, SameFlow DEF RowsInv
  <1>4. CASE UNCHANGED credentials
    BY <1>1, <1>2, <1>3, <1>4, UntouchedRows
  <1>5. CASE credentials' = [ p \in Providers |->
               IF Applied(outcome) /\ credentials[p] # None
               THEN reencrypt_value(rekey.ring, p, credentials[p]) ELSE credentials[p] ]
    <2>1. ASSUME NEW p \in Providers PROVE ProviderOK(p)'
      <3>1. ProviderOK(p)
        BY DEF RowsInv
      <3>2. CASE credentials'[p] = credentials[p]
        BY <1>1, <3>1, <3>2 DEF ProviderOK
      <3>3. CASE credentials[p] # None /\ credentials'[p] = reencrypt_value(rekey.ring, p, credentials[p])
        <4>1. credentials[p] \in ProviderCredential
          BY <3>1, <3>3 DEF ProviderOK
        <4>2. /\ credentials'[p] \in ProviderCredential
              /\ credentials'[p].credential_version = credentials[p].credential_version
              /\ credentials'[p].sealed.secret = credentials[p].sealed.secret
              /\ credentials'[p].sealed.aad
                   \in {credentials[p].sealed.aad, <<p, credentials[p].credential_version>>}
          BY <1>1, <3>3, <4>1, ResealedRow
        <4>3. credentials'[p] # None
          BY <4>2, NoneAssumption
        <4> QED BY <1>1, <3>1, <3>3, <4>2, <4>3 DEF ProviderOK
      <3> QED BY <1>5, <3>2, <3>3
    <2>2. DOMAIN credentials' = Providers
      BY <1>5
    <2> QED BY <1>1, <1>2, <1>3, <2>1, <2>2, QuietRows
  <1> QED BY <1>4, <1>5 DEF finish_rekey

(* Reading a provider and its secret, and giving up. *)
LEMMA FlowRows ==
  ASSUME RowsInv,
         \/ \E s \in Servers, p \in Providers : read_provider(s, p)
         \/ provider_credentials
         \/ Abandon
  PROVE  RowsInv'
  <1>1. UNCHANGED <<providers, credentials, audit, commands, servers>>
    BY DEF read_provider, provider_credentials, Abandon
  <1>2. FlowOK'
    BY FlowViews, FlowCalls, FlowEnds DEF RowsInv, Abandon
  <1>3. DOMAIN servers' = Servers
    BY <1>1 DEF RowsInv, TypesInv
  <1> QED BY <1>1, <1>2, <1>3, UntouchedRows

(* Commands are sent. *)
LEMMA CommandType ==
  ASSUME NEW t \in 1 .. Tenants, NEW kind \in EditKinds \cup {"create"},
         NEW p \in Providers \cup {None}, NEW expected \in Nat,
         NEW command, command = Command(t, kind, p, expected)
  PROVE  /\ command \in AdminCommand /\ command.status = Waiting /\ ~command.doubted
         /\ command.kind = kind /\ command.provider = p /\ command.expected = expected
  BY DEF Command, AdminCommand, Waiting

LEMMA SendRows ==
  ASSUME RowsInv, NEW command \in AdminCommand, command.status = Waiting, ~command.doubted,
         command.kind # "create" => command.provider \in Providers /\ providers[command.provider] # None,
         send(command)
  PROVE  RowsInv'
  <1>1. /\ commands' = Append(commands, command)
        /\ UNCHANGED <<providers, credentials, audit, servers, flow>>
    BY DEF send
  <1>2. /\ commands' \in Seq(AdminCommand)
        /\ \A n \in 1 .. Len(audit') : audit'[n].command <= Len(commands')
        /\ \A j \in 1 .. Len(commands') : CommandOK(j)'
    BY <1>1, CommandSent DEF RowsInv
  <1>3. TypesInv'
    BY <1>1, <1>2 DEF RowsInv, TypesInv
  <1>4. \A p \in Providers : ProviderOK(p)'
    BY <1>1 DEF RowsInv, ProviderOK
  <1>5. \A p \in Providers : StoredOK(p)'
    BY <1>1 DEF RowsInv, StoredOK, StoredBy
  <1>6. ASSUME NEW p \in Providers PROVE VersionsOK(p)'
    <2>1. VersionsOK(p) /\ Version(p)' = Version(p) /\ \A n : Change(n, p)' <=> Change(n, p)
      BY <1>1 DEF RowsInv, Version, Change
    <2> QED BY <1>1, <2>1 DEF VersionsOK
  <1>7. FlowOK'
    BY <1>1, SameFlow DEF RowsInv
  <1>8. \A n \in 1 .. Len(audit') : TestOK(n)'
    BY <1>1 DEF RowsInv, TestOK, StoredBy
  <1> QED BY <1>2, <1>3, <1>4, <1>5, <1>6, <1>7, <1>8 DEF RowsInv

LEMMA SendsRows ==
  ASSUME RowsInv,
         \/ \E t \in 1 .. Tenants : send_create(t)
         \/ \E p \in Providers, kind \in Edits : send_edit(p, kind)
  PROVE  RowsInv'
  <1>1. ASSUME NEW t \in 1 .. Tenants, send_create(t) PROVE RowsInv'
    <2> DEFINE command == Command(t, "create", None, 0)
    <2>1. /\ command \in AdminCommand /\ command.status = Waiting /\ ~command.doubted
          /\ command.kind = "create"
      BY CommandType
    <2>2. send(command)
      BY <1>1 DEF send_create
    <2> HIDE DEF command
    <2> QED BY <2>1, <2>2, SendRows
  <1>2. ASSUME NEW p \in Providers, NEW kind \in Edits, send_edit(p, kind) PROVE RowsInv'
    <2> DEFINE command == Command(TenantOf[p], kind, p, providers[p].version)
    <2>1. providers[p] # None /\ send(command)
      BY <1>2 DEF send_edit
    <2>2. providers[p].version \in Nat
      BY <2>1, ProviderFields DEF RowsInv, ProviderOK
    <2>3. kind \in EditKinds /\ TenantOf[p] \in 1 .. Tenants
      BY CredentialsAssumption DEF EditKinds
    <2>4. /\ command \in AdminCommand /\ command.status = Waiting /\ ~command.doubted
          /\ command.provider = p
      BY <2>2, <2>3, CommandType
    <2> HIDE DEF command
    <2> QED BY <2>1, <2>4, SendRows
  <1> QED BY <1>1, <1>2

(* Connection tests are recorded. *)
LEMMA TestRows ==
  ASSUME RowsInv, NEW outcome \in Outcomes, test_provider(outcome)
  PROVE  RowsInv'
  <1> DEFINE p == flow.provider
             e == TestedEvent(p, flow.view.version, flow.view.settings, flow.secret)
  <1>1. /\ flow.stage = "called" /\ flow' = Idle
        /\ UNCHANGED <<providers, credentials, commands, servers>>
    BY DEF test_provider
  <1>2. FlowOK'
    BY <1>1, FlowEnds
  <1>3. DOMAIN servers' = Servers
    BY <1>1 DEF RowsInv, TypesInv
  <1>4. CASE ~Applied(outcome)
    <2>1. audit' = audit
      BY <1>4 DEF test_provider, append_events
    <2> QED BY <1>1, <1>2, <1>3, <2>1, UntouchedRows
  <1>5. CASE Applied(outcome)
    <2>1. audit' = audit \o <<e>>
      BY <1>5 DEF test_provider, append_events, TestedEvent
    <2>2. /\ p \in Providers /\ providers[p] # None /\ flow.view \in Provider
          /\ flow.view.version = providers[p].version => flow.view.settings = providers[p].settings
          /\ flow.secret = flow.view.settings /\ flow.secret \in Nat
      BY <1>1 DEF RowsInv, FlowOK
    <2>3. flow.view.version = providers[p].version
      <3>1. Current(p, flow.view)
        BY <1>5 DEF test_provider, Possible, Applied
      <3> QED BY <3>1 DEF Current
    <2>4. /\ e \in AuditEvent /\ e.provider = p /\ e.action = "tested"
          /\ e.command = providers[p].settings /\ e.secret = providers[p].settings
      BY <2>2, <2>3, ProviderFields, TestedType
    <2> HIDE DEF p, e
    <2>5. audit \in Seq(AuditEvent) /\ Grows(e) /\ Len(audit) \in Nat
      BY <2>1, <2>4, Logged DEF RowsInv, TypesInv
    <2>6. PICK n \in 1 .. Len(audit) : StoredBy(p, providers[p].settings, n, Len(audit))
      BY <2>2 DEF RowsInv, StoredOK
    <2>7. /\ audit' \in Seq(AuditEvent) /\ Len(audit') = Len(audit) + 1
          /\ \A k \in 1 .. Len(audit) : audit'[k] = audit[k]
          /\ audit'[Len(audit) + 1] = e
      BY <2>5 DEF Grows
    <2>8. e.command <= Len(commands)
      <3>1. audit[n].command <= Len(commands) /\ audit[n].command = providers[p].settings
        BY <2>6 DEF RowsInv, TypesInv, StoredBy
      <3> QED BY <2>4, <3>1
    <2>9. TypesInv'
      <3>1. \A k \in 1 .. Len(audit') : audit'[k].command <= Len(commands')
        <4>1. \A k \in 1 .. Len(audit') : k \in 1 .. Len(audit) \/ k = Len(audit) + 1
          BY <2>5, <2>7
        <4>2. \A k \in 1 .. Len(audit) : audit[k].command <= Len(commands)
          BY DEF RowsInv, TypesInv
        <4> QED BY <1>1, <2>7, <2>8, <4>1, <4>2
      <3> QED BY <1>1, <2>7, <3>1 DEF RowsInv, TypesInv
    <2>10. \A q \in Providers : ProviderOK(q)'
      BY <1>1 DEF RowsInv, ProviderOK
    <2>11. ASSUME NEW q \in Providers PROVE StoredOK(q)'
      <3> SUFFICES ASSUME providers[q] # None
                   PROVE  (\E m \in 1 .. Len(audit) : StoredBy(q, providers[q].settings, m, Len(audit)))'
        BY <1>1 DEF StoredOK
      <3>1. PICK m \in 1 .. Len(audit) : StoredBy(q, providers[q].settings, m, Len(audit))
        BY DEF RowsInv, StoredOK
      <3>2. ASSUME NEW c, c = providers[q].settings
            PROVE  (\E k \in 1 .. Len(audit) : StoredBy(q, c, k, Len(audit)))'
        <4>1. StoredBy(q, c, m, Len(audit))'
          BY <2>4, <2>5, <3>1, <3>2, StoredKept
        <4> QED BY <2>5, <2>7, <4>1
      <3> QED BY <1>1, <3>2
    <2>12. \A q \in Providers : VersionsOK(q)'
      <3> SUFFICES ASSUME NEW q \in Providers PROVE VersionsOK(q)'
        OBVIOUS
      <3>1. VersionsOK(q) /\ Version(q)' = Version(q)
        BY <1>1 DEF RowsInv, Version
      <3> QED BY <2>4, <2>5, <3>1, VersionsKept
    <2>13. \A k \in 1 .. Len(audit') : TestOK(k)'
      <3>1. ASSUME NEW k \in 1 .. Len(audit), audit[k].action = "tested" PROVE TestOK(k)'
        <4>1. PICK m \in 1 .. k - 1 :
                StoredBy(audit[k].provider, audit[k].command, m, k - 1) /\ audit[m].command = audit[k].secret
          BY <3>1 DEF RowsInv, TestOK
        <4>2. /\ audit'[k] = audit[k] /\ audit'[m] = audit[m]
              /\ \A j \in m + 1 .. k - 1 : audit'[j] = audit[j]
          <5>1. /\ k \in Nat /\ m \in 1 .. Len(audit)
                /\ \A j \in m + 1 .. k - 1 : j \in 1 .. Len(audit)
            BY <2>5
          <5> QED BY <2>7, <5>1
        <4>3. ASSUME NEW q, q = audit[k].provider, NEW c, c = audit[k].command
              PROVE  StoredBy(q, c, m, k - 1)'
          BY <4>1, <4>2, <4>3 DEF StoredBy
        <4>4. StoredBy(audit[k].provider, audit[k].command, m, k - 1)'
          BY <4>2, <4>3
        <4> QED BY <4>1, <4>2, <4>4 DEF TestOK
      <3>2. ASSUME NEW k, k = Len(audit) + 1 PROVE TestOK(k)'
        <4>1. /\ audit'[k] = e /\ n \in 1 .. k - 1 /\ audit'[n] = audit[n]
              /\ \A j \in n + 1 .. k - 1 : audit'[j] = audit[j]
          BY <2>5, <2>6, <2>7, <3>2
        <4>2. ASSUME NEW q, q = p, NEW c, c = providers[p].settings PROVE StoredBy(q, c, n, k - 1)'
          <5>1. k - 1 = Len(audit)
            BY <2>5, <3>2
          <5>2. StoredBy(q, c, n, k - 1)
            BY <2>6, <4>2, <5>1
          <5> QED BY <4>1, <5>2 DEF StoredBy
        <4>3. StoredBy(audit[k].provider, audit[k].command, n, k - 1)'
          BY <2>4, <4>1, <4>2
        <4>4. audit'[n].command = audit'[k].secret
          BY <2>4, <2>6, <4>1 DEF StoredBy
        <4> QED BY <4>1, <4>3, <4>4 DEF TestOK
      <3>3. ASSUME NEW k \in 1 .. Len(audit), audit[k].action # "tested" PROVE TestOK(k)'
        <4>1. audit'[k] = audit[k]
          BY <2>7
        <4> QED BY <3>3, <4>1 DEF TestOK
      <3>4. \A k \in 1 .. Len(audit) : TestOK(k)'
        BY <3>1, <3>3
      <3>5. \A k \in 1 .. Len(audit') : k \in 1 .. Len(audit) \/ k = Len(audit) + 1
        BY <2>5, <2>7
      <3> QED BY <3>2, <3>4, <3>5
    <2>14. \A i \in 1 .. Len(commands') : CommandOK(i)'
      BY <1>1, <2>4, <2>5, CommandKept DEF RowsInv
    <2> QED BY <1>2, <2>9, <2>10, <2>11, <2>12, <2>13, <2>14 DEF RowsInv
  <1> QED BY <1>4, <1>5

-----------------------------------------------------------------------------
(* Administration: a command is answered without having been applied... *)
LEMMA Told ==
  ASSUME TypesInv, NEW i \in 1 .. Len(commands), NEW st \in Nat,
         commands' = [commands EXCEPT ![i] = AnsweredRow(commands[i], st)]
  PROVE  /\ commands' \in Seq(AdminCommand) /\ Len(commands') = Len(commands)
         /\ commands'[i] = AnsweredRow(commands[i], st)
         /\ \A j \in 1 .. Len(commands) : j # i => commands'[j] = commands[j]
  <1>1. commands \in Seq(AdminCommand) /\ commands[i] \in AdminCommand
    BY DEF TypesInv
  <1>2. AnsweredRow(commands[i], st) \in AdminCommand
    BY <1>1, RowAnswered
  <1> QED BY <1>1, <1>2

LEMMA RefusedRows ==
  ASSUME RowsInv, NEW s, NEW i \in 1 .. Len(commands), NEW domain \in Domains, NEW outcome \in Outcomes,
         Answered(s, i, domain, outcome), ~Applied(outcome), UNCHANGED <<providers, credentials, audit>>
  PROVE  RowsInv'
  <1> DEFINE st == status(domain_result(outcome, domain))
  <1>1. /\ commands[i].status \in {Waiting, 503} /\ Possible(outcome, domain)
        /\ commands' = [commands EXCEPT ![i] = AnsweredRow(commands[i], st)]
        /\ UNCHANGED <<servers, flow>>
    BY DEF Answered
  <1>2. st \in {400, 401, 409, 503}
    BY <1>1, Statuses DEF Applied
  <1> HIDE DEF st
  <1>3. st \in Nat
    BY <1>2
  <1>4. /\ commands' \in Seq(AdminCommand) /\ Len(commands') = Len(commands)
        /\ commands'[i] = AnsweredRow(commands[i], st)
        /\ \A j \in 1 .. Len(commands) : j # i => commands'[j] = commands[j]
    BY <1>1, <1>3, Told DEF RowsInv
  <1>5. TypesInv'
    BY <1>1, <1>4 DEF RowsInv, TypesInv
  <1>6. \A p \in Providers : ProviderOK(p)'
    BY DEF RowsInv, ProviderOK
  <1>7. \A p \in Providers : StoredOK(p)'
    BY DEF RowsInv, StoredOK, StoredBy
  <1>8. ASSUME NEW p \in Providers PROVE VersionsOK(p)'
    <2>1. VersionsOK(p) /\ Version(p)' = Version(p) /\ \A n : Change(n, p)' <=> Change(n, p)
      BY DEF RowsInv, Version, Change
    <2> QED BY <2>1 DEF VersionsOK
  <1>9. FlowOK'
    BY <1>1, SameFlow DEF RowsInv
  <1>10. \A n \in 1 .. Len(audit') : TestOK(n)'
    BY DEF RowsInv, TestOK, StoredBy
  <1>11. CommandOK(i)'
    BY <1>1, <1>2, <1>4, CommandRefused DEF RowsInv
  <1>12. \A j \in 1 .. Len(commands) : j # i => CommandOK(j)'
    BY <1>4, CommandKept DEF RowsInv
  <1> QED BY <1>4, <1>5, <1>6, <1>7, <1>8, <1>9, <1>10, <1>11, <1>12 DEF RowsInv

(* ... or is applied: a provider goes from one version to the next, with an   *)
(* event that says so.                                                      *)
Applies(i, st, q, next, e) ==
  /\ commands' = [commands EXCEPT ![i] = AnsweredRow(commands[i], st)]
  /\ providers' = [providers EXCEPT ![q] = next] /\ audit' = audit \o <<e>>
  /\ e.provider = q /\ e.action # "tested" /\ e.command = i
  /\ Version(q) \in Nat /\ e.version = Version(q) + 1 /\ next.version = Version(q) + 1
  /\ commands[i].kind # "create" =>
       commands[i].provider = q /\ e.version = commands[i].expected + 1
  /\ \/ e.action \in {"created", "update"} /\ next.settings = i
     \/ /\ e.action # "update" /\ providers[q] # None
        /\ next.settings = providers[q].settings
  /\ \A p \in Providers : p # q => credentials'[p] = credentials[p]
  /\ DOMAIN credentials' = Providers /\ UNCHANGED <<servers, flow>>

LEMMA AppliedRows ==
  ASSUME RowsInv, NEW i \in 1 .. Len(commands), NEW st \in {200, 503},
         NEW q \in Providers, NEW next \in Provider, NEW e \in AuditEvent,
         Applies(i, st, q, next, e), RowAhead(q), ProviderOK(q)'
  PROVE  RowsInv'
  <1> USE DEF Applies
  <1>1. /\ commands' \in Seq(AdminCommand) /\ Len(commands') = Len(commands)
        /\ commands'[i] = AnsweredRow(commands[i], st)
        /\ \A j \in 1 .. Len(commands) : j # i => commands'[j] = commands[j]
    <2>1. st \in Nat /\ TypesInv
      BY DEF RowsInv
    <2> QED BY <2>1, Told
  <1>2. /\ DOMAIN providers' = Providers /\ providers'[q] = next /\ next # None
        /\ \A p \in Providers : p # q => providers'[p] = providers[p]
        /\ \A p \in Providers : providers[p] # None => providers'[p] # None
    BY NoneAssumption DEF RowsInv, TypesInv
  <1>3. audit \in Seq(AuditEvent) /\ Grows(e) /\ Len(audit) \in Nat
    BY Logged DEF RowsInv, TypesInv
  <1>4. /\ audit' \in Seq(AuditEvent) /\ Len(audit') = Len(audit) + 1
        /\ \A k \in 1 .. Len(audit) : audit'[k] = audit[k]
        /\ audit'[Len(audit) + 1] = e
    BY <1>3 DEF Grows
  <1>5. TypesInv'
    <2>1. \A k \in 1 .. Len(audit') : k \in 1 .. Len(audit) \/ k = Len(audit) + 1
      BY <1>3, <1>4
    <2>2. \A k \in 1 .. Len(audit) : audit[k].command <= Len(commands)
      BY DEF RowsInv, TypesInv
    <2>3. i <= Len(commands)
      BY DEF RowsInv, TypesInv
    <2>4. \A k \in 1 .. Len(audit') : audit'[k].command <= Len(commands')
      BY <1>1, <1>4, <2>1, <2>2, <2>3
    <2> QED BY <1>1, <1>2, <1>4, <2>4 DEF RowsInv, TypesInv
  <1>6. ASSUME NEW p \in Providers, p # q PROVE ProviderOK(p)' /\ StoredOK(p)' /\ VersionsOK(p)'
    <2>1. /\ providers'[p] = providers[p] /\ credentials'[p] = credentials[p]
          /\ ProviderOK(p) /\ StoredOK(p) /\ VersionsOK(p)
      BY <1>2, <1>6 DEF RowsInv
    <2>2. ProviderOK(p)'
      BY <2>1 DEF ProviderOK
    <2>3. StoredOK(p)'
      <3> SUFFICES ASSUME providers[p] # None
                   PROVE  (\E m \in 1 .. Len(audit) : StoredBy(p, providers[p].settings, m, Len(audit)))'
        BY <2>1 DEF StoredOK
      <3>1. PICK m \in 1 .. Len(audit) : StoredBy(p, providers[p].settings, m, Len(audit))
        BY <2>1 DEF StoredOK
      <3>2. ASSUME NEW c, c = providers[p].settings
            PROVE  (\E k \in 1 .. Len(audit) : StoredBy(p, c, k, Len(audit)))'
        <4>1. StoredBy(p, c, m, Len(audit))'
          BY <1>3, <1>6, <3>1, <3>2, StoredKept
        <4> QED BY <1>3, <1>4, <4>1
      <3> QED BY <2>1, <3>2
    <2>4. VersionsOK(p)'
      <3>1. Version(p)' = Version(p)
        BY <2>1 DEF Version
      <3> QED BY <1>3, <1>6, <2>1, <3>1, VersionsKept
    <2> QED BY <2>2, <2>3, <2>4
  <1>7. VersionsOK(q)'
    <2>1. Version(q)' = Version(q) + 1 /\ VersionsOK(q)
      BY <1>2 DEF RowsInv, Version
    <2> QED BY <1>3, <2>1, VersionsNext
  <1>8. StoredOK(q)'
    <2> SUFFICES (\E m \in 1 .. Len(audit) : StoredBy(q, providers[q].settings, m, Len(audit)))'
      BY DEF StoredOK
    <2>1. CASE e.action \in {"created", "update"} /\ next.settings = i
      <3>1. (Len(audit) \in 1 .. Len(audit) /\ StoredBy(q, e.command, Len(audit), Len(audit)))'
        BY <1>3, <2>1, StoredNow
      <3>2. providers'[q].settings = e.command
        BY <1>2, <2>1
      <3> QED BY <3>1, <3>2
    <2>2. CASE e.action # "update" /\ providers[q] # None /\ next.settings = providers[q].settings
      <3>1. PICK m \in 1 .. Len(audit) : StoredBy(q, providers[q].settings, m, Len(audit))
        BY <2>2 DEF RowsInv, StoredOK
      <3>2. ASSUME NEW c, c = providers[q].settings
            PROVE  (\E k \in 1 .. Len(audit) : StoredBy(q, c, k, Len(audit)))'
        <4>1. StoredBy(q, c, m, Len(audit))'
          BY <1>3, <2>2, <3>1, <3>2, StoredKept
        <4> QED BY <1>3, <1>4, <4>1
      <3>3. providers'[q].settings = providers[q].settings
        BY <1>2, <2>2
      <3> QED BY <3>2, <3>3
    <2> QED BY <2>1, <2>2
  <1>9. FlowOK'
    <2>1. ASSUME NEW p \in Providers, p # q PROVE RowAhead(p)
      <3>1. providers'[p] = providers[p] /\ ProviderOK(p)
        BY <1>2, <2>1 DEF RowsInv
      <3>2. ASSUME providers[p] # None
            PROVE  providers[p] \in Provider /\ providers[p].version \in Nat
                   /\ providers[p].credential_version \in Nat
        BY <3>1, <3>2, ProviderFields DEF ProviderOK
      <3> QED BY <3>1, <3>2 DEF RowAhead
    <2>2. \A p \in Providers : RowAhead(p) /\ ProviderOK(p)
      BY <2>1 DEF RowsInv
    <2> QED BY <2>2, FlowKept DEF RowsInv
  <1>10. \A n \in 1 .. Len(audit') : TestOK(n)'
    BY <1>3, TestsKept DEF RowsInv
  <1>11. CommandOK(i)'
    BY <1>1, <1>2, <1>3, CommandApplied DEF RowsInv
  <1>12. \A j \in 1 .. Len(commands) : j # i => CommandOK(j)'
    <2> SUFFICES ASSUME NEW j \in 1 .. Len(commands), j # i PROVE CommandOK(j)'
      OBVIOUS
    <2>1. TypesInv /\ CommandOK(j) /\ commands'[j] = commands[j]
      BY <1>1 DEF RowsInv
    <2>2. \E ev : Grows(ev) /\ (ev.command # j \/ ev.action = "tested")
      BY <1>3
    <2> QED BY <1>2, <2>1, <2>2, CommandKept
  <1>13. \A j \in 1 .. Len(commands') : CommandOK(j)'
    BY <1>1, <1>11, <1>12
  <1>14. \A p \in Providers : ProviderOK(p)' /\ StoredOK(p)' /\ VersionsOK(p)'
    BY <1>6, <1>7, <1>8
  <1> QED BY <1>5, <1>9, <1>10, <1>13, <1>14 DEF RowsInv

LEMMA SealedNow ==
  ASSUME NEW ring \in CredentialKeys, NEW p \in Providers, NEW version \in Nat, NEW secret \in Nat,
         NEW new, new = Credential(version, seal(ring, p, version, secret))
  PROVE  /\ new \in ProviderCredential /\ new # None
         /\ new.credential_version = version /\ new.sealed.key_id = ring.active
         /\ new.sealed.aad = <<p, version>> /\ new.sealed.secret = secret
  <1>1. ring.active \in Keys
    BY Assumed
  <1>2. new = [ credential_version |-> version,
                sealed |-> [ key_id |-> ring.active, aad |-> <<p, version>>, secret |-> secret ] ]
    BY DEF Credential, seal
  <1>3. new \in ProviderCredential
    BY <1>1, <1>2 DEF ProviderCredential, Sealed
  <1> QED BY <1>2, <1>3, NoneAssumption

(* The server that writes is running: its key is one that is written with. *)
LEMMA ServesWriter ==
  ASSUME KeysAll, NEW s \in Servers, NEW t, Serves(s, t)
  PROVE  servers[s].ring \in CredentialKeys /\ servers[s].ring.active \in Writers
  BY TheWriters DEF KeysAll, ServerOK, Serves

LEMMA WritesCredential ==
  ASSUME TypesInv, KeysAll, NEW s \in Servers, NEW t, Serves(s, t), NEW p \in Providers,
         NEW version \in Nat, NEW secret \in Nat, write_credentials(s, p, version, secret)
  PROVE  /\ KeyWrites /\ DOMAIN credentials' = Providers
         /\ \A q \in Providers : q # p => credentials'[q] = credentials[q]
         /\ credentials'[p] \in ProviderCredential /\ credentials'[p] # None
         /\ credentials'[p].credential_version = version
         /\ credentials'[p].sealed.aad = <<p, version>> /\ credentials'[p].sealed.secret = secret
  <1> DEFINE new == Credential(version, seal(servers[s].ring, p, version, secret))
  <1>1. credentials' = [credentials EXCEPT ![p] = new] /\ DOMAIN credentials = Providers
    BY DEF write_credentials, TypesInv
  <1>2. /\ new \in ProviderCredential /\ new # None
        /\ new.credential_version = version /\ new.sealed.key_id = servers[s].ring.active
        /\ new.sealed.aad = <<p, version>> /\ new.sealed.secret = secret
    BY ServesWriter, SealedNow
  <1> HIDE DEF new
  <1>3. /\ credentials'[p] = new /\ DOMAIN credentials' = Providers
        /\ \A q \in Providers : q # p => credentials'[q] = credentials[q]
    BY <1>1
  <1>4. KeyWrites
    BY <1>2, <1>3, ServesWriter DEF KeyWrites
  <1> QED BY <1>2, <1>3, <1>4

LEMMA CreateStep ==
  ASSUME RowsInv, KeysAll, NEW s \in Servers, NEW i \in 1 .. Len(commands), NEW p \in Providers,
         NEW verdict \in Verdicts, NEW outcome \in Outcomes, create_provider(s, i, p, verdict, outcome)
  PROVE  RowsInv' /\ Administers
  <1> DEFINE t == commands[i].tenant
             existing == { q \in Providers : TenantOf[q] = t /\ providers[q] # None }
             domain == IF verdict # "ok" THEN verdict
                       ELSE IF Cardinality(existing) >= ProviderLimit THEN "limit" ELSE "ok"
             st == status(domain_result(outcome, domain))
             e == Event(p, "created", 1, i)
             next == [ version |-> 1, enabled |-> FALSE, settings |-> i, credential_version |-> 1 ]
  <1>1. /\ commands[i].kind = "create" /\ (domain = "ok" => providers[p] = None)
        /\ Answered(s, i, domain, outcome)
        /\ append_events(outcome, <<e>>)
        /\ IF Applied(outcome)
           THEN /\ providers' = [providers EXCEPT ![p] = next]
                /\ write_credentials(s, p, 1, i)
           ELSE UNCHANGED <<providers, credentials>>
    BY DEF create_provider
  <1>2. domain \in Domains
    BY DEF Verdicts, Domains
  <1> HIDE DEF domain
  <1>3. UNCHANGED <<servers, rekey, operator, flow>> /\ Possible(outcome, domain)
        /\ commands' = [commands EXCEPT ![i] = AnsweredRow(commands[i], st)] /\ Serves(s, t)
    BY <1>1 DEF Answered
  <1>4. CASE ~Applied(outcome)
    <2>1. UNCHANGED <<providers, credentials, audit>>
      BY <1>1, <1>4 DEF append_events
    <2>2. RowsInv'
      BY <1>1, <1>2, <1>4, <2>1, RefusedRows
    <2>3. KeyWrites
      BY <2>1 DEF KeyWrites
    <2> QED BY <1>3, <2>2, <2>3 DEF Administers
  <1>5. CASE Applied(outcome)
    <2>1. /\ audit' = audit \o <<e>> /\ providers' = [providers EXCEPT ![p] = next]
          /\ write_credentials(s, p, 1, i)
      BY <1>1, <1>5 DEF append_events
    <2>2. st \in {200, 503} /\ providers[p] = None
      BY <1>1, <1>2, <1>3, <1>5, Statuses DEF Applied
    <2>3. i \in Nat /\ Version(p) = 0 /\ "created" \in Actions
      BY <2>2 DEF Version, Actions
    <2>4. /\ e \in AuditEvent /\ e.provider = p /\ e.action = "created" /\ e.version = 1
          /\ e.command = i
      BY <2>3, EventType
    <2>5. next \in Provider /\ next.version = 1 /\ next.settings = i /\ next.credential_version = 1
      BY <2>3 DEF Provider
    <2> HIDE DEF st, e, next, t
    <2>6. /\ KeyWrites /\ DOMAIN credentials' = Providers
          /\ \A q \in Providers : q # p => credentials'[q] = credentials[q]
          /\ credentials'[p] \in ProviderCredential /\ credentials'[p] # None
          /\ credentials'[p].credential_version = 1
          /\ credentials'[p].sealed.aad = <<p, 1>> /\ credentials'[p].sealed.secret = i
      BY <1>3, <2>1, <2>3, WritesCredential DEF RowsInv
    <2>7. providers'[p] = next /\ next # None
      BY <2>1, <2>5, NoneAssumption DEF RowsInv, TypesInv
    <2>8. ProviderOK(p)'
      BY <2>5, <2>6, <2>7 DEF ProviderOK
    <2>9. RowAhead(p)
      BY <2>2 DEF RowAhead
    <2>10. RowsInv'
      <3>1. /\ Version(p) \in Nat /\ e.version = Version(p) + 1 /\ next.version = Version(p) + 1
            /\ e.action # "tested"
        BY <2>3, <2>4, <2>5
      <3>2. commands[i].kind # "create" =>
              commands[i].provider = p /\ e.version = commands[i].expected + 1
        BY <1>1
      <3>3. \/ e.action \in {"created", "update"} /\ next.settings = i
            \/ /\ e.action # "update" /\ providers[p] # None
               /\ next.settings = providers[p].settings
        BY <2>4, <2>5
      <3>4. UNCHANGED <<servers, flow>>
        BY <1>3
      <3>5. Applies(i, st, p, next, e)
        BY <1>3, <2>1, <2>4, <2>6, <3>1, <3>2, <3>3, <3>4, Zenon DEF Applies
      <3> QED BY <2>2, <2>4, <2>5, <2>8, <2>9, <3>5, AppliedRows
    <2> QED BY <1>3, <2>6, <2>10 DEF Administers
  <1> QED BY <1>4, <1>5

LEMMA EditStep ==
  ASSUME RowsInv, KeysAll, NEW s \in Servers, NEW i \in 1 .. Len(commands),
         NEW verdict \in Verdicts, NEW outcome \in Outcomes, edit_provider(s, i, verdict, outcome)
  PROVE  RowsInv' /\ Administers
  <1> DEFINE command == commands[i]
             p == command.provider
             row == providers[p]
             update == command.kind = "update"
             domain == IF verdict # "ok" THEN verdict
                       ELSE IF ~Expected(row, command.expected) THEN "stale" ELSE "ok"
             next == [ version |-> row.version + 1,
                       enabled |-> IF update THEN row.enabled ELSE command.kind = "enable",
                       settings |-> IF update THEN i ELSE row.settings,
                       credential_version |-> IF update THEN row.credential_version + 1
                                              ELSE row.credential_version ]
             st == status(domain_result(outcome, domain))
             e == Event(p, command.kind, next.version, i)
  <1>1. /\ command.kind \in {"update", "enable", "disable"}
        /\ Answered(s, i, domain, outcome)
        /\ append_events(outcome, <<e>>)
        /\ IF Applied(outcome)
           THEN /\ providers' = [providers EXCEPT ![p] = next]
                /\ IF update THEN write_credentials(s, p, next.credential_version, i)
                   ELSE UNCHANGED credentials
           ELSE UNCHANGED <<providers, credentials>>
    BY DEF edit_provider
  <1>2. domain \in Domains /\ (domain = "ok" => row.version = command.expected)
    BY DEF Verdicts, Domains, Expected
  <1> HIDE DEF domain
  <1>3. UNCHANGED <<servers, rekey, operator, flow>> /\ Possible(outcome, domain)
        /\ commands' = [commands EXCEPT ![i] = AnsweredRow(commands[i], st)]
        /\ Serves(s, command.tenant)
    BY <1>1 DEF Answered
  <1>4. CASE ~Applied(outcome)
    <2>1. UNCHANGED <<providers, credentials, audit>>
      BY <1>1, <1>4 DEF append_events
    <2>2. RowsInv'
      BY <1>1, <1>2, <1>4, <2>1, RefusedRows
    <2>3. KeyWrites
      BY <2>1 DEF KeyWrites
    <2> QED BY <1>3, <2>2, <2>3 DEF Administers
  <1>5. CASE Applied(outcome)
    <2>1. /\ audit' = audit \o <<e>> /\ providers' = [providers EXCEPT ![p] = next]
          /\ IF update THEN write_credentials(s, p, next.credential_version, i)
             ELSE UNCHANGED credentials
      BY <1>1, <1>5 DEF append_events
    <2>2. st \in {200, 503} /\ row.version = command.expected
      BY <1>1, <1>2, <1>3, <1>5, Statuses DEF Applied
    <2>3. p \in Providers /\ row # None /\ row \in Provider /\ ProviderOK(p)
      BY <1>1 DEF RowsInv, CommandOK, ProviderOK
    <2>4. /\ row.version \in Nat /\ row.enabled \in BOOLEAN /\ row.settings \in Nat
          /\ row.credential_version \in Nat /\ i \in Nat
      BY <2>3, ProviderFields
    <2>5. command.kind \in Actions /\ command.kind # "create" /\ command.kind # "tested"
      BY <1>1 DEF Actions
    <2>6. /\ next.version = row.version + 1
          /\ update => next.settings = i /\ next.credential_version = row.credential_version + 1
          /\ ~update => next.settings = row.settings
                        /\ next.credential_version = row.credential_version
      OBVIOUS
    <2>7. next \in Provider
      <3>1. (IF update THEN row.enabled ELSE command.kind = "enable") \in BOOLEAN
        BY <2>4
      <3>2. /\ row.version + 1 \in Nat /\ (IF update THEN i ELSE row.settings) \in Nat
            /\ (IF update THEN row.credential_version + 1 ELSE row.credential_version) \in Nat
        BY <2>4
      <3> QED BY <3>1, <3>2, Zenon DEF Provider
    <2>8. /\ e \in AuditEvent /\ e.provider = p /\ e.action = command.kind /\ e.command = i
          /\ e.version = row.version + 1
      <3>1. next.version \in Nat
        BY <2>4, <2>6
      <3> QED BY <2>3, <2>4, <2>5, <2>6, <3>1, EventType
    <2>9. Version(p) = row.version
      BY <2>3 DEF Version
    <2> HIDE DEF st, e, next
    <2>10. next # None /\ providers'[p] = next
      BY <2>1, <2>3, <2>7, NoneAssumption DEF RowsInv, TypesInv
    <2>11. RowAhead(p)
      <3>1. /\ next.version >= row.version /\ next.version # row.version
            /\ next.credential_version >= row.credential_version
            /\ next.credential_version = row.credential_version => next.settings = row.settings
        BY <2>4, <2>6
      <3> QED BY <2>7, <2>10, <3>1 DEF RowAhead
    <2>12. /\ KeyWrites /\ DOMAIN credentials' = Providers
           /\ \A q \in Providers : q # p => credentials'[q] = credentials[q]
           /\ \A q : q = p => ProviderOK(q)'
      <3>1. CASE update
        <4>1. write_credentials(s, p, next.credential_version, i) /\ next.credential_version \in Nat
          BY <2>1, <2>4, <2>6, <3>1
        <4>2. /\ KeyWrites /\ DOMAIN credentials' = Providers
              /\ \A q \in Providers : q # p => credentials'[q] = credentials[q]
              /\ credentials'[p] \in ProviderCredential /\ credentials'[p] # None
              /\ credentials'[p].credential_version = next.credential_version
              /\ credentials'[p].sealed.aad = <<p, next.credential_version>>
              /\ credentials'[p].sealed.secret = i
          BY <1>3, <2>3, <2>4, <4>1, WritesCredential DEF RowsInv
        <4>3. ASSUME NEW q, q = p PROVE ProviderOK(q)'
          BY <2>6, <2>7, <2>10, <3>1, <4>2, <4>3 DEF ProviderOK
        <4> QED BY <4>2, <4>3
      <3>2. CASE ~update
        <4>1. UNCHANGED credentials
          BY <2>1, <3>2
        <4>2. KeyWrites
          BY <4>1 DEF KeyWrites
        <4>3. ASSUME NEW q, q = p PROVE ProviderOK(q)'
          BY <2>3, <2>6, <2>7, <2>10, <3>2, <4>1, <4>3 DEF ProviderOK
        <4> QED BY <4>1, <4>2, <4>3 DEF RowsInv, TypesInv
      <3> QED BY <3>1, <3>2
    <2>13. \/ e.action \in {"created", "update"} /\ next.settings = i
           \/ e.action # "update" /\ row # None /\ next.settings = row.settings
      BY <2>3, <2>6, <2>8
    <2>14. ASSUME NEW q \in Providers, q = p PROVE RowsInv'
      <3>1. /\ Version(q) \in Nat /\ e.version = Version(q) + 1 /\ next.version = Version(q) + 1
            /\ e.action # "tested" /\ e.provider = q /\ e.command = i
        BY <2>4, <2>5, <2>6, <2>8, <2>9, <2>14
      <3>2. commands[i].kind # "create" =>
              commands[i].provider = q /\ e.version = commands[i].expected + 1
        BY <2>2, <2>8, <2>14
      <3>3. \/ e.action \in {"created", "update"} /\ next.settings = i
            \/ /\ e.action # "update" /\ providers[q] # None
               /\ next.settings = providers[q].settings
        BY <2>13, <2>14
      <3>4. UNCHANGED <<servers, flow>>
        BY <1>3
      <3>5. /\ providers' = [providers EXCEPT ![q] = next] /\ audit' = audit \o <<e>>
            /\ RowAhead(q) /\ ProviderOK(q)' /\ e \in AuditEvent
            /\ \A r \in Providers : r # q => credentials'[r] = credentials[r]
            /\ DOMAIN credentials' = Providers
        BY <2>1, <2>8, <2>11, <2>12, <2>14
      <3>6. Applies(i, st, q, next, e)
        BY <1>3, <3>1, <3>2, <3>3, <3>4, <3>5, Zenon DEF Applies
      <3> QED BY <2>2, <2>7, <3>5, <3>6, AppliedRows
    <2> QED BY <1>3, <2>3, <2>12, <2>14 DEF Administers
  <1> QED BY <1>4, <1>5

-----------------------------------------------------------------------------
(* The beginning: one event for each provider there is. *)
LEMMA Enumerated ==
  ASSUME NEW S, IsFiniteSet(S), NEW f, f = SetToSeq(S)
  PROVE  \E N \in Nat :
           /\ f \in [1 .. N -> S]
           /\ \A m, n \in 1 .. N : f[m] = f[n] => m = n
           /\ \A x \in S : \E n \in 1 .. N : f[n] = x
  <1> DEFINE N == Cardinality(S)
  <1>1. N \in Nat /\ ExistsBijection(1 .. N, S)
    BY FS_CardinalityType
  <1>2. PICK g : g \in Bijection(1 .. N, S)
    BY <1>1 DEF ExistsBijection
  <1>3. g \in [1 .. N -> S] /\ IsInjective(g)
    BY <1>2 DEF Bijection, Injection
  <1>4. f \in [1 .. N -> S] /\ IsInjective(f)
    BY <1>3 DEF SetToSeq
  <1>5. f \in Injection(1 .. N, S)
    BY <1>4 DEF Injection
  <1>6. IsFiniteSet(1 .. N) /\ Cardinality(1 .. N) = N
    BY <1>1, FS_Interval
  <1>7. f \in Surjection(1 .. N, S)
    BY <1>5, <1>6, FS_Injection
  <1> QED BY <1>1, <1>4, <1>7 DEF Surjection, IsInjective

LEMMA FirstEvents ==
  ASSUME audit = SetToSeq({ Event(p, "created", 1, 0) : p \in Founded })
  PROVE  /\ audit \in Seq(AuditEvent)
         /\ \A n \in 1 .. Len(audit) : \E p \in Founded : audit[n] = Event(p, "created", 1, 0)
         /\ \A m, n \in 1 .. Len(audit) : audit[m] = audit[n] => m = n
         /\ \A p \in Founded : \E n \in 1 .. Len(audit) : audit[n] = Event(p, "created", 1, 0)
  <1> DEFINE event(p) == Event(p, "created", 1, 0)
             S == { event(p) : p \in Founded }
             g == [ p \in Founded |-> event(p) ]
  <1>1. \A p \in Founded : event(p) \in AuditEvent /\ event(p).provider = p
    BY Assumed, EventType DEF Actions
  <1> HIDE DEF event
  <1>2. g \in Bijection(Founded, S)
    <2>1. g \in [Founded -> S] /\ \A p \in Founded : g[p].provider = p /\ g[p] = event(p)
      BY <1>1
    <2>2. \A x \in S : \E p \in Founded : g[p] = x
      BY <2>1
    <2>3. IsInjective(g)
      BY <2>1 DEF IsInjective
    <2> QED BY <2>1, <2>2, <2>3 DEF Bijection, Injection, Surjection
  <1>3. IsFiniteSet(S)
    <2>1. ExistsBijection(Founded, S)
      BY <1>2 DEF ExistsBijection
    <2> QED BY <2>1, Assumed, FS_Bijection
  <1>4. audit = SetToSeq(S)
    BY DEF event
  <1> HIDE DEF S
  <1>5. PICK N \in Nat : /\ audit \in [1 .. N -> S]
                         /\ \A m, n \in 1 .. N : audit[m] = audit[n] => m = n
                         /\ \A x \in S : \E n \in 1 .. N : audit[n] = x
    <2>1. ASSUME NEW f, f = SetToSeq(S)
          PROVE  \E N \in Nat : /\ f \in [1 .. N -> S]
                                /\ \A m, n \in 1 .. N : f[m] = f[n] => m = n
                                /\ \A x \in S : \E n \in 1 .. N : f[n] = x
      <3> DEFINE Out(T, h) ==
                   \E N \in Nat :
                     /\ h \in [1 .. N -> T]
                     /\ \A m, n \in 1 .. N : h[m] = h[n] => m = n
                     /\ \A x \in T : \E n \in 1 .. N : h[n] = x
      <3>1. \A T, h : IsFiniteSet(T) /\ h = SetToSeq(T) => Out(T, h)
        BY Enumerated
      <3> HIDE DEF Out
      <3>2. Out(S, f)
        BY <1>3, <2>1, <3>1
      <3> QED BY <3>2 DEF Out
    <2> QED BY <1>4, <2>1, Zenon
  <1>6. \A x \in S : x \in AuditEvent /\ \E p \in Founded : x = event(p)
    BY <1>1 DEF S
  <1>7. \A p \in Founded : event(p) \in S
    BY DEF S
  <1>8. audit \in Seq(AuditEvent) /\ Len(audit) = N
    BY <1>5, <1>6
  <1> QED BY <1>5, <1>6, <1>7, <1>8 DEF event

LEMMA InitInv ==
  Init => CredentialsInv
  <1> SUFFICES ASSUME Init PROVE CredentialsInv
    OBVIOUS
  <1> DEFINE event(p) == Event(p, "created", 1, 0)
             first == [ version |-> 1, enabled |-> FALSE, settings |-> 0, credential_version |-> 1 ]
             stored(p) == Credential(1, [ key_id |-> FirstKey, aad |-> <<p, 1>>, secret |-> 0 ])
  <1>1. /\ providers = [ p \in Providers |-> IF p \notin Founded THEN None ELSE first ]
        /\ credentials = [ p \in Providers |-> IF p \notin Founded THEN None ELSE stored(p) ]
        /\ commands = << >> /\ servers = [ s \in Servers |-> Stopped ] /\ flow = Idle
        /\ rekey = NoRekey /\ operator = [ verified |-> None, destroyed |-> {} ]
    BY DEF Init
  <1>2. /\ audit \in Seq(AuditEvent)
        /\ \A n \in 1 .. Len(audit) : \E p \in Founded : audit[n] = event(p)
        /\ \A m, n \in 1 .. Len(audit) : audit[m] = audit[n] => m = n
        /\ \A p \in Founded : \E n \in 1 .. Len(audit) : audit[n] = event(p)
    BY FirstEvents DEF Init
  <1>3. \A p \in Providers : /\ event(p).provider = p /\ event(p).action = "created"
                             /\ event(p).version = 1 /\ event(p).command = 0
    BY EventType DEF Actions
  <1>4. /\ first \in Provider /\ first # None
        /\ first.version = 1 /\ first.settings = 0 /\ first.credential_version = 1
    <2>1. first \in Provider
      BY DEF Provider
    <2> QED BY <2>1, NoneAssumption
  <1>5. ASSUME NEW p \in Providers
        PROVE  /\ stored(p) \in ProviderCredential /\ stored(p) # None
               /\ stored(p).credential_version = 1
               /\ stored(p).sealed.aad = <<p, 1>> /\ stored(p).sealed.secret = 0
    <2>1. stored(p) = [ credential_version |-> 1,
                        sealed |-> [ key_id |-> FirstKey, aad |-> <<p, 1>>, secret |-> 0 ] ]
      BY DEF Credential
    <2>2. stored(p) \in ProviderCredential
      BY <2>1, Assumed DEF ProviderCredential, Sealed
    <2> QED BY <2>1, <2>2, NoneAssumption
  <1>6. Len(commands) = 0 /\ commands \in Seq(AdminCommand) /\ Founded \subseteq Providers
    BY <1>1, Assumed
  <1> HIDE DEF event, first, stored
  <1>7. ASSUME NEW n \in 1 .. Len(audit)
        PROVE  /\ audit[n].provider \in Founded /\ audit[n].action = "created"
               /\ audit[n].version = 1 /\ audit[n].command = 0
               /\ audit[n] = event(audit[n].provider)
    BY <1>2, <1>3, <1>6
  <1>8. TypesInv
    BY <1>1, <1>2, <1>6, <1>7 DEF TypesInv
  <1>9. ASSUME NEW p \in Providers PROVE ProviderOK(p) /\ KeyKept(p) /\ StoredOK(p) /\ VersionsOK(p)
    <2>1. KeyKept(p)
      BY <1>1 DEF KeyKept
    <2>2. CASE p \notin Founded
      <3>1. providers[p] = None /\ credentials[p] = None
        BY <1>1, <2>2
      <3>2. \A n \in 1 .. Len(audit) : ~Change(n, p)
        BY <1>7, <2>2 DEF Change
      <3> QED BY <2>1, <3>1, <3>2 DEF ProviderOK, StoredOK, VersionsOK, Version
    <2>3. CASE p \in Founded
      <3>1. providers[p] = first /\ credentials[p] = stored(p)
        BY <1>1, <2>3
      <3>2. ProviderOK(p)
        BY <1>4, <1>5, <3>1 DEF ProviderOK
      <3>3. PICK n \in 1 .. Len(audit) : audit[n] = event(p)
        BY <1>2, <2>3
      <3>4. audit[n].provider = p /\ audit[n].action = "created" /\ audit[n].version = 1
            /\ audit[n].command = 0
        BY <1>3, <3>3
      <3>5. StoredBy(p, 0, n, Len(audit))
        <4>1. \A k \in n + 1 .. Len(audit) : k \in 1 .. Len(audit)
          BY <1>2
        <4> QED BY <1>7, <3>4, <4>1 DEF StoredBy
      <3>6. StoredOK(p)
        BY <1>4, <3>1, <3>5 DEF StoredOK
      <3>7. Version(p) = 1
        BY <1>4, <3>1 DEF Version
      <3>8. \A k \in 1 .. Len(audit) : Change(k, p) => k = n
        BY <1>2, <1>7, <3>3 DEF Change
      <3>9. Change(n, p)
        BY <3>4 DEF Change
      <3>10. VersionsOK(p)
        <4>1. \A k \in 1 .. Len(audit) : Change(k, p) => audit[k].version \in 1 .. Version(p)
          BY <1>7, <3>7
        <4>2. \A k, m \in 1 .. Len(audit) :
                Change(k, p) /\ Change(m, p) /\ k < m => audit[k].version < audit[m].version
          BY <3>8
        <4>3. \A v \in 1 .. Version(p) : \E k \in 1 .. Len(audit) : Change(k, p) /\ audit[k].version = v
          BY <3>4, <3>7, <3>9
        <4> QED BY <4>1, <4>2, <4>3 DEF VersionsOK
      <3> QED BY <2>1, <3>2, <3>6, <3>10
    <2> QED BY <2>2, <2>3
  <1>10. \A s \in Servers : ServerOK(s) /\ CheckOK(s)
    BY <1>1 DEF ServerOK, CheckOK, Stopped
  <1>11. RekeyOK /\ VerifyOK
    BY <1>1 DEF RekeyOK, VerifyOK, NoRekey
  <1>12. KeysInv
    <2>1. operator.destroyed = {} /\ operator.verified = None
      BY <1>1
    <2> QED BY <2>1 DEF KeysInv
  <1>13. FlowOK
    BY <1>1 DEF FlowOK, Idle
  <1>14. \A n \in 1 .. Len(audit) : TestOK(n)
    BY <1>7 DEF TestOK
  <1>15. \A i \in 1 .. Len(commands) : CommandOK(i)
    BY <1>6
  <1> QED BY <1>8, <1>9, <1>10, <1>11, <1>12, <1>13, <1>14, <1>15 DEF CredentialsInv

-----------------------------------------------------------------------------
(* The invariant. *)
LEMMA Parts ==
  /\ CredentialsInv <=> RowsInv /\ KeysAll
  /\ CredentialsInv' <=> RowsInv' /\ KeysAll'
  BY DEF CredentialsInv, RowsInv, KeysAll

LEMMA StepInv ==
  CredentialsInv /\ [Next]_vars => CredentialsInv'
  <1> SUFFICES ASSUME RowsInv, KeysAll, [Next]_vars PROVE RowsInv' /\ KeysAll'
    BY Parts
  <1> DEFINE Goal == RowsInv' /\ KeysAll'
  <1>1. TypesInv /\ RekeyOK
    BY DEF RowsInv, KeysAll
  <1>2. ASSUME UNCHANGED <<credentials, servers, rekey, operator>> PROVE KeysAll'
    <2>1. Administers
      BY <1>2 DEF Administers, KeyWrites
    <2> QED BY <2>1, AdministersKeys
  <1>3. ASSUME \/ \E t \in 1 .. Tenants : send_create(t)
               \/ \E p \in Providers, kind \in Edits : send_edit(p, kind)
        PROVE  Goal
    <2>1. UNCHANGED <<credentials, servers, rekey, operator>>
      BY <1>3 DEF send_create, send_edit, send
    <2> QED BY <1>2, <1>3, <2>1, SendsRows
  <1>4. ASSUME NEW s \in Servers, NEW i \in 1 .. Len(commands), NEW verdict \in Verdicts,
               NEW outcome \in Outcomes, NEW p \in Providers, create_provider(s, i, p, verdict, outcome)
        PROVE  Goal
    BY <1>4, CreateStep, AdministersKeys
  <1>5. ASSUME NEW s \in Servers, NEW i \in 1 .. Len(commands), NEW verdict \in Verdicts,
               NEW outcome \in Outcomes, edit_provider(s, i, verdict, outcome)
        PROVE  Goal
    BY <1>5, EditStep, AdministersKeys
  <1>6. ASSUME \/ \E s \in Servers, p \in Providers : read_provider(s, p)
               \/ provider_credentials
               \/ Abandon
        PROVE  Goal
    <2>1. UNCHANGED <<credentials, servers, rekey, operator>>
      BY <1>6 DEF read_provider, provider_credentials, Abandon
    <2> QED BY <1>2, <1>6, <2>1, FlowRows
  <1>7. ASSUME NEW outcome \in Outcomes, test_provider(outcome) PROVE Goal
    <2>1. UNCHANGED <<credentials, servers, rekey, operator>>
      BY <1>7 DEF test_provider
    <2> QED BY <1>2, <1>7, <2>1, TestRows
  <1>8. ASSUME NEW ring \in CredentialKeys, NEW verify_only \in BOOLEAN, begin_rekey(ring, verify_only)
        PROVE  Goal
    BY <1>1, <1>8, ProcessRows, BeginKeys
  <1>9. ASSUME reencrypt_tenant PROVE Goal
    BY <1>9, ProcessRows, ReencryptKeys
  <1>10. ASSUME NEW outcome \in Outcomes, finish_rekey(outcome) PROVE Goal
    BY <1>1, <1>10, FinishRows, FinishKeys
  <1>11. ASSUME fail_rekey PROVE Goal
    <2>1. KeyWrites /\ rekey' = NoRekey /\ UNCHANGED <<servers, operator>>
      BY <1>11 DEF fail_rekey, KeyWrites
    <2> QED BY <1>11, <2>1, ProcessRows, RekeyEnds
  <1>12. ASSUME NEW s \in Servers, NEW ring \in CredentialKeys, start(s, ring) PROVE Goal
    BY <1>1, <1>12, ProcessRows, StartKeys
  <1>13. ASSUME NEW s \in Servers, check_credential_keys(s) PROVE Goal
    BY <1>1, <1>13, ProcessRows, CheckKeys
  <1>14. ASSUME NEW s \in Servers, stop(s) PROVE Goal
    BY <1>1, <1>14, ProcessRows, StopKeys
  <1>15. ASSUME destroy PROVE Goal
    BY <1>15, ProcessRows, DestroyKeys
  <1>16. ASSUME UNCHANGED vars PROVE Goal
    <2>1. UNCHANGED <<providers, credentials, audit, commands, servers, flow, rekey, operator>>
      BY <1>16 DEF vars
    <2>2. FlowOK' /\ DOMAIN servers' = Servers
      BY <2>1, SameFlow DEF RowsInv, TypesInv
    <2> QED BY <1>2, <2>1, <2>2, UntouchedRows
  <1> HIDE DEF Goal
  <1>17. Next => Goal
    BY <1>3, <1>4, <1>5, <1>6, <1>7, <1>8, <1>9, <1>10, <1>11, <1>12, <1>13, <1>14, <1>15, Zenon DEF Next
  <1>18. Goal
    BY <1>16, <1>17
  <1> QED BY <1>18 DEF Goal

(* In every reachable state a provider and its secret belong together and are *)
(* under a key that was not destroyed, what a check or a verification has     *)
(* found good is under the only key anybody writes with, the audit log names  *)
(* the versions of a provider one after the other, and what is known of every *)
(* command is what became of it.                                            *)
THEOREM CredentialsInvariant == Spec => []CredentialsInv
  <1> QED BY InitInv, StepInv, PTL DEF Spec

(* No stored secret is ever lost, whatever is rotated, written, restarted,    *)
(* verified and destroyed, in any order.                                     *)
THEOREM SecretsAreKept == Spec => []SecretsStayReadable
  <1>1. CredentialsInv => SecretsStayReadable
    BY DEF CredentialsInv, ProviderOK, KeyKept, SecretsStayReadable
  <1> QED BY <1>1, CredentialsInvariant, PTL

(* A secret goes to the provider it was stored for only, and a recorded test  *)
(* is of the settings and the secret its version had.                        *)
THEOREM TestsAreOfOneEdit == Spec => []TestedAsConfigured
  <1>1. CredentialsInv => TestedAsConfigured
    <2> SUFFICES ASSUME CredentialsInv PROVE TestedAsConfigured
      OBVIOUS
    <2>1. flow.stage = "called" => flow.secret = flow.view.settings
      BY DEF CredentialsInv, FlowOK
    <2>2. ASSUME NEW n \in 1 .. Len(audit), audit[n].action = "tested"
          PROVE  \E m \in 1 .. n - 1 :
                   /\ audit[m].provider = audit[n].provider
                   /\ audit[m].action \in {"created", "update"}
                   /\ audit[m].command = audit[n].command /\ audit[m].command = audit[n].secret
                   /\ \A k \in m + 1 .. n - 1 :
                        audit[k].provider = audit[n].provider => audit[k].action # "update"
      BY <2>2 DEF CredentialsInv, TestOK, StoredBy
    <2> QED BY <2>1, <2>2 DEF TestedAsConfigured
  <1> QED BY <1>1, CredentialsInvariant, PTL

(* What an administrator is told is what happened, and the audit log has it   *)
(* once, however often the command was sent and wherever its commit was lost. *)
THEOREM AnswersAreTrue == Spec => []AnsweredAsSettled
  <1>1. CredentialsInv => AnsweredAsSettled
    <2> SUFFICES ASSUME CredentialsInv PROVE AnsweredAsSettled
      OBVIOUS
    <2>1. ASSUME NEW i \in 1 .. Len(commands)
          PROVE  LET recorded ==
                   { n \in 1 .. Len(audit) : audit[n].command = i /\ audit[n].action # "tested" } IN
                 /\ commands[i].status = 200 => recorded # {}
                 /\ commands[i].status \in {Waiting, 400, 401, 409} /\ ~commands[i].doubted => recorded = {}
                 /\ commands[i].kind # "create" => Cardinality(recorded) <= 1
      <3> DEFINE recorded ==
                   { n \in 1 .. Len(audit) : audit[n].command = i /\ audit[n].action # "tested" }
      <3>1. CommandOK(i)
        BY DEF CredentialsInv
      <3>2. \A n : n \in recorded <=> n \in 1 .. Len(audit) /\ Records(n, i)
        BY DEF Records
      <3> HIDE DEF recorded
      <3>3. commands[i].status = 200 => recorded # {}
        BY <3>1, <3>2 DEF CommandOK
      <3>4. commands[i].status \in {Waiting, 400, 401, 409} /\ ~commands[i].doubted => recorded = {}
        BY <3>1, <3>2 DEF CommandOK
      <3>5. ASSUME commands[i].kind # "create" PROVE Cardinality(recorded) <= 1
        <4> DEFINE p == commands[i].provider
        <4>1. /\ p \in Providers
              /\ \A n \in recorded : Change(n, p) /\ n \in 1 .. Len(audit)
                                     /\ audit[n].version = commands[i].expected + 1
          BY <3>1, <3>2, <3>5 DEF CommandOK, Records, Change
        <4>2. VersionsOK(p) /\ commands[i].expected \in Nat
          <5>1. commands[i] \in AdminCommand
            BY DEF CredentialsInv, TypesInv
          <5> QED BY <4>1, <5>1 DEF CredentialsInv, AdminCommand
        <4>3. \A m, n \in recorded : m = n
          <5> SUFFICES ASSUME NEW m \in recorded, NEW n \in recorded, m # n PROVE FALSE
            OBVIOUS
          <5>1. m < n \/ n < m
            BY <4>1
          <5>2. audit[m].version < audit[n].version \/ audit[n].version < audit[m].version
            BY <4>1, <4>2, <5>1 DEF VersionsOK
          <5> QED BY <4>1, <4>2, <5>2
        <4>4. CASE recorded = {}
          BY <4>4, FS_EmptySet
        <4>5. CASE recorded # {}
          <5>1. PICK n \in recorded : TRUE
            BY <4>5
          <5>2. recorded = {n}
            BY <4>3, <5>1
          <5>3. Cardinality({n}) = 1
            BY FS_Singleton
          <5> QED BY <5>2, <5>3
        <4> QED BY <4>4, <4>5
      <3> QED BY <3>3, <3>4, <3>5 DEF recorded
    <2>2. ASSUME NEW p \in Providers
          PROVE  LET last == Version(p)
                     changes == { n \in 1 .. Len(audit) :
                                    audit[n].provider = p /\ audit[n].action # "tested" } IN
                 /\ \A n \in changes : audit[n].version \in 1 .. last
                 /\ \A m, n \in changes : m < n => audit[m].version < audit[n].version
                 /\ \A v \in 1 .. last : \E n \in changes : audit[n].version = v
      <3> DEFINE changes ==
                   { n \in 1 .. Len(audit) : audit[n].provider = p /\ audit[n].action # "tested" }
      <3>1. VersionsOK(p)
        BY DEF CredentialsInv
      <3>2. \A n : n \in changes <=> n \in 1 .. Len(audit) /\ Change(n, p)
        BY DEF Change
      <3> HIDE DEF changes
      <3>3. /\ \A n \in changes : audit[n].version \in 1 .. Version(p)
            /\ \A m, n \in changes : m < n => audit[m].version < audit[n].version
            /\ \A v \in 1 .. Version(p) : \E n \in changes : audit[n].version = v
        BY <3>1, <3>2 DEF VersionsOK
      <3> QED BY <3>3 DEF changes
    <2> QED BY <2>1, <2>2 DEF AnsweredAsSettled, Version
  <1> QED BY <1>1, CredentialsInvariant, PTL

-----------------------------------------------------------------------------
(***************************************************************************)
(* The register of commands.                                               *)
(***************************************************************************)

(* A creation expects nothing to be there, and commands are numbered within    *)
(* their bound.                                                              *)
SentInv ==
  /\ Len(commands) <= MaxCommands
  /\ \A i \in 1 .. Len(commands) : commands[i].kind = "create" => commands[i].expected = 0

(* What a command asks for does not change with its answer. *)
AskedAsBefore ==
  /\ Len(commands) <= Len(commands')
  /\ \A i \in 1 .. Len(commands) :
       commands'[i].kind = commands[i].kind /\ commands'[i].expected = commands[i].expected

LEMMA AnsweredAsks ==
  ASSUME TypesInv, NEW s, NEW i \in 1 .. Len(commands), NEW domain \in Domains,
         NEW outcome \in Outcomes, Answered(s, i, domain, outcome)
  PROVE  AskedAsBefore /\ Len(commands') = Len(commands)
  <1> DEFINE st == status(domain_result(outcome, domain))
  <1>1. commands' = [commands EXCEPT ![i] = AnsweredRow(commands[i], st)]
        /\ Possible(outcome, domain)
    BY DEF Answered
  <1>2. st \in {200, 400, 401, 409, 503}
    BY <1>1, Statuses
  <1> HIDE DEF st
  <1>3. st \in Nat /\ commands[i] \in AdminCommand /\ Len(commands) \in Nat
    BY <1>2 DEF TypesInv
  <1>4. /\ Len(commands') = Len(commands) /\ commands'[i] = AnsweredRow(commands[i], st)
        /\ \A j \in 1 .. Len(commands) : j # i => commands'[j] = commands[j]
    BY <1>1, <1>3, Told
  <1>5. commands'[i].kind = commands[i].kind /\ commands'[i].expected = commands[i].expected
    BY <1>3, <1>4, CommandAnswered
  <1> QED BY <1>3, <1>4, <1>5 DEF AskedAsBefore

LEMMA SendAsks ==
  ASSUME TypesInv, NEW command \in AdminCommand, send(command)
  PROVE  /\ AskedAsBefore /\ Len(commands) < MaxCommands /\ Len(commands') = Len(commands) + 1
         /\ commands'[Len(commands) + 1] = command
         /\ UNCHANGED <<providers, audit>>
  <1>1. /\ commands' = Append(commands, command) /\ Len(commands) < MaxCommands
        /\ UNCHANGED <<providers, audit>> /\ commands \in Seq(AdminCommand)
    BY DEF send, TypesInv
  <1>2. /\ Len(commands') = Len(commands) + 1 /\ Len(commands) \in Nat
        /\ \A j \in 1 .. Len(commands) : commands'[j] = commands[j]
        /\ commands'[Len(commands) + 1] = command
    BY <1>1, AppendProperties
  <1> QED BY <1>1, <1>2 DEF AskedAsBefore

(* What a command that is sent is like. *)
LEMMA SentCommand ==
  ASSUME RowsInv,
         \/ \E t \in 1 .. Tenants : send_create(t)
         \/ \E p \in Providers, kind \in Edits : send_edit(p, kind)
  PROVE  \E command \in AdminCommand :
           send(command) /\ (command.kind = "create" => command.expected = 0)
  <1>1. ASSUME NEW t \in 1 .. Tenants, send_create(t)
        PROVE  \E command \in AdminCommand :
                 send(command) /\ (command.kind = "create" => command.expected = 0)
    <2> DEFINE command == Command(t, "create", None, 0)
    <2>1. send(command)
      BY <1>1 DEF send_create
    <2>2. command \in AdminCommand /\ command.expected = 0
      BY CommandType
    <2> HIDE DEF command
    <2> QED BY <2>1, <2>2
  <1>2. ASSUME NEW p \in Providers, NEW kind \in Edits, send_edit(p, kind)
        PROVE  \E command \in AdminCommand :
                 send(command) /\ (command.kind = "create" => command.expected = 0)
    <2>1. PICK command : command = Command(TenantOf[p], kind, p, providers[p].version)
      OBVIOUS
    <2>2. send(command) /\ providers[p] # None
      BY <1>2, <2>1 DEF send_edit
    <2>3. kind \in EditKinds /\ TenantOf[p] \in 1 .. Tenants
      BY Assumed, CredentialsAssumption DEF EditKinds
    <2>4. providers[p].version \in Nat
      BY <2>2, ProviderFields DEF RowsInv, ProviderOK
    <2>5. command \in AdminCommand /\ command.kind = kind
      BY <2>1, <2>3, <2>4, CommandType
    <2>6. kind # "create"
      BY <2>3 DEF EditKinds
    <2> QED BY <2>2, <2>5, <2>6
  <1> QED BY <1>1, <1>2

LEMMA SentKept ==
  ASSUME TypesInv, SentInv, AskedAsBefore, Len(commands') = Len(commands)
  PROVE  SentInv'
  BY DEF SentInv, AskedAsBefore

LEMMA AsksUnchanged ==
  ASSUME TypesInv, UNCHANGED commands
  PROVE  AskedAsBefore /\ Len(commands') = Len(commands)
  <1>1. Len(commands) \in Nat
    BY DEF TypesInv
  <1> QED BY <1>1 DEF AskedAsBefore

(* The commands that took effect. *)
Counts(n) == n \in 1 .. Len(audit) /\ audit[n].command # 0 /\ audit[n].action # "tested"
Effects ==
  { Effect(audit[n]) :
      n \in { m \in 1 .. Len(audit) : audit[m].command # 0 /\ audit[m].action # "tested" } }
VersionMap == [p \in Providers |-> Version(p)]

LEMMA EffectsAre ==
  /\ \A x : x \in Effects <=> \E n : Counts(n) /\ x = Effect(audit[n])
  /\ \A x : x \in Effects' <=> \E n : Counts(n)' /\ x = Effect(audit[n])'
  BY DEF Effects, Counts, Effect

(* An effect is of a command that was sent, so it stays what it was. *)
LEMMA EffectKept ==
  ASSUME TypesInv, AskedAsBefore, NEW n, Counts(n), audit'[n] = audit[n]
  PROVE  Effect(audit[n])' = Effect(audit[n])
  <1>1. audit[n] \in AuditEvent /\ audit[n].command <= Len(commands) /\ Len(commands) \in Nat
    BY ElementOfSeq DEF TypesInv, Counts
  <1>2. audit[n].command \in 1 .. Len(commands)
    BY <1>1 DEF AuditEvent, Counts
  <1>3. commands'[audit[n].command].expected = commands[audit[n].command].expected
    BY <1>2 DEF AskedAsBefore
  <1> QED BY <1>3 DEF Effect

(* A step that records no change of a provider. *)
LEMMA RegisterKept ==
  ASSUME TypesInv, AskedAsBefore, \A p \in Providers : Version(p)' = Version(p),
         audit' = audit \/ \E e : Grows(e) /\ e.action = "tested"
  PROVE  UNCHANGED Register!register
  <1>1. \A n : Counts(n)' <=> Counts(n)
    <2>1. CASE audit' = audit
      BY <2>1 DEF Counts
    <2>2. ASSUME NEW e, Grows(e), e.action = "tested" PROVE \A n : Counts(n)' <=> Counts(n)
      <3>1. Len(audit) \in Nat
        BY DEF TypesInv
      <3> QED BY <2>2, <3>1 DEF Grows, Counts
    <2> QED BY <2>1, <2>2
  <1>2. \A n : Counts(n) => audit'[n] = audit[n]
    BY DEF Grows, Counts
  <1>3. \A n : Counts(n) => Effect(audit[n])' = Effect(audit[n])
    BY <1>2, EffectKept
  <1>4. Effects' = Effects
    BY <1>1, <1>3, EffectsAre
  <1>5. VersionMap' = VersionMap
    BY DEF VersionMap
  <1> QED BY <1>4, <1>5 DEF Effects, VersionMap, Register!register

(* A step that records a command's first change of a provider, at the version  *)
(* it expected.                                                              *)
Takes(i, q, e) ==
  /\ AskedAsBefore /\ Grows(e)
  /\ e.provider = q /\ e.command = i /\ e.action # "tested"
  /\ Version(q) = commands[i].expected /\ Version(q)' = Version(q) + 1
  /\ \A p \in Providers : p # q => Version(p)' = Version(p)
  /\ \A n \in 1 .. Len(audit) : Records(n, i) => audit[n].provider # q

LEMMA TakesEffect ==
  ASSUME TypesInv, NEW i \in 1 .. Len(commands), NEW q \in Providers, NEW e, Takes(i, q, e)
  PROVE  Register!TakeEffect(<<i, q>>, q)
  <1> DEFINE new == [ id |-> <<i, q>>, object |-> q, expected |-> VersionMap[q] ]
  <1>1. /\ AskedAsBefore /\ Len(audit) \in Nat /\ Len(audit') = Len(audit) + 1
        /\ \A n \in 1 .. Len(audit) : audit'[n] = audit[n]
        /\ audit'[Len(audit) + 1] = e
        /\ i \in Nat /\ i # 0
    BY DEF Takes, Grows, TypesInv
  <1>2. ASSUME NEW earlier \in Effects PROVE earlier.id # <<i, q>>
    <2>1. PICK n : Counts(n) /\ earlier = Effect(audit[n])
      BY EffectsAre
    <2>2. audit[n].command = i => audit[n].provider # q
      BY <2>1 DEF Takes, Counts, Records
    <2> QED BY <2>1, <2>2 DEF Effect
  <1>3. VersionMap' = [VersionMap EXCEPT ![q] = @ + 1]
    BY DEF VersionMap, Takes
  <1>4. \A n : n = Len(audit) + 1 => Counts(n)' /\ Effect(audit[n])' = new
    <2>1. commands'[i].expected = commands[i].expected
      BY <1>1 DEF AskedAsBefore
    <2>2. VersionMap[q] = commands[i].expected
      BY DEF Takes, VersionMap
    <2>3. e.provider = q /\ e.command = i /\ e.action # "tested"
      BY DEF Takes
    <2> QED BY <1>1, <2>1, <2>2, <2>3 DEF Counts, Effect
  <1> HIDE DEF new
  <1>5. \A n : Counts(n) => Counts(n)' /\ Effect(audit[n])' = Effect(audit[n])
    <2> SUFFICES ASSUME NEW n, Counts(n) PROVE Counts(n)' /\ Effect(audit[n])' = Effect(audit[n])
      OBVIOUS
    <2>1. n \in 1 .. Len(audit) /\ audit'[n] = audit[n]
      BY <1>1 DEF Counts
    <2>2. Counts(n)'
      BY <1>1, <2>1 DEF Counts
    <2> QED BY <1>1, <2>1, <2>2, EffectKept
  <1>6. \A n : Counts(n)' => Counts(n) \/ n = Len(audit) + 1
    <2> SUFFICES ASSUME NEW n, Counts(n)', n # Len(audit) + 1 PROVE Counts(n)
      OBVIOUS
    <2>1. n \in 1 .. Len(audit)
      BY <1>1 DEF Counts
    <2> QED BY <1>1, <2>1 DEF Counts
  <1>7. Effects' = Effects \cup {new}
    <2>1. ASSUME NEW x \in Effects' PROVE x \in Effects \cup {new}
      <3>1. PICK n : Counts(n)' /\ x = Effect(audit[n])'
        BY EffectsAre
      <3> QED BY <1>4, <1>5, <1>6, <3>1, EffectsAre
    <2>2. ASSUME NEW x \in Effects PROVE x \in Effects'
      <3>1. PICK n : Counts(n) /\ x = Effect(audit[n])
        BY EffectsAre
      <3> QED BY <1>5, <3>1, EffectsAre
    <2>3. new \in Effects'
      BY <1>4, EffectsAre
    <2> QED BY <2>1, <2>2, <2>3
  <1> QED BY <1>2, <1>3, <1>7 DEF new, Effects, VersionMap, Register!TakeEffect

(* A new provider has no version and nobody's event. *)
LEMMA CreateTakes ==
  ASSUME RowsInv, SentInv, NEW s \in Servers, NEW i \in 1 .. Len(commands), NEW p \in Providers,
         NEW verdict \in Verdicts, NEW outcome \in Outcomes, create_provider(s, i, p, verdict, outcome)
  PROVE  /\ AskedAsBefore /\ Len(commands') = Len(commands)
         /\ UNCHANGED Register!register \/ Register!TakeEffect(<<i, p>>, p)
  <1> DEFINE existing == { q \in Providers : TenantOf[q] = commands[i].tenant /\ providers[q] # None }
             domain == IF verdict # "ok" THEN verdict
                       ELSE IF Cardinality(existing) >= ProviderLimit THEN "limit" ELSE "ok"
             e == Event(p, "created", 1, i)
             next == [ version |-> 1, enabled |-> FALSE, settings |-> i, credential_version |-> 1 ]
  <1>1. /\ commands[i].kind = "create" /\ (domain = "ok" => providers[p] = None)
        /\ Answered(s, i, domain, outcome)
        /\ append_events(outcome, <<e>>)
        /\ IF Applied(outcome)
           THEN providers' = [providers EXCEPT ![p] = next] ELSE UNCHANGED providers
    BY DEF create_provider
  <1>2. domain \in Domains
    BY DEF Verdicts, Domains
  <1> HIDE DEF domain
  <1>3. TypesInv /\ AskedAsBefore /\ Len(commands') = Len(commands)
    BY <1>1, <1>2, AnsweredAsks DEF RowsInv
  <1>4. CASE ~Applied(outcome)
    <2>1. UNCHANGED <<providers, audit>>
      BY <1>1, <1>4 DEF append_events
    <2>2. \A q \in Providers : Version(q)' = Version(q)
      BY <2>1 DEF Version
    <2> QED BY <1>3, <2>1, <2>2, RegisterKept
  <1>5. CASE Applied(outcome)
    <2>1. audit' = audit \o <<e>> /\ providers' = [providers EXCEPT ![p] = next]
      BY <1>1, <1>5 DEF append_events
    <2>2. Possible(outcome, domain) /\ providers[p] = None
      BY <1>1, <1>5 DEF Answered, Possible, Applied
    <2>3. e \in AuditEvent /\ e.provider = p /\ e.action = "created" /\ e.command = i
      BY EventType DEF Actions
    <2>4. next \in Provider /\ next.version = 1
      BY DEF Provider
    <2> HIDE DEF e, next
    <2>5. Grows(e)
      BY <1>3, <2>1, <2>3, Logged DEF TypesInv
    <2>6. /\ Version(p) = 0 /\ Version(p)' = 1
          /\ \A q \in Providers : q # p => Version(q)' = Version(q)
      BY <1>3, <2>1, <2>2, <2>4, NoneAssumption DEF TypesInv, Version
    <2>7. commands[i].expected = 0
      BY <1>1 DEF SentInv
    <2>8. ASSUME NEW n \in 1 .. Len(audit), Records(n, i) PROVE audit[n].provider # p
      <3>1. VersionsOK(p)
        BY DEF RowsInv
      <3>2. Change(n, p) => audit[n].version \in 1 .. 0
        BY <2>6, <3>1 DEF VersionsOK
      <3>3. ~Change(n, p)
        BY <3>2
      <3> QED BY <2>8, <3>3 DEF Records, Change
    <2>9. Takes(i, p, e)
      BY <1>3, <2>3, <2>5, <2>6, <2>7, <2>8 DEF Takes
    <2> QED BY <1>3, <2>9, TakesEffect
  <1> QED BY <1>4, <1>5

(* An earlier event of the same edit would name the version that is next. *)
LEMMA EditTakes ==
  ASSUME RowsInv, NEW s \in Servers, NEW i \in 1 .. Len(commands),
         NEW verdict \in Verdicts, NEW outcome \in Outcomes, edit_provider(s, i, verdict, outcome)
  PROVE  /\ AskedAsBefore /\ Len(commands') = Len(commands)
         /\ \/ UNCHANGED Register!register
            \/ \E p \in Providers : Register!TakeEffect(<<i, p>>, p)
  <1> DEFINE command == commands[i]
             p == command.provider
             row == providers[p]
             update == command.kind = "update"
             domain == IF verdict # "ok" THEN verdict
                       ELSE IF ~Expected(row, command.expected) THEN "stale" ELSE "ok"
             next == [ version |-> row.version + 1,
                       enabled |-> IF update THEN row.enabled ELSE command.kind = "enable",
                       settings |-> IF update THEN i ELSE row.settings,
                       credential_version |-> IF update THEN row.credential_version + 1
                                              ELSE row.credential_version ]
             e == Event(p, command.kind, next.version, i)
  <1>1. /\ command.kind \in {"update", "enable", "disable"}
        /\ Answered(s, i, domain, outcome)
        /\ append_events(outcome, <<e>>)
        /\ IF Applied(outcome)
           THEN providers' = [providers EXCEPT ![p] = next] ELSE UNCHANGED providers
    BY DEF edit_provider
  <1>2. domain \in Domains /\ (domain = "ok" => row.version = command.expected)
    BY DEF Verdicts, Domains, Expected
  <1>3. next.version = row.version + 1
    OBVIOUS
  <1> HIDE DEF domain, next
  <1>4. TypesInv /\ AskedAsBefore /\ Len(commands') = Len(commands)
    BY <1>1, <1>2, AnsweredAsks DEF RowsInv
  <1>5. CASE ~Applied(outcome)
    <2>1. UNCHANGED <<providers, audit>>
      BY <1>1, <1>5 DEF append_events
    <2>2. \A q \in Providers : Version(q)' = Version(q)
      BY <2>1 DEF Version
    <2> QED BY <1>4, <2>1, <2>2, RegisterKept
  <1>6. CASE Applied(outcome)
    <2>1. audit' = audit \o <<e>> /\ providers' = [providers EXCEPT ![p] = next]
      BY <1>1, <1>6 DEF append_events
    <2>2. row.version = command.expected
      BY <1>1, <1>2, <1>6 DEF Answered, Possible, Applied
    <2>3. /\ p \in Providers /\ row # None
          /\ \A n \in 1 .. Len(audit) : Records(n, i) => audit[n].version = command.expected + 1
      BY <1>1 DEF RowsInv, CommandOK
    <2>4. row.version \in Nat /\ next.version \in Nat
      BY <1>3, <2>3, ProviderFields DEF RowsInv, ProviderOK
    <2>5. e \in AuditEvent /\ e.provider = p /\ e.action # "tested" /\ e.command = i
      <3>1. command.kind \in Actions /\ command.kind # "tested" /\ i \in Nat
        BY <1>1 DEF Actions
      <3> QED BY <2>3, <2>4, <3>1, EventType
    <2>6. next \in Provider
      <3>1. row \in Provider /\ i \in Nat
        BY <2>3 DEF RowsInv, ProviderOK
      <3>2. /\ row.enabled \in BOOLEAN /\ row.settings \in Nat /\ row.credential_version \in Nat
        BY <3>1, ProviderFields
      <3>3. (IF update THEN row.enabled ELSE command.kind = "enable") \in BOOLEAN
        BY <3>2
      <3>4. /\ row.version + 1 \in Nat /\ (IF update THEN i ELSE row.settings) \in Nat
            /\ (IF update THEN row.credential_version + 1 ELSE row.credential_version) \in Nat
        BY <2>4, <3>1, <3>2
      <3> QED BY <3>3, <3>4, Zenon DEF Provider, next
    <2> HIDE DEF e
    <2>7. Grows(e)
      BY <1>4, <2>1, <2>5, Logged DEF TypesInv
    <2>8. ASSUME NEW q \in Providers, q = p PROVE Register!TakeEffect(<<i, q>>, q)
      <3>1. Version(q) = row.version
        BY <2>3, <2>8 DEF Version
      <3>2. Version(q)' = row.version + 1
        <4>1. providers'[q] = next
          BY <1>4, <2>1, <2>8 DEF TypesInv
        <4>2. next # None
          BY <2>6, NoneAssumption
        <4> QED BY <1>3, <4>1, <4>2 DEF Version
      <3>3. \A r \in Providers : r # q => Version(r)' = Version(r)
        BY <1>4, <2>1, <2>8 DEF TypesInv, Version
      <3>4. ASSUME NEW n \in 1 .. Len(audit), Records(n, i) PROVE audit[n].provider # q
        <4>1. audit[n].version = row.version + 1
          BY <2>2, <2>3, <3>4
        <4>2. VersionsOK(q)
          BY DEF RowsInv
        <4>3. Change(n, q) => audit[n].version \in 1 .. row.version
          BY <3>1, <4>2 DEF VersionsOK
        <4>4. ~Change(n, q)
          BY <2>4, <4>1, <4>3
        <4> QED BY <3>4, <4>4 DEF Records, Change
      <3>5. Takes(i, q, e)
        BY <1>4, <2>2, <2>5, <2>7, <2>8, <3>1, <3>2, <3>3, <3>4 DEF Takes
      <3> QED BY <1>4, <3>5, TakesEffect
    <2>9. \E q \in Providers : Register!TakeEffect(<<i, q>>, q)
      <3> HIDE DEF p
      <3> QED BY <2>3, <2>8, Zenon
    <2> QED BY <1>4, <2>9
  <1> QED BY <1>5, <1>6

LEMMA TestRecords ==
  ASSUME RowsInv, NEW outcome \in Outcomes, test_provider(outcome)
  PROVE  /\ UNCHANGED <<providers, commands>>
         /\ audit' = audit \/ \E e : Grows(e) /\ e.action = "tested"
  <1> DEFINE p == flow.provider
             e == TestedEvent(p, flow.view.version, flow.view.settings, flow.secret)
  <1>1. flow.stage = "called" /\ UNCHANGED <<providers, commands>>
    BY DEF test_provider
  <1>2. CASE ~Applied(outcome)
    BY <1>1, <1>2 DEF test_provider, append_events
  <1>3. CASE Applied(outcome)
    <2>1. audit' = audit \o <<e>>
      BY <1>3 DEF test_provider, append_events, TestedEvent
    <2>2. p \in Providers /\ flow.view \in Provider /\ flow.secret \in Nat
      BY <1>1 DEF RowsInv, FlowOK
    <2>3. e \in AuditEvent /\ e.action = "tested"
      BY <2>2, ProviderFields, TestedType
    <2> HIDE DEF e
    <2>4. Grows(e)
      BY <2>1, <2>3, Logged DEF RowsInv, TypesInv
    <2> QED BY <1>1, <2>3, <2>4
  <1> QED BY <1>2, <1>3

LEMMA InitRegister ==
  ASSUME Init
  PROVE  SentInv /\ Register!RegisterInit
  <1>1. Len(commands) = 0
    BY DEF Init
  <1>2. SentInv
    BY <1>1, CredentialsAssumption DEF SentInv
  <1>3. VersionMap \in [Providers -> Nat]
    <2>1. \A p \in Providers : providers[p] = None \/ providers[p].version = 1
      BY DEF Init
    <2> QED BY <2>1 DEF VersionMap, Version
  <1>4. audit = SetToSeq({ Event(p, "created", 1, 0) : p \in Founded })
    BY DEF Init
  <1>5. \A n \in 1 .. Len(audit) : \E p \in Founded : audit[n] = Event(p, "created", 1, 0)
    BY <1>4, FirstEvents
  <1>6. ASSUME NEW n PROVE ~Counts(n)
    <2> SUFFICES ASSUME n \in 1 .. Len(audit) PROVE audit[n].command = 0
      BY DEF Counts
    <2>1. \A p : Event(p, "created", 1, 0).command = 0
      BY DEF Event
    <2> QED BY <1>5, <2>1
  <1>7. Effects = {}
    BY <1>6, EffectsAre
  <1> QED BY <1>2, <1>3, <1>7 DEF Effects, VersionMap, Register!RegisterInit

LEMMA StepRegister ==
  ASSUME CredentialsInv, SentInv, [Next]_vars
  PROVE  SentInv' /\ [Register!RegisterNext]_(Register!register)
  <1> DEFINE Goal == SentInv' /\ [Register!RegisterNext]_(Register!register)
  <1>1. RowsInv /\ TypesInv
    BY DEF CredentialsInv, RowsInv
  <1>2. ASSUME UNCHANGED <<providers, commands>>,
               audit' = audit \/ \E e : Grows(e) /\ e.action = "tested"
        PROVE  Goal
    <2>1. AskedAsBefore /\ SentInv'
      BY <1>1, <1>2, AsksUnchanged, SentKept
    <2>2. \A p \in Providers : Version(p)' = Version(p)
      BY <1>2 DEF Version
    <2> QED BY <1>1, <1>2, <2>1, <2>2, RegisterKept
  <1>3. ASSUME \/ \E t \in 1 .. Tenants : send_create(t)
               \/ \E p \in Providers, kind \in Edits : send_edit(p, kind)
        PROVE  Goal
    <2>1. PICK command \in AdminCommand :
            send(command) /\ (command.kind = "create" => command.expected = 0)
      BY <1>1, <1>3, SentCommand
    <2>2. /\ AskedAsBefore /\ Len(commands) < MaxCommands /\ Len(commands') = Len(commands) + 1
          /\ commands'[Len(commands) + 1] = command
          /\ UNCHANGED <<providers, audit>> /\ Len(commands) \in Nat
      BY <1>1, <2>1, SendAsks DEF TypesInv
    <2>3. \A j \in 1 .. Len(commands') : j \in 1 .. Len(commands) \/ j = Len(commands) + 1
      BY <2>2
    <2>4. SentInv'
      BY <2>1, <2>2, <2>3, CredentialsAssumption DEF SentInv, AskedAsBefore
    <2>5. \A p \in Providers : Version(p)' = Version(p)
      BY <2>2 DEF Version
    <2> QED BY <1>1, <2>2, <2>4, <2>5, RegisterKept
  <1>4. ASSUME NEW i \in 1 .. Len(commands), AskedAsBefore, Len(commands') = Len(commands),
               \/ UNCHANGED Register!register
               \/ \E p \in Providers : Register!TakeEffect(<<i, p>>, p)
        PROVE  Goal
    <2>1. SentInv'
      BY <1>1, <1>4, SentKept
    <2>2. i \in 1 .. MaxCommands
      BY <1>1, CredentialsAssumption DEF SentInv, TypesInv
    <2>3. ASSUME NEW p \in Providers, Register!TakeEffect(<<i, p>>, p) PROVE Register!RegisterNext
      <3>1. <<i, p>> \in (1 .. MaxCommands) \X Providers
        BY <2>2
      <3> QED BY <2>3, <3>1, Zenon DEF Register!RegisterNext
    <2> QED BY <1>4, <2>1, <2>3
  <1> HIDE DEF Goal
  <1>5. ASSUME NEW s \in Servers, NEW i \in 1 .. Len(commands), NEW verdict \in Verdicts,
               NEW outcome \in Outcomes, NEW p \in Providers, create_provider(s, i, p, verdict, outcome)
        PROVE  Goal
    BY <1>1, <1>4, <1>5, CreateTakes
  <1>6. ASSUME NEW s \in Servers, NEW i \in 1 .. Len(commands), NEW verdict \in Verdicts,
               NEW outcome \in Outcomes, edit_provider(s, i, verdict, outcome)
        PROVE  Goal
    BY <1>1, <1>4, <1>6, EditTakes
  <1>7. ASSUME NEW outcome \in Outcomes, test_provider(outcome) PROVE Goal
    <2>1. /\ UNCHANGED <<providers, commands>>
          /\ audit' = audit \/ \E e : Grows(e) /\ e.action = "tested"
      BY <1>1, <1>7, TestRecords
    <2> QED BY <1>2, <2>1
  <1>8. ASSUME \/ \E s \in Servers, p \in Providers : read_provider(s, p)
               \/ provider_credentials \/ Abandon
        PROVE  Goal
    BY <1>2, <1>8 DEF read_provider, provider_credentials, Abandon
  <1>9. ASSUME \/ \E ring \in CredentialKeys, verify_only \in BOOLEAN : begin_rekey(ring, verify_only)
               \/ reencrypt_tenant \/ fail_rekey
               \/ \E outcome \in Outcomes : finish_rekey(outcome)
        PROVE  Goal
    BY <1>2, <1>9 DEF begin_rekey, reencrypt_tenant, fail_rekey, finish_rekey
  <1>10. ASSUME \/ \E s \in Servers, ring \in CredentialKeys : start(s, ring)
                \/ \E s \in Servers : check_credential_keys(s) \/ stop(s)
                \/ destroy
         PROVE  Goal
    BY <1>2, <1>10 DEF start, check_credential_keys, stop, destroy
  <1>11. ASSUME UNCHANGED vars PROVE Goal
    <2>1. UNCHANGED <<providers, commands>> /\ audit' = audit
      BY <1>11 DEF vars
    <2> QED BY <1>2, <2>1
  <1>12. Next => Goal
    BY <1>3, <1>5, <1>6, <1>7, <1>8, <1>9, <1>10, Zenon DEF Next
  <1> QED BY <1>11, <1>12 DEF Goal

(* Administration implements the register of commands: a command takes effect  *)
(* once at most and only on the version its sender saw, however often it is    *)
(* sent and wherever its commits and answers are lost.                       *)
THEOREM AdministrationImplementsRegister == Spec => CommandsTakeEffectOnce
  <1>1. Init => SentInv /\ Register!RegisterInit
    BY InitRegister
  <1>2. CredentialsInv /\ SentInv /\ [Next]_vars =>
          SentInv' /\ [Register!RegisterNext]_(Register!register)
    BY StepRegister
  <1> QED BY <1>1, <1>2, CredentialsInvariant, PTL
          DEF Spec, CommandsTakeEffectOnce, Register!RegisterSpec
=============================================================================
