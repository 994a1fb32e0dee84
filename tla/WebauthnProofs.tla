---------------------------- MODULE WebauthnProofs ----------------------------
(***************************************************************************)
(* Proofs about passkeys, for every number of accounts, sessions, processes, *)
(* authenticators, ceremonies and requests, and every bound.                *)
(***************************************************************************)
EXTENDS Webauthn, FiniteSetTheorems, TLAPS

(* Nothing is open or accepted before the relying party is registered. *)
PartyInv ==
  /\ rp = Unconnected \/ rp \in [config : Configs, generation : 1 .. GenerationLimit]
  /\ rp = Unconnected => open = {} /\ \A k \in Keys : credentials[k].state # "valid"

(* An open row is one of the present generation and of an epoch the account  *)
(* has had; a ceremony something came of is gone.                            *)
RowsInv ==
  /\ \A c \in open :
       /\ ceremonies[c].kind \in {"register", "authenticate"}
       /\ ceremonies[c].session \in Sessions
       /\ ceremonies[c].epoch <= epoch[Owner[ceremonies[c].session]]
       /\ ceremonies[c].config = rp.config /\ ceremonies[c].generation = rp.generation
  /\ \A c \in Ceremonies \ open : ceremonies[c].kind \in {"none", "gone"}
  /\ \A c \in Ceremonies : made[c] <= 1 /\ (made[c] # 0 => ceremonies[c].kind = "gone")

(* The passkeys an assertion may be made with were there when the ceremony    *)
(* began, and their versions only grow.                                      *)
KeysInv ==
  \A c \in open : \A k \in ceremonies[c].keys :
    /\ credentials[k].state # "absent"
    /\ ceremonies[c].version[k] <= credentials[k].version

(* A passkey came of a registration that is over and was made for it. *)
MakersInv ==
  \A k \in Keys :
    /\ maker[k] # None => ceremonies[maker[k]].kind \in {"register", "gone"}
    /\ credentials[k].state = "absent" => credentials[k] = Absent
    /\ credentials[k].state # "absent" =>
         /\ credentials[k].principal \in Accounts
         /\ maker[k] # None /\ made[maker[k]] # 0
    /\ credentials[k].state = "valid" =>
         /\ credentials[k].config = rp.config
         /\ ceremonies[maker[k]].generation = rp.generation

(* A passkey of the first enrolment, and the ceremonies that could make one. *)
ByEnrolment(k) ==
  credentials[k].state # "absent" /\ ceremonies[maker[k]].source.method = "first"

FirstInv ==
  /\ \A k \in Keys : ByEnrolment(k) => enrolled[credentials[k].principal]
  /\ \A k, l \in Keys :
       ByEnrolment(k) /\ ByEnrolment(l) /\ credentials[k].principal = credentials[l].principal
         => k = l
  /\ \A c \in open :
       /\ ceremonies[c].kind = "register" /\ ceremonies[c].source.method = "first"
       /\ enrolled[Owner[ceremonies[c].session]]
       => ceremonies[c].epoch # epoch[Owner[ceremonies[c].session]]

(* An assertion that may still be committed over the stored counter is newer. *)
CountersInv ==
  /\ \A k \in Keys : credentials[k].counter <= signatures[k]
  /\ \A x \in signed :
       /\ x.ceremony \in open /\ x.key \in ceremonies[x.ceremony].keys
       /\ x.counter <= signatures[x.key]
       /\ ceremonies[x.ceremony].version[x.key] = credentials[x.key].version =>
            credentials[x.key].counter <= x.counter

(* What a request holds is an answer to its ceremony, as long as it is open. *)
Answer(o) == [ceremony |-> op[o].ceremony, key |-> op[o].key, counter |-> op[o].counter]

OperationsInv ==
  \A o \in Operations : op[o] # Idle =>
    /\ op[o].ceremony \in Ceremonies /\ op[o].key \in Keys
    /\ op[o].session \in Sessions /\ op[o].deployment \in Deployments
    /\ ceremonies[op[o].ceremony].kind # "none"
    /\ ceremonies[op[o].ceremony].kind = "register" => maker[op[o].key] = op[o].ceremony
    /\ ceremonies[op[o].ceremony].kind = "authenticate" => Answer(o) \in signed

CoreInv ==
  PartyInv /\ RowsInv /\ KeysInv /\ MakersInv /\ FirstInv /\ CountersInv /\ OperationsInv

WebauthnInv == TypeOK /\ CoreInv

-----------------------------------------------------------------------------
(* The values the actions assign have their types. *)

LEMMA UnusedType ==
  /\ Unused \in Stored /\ Gone \in Stored
  /\ Unused.kind = "none" /\ Unused.keys = {} /\ Gone.kind = "gone"
  /\ Absent \in Credentials /\ Absent.state = "absent" /\ Absent.counter = 0 /\ Absent.version = 0
  /\ Idle \in Held
  <1>1. Unproven("first") \in Sources
    BY DEF Unproven, Sources
  <1>2. Context("host") \in Contexts
    BY DEF Context, Contexts
  <1>3. [k \in Keys |-> 0] \in [Keys -> Nat]
    OBVIOUS
  <1>4. Unused \in Stored
    BY <1>1, <1>2, <1>3 DEF Unused, Stored
  <1>5. Gone \in Stored /\ Gone.kind = "gone"
    BY <1>4, Zenon DEF Gone, Stored
  <1>6. Unused.kind = "none" /\ Unused.keys = {}
    BY DEF Unused
  <1>7. Absent \in Credentials /\ Absent.state = "absent" /\ Absent.counter = 0 /\ Absent.version = 0
    BY DEF Absent, Credentials
  <1>8. Idle \in Held
    BY DEF Idle, Held
  <1> QED BY <1>4, <1>5, <1>6, <1>7, <1>8

LEMMA PastType ==
  ASSUME NEW row \in Stored
  PROVE  /\ Past(row) \in Stored /\ Past(row).kind = "gone"
         /\ Past(row).generation = row.generation
         /\ Past(row).source.method = row.source.method
  <1>1. row.source \in Sources /\ row.generation \in Nat
    BY DEF Stored
  <1>2. Unproven(row.source.method) \in Sources
    BY <1>1 DEF Unproven, Sources
  <1>3. Unproven(row.source.method).method = row.source.method
    BY DEF Unproven
  <1>4. Gone \in Stored /\ Gone.kind = "gone"
    BY UnusedType
  <1>5. /\ Past(row) \in Stored /\ Past(row).kind = "gone"
        /\ Past(row).generation = row.generation
        /\ Past(row).source = Unproven(row.source.method)
    BY <1>1, <1>2, <1>4, Zenon DEF Past, Stored
  <1> QED BY <1>3, <1>5

LEMMA RevokedType ==
  ASSUME TypeOK, NEW ks
  PROVE  /\ Revoked(ks) \in [Keys -> Credentials]
         /\ \A k \in Keys :
              /\ k \notin ks => Revoked(ks)[k] = credentials[k]
              /\ k \in ks => /\ Revoked(ks)[k].state = "revoked"
                             /\ Revoked(ks)[k].principal = credentials[k].principal
                             /\ Revoked(ks)[k].version = credentials[k].version
                             /\ Revoked(ks)[k].counter = credentials[k].counter
  <1>1. ASSUME NEW k \in Keys
        PROVE  LET new == [credentials[k] EXCEPT !.state = "revoked", !.epoch = @ + 1] IN
               /\ new \in Credentials /\ new.state = "revoked"
               /\ new.principal = credentials[k].principal
               /\ new.version = credentials[k].version /\ new.counter = credentials[k].counter
    <2>1. credentials[k] \in Credentials
      BY DEF TypeOK
    <2>2. credentials[k].epoch + 1 \in Nat
      BY <2>1 DEF Credentials
    <2> QED BY <2>1, <2>2, Zenon DEF Credentials
  <1>2. \A k \in Keys : credentials[k] \in Credentials
    BY DEF TypeOK
  <1> QED BY <1>1, <1>2 DEF Revoked

(* Deleting rows leaves the others alone. *)
LEMMA Closing ==
  ASSUME TypeOK, NEW left, NEW remembered, left \subseteq open, Close(left, remembered)
  PROVE  /\ open' = left /\ signed' = {x \in signed : x.ceremony \in left}
         /\ ceremonies' \in [Ceremonies -> Stored]
         /\ \A c \in Ceremonies :
              /\ c \notin open \/ c \in left => ceremonies'[c] = ceremonies[c]
              /\ c \in open \ left =>
                   /\ ceremonies'[c].kind = "gone"
                   /\ c \in remembered =>
                        /\ ceremonies'[c].generation = ceremonies[c].generation
                        /\ ceremonies'[c].source.method = ceremonies[c].source.method
  <1>1. ceremonies' = [c \in Ceremonies |->
           CASE c \notin open \ left -> ceremonies[c]
             [] c \in (open \ left) \cap remembered -> Past(ceremonies[c])
             [] OTHER -> Gone]
    BY DEF Close
  <1>2. ASSUME NEW c \in Ceremonies
        PROVE  /\ ceremonies[c] \in Stored /\ ceremonies'[c] \in Stored
               /\ c \notin open \/ c \in left => ceremonies'[c] = ceremonies[c]
               /\ c \in open \ left =>
                    /\ ceremonies'[c].kind = "gone"
                    /\ c \in remembered =>
                         /\ ceremonies'[c].generation = ceremonies[c].generation
                         /\ ceremonies'[c].source.method = ceremonies[c].source.method
    <2>1. ceremonies[c] \in Stored
      BY DEF TypeOK
    <2>2. CASE c \notin open \ left
      <3>1. ceremonies'[c] = ceremonies[c]
        BY <1>1, <2>2
      <3> QED BY <2>1, <2>2, <3>1
    <2>3. CASE c \in open \ left /\ c \in remembered
      <3>1. ceremonies'[c] = Past(ceremonies[c])
        BY <1>1, <2>3
      <3> QED BY <2>1, <2>3, <3>1, PastType
    <2>4. CASE c \in open \ left /\ c \notin remembered
      <3>1. ceremonies'[c] = Gone
        BY <1>1, <2>4
      <3> QED BY <2>1, <2>4, <3>1, UnusedType
    <2> QED BY <2>2, <2>3, <2>4
  <1>3. ceremonies' \in [Ceremonies -> Stored]
    BY <1>1, <1>2
  <1> QED BY <1>2, <1>3 DEF Close

(* The rows a ceremony starts with. *)
RegistrationRow(s, config, recover, source) ==
  [Unused EXCEPT !.kind = "register", !.session = s, !.epoch = epoch[Owner[s]],
                 !.config = config, !.recover = recover, !.source = source,
                 !.generation = rp.generation]

AuthenticationRow(s, config, context, ks) ==
  [Unused EXCEPT !.kind = "authenticate", !.session = s, !.epoch = epoch[Owner[s]],
                 !.config = config, !.context = context, !.keys = ks,
                 !.version = [k \in Keys |-> IF k \in ks THEN credentials[k].version ELSE 0],
                 !.generation = rp.generation]

LEMMA RegistrationRowType ==
  ASSUME TypeOK, NEW s \in Sessions, NEW config \in Configs, NEW recover \in BOOLEAN,
         NEW source \in Sources
  PROVE  LET row == RegistrationRow(s, config, recover, source) IN
         /\ row \in Stored /\ row.kind = "register" /\ row.session = s
         /\ row.epoch = epoch[Owner[s]] /\ row.config = config /\ row.source = source
         /\ row.generation = rp.generation /\ row.keys = {}
  <1>1. epoch[Owner[s]] \in Nat /\ rp.generation \in Nat
    BY WebauthnAssumption DEF TypeOK, Party
  <1> QED BY <1>1, UnusedType, Zenon DEF RegistrationRow, Stored

LEMMA AuthenticationRowType ==
  ASSUME TypeOK, NEW s \in Sessions, NEW config \in Configs, NEW context \in Contexts,
         NEW ks \in SUBSET Keys
  PROVE  LET row == AuthenticationRow(s, config, context, ks) IN
         /\ row \in Stored /\ row.kind = "authenticate" /\ row.session = s
         /\ row.epoch = epoch[Owner[s]] /\ row.config = config
         /\ row.generation = rp.generation /\ row.keys = ks
         /\ \A k \in ks : row.version[k] = credentials[k].version
  <1> DEFINE version == [k \in Keys |-> IF k \in ks THEN credentials[k].version ELSE 0]
  <1>1. epoch[Owner[s]] \in Nat /\ rp.generation \in Nat
    BY WebauthnAssumption DEF TypeOK, Party
  <1>2. version \in [Keys -> Nat] /\ \A k \in ks : version[k] = credentials[k].version
    <2>1. \A k \in Keys : credentials[k].version \in Nat
      BY DEF TypeOK, Credentials
    <2> QED BY <2>1
  <1>3. AuthenticationRow(s, config, context, ks) =
          [Unused EXCEPT !.kind = "authenticate", !.session = s, !.epoch = epoch[Owner[s]],
                         !.config = config, !.context = context, !.keys = ks,
                         !.version = version, !.generation = rp.generation]
    BY DEF AuthenticationRow
  <1> HIDE DEF version
  <1>4. LET row == AuthenticationRow(s, config, context, ks) IN
         /\ row \in Stored /\ row.kind = "authenticate" /\ row.session = s
         /\ row.epoch = epoch[Owner[s]] /\ row.config = config
         /\ row.generation = rp.generation /\ row.keys = ks /\ row.version = version
    BY <1>1, <1>2, <1>3, UnusedType, Zenon DEF Stored
  <1> QED BY <1>2, <1>4

-----------------------------------------------------------------------------
(* The effects of the steps, one lemma each. *)

core == <<rp, enrolled, epoch, credentials, ceremonies, open, maker, signed, signatures, op, made>>

(* Steps that touch grants, sessions and the provider only. *)
Quiet ==
  /\ UNCHANGED core /\ UNCHANGED pinned
  /\ grants' \subseteq Grants /\ live' \subseteq Sessions /\ recent' \subseteq Sessions
  /\ provider' \in 1 .. ProviderLimit

LEMMA QuietKeeps == ASSUME CoreInv, UNCHANGED core PROVE CoreInv'
  BY DEF core, CoreInv, PartyInv, RowsInv, KeysInv, MakersInv, FirstInv, ByEnrolment, CountersInv,
         OperationsInv, Answer

LEMMA QuietStep == ASSUME WebauthnInv, Quiet PROVE WebauthnInv'
  <1>1. CoreInv'
    BY QuietKeeps DEF WebauthnInv, Quiet
  <1>2. TypeOK'
    BY DEF WebauthnInv, Quiet, TypeOK, core
  <1> QED BY <1>1, <1>2 DEF WebauthnInv

(* A ceremony begins. *)
Fresh(row) ==
  /\ row \in Stored /\ row.kind \in {"register", "authenticate"} /\ row.session \in Sessions
  /\ row.epoch = epoch[Owner[row.session]]
  /\ rp # Unconnected /\ row.config = rp.config /\ row.generation = rp.generation
  /\ \A k \in row.keys :
       credentials[k].state = "valid" /\ row.version[k] = credentials[k].version
  /\ row.kind = "register" /\ row.source.method = "first" => ~enrolled[Owner[row.session]]

Begun(c, row) ==
  /\ ceremonies[c].kind = "none"
  /\ ceremonies' = [ceremonies EXCEPT ![c] = row] /\ open' = open \cup {c}
  /\ UNCHANGED <<rp, pinned, enrolled, epoch, credentials, live, recent, provider, maker, signed,
                 signatures, op, made>>
  /\ grants' \subseteq Grants

LEMMA BegunStep ==
  ASSUME WebauthnInv, NEW c \in Ceremonies, NEW row, Fresh(row), Begun(c, row)
  PROVE  WebauthnInv'
  <1> USE DEF WebauthnInv, CoreInv
  <1>0. /\ c \notin open /\ ceremonies'[c] = row
        /\ \A x \in Ceremonies : x # c => ceremonies'[x] = ceremonies[x]
        /\ \A x \in open' : x \in Ceremonies /\ (x \in open \/ x = c)
    BY DEF RowsInv, Begun, TypeOK
  <1>t. TypeOK'
    BY DEF TypeOK, Begun, Fresh
  <1>1. PartyInv'
    BY DEF PartyInv, Begun, Fresh
  <1>2. RowsInv'
    <2>1. Owner[row.session] \in Accounts /\ row.epoch <= epoch[Owner[row.session]]
      <3>1. row.session \in Sessions /\ row.epoch = epoch[Owner[row.session]]
        BY DEF Fresh
      <3>2. Owner[row.session] \in Accounts
        BY <3>1, WebauthnAssumption
      <3>3. epoch[Owner[row.session]] \in Nat
        BY <3>2 DEF TypeOK
      <3> QED BY <3>1, <3>2, <3>3
    <2>2. ASSUME NEW x \in open'
          PROVE  /\ ceremonies'[x].kind \in {"register", "authenticate"}
                 /\ ceremonies'[x].session \in Sessions
                 /\ ceremonies'[x].epoch <= epoch[Owner[ceremonies'[x].session]]
                 /\ ceremonies'[x].config = rp.config /\ ceremonies'[x].generation = rp.generation
      BY <1>0, <2>1, <2>2 DEF RowsInv, Fresh
    <2>3. ASSUME NEW x \in Ceremonies
          PROVE  /\ x \notin open' => ceremonies'[x].kind \in {"none", "gone"}
                 /\ made[x] <= 1 /\ (made[x] # 0 => ceremonies'[x].kind = "gone")
      BY <1>0, <2>3 DEF RowsInv, Begun
    <2>4. UNCHANGED <<rp, epoch, made>>
      BY DEF Begun
    <2> QED BY <2>2, <2>3, <2>4 DEF RowsInv
  <1>3. KeysInv'
    <2>1. ASSUME NEW k \in row.keys
          PROVE  credentials[k].state # "absent" /\ row.version[k] <= credentials[k].version
      <3>1. credentials[k].state = "valid" /\ row.version[k] = credentials[k].version
        BY DEF Fresh
      <3>2. k \in Keys
        BY DEF Fresh, Stored
      <3>3. credentials[k].version \in Nat
        BY <3>2 DEF TypeOK, Credentials
      <3> QED BY <3>1, <3>3
    <2>2. UNCHANGED credentials
      BY DEF Begun
    <2> QED BY <1>0, <2>1, <2>2 DEF KeysInv
  <1>4. MakersInv'
    <2>1. \A k \in Keys : maker[k] # None => maker[k] \in Ceremonies /\ maker[k] # c
      BY DEF MakersInv, Begun, TypeOK
    <2> QED BY <1>0, <2>1 DEF MakersInv, Begun
  <1>5. FirstInv'
    <2>1. \A k \in Keys : credentials[k].state # "absent" => maker[k] \in Ceremonies /\ maker[k] # c
      BY DEF MakersInv, Begun, TypeOK
    <2>2. \A k \in Keys : ByEnrolment(k)' <=> ByEnrolment(k)
      BY <1>0, <2>1 DEF ByEnrolment, Begun
    <2>3. ASSUME NEW x \in open', ceremonies'[x].kind = "register",
                 ceremonies'[x].source.method = "first", enrolled[Owner[ceremonies'[x].session]]
          PROVE  ceremonies'[x].epoch # epoch[Owner[ceremonies'[x].session]]
      BY <1>0, <2>3 DEF FirstInv, Fresh
    <2>4. UNCHANGED <<credentials, enrolled, epoch>>
      BY DEF Begun
    <2> QED BY <2>2, <2>3, <2>4 DEF FirstInv
  <1>6. CountersInv'
    <2>1. UNCHANGED <<credentials, signed, signatures>>
      BY DEF Begun
    <2>2. \A x \in signed : x.ceremony \in open' /\ ceremonies'[x.ceremony] = ceremonies[x.ceremony]
      BY <1>0 DEF CountersInv, TypeOK, Begun
    <2> QED BY <2>1, <2>2 DEF CountersInv
  <1>7. OperationsInv'
    <2>1. UNCHANGED <<op, signed, maker>>
      BY DEF Begun
    <2>2. \A o \in Operations : op[o] # Idle => op[o].ceremony # c
      BY DEF OperationsInv, Begun
    <2> QED BY <1>0, <2>1, <2>2 DEF OperationsInv, Answer
  <1> QED BY <1>t, <1>1, <1>2, <1>3, <1>4, <1>5, <1>6, <1>7

(* Ceremonies are dropped, and nothing comes of them. *)
LEMMA DroppedStep ==
  ASSUME WebauthnInv, NEW left, left \subseteq open, Close(left, {}),
         UNCHANGED <<rp, pinned, enrolled, epoch, credentials, grants, live, recent, provider,
                     maker, signatures, op, made>>
  PROVE  WebauthnInv'
  <1> USE DEF WebauthnInv, CoreInv
  <1>0. /\ open' = left /\ signed' = {x \in signed : x.ceremony \in left}
        /\ ceremonies' \in [Ceremonies -> Stored]
        /\ \A c \in Ceremonies : /\ c \notin open \/ c \in left => ceremonies'[c] = ceremonies[c]
                                 /\ c \in open \ left => ceremonies'[c].kind = "gone"
    BY Closing
  <1>a. open \subseteq Ceremonies
    BY DEF TypeOK
  <1>b. \A k \in Keys : credentials[k].state # "absent" =>
          maker[k] \in Ceremonies /\ ceremonies'[maker[k]] = ceremonies[maker[k]]
    <2>1. \A k \in Keys : credentials[k].state # "absent" =>
            maker[k] \in Ceremonies /\ ceremonies[maker[k]].kind = "gone"
      BY DEF MakersInv, RowsInv, TypeOK
    <2>2. \A c \in open : ceremonies[c].kind # "gone"
      BY DEF RowsInv
    <2> QED BY <1>0, <2>1, <2>2
  <1>t. TypeOK'
    BY <1>0, <1>a DEF TypeOK
  <1>1. PartyInv'
    BY <1>0 DEF PartyInv
  <1>2. RowsInv'
    BY <1>0, <1>a DEF RowsInv
  <1>3. KeysInv'
    BY <1>0, <1>a DEF KeysInv
  <1>4. MakersInv'
    <2>1. \A k \in Keys : maker[k] # None => maker[k] \in Ceremonies
      BY DEF TypeOK
    <2> QED BY <1>0, <1>b, <2>1 DEF MakersInv
  <1>5. FirstInv'
    <2>1. \A k \in Keys : ByEnrolment(k)' <=> ByEnrolment(k)
      BY <1>b DEF ByEnrolment
    <2> QED BY <1>0, <1>a, <2>1 DEF FirstInv
  <1>6. CountersInv'
    BY <1>0, <1>a DEF CountersInv
  <1>7. OperationsInv'
    <2>1. ASSUME NEW o \in Operations, op[o] # Idle
          PROVE  /\ ceremonies'[op[o].ceremony].kind # "none"
                 /\ ceremonies'[op[o].ceremony].kind = "register" => maker[op[o].key] = op[o].ceremony
                 /\ ceremonies'[op[o].ceremony].kind = "authenticate" => Answer(o) \in signed'
      <3> DEFINE c == op[o].ceremony
      <3>1. /\ c \in Ceremonies /\ ceremonies[c].kind # "none"
            /\ ceremonies[c].kind = "register" => maker[op[o].key] = c
            /\ ceremonies[c].kind = "authenticate" => Answer(o) \in signed
        BY <2>1 DEF OperationsInv
      <3>2. CASE c \in open \ left
        BY <1>0, <3>1, <3>2
      <3>3. CASE c \in left
        BY <1>0, <3>1, <3>3 DEF Answer
      <3>4. CASE c \notin open
        BY <1>0, <3>1, <3>4 DEF RowsInv
      <3> QED BY <3>2, <3>3, <3>4
    <2>2. ASSUME NEW o \in Operations, op'[o] # Idle
          PROVE  op[o] # Idle /\ op'[o] = op[o] /\ Answer(o)' = Answer(o)
      BY <2>2 DEF Answer
    <2> QED BY <2>1, <2>2 DEF OperationsInv
  <1> QED BY <1>t, <1>1, <1>2, <1>3, <1>4, <1>5, <1>6, <1>7

LEMMA ConnectStep ==
  ASSUME WebauthnInv, NEW d \in Deployments, NEW config \in Configs, connect(d, config)
  PROVE  WebauthnInv'
  <1> USE DEF WebauthnInv, CoreInv
  <1>0. UNCHANGED <<enrolled, epoch, credentials, grants, live, recent, provider, ceremonies, open,
                    maker, signed, signatures, op, made>>
    BY DEF connect, rows, environment, answers
  <1>1. CASE rp # Unconnected
    <2>1. rp' = rp /\ pinned' = [pinned EXCEPT ![d] = rp]
      BY <1>1 DEF connect
    <2>2. CoreInv'
      BY <1>0, <2>1, QuietKeeps DEF core
    <2>3. TypeOK'
      BY <1>0, <2>1 DEF TypeOK
    <2> QED BY <2>2, <2>3
  <1>2. CASE rp = Unconnected
    <2> DEFINE new == [config |-> config, generation |-> 1]
    <2>1. rp' = new /\ pinned' = [pinned EXCEPT ![d] = new]
      BY <1>2 DEF connect
    <2>2. new \in Party /\ new \in [config : Configs, generation : 1 .. GenerationLimit]
      BY WebauthnAssumption DEF Party
    <2>3. new # Unconnected
      BY DEF Unconnected
    <2> HIDE DEF new
    <2>4. open = {} /\ \A k \in Keys : credentials[k].state # "valid"
      BY <1>2 DEF PartyInv
    <2>5. TypeOK'
      BY <1>0, <2>1, <2>2 DEF TypeOK
    <2>6. PartyInv'
      BY <2>1, <2>2, <2>3 DEF PartyInv
    <2>7. RowsInv'
      BY <1>0, <2>4 DEF RowsInv
    <2>8. KeysInv' /\ CountersInv'
      BY <1>0 DEF KeysInv, CountersInv
    <2>9. MakersInv'
      BY <1>0, <2>4 DEF MakersInv
    <2>10. FirstInv'
      BY <1>0 DEF FirstInv, ByEnrolment
    <2>11. OperationsInv'
      BY <1>0 DEF OperationsInv, Answer
    <2> QED BY <2>5, <2>6, <2>7, <2>8, <2>9, <2>10, <2>11
  <1> QED BY <1>1, <1>2

LEMMA AttestStep ==
  ASSUME WebauthnInv, NEW c \in Ceremonies, NEW k \in Keys, Attest(c, k)
  PROVE  WebauthnInv'
  <1> USE DEF WebauthnInv, CoreInv
  <1>0. /\ maker[k] = None /\ ceremonies[c].kind = "register"
        /\ maker' = [maker EXCEPT ![k] = c]
        /\ UNCHANGED <<rp, pinned, enrolled, epoch, credentials, grants, live, recent, provider,
                       ceremonies, open, signed, signatures, op, made>>
    BY DEF Attest, rows, environment, answers
  <1>1. maker'[k] = c /\ \A l \in Keys : l # k => maker'[l] = maker[l]
    BY <1>0 DEF TypeOK
  <1>2. credentials[k].state = "absent"
    BY <1>0 DEF MakersInv
  <1>t. TypeOK'
    BY <1>0 DEF TypeOK
  <1>3. PartyInv' /\ RowsInv' /\ KeysInv' /\ CountersInv'
    BY <1>0 DEF PartyInv, RowsInv, KeysInv, CountersInv
  <1>4. MakersInv'
    BY <1>0, <1>1, <1>2 DEF MakersInv
  <1>5. FirstInv'
    <2>1. \A l \in Keys : ByEnrolment(l)' <=> ByEnrolment(l)
      BY <1>0, <1>1, <1>2 DEF ByEnrolment
    <2> QED BY <1>0, <2>1 DEF FirstInv
  <1>6. OperationsInv'
    <2>1. None \notin Ceremonies
      BY WebauthnAssumption
    <2> QED BY <1>0, <1>1, <2>1 DEF OperationsInv, Answer
  <1> QED BY <1>t, <1>3, <1>4, <1>5, <1>6

LEMMA SignStep ==
  ASSUME WebauthnInv, NEW c \in Ceremonies, NEW k \in Keys, Sign(c, k)
  PROVE  WebauthnInv'
  <1> USE DEF WebauthnInv, CoreInv
  <1> DEFINE n == signatures[k] + 1
             x == [ceremony |-> c, key |-> k, counter |-> n]
  <1>0. /\ c \in open /\ k \in ceremonies[c].keys
        /\ signed' = signed \cup {x} /\ signatures' = [signatures EXCEPT ![k] = n]
        /\ UNCHANGED <<rp, pinned, enrolled, epoch, credentials, grants, live, recent, provider,
                       ceremonies, open, maker, op, made>>
    BY DEF Sign, rows, environment
  <1>1. n \in Nat /\ signatures[k] < n
    BY DEF TypeOK
  <1>2. x \in Assertions /\ x.ceremony = c /\ x.key = k /\ x.counter = n
    BY <1>1 DEF Assertions
  <1> HIDE DEF x, n
  <1>3. signatures'[k] = n /\ \A l \in Keys : l # k => signatures'[l] = signatures[l]
    BY <1>0 DEF TypeOK
  <1>4. \A l \in Keys : /\ signatures[l] \in Nat /\ signatures[l] <= signatures'[l]
                        /\ signatures'[l] \in Nat /\ credentials[l].counter \in Nat
    BY <1>1, <1>3 DEF TypeOK, Credentials
  <1>t. TypeOK'
    BY <1>0, <1>1, <1>2 DEF TypeOK
  <1>5. PartyInv' /\ RowsInv' /\ KeysInv' /\ MakersInv'
    BY <1>0 DEF PartyInv, RowsInv, KeysInv, MakersInv
  <1>6. FirstInv'
    BY <1>0 DEF FirstInv, ByEnrolment
  <1>7. CountersInv'
    <2>1. \A l \in Keys : credentials[l].counter <= signatures'[l]
      BY <1>4 DEF CountersInv
    <2>2. ASSUME NEW y \in signed'
          PROVE  /\ y.ceremony \in open /\ y.key \in ceremonies[y.ceremony].keys
                 /\ y.counter <= signatures'[y.key]
                 /\ ceremonies[y.ceremony].version[y.key] = credentials[y.key].version =>
                      credentials[y.key].counter <= y.counter
      <3>1. CASE y = x
        <4>1. credentials[k].counter <= n /\ n <= signatures'[k]
          BY <1>1, <1>3, <1>4, <2>1
        <4> QED BY <1>0, <1>2, <3>1, <4>1
      <3>2. CASE y \in signed
        <4>1. y.key \in Keys /\ y.counter \in Nat /\ y.counter <= signatures[y.key]
          BY <3>2 DEF TypeOK, Assertions, CountersInv
        <4>2. y.counter <= signatures'[y.key]
          BY <1>4, <4>1
        <4> QED BY <3>2, <4>2 DEF CountersInv
      <3> QED BY <1>0, <2>2, <3>1, <3>2
    <2> QED BY <1>0, <2>1, <2>2 DEF CountersInv
  <1>8. OperationsInv'
    BY <1>0 DEF OperationsInv, Answer
  <1> QED BY <1>t, <1>5, <1>6, <1>7, <1>8

LEMMA SnapshotStep ==
  ASSUME WebauthnInv, NEW o \in Operations, NEW d \in Deployments, NEW s \in Sessions,
         NEW c \in Ceremonies, NEW k \in Keys, NEW n \in 0 .. CounterLimit,
         snapshot(o, d, s, c, k, n)
  PROVE  WebauthnInv'
  <1> USE DEF WebauthnInv, CoreInv
  <1> DEFINE new == [deployment |-> d, session |-> s, ceremony |-> c, key |-> k, counter |-> n]
  <1>0. /\ op' = [op EXCEPT ![o] = new] /\ c \in open
        /\ ceremonies[c].kind = "register" => maker[k] = c
        /\ ceremonies[c].kind # "register" => [ceremony |-> c, key |-> k, counter |-> n] \in signed
        /\ UNCHANGED <<rp, pinned, enrolled, epoch, credentials, grants, live, recent, provider,
                       ceremonies, open, maker, signed, signatures, made>>
    BY DEF snapshot, Readable, rows, environment, answers
  <1>1. /\ new \in Held /\ new.deployment = d /\ new.session = s /\ new.ceremony = c
        /\ new.key = k /\ new.counter = n
    BY WebauthnAssumption DEF Held
  <1> HIDE DEF new
  <1>2. op'[o] = new /\ \A p \in Operations : p # o => op'[p] = op[p]
    BY <1>0 DEF TypeOK
  <1>t. TypeOK'
    BY <1>0, <1>1 DEF TypeOK
  <1>3. PartyInv' /\ RowsInv' /\ KeysInv' /\ MakersInv' /\ CountersInv'
    BY <1>0 DEF PartyInv, RowsInv, KeysInv, MakersInv, CountersInv
  <1>4. FirstInv'
    BY <1>0 DEF FirstInv, ByEnrolment
  <1>5. OperationsInv'
    <2>1. ceremonies[c].kind # "none"
      BY <1>0 DEF RowsInv
    <2>2. ASSUME NEW p \in Operations, op'[p] # Idle
          PROVE  /\ op'[p].ceremony \in Ceremonies /\ op'[p].key \in Keys
                 /\ op'[p].session \in Sessions /\ op'[p].deployment \in Deployments
                 /\ ceremonies[op'[p].ceremony].kind # "none"
                 /\ ceremonies[op'[p].ceremony].kind = "register" =>
                      maker[op'[p].key] = op'[p].ceremony
                 /\ ceremonies[op'[p].ceremony].kind = "authenticate" => Answer(p)' \in signed
      <3>1. CASE p = o
        BY <1>0, <1>1, <1>2, <2>1, <3>1 DEF Answer
      <3>2. CASE p # o
        BY <1>2, <2>2, <3>2 DEF OperationsInv, Answer
      <3> QED BY <3>1, <3>2
    <2> QED BY <1>0, <2>2 DEF OperationsInv
  <1> QED BY <1>t, <1>3, <1>4, <1>5

(* A request stops; what the others hold is as it was. *)
LEMMA StopStep ==
  ASSUME WebauthnInv, NEW o \in Operations, Stop(o)
  PROVE  WebauthnInv'
  <1> USE DEF WebauthnInv, CoreInv
  <1>0. /\ op' = [op EXCEPT ![o] = Idle]
        /\ UNCHANGED <<rp, pinned, enrolled, epoch, credentials, grants, live, recent, provider,
                       ceremonies, open, maker, signed, signatures, made>>
    BY DEF Stop, rows, environment, answers
  <1>1. op'[o] = Idle /\ \A p \in Operations : p # o => op'[p] = op[p]
    BY <1>0 DEF TypeOK
  <1>t. TypeOK'
    BY <1>0, UnusedType DEF TypeOK
  <1>2. PartyInv' /\ RowsInv' /\ KeysInv' /\ MakersInv' /\ CountersInv'
    BY <1>0 DEF PartyInv, RowsInv, KeysInv, MakersInv, CountersInv
  <1>3. FirstInv'
    BY <1>0 DEF FirstInv, ByEnrolment
  <1>4. OperationsInv'
    BY <1>0, <1>1 DEF OperationsInv, Answer
  <1> QED BY <1>t, <1>2, <1>3, <1>4

(* Passkeys are revoked. *)
LEMMA RevokedKeeps ==
  ASSUME WebauthnInv, NEW ks, \A k \in Keys : k \in ks => credentials[k].state # "absent",
         credentials' = Revoked(ks)
  PROVE  /\ credentials' \in [Keys -> Credentials]
         /\ \A k \in Keys :
              /\ credentials'[k].state = "valid" => credentials'[k] = credentials[k] /\ k \notin ks
              /\ credentials[k].state # "absent" <=> credentials'[k].state # "absent"
              /\ k \notin ks => credentials'[k] = credentials[k]
              /\ credentials'[k].state = "absent" => credentials'[k] = credentials[k]
              /\ credentials'[k].principal = credentials[k].principal
              /\ credentials'[k].version = credentials[k].version
              /\ credentials'[k].counter = credentials[k].counter
  BY RevokedType DEF WebauthnInv

LEMMA ActivateStep ==
  ASSUME WebauthnInv, NEW config \in Configs, activate_webauthn_rp_on(config)
  PROVE  WebauthnInv'
  <1> USE DEF WebauthnInv, CoreInv
  <1> DEFINE valid == {k \in Keys : credentials[k].state = "valid"}
             new == [config |-> config, generation |-> rp.generation + 1]
  <1>0. /\ rp # Unconnected /\ rp' = new /\ rp.generation < GenerationLimit
        /\ credentials' = Revoked(valid) /\ Close(Surviving(rp.config), {})
        /\ UNCHANGED <<pinned, enrolled, epoch, grants, live, recent, provider, maker,
                       signatures, op, made>>
    BY DEF activate_webauthn_rp_on, environment
  <1>1. Surviving(rp.config) = {}
    BY DEF Surviving, RowsInv
  <1>2. /\ open' = {} /\ signed' = {} /\ ceremonies' \in [Ceremonies -> Stored]
        /\ \A c \in Ceremonies : /\ c \notin open => ceremonies'[c] = ceremonies[c]
                                 /\ c \in open => ceremonies'[c].kind = "gone"
    BY <1>0, <1>1, Closing
  <1>3. new \in Party /\ new \in [config : Configs, generation : 1 .. GenerationLimit]
        /\ new # Unconnected
    BY <1>0, WebauthnAssumption DEF Party, Unconnected, TypeOK
  <1> HIDE DEF new
  <1>4. /\ credentials' \in [Keys -> Credentials]
        /\ \A k \in Keys :
             /\ credentials'[k].state # "valid"
             /\ credentials[k].state # "absent" <=> credentials'[k].state # "absent"
             /\ credentials'[k].state = "absent" => credentials'[k] = credentials[k]
             /\ credentials'[k].principal = credentials[k].principal
             /\ credentials'[k].version = credentials[k].version
             /\ credentials'[k].counter = credentials[k].counter
    <2>1. credentials' = Revoked(valid)
      BY <1>0
    <2>2. \A k \in Keys : credentials[k].state = "valid" <=> k \in valid
      OBVIOUS
    <2> HIDE DEF valid
    <2> QED BY <2>1, <2>2, RevokedKeeps
  <1> HIDE DEF valid
  <1>t. TypeOK'
    BY <1>0, <1>2, <1>3, <1>4 DEF TypeOK
  <1>5. PartyInv'
    BY <1>0, <1>2, <1>3, <1>4 DEF PartyInv
  <1>6. RowsInv'
    BY <1>0, <1>2 DEF RowsInv
  <1>7. KeysInv' /\ CountersInv'
    BY <1>0, <1>2, <1>4 DEF KeysInv, CountersInv
  <1>8. \A k \in Keys : credentials[k].state # "absent" =>
          maker[k] \in Ceremonies /\ ceremonies'[maker[k]] = ceremonies[maker[k]]
    BY <1>2 DEF MakersInv, RowsInv, TypeOK
  <1>9. MakersInv'
    <2>1. \A k \in Keys : maker[k] # None => maker[k] \in Ceremonies
      BY DEF TypeOK
    <2> QED BY <1>0, <1>2, <1>4, <1>8, <2>1 DEF MakersInv
  <1>10. FirstInv'
    <2>1. \A k \in Keys : ByEnrolment(k)' <=> ByEnrolment(k)
      BY <1>0, <1>4, <1>8 DEF ByEnrolment
    <2> QED BY <1>0, <1>2, <1>4, <2>1 DEF FirstInv
  <1>11. OperationsInv'
    <2>1. \A c \in Ceremonies :
             /\ ceremonies[c].kind # "none" => ceremonies'[c].kind = "gone"
      BY <1>2 DEF RowsInv
    <2> QED BY <1>0, <2>1 DEF OperationsInv
  <1> QED BY <1>t, <1>5, <1>6, <1>7, <1>9, <1>10, <1>11

LEMMA RemoveStep ==
  ASSUME WebauthnInv, NEW d \in Deployments, NEW s \in Sessions, NEW k \in Keys, NEW g \in grants,
         remove(d, s, k, g)
  PROVE  WebauthnInv'
  <1> USE DEF WebauthnInv, CoreInv
  <1>0. /\ credentials' = Revoked({k}) /\ epoch' = [epoch EXCEPT ![Owner[s]] = @ + 1]
        /\ grants' = grants \ {g}
        /\ UNCHANGED <<rp, pinned, enrolled, live, recent, provider, ceremonies, open, maker,
                       signed, signatures, op, made>>
    BY DEF remove, environment, answers
  <1>1. /\ credentials' \in [Keys -> Credentials]
        /\ \A x \in Keys :
             /\ credentials'[x].state = "valid" => credentials'[x] = credentials[x]
             /\ credentials[x].state # "absent" <=> credentials'[x].state # "absent"
             /\ credentials'[x].state = "absent" => credentials'[x] = credentials[x]
             /\ credentials'[x].principal = credentials[x].principal
             /\ credentials'[x].version = credentials[x].version
             /\ credentials'[x].counter = credentials[x].counter
    <2>1. credentials[k].state = "valid"
      BY DEF remove, Valid
    <2>2. \A x \in Keys : x \in {k} => credentials[x].state # "absent"
      BY <2>1
    <2>3. credentials' = Revoked({k})
      BY <1>0
    <2> QED BY <2>2, <2>3, RevokedKeeps
  <1>4. Owner[s] \in Accounts /\ epoch[Owner[s]] \in Nat
    BY WebauthnAssumption DEF TypeOK
  <1>5. /\ epoch' \in [Accounts -> Nat]
        /\ \A a \in Accounts : epoch[a] \in Nat /\ epoch'[a] \in Nat /\ epoch[a] <= epoch'[a]
        /\ epoch[Owner[s]] < epoch'[Owner[s]]
        /\ \A a \in Accounts : a # Owner[s] => epoch'[a] = epoch[a]
    BY <1>0, <1>4 DEF TypeOK
  <1>6. \A c \in open : /\ Owner[ceremonies[c].session] \in Accounts /\ ceremonies[c].epoch \in Nat
                        /\ ceremonies[c].epoch <= epoch'[Owner[ceremonies[c].session]]
    <2> SUFFICES ASSUME NEW c \in open
                 PROVE  /\ Owner[ceremonies[c].session] \in Accounts /\ ceremonies[c].epoch \in Nat
                        /\ ceremonies[c].epoch <= epoch'[Owner[ceremonies[c].session]]
      OBVIOUS
    <2>1. Owner[ceremonies[c].session] \in Accounts
      BY WebauthnAssumption DEF RowsInv
    <2>2. ceremonies[c].epoch \in Nat
      BY DEF TypeOK, Stored
    <2>3. ceremonies[c].epoch <= epoch[Owner[ceremonies[c].session]]
      BY DEF RowsInv
    <2> QED BY <1>5, <2>1, <2>2, <2>3
  <1>t. TypeOK'
    BY <1>0, <1>1, <1>5 DEF TypeOK
  <1>7. PartyInv'
    BY <1>0, <1>1 DEF PartyInv
  <1>8. RowsInv'
    BY <1>0, <1>6 DEF RowsInv
  <1>9. KeysInv' /\ CountersInv'
    <2>1. open \subseteq Ceremonies /\ \A c \in open : ceremonies[c].keys \subseteq Keys
      BY DEF TypeOK, Stored
    <2>2. KeysInv'
      BY <1>0, <1>1, <2>1 DEF KeysInv
    <2>3. CountersInv'
      BY <1>0, <1>1, <2>1 DEF CountersInv
    <2> QED BY <2>2, <2>3
  <1>10. MakersInv'
    BY <1>0, <1>1 DEF MakersInv
  <1>11. FirstInv'
    <2>1. \A x \in Keys : ByEnrolment(x)' <=> ByEnrolment(x)
      BY <1>0, <1>1 DEF ByEnrolment
    <2>2. ASSUME NEW c \in open, ceremonies[c].kind = "register",
                 ceremonies[c].source.method = "first", enrolled[Owner[ceremonies[c].session]]
          PROVE  ceremonies[c].epoch # epoch'[Owner[ceremonies[c].session]]
      <3> DEFINE a == Owner[ceremonies[c].session]
      <3>1. /\ a \in Accounts /\ ceremonies[c].epoch \in Nat /\ ceremonies[c].epoch <= epoch[a]
            /\ ceremonies[c].epoch # epoch[a]
        BY <1>6, <2>2 DEF RowsInv, FirstInv
      <3> HIDE DEF a
      <3>2. ceremonies[c].epoch < epoch'[a]
        BY <1>5, <3>1
      <3>3. ceremonies[c].epoch # epoch'[a]
        BY <1>5, <3>1, <3>2
      <3> QED BY <3>3 DEF a
    <2>3. \A x \in Keys : ByEnrolment(x)' => enrolled[credentials'[x].principal]
      BY <1>1, <2>1 DEF FirstInv
    <2>4. \A x, y \in Keys :
             ByEnrolment(x)' /\ ByEnrolment(y)' /\ credentials'[x].principal = credentials'[y].principal
               => x = y
      BY <1>1, <2>1 DEF FirstInv
    <2> QED BY <1>0, <2>2, <2>3, <2>4 DEF FirstInv
  <1>12. OperationsInv'
    BY <1>0 DEF OperationsInv, Answer
  <1> QED BY <1>t, <1>7, <1>8, <1>9, <1>10, <1>11, <1>12

(* The end of a ceremony uses up its row. *)
LEMMA Settled ==
  ASSUME WebauthnInv, NEW o \in Operations, NEW kind \in {"register", "authenticate"},
         settle(o, kind)
  PROVE  LET c == op[o].ceremony
             s == op[o].session
         IN
         /\ op[o] # Idle /\ c \in open /\ c \in Ceremonies /\ s \in Sessions
         /\ op[o].key \in Keys /\ op[o].deployment \in Deployments
         /\ ceremonies[c].kind = kind
         /\ ceremonies[c].session = s /\ ceremonies[c].epoch = epoch[Owner[s]]
         /\ rp # Unconnected /\ pinned[op[o].deployment] = rp
         /\ open' = open \ {c} /\ signed' = {x \in signed : x.ceremony \in open \ {c}}
         /\ made' = [made EXCEPT ![c] = @ + 1] /\ op' = [op EXCEPT ![o] = Idle]
         /\ UNCHANGED <<rp, pinned, live, recent, provider, maker, signatures>>
         /\ ceremonies' \in [Ceremonies -> Stored]
         /\ \A x \in Ceremonies : x # c => ceremonies'[x] = ceremonies[x]
         /\ ceremonies'[c].kind = "gone"
         /\ kind = "register" =>
              /\ ceremonies'[c].generation = ceremonies[c].generation
              /\ ceremonies'[c].source.method = ceremonies[c].source.method
  <1> DEFINE c == op[o].ceremony
  <1>1. /\ op[o] # Idle /\ c \in open /\ ceremonies[c].kind = kind
        /\ ceremonies[c].session = op[o].session
        /\ ceremonies[c].epoch = epoch[Owner[op[o].session]]
        /\ pinned[op[o].deployment].generation # 0 /\ pinned[op[o].deployment] = rp
        /\ Close(open \ {c}, IF kind = "register" THEN {c} ELSE {})
        /\ made' = [made EXCEPT ![c] = @ + 1] /\ op' = [op EXCEPT ![o] = Idle]
        /\ UNCHANGED <<rp, pinned, live, recent, provider, maker, signatures>>
    BY DEF settle, Readable, check_configuration, Consumed, environment
  <1>2. /\ c \in Ceremonies /\ op[o].session \in Sessions /\ op[o].key \in Keys
        /\ op[o].deployment \in Deployments
    BY <1>1 DEF WebauthnInv, CoreInv, OperationsInv
  <1>3. rp # Unconnected
    BY <1>1 DEF Unconnected
  <1>4. open \ {c} \subseteq open /\ TypeOK
    BY DEF WebauthnInv
  <1> HIDE DEF c
  <1>5. /\ open' = open \ {c} /\ signed' = {x \in signed : x.ceremony \in open \ {c}}
        /\ ceremonies' \in [Ceremonies -> Stored]
        /\ \A x \in Ceremonies :
              /\ x \notin open \/ x \in open \ {c} => ceremonies'[x] = ceremonies[x]
              /\ x \in open \ (open \ {c}) =>
                   /\ ceremonies'[x].kind = "gone"
                   /\ x \in (IF kind = "register" THEN {c} ELSE {}) =>
                        /\ ceremonies'[x].generation = ceremonies[x].generation
                        /\ ceremonies'[x].source.method = ceremonies[x].source.method
    BY <1>1, <1>4, Closing
  <1>6. \A x \in Ceremonies : x # c => ceremonies'[x] = ceremonies[x]
    BY <1>5
  <1>7. /\ ceremonies'[c].kind = "gone"
        /\ kind = "register" =>
              /\ ceremonies'[c].generation = ceremonies[c].generation
              /\ ceremonies'[c].source.method = ceremonies[c].source.method
    BY <1>1, <1>2, <1>5
  <1> QED BY <1>1, <1>2, <1>3, <1>5, <1>6, <1>7 DEF c

(* The other requests still hold what they held. *)
LEMMA SettledOperations ==
  ASSUME WebauthnInv, NEW o \in Operations, NEW kind \in {"register", "authenticate"},
         settle(o, kind)
  PROVE  OperationsInv' /\ op' \in [Operations -> Held] /\ made' \in [Ceremonies -> Nat]
  <1> USE DEF WebauthnInv, CoreInv
  <1> DEFINE c == op[o].ceremony
  <1>1. /\ c \in open /\ c \in Ceremonies
        /\ open' = open \ {c} /\ signed' = {x \in signed : x.ceremony \in open \ {c}}
        /\ made' = [made EXCEPT ![c] = @ + 1] /\ op' = [op EXCEPT ![o] = Idle]
        /\ UNCHANGED maker
        /\ \A x \in Ceremonies : x # c => ceremonies'[x] = ceremonies[x]
        /\ ceremonies'[c].kind = "gone"
    BY Settled
  <1> HIDE DEF c
  <1>2. op'[o] = Idle /\ \A p \in Operations : p # o => op'[p] = op[p]
    BY <1>1 DEF TypeOK
  <1>3. ASSUME NEW p \in Operations, op'[p] # Idle
        PROVE  /\ op'[p].ceremony \in Ceremonies /\ op'[p].key \in Keys
               /\ op'[p].session \in Sessions /\ op'[p].deployment \in Deployments
               /\ ceremonies'[op'[p].ceremony].kind # "none"
               /\ ceremonies'[op'[p].ceremony].kind = "register" =>
                    maker[op'[p].key] = op'[p].ceremony
               /\ ceremonies'[op'[p].ceremony].kind = "authenticate" => Answer(p)' \in signed'
    <2> DEFINE x == op[p].ceremony
    <2>1. p # o /\ op'[p] = op[p] /\ op[p] # Idle
      BY <1>2, <1>3
    <2>2. /\ x \in Ceremonies /\ op[p].key \in Keys
          /\ op[p].session \in Sessions /\ op[p].deployment \in Deployments
          /\ ceremonies[x].kind # "none"
          /\ ceremonies[x].kind = "register" => maker[op[p].key] = x
          /\ ceremonies[x].kind = "authenticate" => Answer(p) \in signed
      BY <2>1 DEF OperationsInv
    <2>3. CASE x = c
      BY <1>1, <2>1, <2>2, <2>3
    <2>4. CASE x # c
      <3>1. ceremonies'[x] = ceremonies[x]
        BY <1>1, <2>2, <2>4
      <3>2. ceremonies[x].kind = "authenticate" => x \in open
        BY <2>2 DEF RowsInv
      <3>3. Answer(p)' = Answer(p) /\ Answer(p).ceremony = x
        BY <2>1 DEF Answer
      <3>4. ceremonies[x].kind = "authenticate" => Answer(p) \in signed'
        BY <1>1, <2>2, <2>4, <3>2, <3>3
      <3> QED BY <1>1, <2>1, <2>2, <3>1, <3>3, <3>4
    <2> QED BY <2>3, <2>4
  <1>4. op' \in [Operations -> Held] /\ made' \in [Ceremonies -> Nat]
    BY <1>1, UnusedType DEF TypeOK
  <1> QED BY <1>1, <1>3, <1>4 DEF OperationsInv

LEMMA SettledRows ==
  ASSUME WebauthnInv, NEW o \in Operations, NEW kind \in {"register", "authenticate"},
         settle(o, kind), \A a \in Accounts : epoch'[a] \in Nat /\ epoch[a] <= epoch'[a]
  PROVE  /\ RowsInv'
         /\ made'[op[o].ceremony] # 0
         /\ \A k \in Keys : credentials[k].state # "absent" =>
              /\ maker[k] \in Ceremonies /\ maker[k] # op[o].ceremony
              /\ ceremonies'[maker[k]] = ceremonies[maker[k]] /\ made'[maker[k]] = made[maker[k]]
  <1> USE DEF WebauthnInv, CoreInv
  <1> DEFINE c == op[o].ceremony
  <1>1. /\ c \in open /\ c \in Ceremonies
        /\ open' = open \ {c} /\ made' = [made EXCEPT ![c] = @ + 1] /\ UNCHANGED rp
        /\ \A x \in Ceremonies : x # c => ceremonies'[x] = ceremonies[x]
        /\ ceremonies'[c].kind = "gone"
    BY Settled
  <1> HIDE DEF c
  <1>2. made[c] = 0
    BY <1>1 DEF RowsInv, TypeOK
  <1>3. made'[c] = 1 /\ \A x \in Ceremonies : x # c => made'[x] = made[x]
    BY <1>1, <1>2 DEF TypeOK
  <1>4. ASSUME NEW x \in open \ {c}
        PROVE  ceremonies[x].epoch <= epoch'[Owner[ceremonies[x].session]]
    <2> DEFINE a == Owner[ceremonies[x].session]
    <2>1. a \in Accounts /\ ceremonies[x].epoch <= epoch[a]
      BY WebauthnAssumption DEF RowsInv
    <2>2. ceremonies[x].epoch \in Nat /\ epoch[a] \in Nat
      BY <2>1 DEF TypeOK, Stored
    <2> HIDE DEF a
    <2>3. ceremonies[x].epoch <= epoch'[a]
      BY <2>1, <2>2
    <2> QED BY <2>3 DEF a
  <1>5. RowsInv'
    <2>1. open \subseteq Ceremonies
      BY DEF TypeOK
    <2>2. ASSUME NEW x \in open'
          PROVE  /\ ceremonies'[x].kind \in {"register", "authenticate"}
                 /\ ceremonies'[x].session \in Sessions
                 /\ ceremonies'[x].epoch <= epoch'[Owner[ceremonies'[x].session]]
                 /\ ceremonies'[x].config = rp'.config /\ ceremonies'[x].generation = rp'.generation
      <3>1. x \in open \ {c} /\ ceremonies'[x] = ceremonies[x]
        BY <1>1, <2>1
      <3> QED BY <1>1, <1>4, <3>1 DEF RowsInv
    <2>3. \A x \in Ceremonies \ open' : ceremonies'[x].kind \in {"none", "gone"}
      BY <1>1 DEF RowsInv
    <2>4. \A x \in Ceremonies : made'[x] <= 1 /\ (made'[x] # 0 => ceremonies'[x].kind = "gone")
      BY <1>1, <1>3 DEF RowsInv
    <2> QED BY <2>2, <2>3, <2>4 DEF RowsInv
  <1>6. ASSUME NEW k \in Keys, credentials[k].state # "absent"
        PROVE  /\ maker[k] \in Ceremonies /\ maker[k] # c
               /\ ceremonies'[maker[k]] = ceremonies[maker[k]] /\ made'[maker[k]] = made[maker[k]]
    <2>1. maker[k] \in Ceremonies /\ ceremonies[maker[k]].kind = "gone"
      BY <1>6 DEF MakersInv, RowsInv, TypeOK
    <2>2. ceremonies[c].kind # "gone"
      BY <1>1 DEF RowsInv
    <2> QED BY <1>1, <1>3, <2>1, <2>2
  <1> QED BY <1>3, <1>5, <1>6 DEF c

(* What a registration changes besides its row. *)
LEMMA Registers ==
  ASSUME WebauthnInv, NEW o \in Operations, finish_registration(o)
  PROVE  LET c == op[o].ceremony
             k == op[o].key
             a == Owner[op[o].session]
         IN
         /\ settle(o, "register") /\ Authorised(op[o].session, ceremonies[c].source)
         /\ maker[k] = c /\ a \in Accounts /\ k \in Keys
         /\ credentials[k].state = "absent" /\ credentials[k].counter = 0
         /\ credentials' \in [Keys -> Credentials]
         /\ credentials'[k].state = "valid" /\ credentials'[k].principal = a
         /\ credentials'[k].config = rp.config /\ credentials'[k].counter = 0
         /\ \A x \in Keys : x # k =>
              /\ credentials'[x].state = "valid" => credentials'[x] = credentials[x]
              /\ credentials[x].state # "absent" <=> credentials'[x].state # "absent"
              /\ credentials'[x].state = "absent" => credentials'[x] = credentials[x]
              /\ credentials'[x].principal = credentials[x].principal
              /\ credentials'[x].version = credentials[x].version
              /\ credentials'[x].counter = credentials[x].counter
         /\ enrolled' \in [Accounts -> BOOLEAN] /\ enrolled'[a]
         /\ \A b \in Accounts : b # a => enrolled'[b] = enrolled[b]
         /\ epoch' \in [Accounts -> Nat]
         /\ \A b \in Accounts : epoch[b] \in Nat /\ epoch'[b] \in Nat /\ epoch[b] <= epoch'[b]
         /\ epoch[a] < epoch'[a] /\ \A b \in Accounts : b # a => epoch'[b] = epoch[b]
         /\ UNCHANGED grants
  <1> USE DEF WebauthnInv, CoreInv
  <1> DEFINE c == op[o].ceremony
             k == op[o].key
             a == Owner[op[o].session]
             ks == IF ceremonies[c].recover THEN Valid(a) ELSE {}
             new == [state |-> "valid", principal |-> a, config |-> pinned[op[o].deployment].config,
                     epoch |-> 1, version |-> 1, counter |-> 0]
  <1>1. /\ settle(o, "register") /\ Authorised(op[o].session, ceremonies[c].source)
        /\ credentials[k].state = "absent"
        /\ credentials' = [Revoked(ks) EXCEPT ![k] = new]
        /\ enrolled' = [enrolled EXCEPT ![a] = TRUE]
        /\ epoch' = [epoch EXCEPT ![a] = @ + 1]
        /\ UNCHANGED grants
    BY DEF finish_registration
  <1>2. /\ op[o] # Idle /\ op[o].session \in Sessions /\ k \in Keys /\ ceremonies[c].kind = "register"
        /\ rp # Unconnected /\ pinned[op[o].deployment] = rp
    BY <1>1, Settled
  <1>3. maker[k] = c
    BY <1>2 DEF OperationsInv
  <1>4. a \in Accounts
    BY <1>2, WebauthnAssumption
  <1>5. \A x \in Keys : x \in ks => credentials[x].state = "valid"
    BY DEF Valid
  <1>6. new \in Credentials /\ new.state = "valid" /\ new.principal = a /\ new.config = rp.config
        /\ new.counter = 0
    BY <1>2, <1>4 DEF Credentials, PartyInv
  <1>7. credentials[k].counter = 0
    BY <1>1, <1>2, UnusedType DEF MakersInv
  <1>8. enrolled' \in [Accounts -> BOOLEAN] /\ enrolled'[a]
        /\ \A b \in Accounts : b # a => enrolled'[b] = enrolled[b]
    BY <1>1, <1>4 DEF TypeOK
  <1>9. /\ epoch' \in [Accounts -> Nat]
        /\ \A b \in Accounts : epoch[b] \in Nat /\ epoch'[b] \in Nat /\ epoch[b] <= epoch'[b]
        /\ epoch[a] < epoch'[a] /\ \A b \in Accounts : b # a => epoch'[b] = epoch[b]
    BY <1>1, <1>4 DEF TypeOK
  <1> HIDE DEF ks, new, a, c, k
  <1>10. /\ Revoked(ks) \in [Keys -> Credentials]
         /\ \A x \in Keys :
              /\ x \notin ks => Revoked(ks)[x] = credentials[x]
              /\ x \in ks => /\ Revoked(ks)[x].state = "revoked"
                             /\ Revoked(ks)[x].principal = credentials[x].principal
                             /\ Revoked(ks)[x].version = credentials[x].version
                             /\ Revoked(ks)[x].counter = credentials[x].counter
    BY RevokedType
  <1>11. credentials' \in [Keys -> Credentials] /\ credentials'[k] = new
         /\ \A x \in Keys : x # k => credentials'[x] = Revoked(ks)[x]
    BY <1>1, <1>2, <1>6, <1>10
  <1>12. ASSUME NEW x \in Keys, x # k
         PROVE  /\ credentials'[x].state = "valid" => credentials'[x] = credentials[x]
                /\ credentials[x].state # "absent" <=> credentials'[x].state # "absent"
                /\ credentials'[x].state = "absent" => credentials'[x] = credentials[x]
                /\ credentials'[x].principal = credentials[x].principal
                /\ credentials'[x].version = credentials[x].version
                /\ credentials'[x].counter = credentials[x].counter
    <2>1. CASE x \in ks
      BY <1>5, <1>10, <1>11, <1>12, <2>1
    <2>2. CASE x \notin ks
      BY <1>10, <1>11, <1>12, <2>2
    <2> QED BY <2>1, <2>2
  <1> QED
    BY <1>1, <1>2, <1>3, <1>4, <1>6, <1>7, <1>8, <1>9, <1>11, <1>12 DEF a, c, k

LEMMA FinishRegistrationStep ==
  ASSUME WebauthnInv, NEW o \in Operations, finish_registration(o)
  PROVE  WebauthnInv'
  <1> USE DEF WebauthnInv, CoreInv
  <1> DEFINE c == op[o].ceremony
             k == op[o].key
             a == Owner[op[o].session]
  <1>1. /\ settle(o, "register")
        /\ maker[k] = c /\ a \in Accounts /\ k \in Keys
        /\ credentials[k].state = "absent"
        /\ credentials' \in [Keys -> Credentials]
        /\ credentials'[k].state = "valid" /\ credentials'[k].principal = a
        /\ credentials'[k].config = rp.config /\ credentials'[k].counter = 0
        /\ \A x \in Keys : x # k =>
             /\ credentials'[x].state = "valid" => credentials'[x] = credentials[x]
             /\ credentials[x].state # "absent" <=> credentials'[x].state # "absent"
             /\ credentials'[x].state = "absent" => credentials'[x] = credentials[x]
             /\ credentials'[x].principal = credentials[x].principal
             /\ credentials'[x].version = credentials[x].version
             /\ credentials'[x].counter = credentials[x].counter
        /\ enrolled' \in [Accounts -> BOOLEAN] /\ enrolled'[a]
        /\ \A b \in Accounts : b # a => enrolled'[b] = enrolled[b]
        /\ epoch' \in [Accounts -> Nat]
        /\ \A b \in Accounts : epoch[b] \in Nat /\ epoch'[b] \in Nat /\ epoch[b] <= epoch'[b]
        /\ epoch[a] < epoch'[a] /\ \A b \in Accounts : b # a => epoch'[b] = epoch[b]
        /\ UNCHANGED grants
    BY Registers
  <1>2. /\ c \in open /\ c \in Ceremonies /\ ceremonies[c].kind = "register"
        /\ ceremonies[c].session = op[o].session /\ ceremonies[c].epoch = epoch[a]
        /\ rp # Unconnected
        /\ open' = open \ {c} /\ signed' = {x \in signed : x.ceremony \in open \ {c}}
        /\ UNCHANGED <<rp, pinned, live, recent, provider, maker, signatures>>
        /\ ceremonies' \in [Ceremonies -> Stored]
        /\ \A x \in Ceremonies : x # c => ceremonies'[x] = ceremonies[x]
        /\ ceremonies'[c].kind = "gone"
        /\ ceremonies'[c].generation = ceremonies[c].generation
        /\ ceremonies'[c].source.method = ceremonies[c].source.method
    BY <1>1, Settled
  <1>3. OperationsInv' /\ op' \in [Operations -> Held] /\ made' \in [Ceremonies -> Nat]
    BY <1>1, SettledOperations
  <1>4. /\ RowsInv' /\ made'[c] # 0
        /\ \A x \in Keys : credentials[x].state # "absent" =>
             /\ maker[x] \in Ceremonies /\ maker[x] # c
             /\ ceremonies'[maker[x]] = ceremonies[maker[x]] /\ made'[maker[x]] = made[maker[x]]
    BY <1>1, SettledRows
  <1>5. /\ open \subseteq Ceremonies /\ c \notin {None}
        /\ \A x \in open : ceremonies[x].keys \subseteq Keys \ {k}
    BY <1>1, <1>2, WebauthnAssumption DEF TypeOK, Stored, KeysInv
  <1> HIDE DEF c, k, a
  <1>t. TypeOK'
    BY <1>1, <1>2, <1>3 DEF TypeOK
  <1>6. PartyInv'
    BY <1>2 DEF PartyInv
  <1>7. KeysInv'
    <2> SUFFICES ASSUME NEW x \in open', NEW y \in ceremonies'[x].keys
                 PROVE  /\ credentials'[y].state # "absent"
                        /\ ceremonies'[x].version[y] <= credentials'[y].version
      BY DEF KeysInv
    <2>1. x \in open /\ ceremonies'[x] = ceremonies[x] /\ y \in Keys /\ y # k
      BY <1>2, <1>5
    <2>2. credentials[y].state # "absent" /\ ceremonies[x].version[y] <= credentials[y].version
      BY <2>1 DEF KeysInv
    <2> QED BY <1>1, <2>1, <2>2
  <1>8. MakersInv'
    <2>1. ceremonies[c].generation = rp.generation
      BY <1>2 DEF RowsInv
    <2>2. ASSUME NEW x \in Keys
          PROVE  /\ maker[x] # None => ceremonies'[maker[x]].kind \in {"register", "gone"}
                 /\ credentials'[x].state = "absent" => credentials'[x] = Absent
                 /\ credentials'[x].state # "absent" =>
                      /\ credentials'[x].principal \in Accounts
                      /\ maker[x] # None /\ made'[maker[x]] # 0
                 /\ credentials'[x].state = "valid" =>
                      /\ credentials'[x].config = rp.config
                      /\ ceremonies'[maker[x]].generation = rp.generation
      <3>1. maker[x] # None => ceremonies'[maker[x]].kind \in {"register", "gone"}
        BY <1>2 DEF MakersInv, TypeOK
      <3>2. CASE x = k
        <4>1. credentials'[x].state = "valid"
          BY <1>1, <3>2
        <4>2. credentials'[x].principal \in Accounts /\ maker[x] # None /\ made'[maker[x]] # 0
          BY <1>1, <1>4, <1>5, <3>2
        <4>3. credentials'[x].config = rp.config /\ ceremonies'[maker[x]].generation = rp.generation
          BY <1>1, <1>2, <2>1, <3>2
        <4> QED BY <3>1, <4>1, <4>2, <4>3
      <3>3. CASE x # k
        <4>1. credentials'[x].state = "absent" => credentials'[x] = Absent
          BY <1>1, <3>3 DEF MakersInv
        <4>2. credentials'[x].state # "absent" =>
                /\ credentials'[x].principal \in Accounts
                /\ maker[x] # None /\ made'[maker[x]] # 0
          BY <1>1, <1>4, <3>3 DEF MakersInv
        <4>3. credentials'[x].state = "valid" =>
                /\ credentials'[x].config = rp.config
                /\ ceremonies'[maker[x]].generation = rp.generation
          BY <1>1, <1>4, <3>3 DEF MakersInv
        <4> QED BY <3>1, <4>1, <4>2, <4>3
      <3> QED BY <3>2, <3>3
    <2> QED BY <1>2, <2>2 DEF MakersInv
  <1>9. FirstInv'
    <2>1. \A x \in Keys : x # k => (ByEnrolment(x)' <=> ByEnrolment(x))
      BY <1>1, <1>2, <1>4 DEF ByEnrolment
    <2>2. \A x \in Keys : x = k /\ ByEnrolment(x)' => ~enrolled[a]
      <3>1. \A x \in Keys : x = k /\ ByEnrolment(x)' => ceremonies[c].source.method = "first"
        BY <1>1, <1>2 DEF ByEnrolment
      <3>2. ceremonies[c].source.method = "first" => ~enrolled[a]
        BY <1>2 DEF FirstInv, a
      <3> QED BY <3>1, <3>2
    <2>3. \A x \in Keys : x # k /\ ByEnrolment(x)' =>
            credentials'[x].principal \in Accounts /\ enrolled[credentials'[x].principal]
      BY <1>1, <2>1 DEF FirstInv, MakersInv, ByEnrolment
    <2>4. \A x \in Keys : ByEnrolment(x)' => enrolled'[credentials'[x].principal]
      BY <1>1, <2>3
    <2>5. \A x, y \in Keys : x # k /\ y = k /\ ByEnrolment(x)' /\ ByEnrolment(y)' =>
            credentials'[x].principal # credentials'[y].principal
      BY <1>1, <2>2, <2>3
    <2>6. \A x, y \in Keys :
            ByEnrolment(x)' /\ ByEnrolment(y)' /\ credentials'[x].principal = credentials'[y].principal
              => x = y
      <3> SUFFICES ASSUME NEW x \in Keys, NEW y \in Keys, ByEnrolment(x)', ByEnrolment(y)',
                          credentials'[x].principal = credentials'[y].principal, x # y
                   PROVE  FALSE
        OBVIOUS
      <3>1. CASE x = k
        BY <2>5, <3>1
      <3>2. CASE y = k
        BY <2>5, <3>2
      <3>3. CASE x # k /\ y # k
        <4>1. /\ ByEnrolment(x) /\ ByEnrolment(y)
              /\ credentials[x].principal = credentials[y].principal
          BY <1>1, <2>1, <3>3
        <4> QED BY <4>1 DEF FirstInv
      <3> QED BY <3>1, <3>2, <3>3
    <2>7. ASSUME NEW x \in open', ceremonies'[x].kind = "register",
                 ceremonies'[x].source.method = "first", enrolled'[Owner[ceremonies'[x].session]]
          PROVE  ceremonies'[x].epoch # epoch'[Owner[ceremonies'[x].session]]
      <3> DEFINE b == Owner[ceremonies[x].session]
      <3>1. x \in open /\ ceremonies'[x] = ceremonies[x]
        BY <1>2, <1>5
      <3>2. b \in Accounts /\ ceremonies[x].epoch \in Nat /\ ceremonies[x].epoch <= epoch[b]
        BY <3>1, WebauthnAssumption DEF RowsInv, TypeOK, Stored
      <3>3. enrolled[b] => ceremonies[x].epoch # epoch[b]
        BY <2>7, <3>1 DEF FirstInv
      <3>4. enrolled'[b]
        BY <2>7, <3>1
      <3> HIDE DEF b
      <3>5. ceremonies[x].epoch # epoch'[b]
        <4>1. CASE b = a
          BY <1>1, <3>2, <4>1
        <4>2. CASE b # a
          BY <1>1, <3>2, <3>3, <3>4, <4>2
        <4> QED BY <4>1, <4>2
      <3> QED BY <3>1, <3>5 DEF b
    <2> QED BY <2>4, <2>6, <2>7 DEF FirstInv
  <1>10. CountersInv'
    <2>1. \A x \in Keys : credentials'[x].counter <= signatures[x]
      <3>1. signatures[k] \in Nat
        BY <1>1 DEF TypeOK
      <3>2. credentials'[k].counter <= signatures[k]
        BY <1>1, <3>1
      <3> QED BY <1>1, <3>2 DEF CountersInv
    <2>2. ASSUME NEW x \in signed'
          PROVE  /\ x.ceremony \in open' /\ x.key \in ceremonies'[x.ceremony].keys
                 /\ x.counter <= signatures[x.key]
                 /\ ceremonies'[x.ceremony].version[x.key] = credentials'[x.key].version =>
                      credentials'[x.key].counter <= x.counter
      <3>1. x \in signed /\ x.ceremony \in open \ {c} /\ ceremonies'[x.ceremony] = ceremonies[x.ceremony]
        BY <1>2, <1>5
      <3>2. x.key \in Keys /\ x.key # k
        BY <1>5, <3>1 DEF CountersInv
      <3>3. /\ credentials'[x.key].version = credentials[x.key].version
            /\ credentials'[x.key].counter = credentials[x.key].counter
        BY <1>1, <3>2
      <3> QED BY <1>2, <3>1, <3>3 DEF CountersInv
    <2> QED BY <1>2, <2>1, <2>2 DEF CountersInv
  <1> QED BY <1>t, <1>3, <1>4, <1>6, <1>7, <1>8, <1>9, <1>10

(* What an assertion changes besides its row. *)
LEMMA Authenticates ==
  ASSUME WebauthnInv, NEW o \in Operations, finish_authentication(o)
  PROVE  LET k == op[o].key
             n == op[o].counter
         IN
         /\ settle(o, "authenticate") /\ k \in Keys /\ n \in Nat
         /\ credentials[k].counter <= n /\ n <= signatures[k]
         /\ credentials' \in [Keys -> Credentials]
         /\ \A x \in Keys :
              /\ credentials'[x].state = credentials[x].state
              /\ credentials'[x].principal = credentials[x].principal
              /\ credentials'[x].config = credentials[x].config
              /\ credentials[x].version \in Nat
              /\ x # k => credentials'[x] = credentials[x]
         /\ credentials[k].state = "valid"
         /\ credentials'[k].version = credentials[k].version + 1 /\ credentials'[k].counter = n
         /\ UNCHANGED <<enrolled, epoch>>
         /\ grants' \subseteq Grants /\ grants \subseteq grants'
  <1> USE DEF WebauthnInv, CoreInv
  <1> DEFINE c == op[o].ceremony
             k == op[o].key
             n == op[o].counter
             d == op[o].deployment
             source == [method |-> "webauthn", credential |-> k, epoch |-> credentials[k].epoch,
                        configuration |-> pinned[d].generation]
             g == [session |-> op[o].session, context |-> ceremonies[c].context, ceremony |-> c,
                   source |-> source]
  <1>1. /\ settle(o, "authenticate")
        /\ credentials[k].state = "valid" /\ credentials[k].version = ceremonies[c].version[k]
        /\ credentials' = [credentials EXCEPT ![k].version = @ + 1, ![k].counter = n]
        /\ grants' = grants \cup {g}
        /\ UNCHANGED <<enrolled, epoch>>
    BY DEF finish_authentication, Unmoved
  <1>2. /\ op[o] # Idle /\ c \in Ceremonies /\ ceremonies[c].kind = "authenticate"
        /\ op[o].session \in Sessions /\ k \in Keys /\ d \in Deployments
        /\ rp # Unconnected /\ pinned[d] = rp
    BY <1>1, Settled
  <1>3. Answer(o) \in signed
    BY <1>2 DEF OperationsInv
  <1>4. credentials[k].counter <= n /\ n <= signatures[k]
    <2>1. Answer(o).ceremony = c /\ Answer(o).key = k /\ Answer(o).counter = n
      BY DEF Answer
    <2> QED BY <1>1, <1>3, <2>1 DEF CountersInv
  <1>5. n \in Nat
    BY DEF TypeOK, Held
  <1>6. g \in Grants
    <2>1. ceremonies[c] \in Stored /\ credentials[k] \in Credentials
      BY <1>2 DEF TypeOK
    <2>2. ceremonies[c].context \in Contexts /\ credentials[k].epoch \in Nat
      BY <2>1 DEF Stored, Credentials
    <2>3. pinned[d].generation \in 1 .. GenerationLimit
      BY <1>2 DEF PartyInv
    <2> HIDE DEF d, c, k, n
    <2>4. source \in [method : {"webauthn"}, credential : Keys, epoch : Nat, configuration : 1 .. GenerationLimit]
      BY <1>2, <2>2, <2>3
    <2>5. source \in Sources
      BY <2>4 DEF Sources
    <2> HIDE DEF source
    <2> QED BY <1>2, <2>2, <2>5 DEF Grants
  <1> HIDE DEF c, k, n, d, g
  <1>7. credentials' \in [Keys -> Credentials]
    <2>1. credentials[k] \in Credentials /\ credentials[k].version + 1 \in Nat
      BY <1>2 DEF TypeOK, Credentials
    <2>2. [credentials[k] EXCEPT !.version = @ + 1, !.counter = n] \in Credentials
      BY <1>5, <2>1, Zenon DEF Credentials
    <2> QED BY <1>1, <1>2, <2>2 DEF TypeOK
  <1>8. \A x \in Keys :
              /\ credentials'[x].state = credentials[x].state
              /\ credentials'[x].principal = credentials[x].principal
              /\ credentials'[x].config = credentials[x].config
              /\ credentials[x].version \in Nat
              /\ x # k => credentials'[x] = credentials[x]
    BY <1>1, <1>2 DEF TypeOK, Credentials
  <1>9. credentials'[k].version = credentials[k].version + 1 /\ credentials'[k].counter = n
    BY <1>1, <1>2 DEF TypeOK, Credentials
  <1>10. grants' \subseteq Grants /\ grants \subseteq grants'
    BY <1>1, <1>6 DEF TypeOK
  <1> QED BY <1>1, <1>2, <1>4, <1>5, <1>7, <1>8, <1>9, <1>10 DEF k, n

LEMMA FinishAuthenticationStep ==
  ASSUME WebauthnInv, NEW o \in Operations, finish_authentication(o)
  PROVE  WebauthnInv'
  <1> USE DEF WebauthnInv, CoreInv
  <1> DEFINE c == op[o].ceremony
             k == op[o].key
             n == op[o].counter
  <1>1. /\ settle(o, "authenticate") /\ k \in Keys /\ n \in Nat
        /\ credentials[k].counter <= n /\ n <= signatures[k]
        /\ credentials' \in [Keys -> Credentials]
        /\ \A x \in Keys :
             /\ credentials'[x].state = credentials[x].state
             /\ credentials'[x].principal = credentials[x].principal
             /\ credentials'[x].config = credentials[x].config
             /\ credentials[x].version \in Nat
             /\ x # k => credentials'[x] = credentials[x]
        /\ credentials[k].state = "valid"
        /\ credentials'[k].version = credentials[k].version + 1 /\ credentials'[k].counter = n
        /\ UNCHANGED <<enrolled, epoch>>
        /\ grants' \subseteq Grants
    BY Authenticates
  <1>2. /\ c \in open /\ c \in Ceremonies /\ rp # Unconnected
        /\ open' = open \ {c} /\ signed' = {x \in signed : x.ceremony \in open \ {c}}
        /\ UNCHANGED <<rp, pinned, live, recent, provider, maker, signatures>>
        /\ ceremonies' \in [Ceremonies -> Stored]
        /\ \A x \in Ceremonies : x # c => ceremonies'[x] = ceremonies[x]
        /\ ceremonies'[c].kind = "gone"
    BY <1>1, Settled
  <1>3. OperationsInv' /\ op' \in [Operations -> Held] /\ made' \in [Ceremonies -> Nat]
    BY <1>1, SettledOperations
  <1>4. /\ RowsInv'
        /\ \A x \in Keys : credentials[x].state # "absent" =>
             /\ maker[x] \in Ceremonies /\ maker[x] # c
             /\ ceremonies'[maker[x]] = ceremonies[maker[x]] /\ made'[maker[x]] = made[maker[x]]
    <2>1. \A a \in Accounts : epoch'[a] \in Nat /\ epoch[a] <= epoch'[a]
      BY <1>1 DEF TypeOK
    <2> QED BY <1>1, <2>1, SettledRows
  <1>5. /\ open \subseteq Ceremonies
        /\ \A x \in open : ceremonies[x].keys \subseteq Keys /\ ceremonies[x].version \in [Keys -> Nat]
    BY DEF TypeOK, Stored
  <1> HIDE DEF c, k, n
  <1>t. TypeOK'
    BY <1>1, <1>2, <1>3 DEF TypeOK
  <1>6. PartyInv'
    BY <1>2 DEF PartyInv
  <1>7. KeysInv'
    <2> SUFFICES ASSUME NEW x \in open', NEW y \in ceremonies'[x].keys
                 PROVE  /\ credentials'[y].state # "absent"
                        /\ ceremonies'[x].version[y] <= credentials'[y].version
      BY DEF KeysInv
    <2>1. x \in open /\ ceremonies'[x] = ceremonies[x] /\ y \in Keys
      BY <1>2, <1>5
    <2>2. /\ credentials[y].state # "absent" /\ ceremonies[x].version[y] <= credentials[y].version
          /\ ceremonies[x].version[y] \in Nat
      BY <1>5, <2>1 DEF KeysInv
    <2>3. credentials[y].version <= credentials'[y].version /\ credentials'[y].version \in Nat
      BY <1>1, <2>1
    <2> QED BY <1>1, <2>1, <2>2, <2>3
  <1>8. MakersInv'
    <2>1. ASSUME NEW x \in Keys
          PROVE  /\ maker[x] # None => ceremonies'[maker[x]].kind \in {"register", "gone"}
                 /\ credentials'[x].state = "absent" => credentials'[x] = Absent
                 /\ credentials'[x].state # "absent" =>
                      /\ credentials'[x].principal \in Accounts
                      /\ maker[x] # None /\ made'[maker[x]] # 0
                 /\ credentials'[x].state = "valid" =>
                      /\ credentials'[x].config = rp.config
                      /\ ceremonies'[maker[x]].generation = rp.generation
      <3>1. maker[x] # None => ceremonies'[maker[x]].kind \in {"register", "gone"}
        BY <1>2 DEF MakersInv, TypeOK
      <3>2. credentials'[x].state = "absent" => credentials'[x] = Absent
        BY <1>1 DEF MakersInv
      <3>3. credentials'[x].state # "absent" =>
              /\ credentials'[x].principal \in Accounts
              /\ maker[x] # None /\ made'[maker[x]] # 0
        BY <1>1, <1>4 DEF MakersInv
      <3>4. credentials'[x].state = "valid" =>
              /\ credentials'[x].config = rp.config
              /\ ceremonies'[maker[x]].generation = rp.generation
        BY <1>1, <1>4 DEF MakersInv
      <3> QED BY <3>1, <3>2, <3>3, <3>4
    <2> QED BY <1>2, <2>1 DEF MakersInv
  <1>9. FirstInv'
    <2>1. \A x \in Keys : ByEnrolment(x)' <=> ByEnrolment(x)
      BY <1>1, <1>2, <1>4 DEF ByEnrolment
    <2>2. \A x \in Keys : ByEnrolment(x)' => enrolled[credentials'[x].principal]
      BY <1>1, <2>1 DEF FirstInv
    <2>3. \A x, y \in Keys :
            ByEnrolment(x)' /\ ByEnrolment(y)' /\ credentials'[x].principal = credentials'[y].principal
              => x = y
      BY <1>1, <2>1 DEF FirstInv
    <2>4. \A x \in open' : x \in open /\ ceremonies'[x] = ceremonies[x]
      BY <1>2, <1>5
    <2> QED BY <1>1, <2>2, <2>3, <2>4 DEF FirstInv
  <1>10. CountersInv'
    <2>1. \A x \in Keys : credentials'[x].counter <= signatures[x]
      BY <1>1 DEF CountersInv
    <2>2. ASSUME NEW x \in signed'
          PROVE  /\ x.ceremony \in open' /\ x.key \in ceremonies'[x.ceremony].keys
                 /\ x.counter <= signatures[x.key]
                 /\ ceremonies'[x.ceremony].version[x.key] = credentials'[x.key].version =>
                      credentials'[x.key].counter <= x.counter
      <3>1. x \in signed /\ x.ceremony \in open \ {c} /\ ceremonies'[x.ceremony] = ceremonies[x.ceremony]
        BY <1>2, <1>5
      <3>2. x.key \in ceremonies[x.ceremony].keys /\ x.key \in Keys
        BY <1>5, <3>1 DEF CountersInv
      <3>3. CASE x.key = k
        <4>1. /\ ceremonies[x.ceremony].version[k] <= credentials[k].version
              /\ ceremonies[x.ceremony].version[k] \in Nat /\ credentials[k].version \in Nat
          BY <1>1, <1>5, <3>1, <3>2, <3>3 DEF KeysInv
        <4>2. ceremonies[x.ceremony].version[k] # credentials'[k].version
          BY <1>1, <4>1
        <4> QED BY <1>2, <3>1, <3>2, <3>3, <4>2 DEF CountersInv
      <3>4. CASE x.key # k
        <4>1. credentials'[x.key] = credentials[x.key]
          BY <1>1, <3>2, <3>4
        <4> QED BY <1>2, <3>1, <4>1 DEF CountersInv
      <3> QED BY <3>3, <3>4
    <2> QED BY <1>2, <2>1, <2>2 DEF CountersInv
  <1> QED BY <1>t, <1>3, <1>4, <1>6, <1>7, <1>8, <1>9, <1>10

-----------------------------------------------------------------------------
(* What each way to begin a ceremony stores. *)
LEMMA RegistrationBegun ==
  ASSUME WebauthnInv, NEW d \in Deployments, NEW s \in Sessions, NEW c \in Ceremonies,
         NEW recover \in BOOLEAN, NEW source \in Sources,
         begin_registration(d, s, c, recover, source), grants' \subseteq Grants,
         source.method = "first" => ~enrolled[Owner[s]]
  PROVE  WebauthnInv'
  <1> DEFINE row == RegistrationRow(s, pinned[d].config, recover, source)
  <1>1. /\ ceremonies[c].kind = "none" /\ ceremonies' = [ceremonies EXCEPT ![c] = row]
        /\ open' = open \cup {c}
        /\ UNCHANGED <<rp, pinned, enrolled, epoch, credentials, live, recent, provider, maker,
                       signed, signatures, op, made>>
        /\ pinned[d].generation # 0 /\ pinned[d] = rp
    BY DEF begin_registration, store, check_configuration, environment, answers, RegistrationRow
  <1>2. rp # Unconnected /\ rp.config \in Configs
    BY <1>1 DEF Unconnected, WebauthnInv, CoreInv, PartyInv
  <1>3. /\ row \in Stored /\ row.kind = "register" /\ row.session = s
        /\ row.epoch = epoch[Owner[s]] /\ row.config = rp.config /\ row.source = source
        /\ row.generation = rp.generation /\ row.keys = {}
    BY <1>1, <1>2, RegistrationRowType DEF WebauthnInv
  <1> HIDE DEF row
  <1>4. Fresh(row)
    BY <1>2, <1>3 DEF Fresh
  <1>5. Begun(c, row)
    BY <1>1 DEF Begun
  <1> QED BY <1>4, <1>5, BegunStep

LEMMA AuthenticationBegun ==
  ASSUME WebauthnInv, NEW d \in Deployments, NEW s \in Sessions, NEW c \in Ceremonies,
         NEW context \in Asked, begin_authentication(d, s, c, context)
  PROVE  WebauthnInv'
  <1> DEFINE ks == Registered(d, Owner[s])
             row == AuthenticationRow(s, pinned[d].config, context, ks)
  <1>1. /\ ceremonies[c].kind = "none" /\ ceremonies' = [ceremonies EXCEPT ![c] = row]
        /\ open' = open \cup {c}
        /\ UNCHANGED <<rp, pinned, enrolled, epoch, credentials, grants, live, recent, provider,
                       maker, signed, signatures, op, made>>
        /\ pinned[d].generation # 0 /\ pinned[d] = rp
    BY DEF begin_authentication, store, check_configuration, rows, environment, answers,
           AuthenticationRow
  <1>2. rp # Unconnected /\ rp.config \in Configs
    BY <1>1 DEF Unconnected, WebauthnInv, CoreInv, PartyInv
  <1>3. ks \in SUBSET Keys /\ \A k \in ks : credentials[k].state = "valid"
    BY DEF Registered
  <1>4. context \in Contexts
    BY DEF Asked
  <1> HIDE DEF ks
  <1>5. /\ row \in Stored /\ row.kind = "authenticate" /\ row.session = s
        /\ row.epoch = epoch[Owner[s]] /\ row.config = rp.config
        /\ row.generation = rp.generation /\ row.keys = ks
        /\ \A k \in ks : row.version[k] = credentials[k].version
    BY <1>1, <1>2, <1>3, <1>4, AuthenticationRowType DEF WebauthnInv
  <1> HIDE DEF row
  <1>6. Fresh(row)
    BY <1>2, <1>3, <1>5 DEF Fresh
  <1>7. grants' \subseteq Grants
    BY <1>1 DEF WebauthnInv, TypeOK
  <1>8. Begun(c, row)
    BY <1>1, <1>7 DEF Begun
  <1> QED BY <1>6, <1>8, BegunStep

LEMMA BeginStep ==
  ASSUME WebauthnInv, NEW d \in Deployments, NEW s \in Sessions, NEW c \in Ceremonies,
         \/ begin_first(d, s, c)
         \/ begin_host_recovery(d, s, c)
         \/ \E recover \in BOOLEAN, g \in grants : begin_with_grant(d, s, c, recover, g)
         \/ \E context \in Asked : begin_authentication(d, s, c, context)
  PROVE  WebauthnInv'
  <1>0. grants \subseteq Grants
    BY DEF WebauthnInv, TypeOK
  <1>1. CASE begin_first(d, s, c)
    <2>1. Unproven("first") \in Sources
      BY DEF Unproven, Sources
    <2>2. /\ begin_registration(d, s, c, FALSE, Unproven("first"))
          /\ ~enrolled[Owner[s]] /\ grants' = grants
      BY <1>1 DEF begin_first, MayEnrol
    <2> QED BY <1>0, <2>1, <2>2, RegistrationBegun
  <1>2. CASE begin_host_recovery(d, s, c)
    <2>1. Unproven("host") \in Sources /\ Unproven("host").method # "first"
      BY DEF Unproven, Sources
    <2>2. begin_registration(d, s, c, TRUE, Unproven("host")) /\ grants' = grants
      BY <1>2 DEF begin_host_recovery
    <2> QED BY <1>0, <2>1, <2>2, RegistrationBegun
  <1>3. ASSUME NEW recover \in BOOLEAN, NEW g \in grants, begin_with_grant(d, s, c, recover, g)
        PROVE  WebauthnInv'
    <2>1. g.source \in Sources
      BY <1>0 DEF Grants
    <2>2. g.source.method # "first"
      BY <1>3 DEF begin_with_grant, Spendable, validate_source
    <2>3. begin_registration(d, s, c, recover, g.source) /\ grants' = grants \ {g}
      BY <1>3 DEF begin_with_grant
    <2> QED BY <1>0, <2>1, <2>2, <2>3, RegistrationBegun
  <1> QED BY <1>1, <1>2, <1>3, AuthenticationBegun

(* Steps that touch grants, sessions and the provider only. *)
LEMMA QuietSteps ==
  ASSUME WebauthnInv,
         \/ \E s \in Sessions, g \in grants : consume_step_up_on(s, g) \/ cancel_step_up(s, g)
         \/ \E g \in grants : ExpireGrant(g)
         \/ \E s \in Sessions, context \in Asked : UpstreamGrant(s, context)
         \/ ChangeProvider
         \/ \E s \in Sessions : Age(s) \/ EndSession(s)
         \/ UNCHANGED vars
  PROVE  Quiet /\ UNCHANGED credentials /\ (grants \ grants' # {} => provider' = provider)
  <1> USE DEF Quiet, core, environment, answers, rows
  <1>0. /\ grants \subseteq Grants /\ live \subseteq Sessions /\ recent \subseteq Sessions
        /\ provider \in 1 .. ProviderLimit
    BY DEF WebauthnInv, TypeOK
  <1>1. ASSUME NEW s \in Sessions, NEW g \in grants, consume_step_up_on(s, g) \/ cancel_step_up(s, g)
        PROVE  Quiet /\ UNCHANGED credentials /\ provider' = provider
    BY <1>0, <1>1 DEF consume_step_up_on, cancel_step_up
  <1>2. ASSUME NEW g \in grants, ExpireGrant(g)
        PROVE  Quiet /\ UNCHANGED credentials /\ provider' = provider
    BY <1>0, <1>2 DEF ExpireGrant
  <1>3. ASSUME NEW s \in Sessions, NEW context \in Asked, UpstreamGrant(s, context)
        PROVE  Quiet /\ UNCHANGED credentials /\ provider' = provider
    <2> DEFINE source == [Unproven("oidc") EXCEPT !.configuration = provider]
               g == [session |-> s, context |-> context, ceremony |-> None, source |-> source]
    <2>1. source = [method |-> "oidc", credential |-> None, epoch |-> 0, configuration |-> provider]
      BY DEF Unproven
    <2>2. source \in Sources
      BY <1>0, <2>1 DEF Sources
    <2>3. grants' = grants \cup {g}
      BY <1>3 DEF UpstreamGrant
    <2>4. g \in Grants
      <3>1. context \in Contexts
        BY DEF Asked
      <3> HIDE DEF source
      <3> QED BY <2>2, <3>1 DEF Grants
    <2> HIDE DEF g
    <2> QED BY <1>0, <1>3, <2>3, <2>4 DEF UpstreamGrant
  <1>4. CASE ChangeProvider
    BY <1>0, <1>4, WebauthnAssumption DEF ChangeProvider
  <1>5. ASSUME NEW s \in Sessions, Age(s) \/ EndSession(s)
        PROVE  Quiet /\ UNCHANGED credentials /\ provider' = provider
    BY <1>0, <1>5 DEF Age, EndSession
  <1>6. CASE UNCHANGED vars
    BY <1>0, <1>6 DEF vars
  <1> HIDE DEF Quiet
  <1> QED BY <1>1, <1>2, <1>3, <1>4, <1>5, <1>6

-----------------------------------------------------------------------------
LEMMA InitInv == Init => WebauthnInv
  <1> SUFFICES ASSUME Init PROVE WebauthnInv
    OBVIOUS
  <1>1. Unconnected \in Party
    BY WebauthnAssumption DEF Party, Unconnected
  <1>2. TypeOK
    BY <1>1, UnusedType, WebauthnAssumption DEF Init, TypeOK
  <1>3. PartyInv /\ RowsInv /\ KeysInv
    BY UnusedType DEF Init, PartyInv, RowsInv, KeysInv
  <1>4. MakersInv /\ FirstInv /\ CountersInv
    BY UnusedType DEF Init, MakersInv, FirstInv, ByEnrolment, CountersInv
  <1>5. OperationsInv
    BY DEF Init, OperationsInv
  <1> QED BY <1>2, <1>3, <1>4, <1>5 DEF WebauthnInv, CoreInv

LEMMA DropSteps ==
  ASSUME WebauthnInv,
         \/ \E d \in Deployments, s \in Sessions, c \in Ceremonies : cancel(d, s, c)
         \/ \E c \in Ceremonies : Expire(c)
  PROVE  WebauthnInv' /\ UNCHANGED <<credentials, grants>>
  <1>1. ASSUME NEW d \in Deployments, NEW s \in Sessions, NEW c \in Ceremonies, cancel(d, s, c)
        PROVE  WebauthnInv' /\ UNCHANGED <<credentials, grants>>
    <2>1. /\ Close(open \ {c}, {})
          /\ UNCHANGED <<rp, pinned, enrolled, epoch, credentials, grants, live, recent, provider,
                         maker, signatures, op, made>>
      BY <1>1 DEF cancel, Consumed, rows, environment
    <2> QED BY <2>1, DroppedStep
  <1>2. ASSUME NEW c \in Ceremonies, Expire(c)
        PROVE  WebauthnInv' /\ UNCHANGED <<credentials, grants>>
    <2>1. /\ Close(open \ {c}, {})
          /\ UNCHANGED <<rp, pinned, enrolled, epoch, credentials, grants, live, recent, provider,
                         maker, signatures, op, made>>
      BY <1>2 DEF Expire, rows, environment
    <2> QED BY <2>1, DroppedStep
  <1> QED BY <1>1, <1>2

(* The steps of the specification, by what they change. *)
LEMMA StepInv ==
  ASSUME WebauthnInv, [Next]_vars
  PROVE  WebauthnInv'
  <1>1. ASSUME NEW d \in Deployments, NEW config \in Configs, connect(d, config)
        PROVE  WebauthnInv'
    BY <1>1, ConnectStep
  <1>2. ASSUME NEW config \in Configs, activate_webauthn_rp_on(config)
        PROVE  WebauthnInv'
    BY <1>2, ActivateStep
  <1>3. ASSUME NEW d \in Deployments, NEW s \in Sessions, NEW c \in Ceremonies,
               \/ begin_first(d, s, c)
               \/ begin_host_recovery(d, s, c)
               \/ \E recover \in BOOLEAN, g \in grants : begin_with_grant(d, s, c, recover, g)
               \/ \E context \in Asked : begin_authentication(d, s, c, context)
        PROVE  WebauthnInv'
    BY <1>3, BeginStep
  <1>4. ASSUME \/ \E d \in Deployments, s \in Sessions, c \in Ceremonies : cancel(d, s, c)
               \/ \E c \in Ceremonies : Expire(c)
        PROVE  WebauthnInv'
    BY <1>4, DropSteps
  <1>5. ASSUME NEW c \in Ceremonies, NEW k \in Keys, Attest(c, k) \/ Sign(c, k)
        PROVE  WebauthnInv'
    BY <1>5, AttestStep, SignStep
  <1>6. ASSUME NEW o \in Operations, NEW d \in Deployments, NEW s \in Sessions,
               NEW c \in Ceremonies, NEW k \in Keys, NEW n \in 0 .. CounterLimit,
               snapshot(o, d, s, c, k, n)
        PROVE  WebauthnInv'
    BY <1>6, SnapshotStep
  <1>7. ASSUME NEW o \in Operations, finish_registration(o) \/ finish_authentication(o) \/ Stop(o)
        PROVE  WebauthnInv'
    BY <1>7, FinishRegistrationStep, FinishAuthenticationStep, StopStep
  <1>8. ASSUME NEW d \in Deployments, NEW s \in Sessions, NEW k \in Keys, NEW g \in grants,
               remove(d, s, k, g)
        PROVE  WebauthnInv'
    BY <1>8, RemoveStep
  <1>9. ASSUME \/ \E s \in Sessions, g \in grants : consume_step_up_on(s, g) \/ cancel_step_up(s, g)
               \/ \E g \in grants : ExpireGrant(g)
               \/ \E s \in Sessions, context \in Asked : UpstreamGrant(s, context)
               \/ ChangeProvider
               \/ \E s \in Sessions : Age(s) \/ EndSession(s)
               \/ UNCHANGED vars
        PROVE  WebauthnInv'
    BY <1>9, QuietSteps, QuietStep
  <1> QED
    BY <1>1, <1>2, <1>3, <1>4, <1>5, <1>6, <1>7, <1>8, <1>9 DEF Next

(* The steps that change a passkey. *)
LEMMA ChangingSteps ==
  ASSUME WebauthnInv, [Next]_vars
  PROVE  \/ UNCHANGED credentials
         \/ \E config \in Configs : activate_webauthn_rp_on(config)
         \/ \E o \in Operations : finish_registration(o)
         \/ \E o \in Operations : finish_authentication(o)
         \/ \E d \in Deployments, s \in Sessions, k \in Keys, g \in grants : remove(d, s, k, g)
  <1> DEFINE Goal == UNCHANGED credentials
  <1>1. ASSUME NEW d \in Deployments, NEW config \in Configs, connect(d, config)
        PROVE  Goal
    BY <1>1 DEF connect, rows
  <1>2. ASSUME NEW d \in Deployments, NEW s \in Sessions, NEW c \in Ceremonies,
               \/ begin_first(d, s, c)
               \/ begin_host_recovery(d, s, c)
               \/ \E recover \in BOOLEAN, g \in grants : begin_with_grant(d, s, c, recover, g)
               \/ \E context \in Asked : begin_authentication(d, s, c, context)
        PROVE  Goal
    <2>1. ASSUME NEW recover \in BOOLEAN, NEW source, begin_registration(d, s, c, recover, source)
          PROVE  Goal
      BY <2>1 DEF begin_registration
    <2>2. CASE begin_first(d, s, c) \/ begin_host_recovery(d, s, c)
      BY <2>1, <2>2 DEF begin_first, begin_host_recovery
    <2>3. ASSUME NEW recover \in BOOLEAN, NEW g \in grants, begin_with_grant(d, s, c, recover, g)
          PROVE  Goal
      BY <2>1, <2>3 DEF begin_with_grant
    <2>4. ASSUME NEW context \in Asked, begin_authentication(d, s, c, context)
          PROVE  Goal
      BY <2>4 DEF begin_authentication, rows
    <2> QED BY <1>2, <2>2, <2>3, <2>4
  <1>3. ASSUME \/ \E d \in Deployments, s \in Sessions, c \in Ceremonies : cancel(d, s, c)
               \/ \E c \in Ceremonies : Expire(c)
        PROVE  Goal
    BY <1>3, DropSteps
  <1>4. ASSUME NEW c \in Ceremonies, NEW k \in Keys, Attest(c, k) \/ Sign(c, k)
        PROVE  Goal
    BY <1>4 DEF Attest, Sign, rows
  <1>5. ASSUME NEW o \in Operations, NEW d \in Deployments, NEW s \in Sessions,
               NEW c \in Ceremonies, NEW k \in Keys, NEW n \in 0 .. CounterLimit,
               snapshot(o, d, s, c, k, n)
        PROVE  Goal
    BY <1>5 DEF snapshot, rows
  <1>6. ASSUME NEW o \in Operations, Stop(o)
        PROVE  Goal
    BY <1>6 DEF Stop, rows
  <1>7. ASSUME \/ \E s \in Sessions, g \in grants : consume_step_up_on(s, g) \/ cancel_step_up(s, g)
               \/ \E g \in grants : ExpireGrant(g)
               \/ \E s \in Sessions, context \in Asked : UpstreamGrant(s, context)
               \/ ChangeProvider
               \/ \E s \in Sessions : Age(s) \/ EndSession(s)
               \/ UNCHANGED vars
        PROVE  Goal
    BY <1>7, QuietSteps
  <1> QED
    BY <1>1, <1>2, <1>3, <1>4, <1>5, <1>6, <1>7 DEF Next

(* No step takes a counter back, removals and activations included. *)
LEMMA CountersGrow ==
  ASSUME WebauthnInv, [Next]_vars, NEW k \in Keys
  PROVE  credentials'[k].counter >= credentials[k].counter
  <1>1. \A x \in Keys : credentials[x].counter \in Nat
    BY DEF WebauthnInv, TypeOK, Credentials
  <1>2. ASSUME NEW ks, \A x \in Keys : x \in ks => credentials[x].state # "absent",
               credentials' = Revoked(ks)
        PROVE  credentials'[k].counter = credentials[k].counter
    BY <1>2, RevokedKeeps
  <1>3. CASE \E config \in Configs : activate_webauthn_rp_on(config)
    <2>1. credentials' = Revoked({x \in Keys : credentials[x].state = "valid"})
      BY <1>3 DEF activate_webauthn_rp_on
    <2> QED BY <1>1, <1>2, <2>1
  <1>4. ASSUME NEW o \in Operations, finish_registration(o)
        PROVE  credentials'[k].counter = credentials[k].counter
    BY <1>4, Registers
  <1>5. ASSUME NEW o \in Operations, finish_authentication(o)
        PROVE  credentials'[k].counter >= credentials[k].counter
    <2>1. CASE k = op[o].key
      BY <1>1, <1>5, <2>1, Authenticates
    <2>2. CASE k # op[o].key
      <3>1. credentials'[k] = credentials[k]
        BY <1>5, <2>2, Authenticates
      <3> QED BY <1>1, <3>1
    <2> QED BY <2>1, <2>2
  <1>6. ASSUME NEW d \in Deployments, NEW s \in Sessions, NEW x \in Keys, NEW g \in grants,
               remove(d, s, x, g)
        PROVE  credentials'[k].counter = credentials[k].counter
    <2>1. credentials' = Revoked({x}) /\ credentials[x].state # "absent"
      BY <1>6 DEF remove, Valid
    <2> QED BY <1>2, <2>1
  <1> QED BY <1>1, <1>3, <1>4, <1>5, <1>6, ChangingSteps

(* A new passkey comes of finish_registration only, which looks at the proof   *)
(* again in the transaction that inserts it.                                 *)
LEMMA AddedOnProof ==
  ASSUME WebauthnInv, [Next]_vars, NEW k \in Keys,
         credentials[k].state = "absent", credentials'[k].state = "valid"
  PROVE  Stands(ceremonies[maker[k]].source)
  <1>1. ASSUME NEW ks, \A x \in Keys : x \in ks => credentials[x].state # "absent",
               credentials' = Revoked(ks)
        PROVE  FALSE
    <2>1. credentials'[k] = credentials[k]
      BY <1>1, RevokedKeeps
    <2> QED BY <2>1
  <1>2. ~ \E config \in Configs : activate_webauthn_rp_on(config)
    <2>1. ASSUME NEW config \in Configs, activate_webauthn_rp_on(config)
          PROVE  FALSE
      <3>1. credentials' = Revoked({x \in Keys : credentials[x].state = "valid"})
        BY <2>1 DEF activate_webauthn_rp_on
      <3>2. \A x \in Keys : x \in {y \in Keys : credentials[y].state = "valid"}
                            => credentials[x].state # "absent"
        OBVIOUS
      <3> QED BY <1>1, <3>1, <3>2
    <2> QED BY <2>1
  <1>3. ~ \E d \in Deployments, s \in Sessions, x \in Keys, g \in grants : remove(d, s, x, g)
    <2>1. ASSUME NEW d \in Deployments, NEW s \in Sessions, NEW x \in Keys, NEW g \in grants,
                 remove(d, s, x, g)
          PROVE  FALSE
      <3>1. credentials' = Revoked({x}) /\ credentials[x].state # "absent"
        BY <2>1 DEF remove, Valid
      <3>2. \A y \in Keys : y \in {x} => credentials[y].state # "absent"
        BY <3>1
      <3> QED BY <1>1, <3>1, <3>2
    <2> QED BY <2>1
  <1>4. ~ \E o \in Operations : finish_authentication(o)
    <2>1. ASSUME NEW o \in Operations, finish_authentication(o)
          PROVE  credentials'[k].state = credentials[k].state
      BY <2>1, Authenticates
    <2> QED BY <2>1
  <1>5. credentials' # credentials
    OBVIOUS
  <1>6. PICK o \in Operations : finish_registration(o)
    BY <1>2, <1>3, <1>4, <1>5, ChangingSteps
  <1>7. /\ Authorised(op[o].session, ceremonies[op[o].ceremony].source)
        /\ maker[op[o].key] = op[o].ceremony
        /\ k # op[o].key => credentials'[k] = credentials[k]
    BY <1>6, Registers
  <1>8. k = op[o].key
    BY <1>7
  <1>9. Authorised(op[o].session, ceremonies[maker[k]].source)
    BY <1>7, <1>8
  <1> QED BY <1>9 DEF Authorised, validate_source, Stands

(* A grant goes in the transaction that changes a passkey only when a passkey  *)
(* is removed, which validates its source.                                   *)
LEMMA SpentOnProof ==
  ASSUME WebauthnInv, [Next]_vars, NEW g \in grants, g \notin grants', credentials' # credentials
  PROVE  Stands(g.source)
  <1>1. ~ \E config \in Configs : activate_webauthn_rp_on(config)
    BY DEF activate_webauthn_rp_on
  <1>2. ~ \E o \in Operations : finish_registration(o)
    BY DEF finish_registration
  <1>3. ~ \E o \in Operations : finish_authentication(o)
    BY DEF finish_authentication
  <1>4. PICK d \in Deployments, s \in Sessions, k \in Keys, h \in grants : remove(d, s, k, h)
    BY <1>1, <1>2, <1>3, ChangingSteps
  <1>5. Spendable(s, Removal(k), h) /\ grants' = grants \ {h}
    BY <1>4 DEF remove
  <1>6. g = h
    BY <1>5
  <1>7. validate_source(Owner[s], g.source)
    BY <1>5, <1>6 DEF Spendable
  <1> QED BY <1>7 DEF validate_source, Stands

-----------------------------------------------------------------------------
(* Everything the passkeys rest on holds in every state: the row an operation *)
(* read is deleted by the transaction that commits its answer (webauthn.rs,   *)
(* consume and the finish_ functions).                                       *)
THEOREM WebauthnInvariant == Spec => []WebauthnInv
  BY InitInv, StepInv, PTL DEF Spec

(* A ceremony ends in at most one passkey or grant: whoever deletes its row    *)
(* first (consume in webauthn.rs) is the only one anything is made for.      *)
THEOREM CeremoniesAnsweredOnce == Spec => []AnsweredOnce
  <1>1. WebauthnInv => AnsweredOnce
    BY DEF WebauthnInv, CoreInv, RowsInv, AnsweredOnce
  <1> QED BY <1>1, WebauthnInvariant, PTL

(* An account enrols once without a proof: RegistrationAuthorization::First    *)
(* asks for an account not enrolled, and the epoch in webauthn_accounts ends   *)
(* the other ceremonies that were begun so.                                  *)
THEOREM FirstEnrolmentOnce == Spec => []EnrolledOnce
  <1>1. ASSUME WebauthnInv PROVE EnrolledOnce
    <2>1. ASSUME NEW a \in Accounts
          PROVE  Cardinality({k \in Keys : /\ credentials[k].principal = a
                                           /\ ceremonies[maker[k]].source.method = "first"}) <= 1
      <3> DEFINE enrolments == {k \in Keys : /\ credentials[k].principal = a
                                             /\ ceremonies[maker[k]].source.method = "first"}
      <3>1. ASSUME NEW k \in enrolments
            PROVE  ByEnrolment(k) /\ credentials[k].principal = a
        <4>1. k \in Keys /\ credentials[k].principal = a /\ ceremonies[maker[k]].source.method = "first"
          OBVIOUS
        <4>2. Absent.principal # a
          BY WebauthnAssumption DEF Absent
        <4>3. credentials[k].state # "absent"
          BY <1>1, <4>1, <4>2 DEF WebauthnInv, CoreInv, MakersInv
        <4> QED BY <4>1, <4>3 DEF ByEnrolment
      <3>2. \A k, l \in enrolments : k = l
        <4>1. \A k, l \in Keys :
                ByEnrolment(k) /\ ByEnrolment(l) /\ credentials[k].principal = credentials[l].principal
                  => k = l
          BY <1>1 DEF WebauthnInv, CoreInv, FirstInv
        <4>2. enrolments \subseteq Keys
          OBVIOUS
        <4> HIDE DEF enrolments
        <4> QED BY <3>1, <4>1, <4>2
      <3>3. enrolments = {} \/ \E k : enrolments = {k}
        <4> HIDE DEF enrolments
        <4> QED BY <3>2
      <3>4. Cardinality(enrolments) <= 1
        <4> HIDE DEF enrolments
        <4>1. CASE enrolments = {}
          BY <4>1, FS_EmptySet
        <4>2. ASSUME NEW k, enrolments = {k} PROVE Cardinality(enrolments) = 1
          BY <4>2, FS_Singleton
        <4> QED BY <3>3, <4>1, <4>2
      <3> QED BY <3>4
    <2> QED BY <2>1 DEF EnrolledOnce
  <1> QED BY <1>1, WebauthnInvariant, PTL

(* A passkey that is accepted is of the present generation: an activation      *)
(* revokes the valid ones and deletes the ceremonies of the configuration      *)
(* before, and the finish_ functions check the configuration again           *)
(* (check_configuration).                                                    *)
THEOREM PresentGeneration == Spec => []PasskeysOfThisGeneration
  <1>1. WebauthnInv => PasskeysOfThisGeneration
    BY DEF WebauthnInv, CoreInv, MakersInv, PasskeysOfThisGeneration
  <1> QED BY <1>1, WebauthnInvariant, PTL

(* A stored counter never goes back: the update in finish_authentication        *)
(* compares the version the answer was verified against.                     *)
THEOREM CountersNeverGoBack == Spec => CountersOnlyGrow
  <1>1. WebauthnInv /\ [Next]_vars
          => [\A k \in Keys : credentials'[k].counter >= credentials[k].counter]_vars
    BY CountersGrow
  <1> QED BY <1>1, WebauthnInvariant, PTL DEF Spec, CountersOnlyGrow

(* Passkeys are added and removed on a proof that would be accepted at that     *)
(* very transaction: validate_source runs again where they are inserted or     *)
(* revoked.                                                                  *)
THEOREM PasskeysChangeOnProof == Spec => ChangedOnStandingProof
  <1>1. WebauthnInv /\ [Next]_vars =>
          [/\ \A k \in Keys : credentials[k].state = "absent" /\ credentials'[k].state = "valid" =>
                Stands(ceremonies[maker[k]].source)
           /\ \A g \in grants \ grants' : credentials' # credentials => Stands(g.source)]_vars
    BY AddedOnProof, SpentOnProof
  <1> QED BY <1>1, WebauthnInvariant, PTL DEF Spec, ChangedOnStandingProof
=============================================================================
