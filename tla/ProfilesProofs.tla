----------------------------- MODULE ProfilesProofs -----------------------------
(***************************************************************************)
(* Proofs about profiles, for any accounts, administrators, providers and    *)
(* sign-ins, every limit and every order in which sign-ins complete.         *)
(***************************************************************************)
EXTENDS Profiles, SequenceTheorems, TLAPS

Row ==
  [ principal : Accounts, absolute : Nat, source : Sources, snapshot : Nat, root : Nat ]

TypesInv ==
  /\ now \in Nat /\ sequence \in Nat
  /\ DOMAIN local = Accounts /\ DOMAIN changes = Accounts /\ DOMAIN operations = Operations
  /\ providers \in [Providers -> [ enabled : BOOLEAN, version : Nat, revocation_epoch : Nat,
                                   meaning : Nat ]]
  /\ DOMAIN observations = Accounts \X Sources
  /\ sessions \in Seq(Row)
  /\ DOMAIN flow = Flows

(* The profile is at the revision its last command made, and each command     *)
(* has a receipt under its operation id.                                    *)
LocalOK(a) ==
  /\ changes[a] \in Seq(Command)
  /\ local[a].revision = Len(changes[a])
  /\ \A r \in 1 .. Len(changes[a]) :
       LET cmd == changes[a][r] IN
       cmd.target = a /\ operations[cmd.operation] = [command |-> cmd, revision |-> r]

(* A receipt is of a command that was applied to the revision it expected.    *)
ReceiptOK(o) ==
  LET receipt == operations[o] IN
  receipt # None =>
    /\ receipt \in Receipt /\ receipt.command.operation = o
    /\ receipt.revision \in 1 .. Len(changes[receipt.command.target])
    /\ changes[receipt.command.target][receipt.revision] = receipt.command
    /\ receipt.revision = receipt.command.expected + 1

(* What was read at version v of a provider: no later one than there is, and  *)
(* with the present meaning if it is the present one.                       *)
ReadUnder(p, version, meaning) ==
  /\ version <= providers[p].version
  /\ version = providers[p].version => meaning = providers[p].meaning

ObservationOK(a, source) ==
  LET o == observations[<<a, source>>] IN
  o # None =>
    /\ o \in Observation
    /\ source = Local => o.revision <= local[a].revision
    /\ source # Local => o.revision = 0 /\ ReadUnder(source, o.version, o.meaning)

(* A session is bound to the observation of its own sign-in, or to none.      *)
SessionOK(s) == sessions[s].snapshot \in {0, sessions[s].root}

FlowOK(f) ==
  /\ DOMAIN flow[f] = DOMAIN Idle
  /\ flow[f].pc # "idle" =>
       /\ flow[f].account \in Accounts /\ flow[f].provider \in Providers
       /\ {flow[f].version, flow[f].meaning, flow[f].sequence, flow[f].issued_at} \subseteq Nat
       /\ flow[f].version <= providers[flow[f].provider].version
  /\ flow[f].pc = "exchanged" =>
       ReadUnder(flow[f].provider, flow[f].version, flow[f].meaning)

ProfilesInv ==
  /\ TypesInv
  /\ \A a \in Accounts : LocalOK(a)
  /\ \A o \in Operations : ReceiptOK(o)
  /\ \A a \in Accounts, source \in Sources : ObservationOK(a, source)
  /\ \A s \in 1 .. Len(sessions) : SessionOK(s)
  /\ \A f \in Flows : FlowOK(f)

-----------------------------------------------------------------------------
(***************************************************************************)
(* Operators.                                                              *)
(***************************************************************************)

(* Where an observation ends is a time. *)
LEMMA LeastOfThree ==
  ASSUME NEW a \in Nat, NEW b \in Nat, NEW c \in Nat
  PROVE  Min({a, b, c}) \in Nat
<1>1. \E x \in {a, b, c} : \A y \in {a, b, c} : x <= y
  <2>1. CASE a <= b /\ a <= c  BY <2>1
  <2>2. CASE b <= a /\ b <= c  BY <2>2
  <2>3. CASE c <= a /\ c <= b  BY <2>3
  <2>. QED  BY <2>1, <2>2, <2>3
<1>2. Min({a, b, c}) \in {a, b, c}  BY <1>1 DEF Min
<1>. QED  BY <1>2

(* A command is applied to the revision it expects, under an unused id. *)
LEMMA AppliedReply ==
  ASSUME NEW cmd, Reply(cmd).kind = "applied"
  PROVE  /\ operations[cmd.operation] = None
         /\ local[cmd.target].revision = cmd.expected
         /\ Reply(cmd).revision = cmd.expected + 1
  BY DEF Reply

(* The observation that `o` becomes as session s's, good until `expiry`. *)
Bound(o, s, expiry) == [o EXCEPT !.snapshot = s, !.expires_at = expiry]

LEMMA BoundObservation ==
  ASSUME NEW o \in Observation, NEW s \in Nat, NEW expiry \in Nat
  PROVE  /\ Bound(o, s, expiry) \in Observation
         /\ Bound(o, s, expiry).snapshot = s
         /\ Bound(o, s, expiry).sequence = o.sequence /\ Bound(o, s, expiry).version = o.version
         /\ Bound(o, s, expiry).meaning = o.meaning /\ Bound(o, s, expiry).revision = o.revision
         /\ Bound(o, s, expiry).observed_at = o.observed_at
  BY DEF Bound, Observation

(* What accept leaves in the table for an account and a source: the row of     *)
(* before, or a later one made of o.                                        *)
Replaced(a, source, o) ==
  LET old == observations[<<a, source>>] new == observations'[<<a, source>>] IN
  /\ new \in Observation
  /\ new.sequence = o.sequence /\ new.version = o.version /\ new.meaning = o.meaning
  /\ new.revision = o.revision /\ new.observed_at = o.observed_at
  /\ old = None \/ Latest(new, old)

LEMMA AcceptReplaces ==
  ASSUME TypesInv, NEW a \in Accounts, NEW source \in Sources, NEW absolute \in Nat,
         NEW token_expiry \in Nat, NEW o \in Observation,
         accept(a, source, absolute, o, token_expiry)
  PROVE  /\ DOMAIN observations' = Accounts \X Sources
         /\ \A k \in Accounts \X Sources : k # <<a, source>> => observations'[k] = observations[k]
         /\ observations'[<<a, source>>] = observations[<<a, source>>] \/ Replaced(a, source, o)
<1>. DEFINE expiry == Min({o.observed_at + MaxAge, token_expiry, absolute})
            new == Bound(o, Len(sessions) + 1, expiry)
            old == observations[<<a, source>>]
            accepted == /\ o.observed_at <= now /\ now < expiry
                        /\ old = None \/ Latest(new, old)
<1>1. expiry \in Nat  BY LeastOfThree, ProfilesAssumption DEF Observation
<1>2. Len(sessions) + 1 \in Nat  BY DEF TypesInv
<1>. HIDE DEF expiry
<1>3. /\ new \in Observation
      /\ new.sequence = o.sequence /\ new.version = o.version /\ new.meaning = o.meaning
      /\ new.revision = o.revision /\ new.observed_at = o.observed_at
  <2>. DEFINE n == Len(sessions) + 1
  <2>1. n \in Nat  BY <1>2
  <2>. HIDE DEF n
  <2>2. /\ Bound(o, n, expiry) \in Observation
        /\ Bound(o, n, expiry).sequence = o.sequence
        /\ Bound(o, n, expiry).version = o.version
        /\ Bound(o, n, expiry).meaning = o.meaning
        /\ Bound(o, n, expiry).revision = o.revision
        /\ Bound(o, n, expiry).observed_at = o.observed_at
    BY <1>1, <2>1, BoundObservation
  <2>. QED  BY <2>2 DEF n
<1>4. observations' = IF accepted THEN [observations EXCEPT ![<<a, source>>] = new]
                      ELSE observations
  BY Zenon DEF accept, Bound, expiry
<1>. HIDE DEF new
<1>5. CASE accepted
  <2>1. observations' = [observations EXCEPT ![<<a, source>>] = new]  BY <1>4, <1>5
  <2>2. <<a, source>> \in DOMAIN observations  BY DEF TypesInv
  <2>3. observations'[<<a, source>>] = new  BY <2>1, <2>2
  <2>. QED  BY <1>3, <1>5, <2>1, <2>3 DEF TypesInv, Replaced
<1>6. CASE ~accepted  BY <1>4, <1>6 DEF TypesInv
<1>. QED  BY <1>5, <1>6

(* Rows only get added; each is bound to its own sign-in's observation. *)
SessionAdded ==
  /\ sessions' \in Seq(Row) /\ Len(sessions') = Len(sessions) + 1
  /\ \A s \in 1 .. Len(sessions) : sessions'[s] = sessions[s]
  /\ sessions'[Len(sessions')].snapshot \in {0, sessions'[Len(sessions')].root}

LEMMA AcceptBinds ==
  ASSUME TypesInv, NEW a \in Accounts, NEW source \in Sources, NEW absolute \in Nat,
         NEW token_expiry \in Nat, NEW o \in Observation,
         accept(a, source, absolute, o, token_expiry)
  PROVE  SessionAdded
<1>1. PICK snapshot \in {0, Len(sessions) + 1} : sessions' = Append(sessions,
         [ principal |-> a, absolute |-> absolute, source |-> source, snapshot |-> snapshot,
           root |-> Len(sessions) + 1 ])
  <2>. DEFINE expiry == Min({o.observed_at + MaxAge, token_expiry, absolute})
              accepted == /\ o.observed_at <= now /\ now < expiry
                          /\ \/ observations[<<a, source>>] = None
                             \/ Latest([o EXCEPT !.snapshot = Len(sessions) + 1,
                                                 !.expires_at = expiry],
                                       observations[<<a, source>>])
  <2>1. sessions' = Append(sessions,
         [ principal |-> a, absolute |-> absolute, source |-> source,
           snapshot |-> IF accepted THEN Len(sessions) + 1 ELSE 0,
           root |-> Len(sessions) + 1 ])
    BY DEF accept
  <2>. HIDE DEF accepted
  <2>. QED  BY <2>1
<1>. DEFINE row == [ principal |-> a, absolute |-> absolute, source |-> source,
                     snapshot |-> snapshot, root |-> Len(sessions) + 1 ]
<1>2. sessions \in Seq(Row) /\ Len(sessions) \in Nat  BY DEF TypesInv
<1>3. row \in Row  BY <1>2 DEF Row
<1>4. row.snapshot \in {0, row.root}  OBVIOUS
<1>. HIDE DEF row
<1>5. sessions' = Append(sessions, row)  BY <1>1 DEF row
<1>. QED  BY <1>2, <1>3, <1>4, <1>5 DEF SessionAdded

-----------------------------------------------------------------------------
(***************************************************************************)
(* What a step leaves alone.                                               *)
(***************************************************************************)

(* A provider only moves on: under one version it means one thing. *)
ProvidersMoved ==
  /\ providers' \in [Providers -> [ enabled : BOOLEAN, version : Nat, revocation_epoch : Nat,
                                    meaning : Nat ]]
  /\ \A p \in Providers :
       /\ providers[p].version <= providers'[p].version
       /\ providers[p].version = providers'[p].version =>
            providers[p].meaning = providers'[p].meaning

(* The profile an account has is never of an earlier revision. *)
RevisionsGrow == \A a \in Accounts : local[a].revision <= local'[a].revision

LEMMA RevisionsAreNumbers ==
  ASSUME ProfilesInv, NEW a \in Accounts
  PROVE  local[a].revision \in Nat
<1>1. LocalOK(a)  BY DEF ProfilesInv
<1>. QED  BY <1>1 DEF LocalOK

LEMMA CommandsKept ==
  ASSUME ProfilesInv, UNCHANGED <<local, operations, changes>>
  PROVE  /\ \A a \in Accounts : LocalOK(a)'
         /\ \A o \in Operations : ReceiptOK(o)'
         /\ DOMAIN local' = Accounts /\ DOMAIN changes' = Accounts
         /\ DOMAIN operations' = Operations
         /\ RevisionsGrow
<1>1. ASSUME NEW a \in Accounts  PROVE LocalOK(a)' /\ local[a].revision <= local'[a].revision
  <2>1. LocalOK(a)  BY DEF ProfilesInv
  <2>2. LocalOK(a)'  BY <2>1 DEF LocalOK
  <2>3. local[a].revision \in Nat  BY <2>1 DEF LocalOK
  <2>. QED  BY <2>2, <2>3
<1>2. ASSUME NEW o \in Operations  PROVE ReceiptOK(o)'
  <2>1. ReceiptOK(o)  BY DEF ProfilesInv
  <2>. QED  BY <2>1 DEF ReceiptOK
<1>. QED  BY <1>1, <1>2 DEF ProfilesInv, TypesInv, RevisionsGrow

LEMMA ProvidersKept ==
  ASSUME TypesInv, UNCHANGED providers
  PROVE  ProvidersMoved
  BY DEF TypesInv, ProvidersMoved

LEMMA StillReadUnder ==
  ASSUME TypesInv, ProvidersMoved, NEW p \in Providers, NEW version \in Nat, NEW meaning,
         ReadUnder(p, version, meaning)
  PROVE  ReadUnder(p, version, meaning)'
<1>1. providers[p].version \in Nat /\ providers'[p].version \in Nat  BY DEF TypesInv, ProvidersMoved
<1>. QED  BY <1>1 DEF ProvidersMoved, ReadUnder

(* A row stays what it was while its account and provider move on. *)
LEMMA ObservationKept ==
  ASSUME ProfilesInv, ProvidersMoved, RevisionsGrow, NEW a \in Accounts, NEW source \in Sources,
         observations'[<<a, source>>] = observations[<<a, source>>],
         local'[a].revision \in Nat
  PROVE  ObservationOK(a, source)'
<1>. SUFFICES ASSUME NEW o, o = observations[<<a, source>>], o # None
              PROVE  /\ o \in Observation
                     /\ source = Local => o.revision <= local'[a].revision
                     /\ source # Local => o.revision = 0 /\ ReadUnder(source, o.version, o.meaning)'
  BY DEF ObservationOK
<1>1. ObservationOK(a, source) /\ LocalOK(a) /\ TypesInv  BY DEF ProfilesInv
<1>2. o \in Observation  BY <1>1 DEF ObservationOK
<1>3. ASSUME source = Local  PROVE o.revision <= local'[a].revision
  <2>1. o.revision <= local[a].revision  BY <1>1, <1>3 DEF ObservationOK
  <2>2. o.revision \in Nat /\ local[a].revision \in Nat  BY <1>1, <1>2 DEF Observation, LocalOK
  <2>. QED  BY <2>1, <2>2 DEF RevisionsGrow
<1>4. ASSUME source # Local  PROVE o.revision = 0 /\ ReadUnder(source, o.version, o.meaning)'
  <2>1. o.revision = 0 /\ ReadUnder(source, o.version, o.meaning)
    BY <1>1, <1>4 DEF ObservationOK
  <2>2. source \in Providers /\ o.version \in Nat  BY <1>2, <1>4 DEF Sources, Observation
  <2>. QED  BY <1>1, <2>1, <2>2, StillReadUnder
<1>. QED  BY <1>2, <1>3, <1>4

LEMMA FlowKept ==
  ASSUME ProfilesInv, ProvidersMoved, NEW f \in Flows, flow'[f] = flow[f]
  PROVE  FlowOK(f)'
<1>. SUFFICES ASSUME NEW w, w = flow[f]
              PROVE  /\ DOMAIN w = DOMAIN Idle
                     /\ w.pc # "idle" =>
                          /\ w.account \in Accounts /\ w.provider \in Providers
                          /\ {w.version, w.meaning, w.sequence, w.issued_at} \subseteq Nat
                          /\ w.version <= providers'[w.provider].version
                     /\ w.pc = "exchanged" => ReadUnder(w.provider, w.version, w.meaning)'
  BY DEF FlowOK
<1>1. FlowOK(f) /\ TypesInv  BY DEF ProfilesInv
<1>2. ASSUME w.pc # "idle"
      PROVE  /\ w.account \in Accounts /\ w.provider \in Providers
             /\ {w.version, w.meaning, w.sequence, w.issued_at} \subseteq Nat
             /\ w.version <= providers'[w.provider].version
  <2>1. /\ w.account \in Accounts /\ w.provider \in Providers
        /\ {w.version, w.meaning, w.sequence, w.issued_at} \subseteq Nat
        /\ w.version <= providers[w.provider].version
    BY <1>1, <1>2 DEF FlowOK
  <2>2. providers[w.provider].version \in Nat /\ providers'[w.provider].version \in Nat
    BY <1>1, <2>1 DEF TypesInv, ProvidersMoved
  <2>. QED  BY <2>1, <2>2 DEF ProvidersMoved
<1>3. ASSUME w.pc = "exchanged"  PROVE ReadUnder(w.provider, w.version, w.meaning)'
  <2>1. ReadUnder(w.provider, w.version, w.meaning)  BY <1>1, <1>3 DEF FlowOK
  <2>2. w.provider \in Providers /\ w.version \in Nat  BY <1>2, <1>3
  <2>. QED  BY <1>1, <2>1, <2>2, StillReadUnder
<1>4. DOMAIN w = DOMAIN Idle  BY <1>1 DEF FlowOK
<1>. QED  BY <1>2, <1>3, <1>4

LEMMA SessionsKept ==
  ASSUME ProfilesInv, UNCHANGED sessions
  PROVE  sessions' \in Seq(Row) /\ \A s \in 1 .. Len(sessions') : SessionOK(s)'
<1>1. sessions \in Seq(Row) /\ \A s \in 1 .. Len(sessions) : SessionOK(s)
  BY DEF ProfilesInv, TypesInv
<1>2. ASSUME NEW s \in 1 .. Len(sessions')  PROVE SessionOK(s)'
  <2>1. SessionOK(s)  BY <1>1
  <2>. QED  BY <2>1 DEF SessionOK
<1>. QED  BY <1>1, <1>2

LEMMA SessionsGrown ==
  ASSUME ProfilesInv, SessionAdded
  PROVE  sessions' \in Seq(Row) /\ \A s \in 1 .. Len(sessions') : SessionOK(s)'
<1>1. sessions \in Seq(Row) /\ \A s \in 1 .. Len(sessions) : SessionOK(s)
  BY DEF ProfilesInv, TypesInv
<1>2. ASSUME NEW s \in 1 .. Len(sessions')  PROVE SessionOK(s)'
  <2>1. CASE s \in 1 .. Len(sessions)
    <3>1. sessions'[s] = sessions[s]  BY <2>1 DEF SessionAdded
    <3>. QED  BY <1>1, <2>1, <3>1 DEF SessionOK
  <2>2. CASE s = Len(sessions')
    BY <2>2 DEF SessionAdded, SessionOK
  <2>3. Len(sessions) \in Nat /\ Len(sessions') = Len(sessions) + 1  BY <1>1 DEF SessionAdded
  <2>. QED  BY <2>1, <2>2, <2>3
<1>. QED  BY <1>1, <1>2 DEF SessionAdded

-----------------------------------------------------------------------------
(***************************************************************************)
(* Commands: the receipt and the change are made together, once.            *)
(***************************************************************************)

(* What update_local_profile does to the account and the operation it names.  *)
LEMMA CommandApplied ==
  ASSUME ProfilesInv, NEW cmd \in Command, update_local_profile(cmd)
  PROVE  /\ operations[cmd.operation] = None
         /\ Len(changes[cmd.target]) = cmd.expected
         /\ operations' = [operations EXCEPT ![cmd.operation] =
                             [command |-> cmd, revision |-> cmd.expected + 1]]
         /\ changes' = [changes EXCEPT ![cmd.target] = Append(changes[cmd.target], cmd)]
         /\ DOMAIN local' = Accounts /\ local'[cmd.target].revision = cmd.expected + 1
         /\ \A a \in Accounts \ {cmd.target} : local'[a] = local[a]
<1>1. Reply(cmd).kind = "applied"  BY DEF update_local_profile
<1>2. /\ operations[cmd.operation] = None
      /\ local[cmd.target].revision = cmd.expected
      /\ Reply(cmd).revision = cmd.expected + 1
  BY <1>1, AppliedReply
<1>3. cmd.target \in Accounts  BY DEF Command
<1>4. TypesInv /\ LocalOK(cmd.target)  BY <1>3 DEF ProfilesInv
<1>5. local' = [local EXCEPT ![cmd.target] = [revision |-> cmd.expected + 1, value |-> cmd.value]]
  BY <1>2 DEF update_local_profile
<1>6. /\ operations' = [operations EXCEPT ![cmd.operation] =
                          [command |-> cmd, revision |-> cmd.expected + 1]]
      /\ changes' = [changes EXCEPT ![cmd.target] = Append(changes[cmd.target], cmd)]
  BY <1>2 DEF update_local_profile
<1>7. /\ DOMAIN local' = Accounts /\ local'[cmd.target].revision = cmd.expected + 1
      /\ \A a \in Accounts \ {cmd.target} : local'[a] = local[a]
  BY <1>3, <1>4, <1>5 DEF TypesInv
<1>. QED  BY <1>2, <1>4, <1>6, <1>7 DEF LocalOK

(* A command's list of changes keeps its order and grows at the end. *)
LEMMA ChangesAppended ==
  ASSUME ProfilesInv, NEW cmd \in Command, NEW a \in Accounts,
         changes' = [changes EXCEPT ![cmd.target] = Append(changes[cmd.target], cmd)]
  PROVE  /\ changes'[a] \in Seq(Command)
         /\ \A r \in 1 .. Len(changes[a]) : changes'[a][r] = changes[a][r]
         /\ a # cmd.target => changes'[a] = changes[a]
         /\ a = cmd.target => /\ Len(changes'[a]) = Len(changes[a]) + 1
                              /\ changes'[a][Len(changes[a]) + 1] = cmd
<1>1. changes[a] \in Seq(Command) /\ DOMAIN changes = Accounts
  BY DEF ProfilesInv, LocalOK, TypesInv
<1>2. CASE a = cmd.target
  <2>1. changes'[a] = Append(changes[a], cmd)  BY <1>1, <1>2
  <2>. QED  BY <1>1, <1>2, <2>1
<1>3. CASE a # cmd.target  BY <1>1, <1>3
<1>. QED  BY <1>2, <1>3

LEMMA CommandKeepsLocal ==
  ASSUME ProfilesInv, NEW cmd \in Command, update_local_profile(cmd), NEW a \in Accounts
  PROVE  LocalOK(a)' /\ local[a].revision <= local'[a].revision
<1>. DEFINE made == [command |-> cmd, revision |-> cmd.expected + 1]
<1>0. cmd.operation \in Operations /\ cmd.target \in Accounts /\ cmd.expected \in Nat
  BY ProfilesAssumption DEF Command, Revision
<1>1. /\ operations[cmd.operation] = None /\ Len(changes[cmd.target]) = cmd.expected
      /\ operations' = [operations EXCEPT ![cmd.operation] = made]
      /\ changes' = [changes EXCEPT ![cmd.target] = Append(changes[cmd.target], cmd)]
      /\ DOMAIN local' = Accounts /\ local'[cmd.target].revision = cmd.expected + 1
      /\ \A b \in Accounts \ {cmd.target} : local'[b] = local[b]
  BY CommandApplied
<1>2. /\ changes'[a] \in Seq(Command)
      /\ \A r \in 1 .. Len(changes[a]) : changes'[a][r] = changes[a][r]
      /\ a # cmd.target => changes'[a] = changes[a]
      /\ a = cmd.target => /\ Len(changes'[a]) = Len(changes[a]) + 1
                           /\ changes'[a][Len(changes[a]) + 1] = cmd
  BY <1>1, ChangesAppended
<1>3. LocalOK(a) /\ TypesInv  BY DEF ProfilesInv
<1>4. changes[a] \in Seq(Command) /\ local[a].revision = Len(changes[a])  BY <1>3 DEF LocalOK
<1>5. Len(changes[a]) \in Nat  BY <1>4
<1>6. /\ local'[a].revision = Len(changes'[a])
      /\ local[a].revision <= local'[a].revision
  <2>1. CASE a = cmd.target  BY <1>0, <1>1, <1>2, <1>4, <1>5, <2>1
  <2>2. CASE a # cmd.target  BY <1>1, <1>2, <1>4, <1>5, <2>2
  <2>. QED  BY <2>1, <2>2
<1>7. ASSUME NEW r \in 1 .. Len(changes'[a]), NEW c, c = changes'[a][r]
      PROVE  c.target = a /\ operations'[c.operation] = [command |-> c, revision |-> r]
  <2>1. CASE r \in 1 .. Len(changes[a])
    <3>1. c = changes[a][r]  BY <1>2, <1>7, <2>1
    <3>2. c.target = a /\ operations[c.operation] = [command |-> c, revision |-> r]
      BY <1>3, <2>1, <3>1 DEF LocalOK
    <3>3. c \in Command  BY <1>4, <2>1, <3>1
    <3>4. r \in Nat  BY <2>1
    <3>5. [command |-> c, revision |-> r] \in Receipt  BY <3>3, <3>4 DEF Receipt
    <3>6. operations[c.operation] # None  BY <3>2, <3>5, NoneAssumption
    <3>7. c.operation # cmd.operation  BY <1>1, <3>6
    <3>8. c.operation \in Operations  BY <3>3 DEF Command
    <3>9. operations'[c.operation] = operations[c.operation]
      BY <1>1, <1>3, <3>7, <3>8 DEF TypesInv
    <3>. QED  BY <3>2, <3>9
  <2>2. CASE r \notin 1 .. Len(changes[a])
    <3>1. a = cmd.target  BY <1>2, <2>2
    <3>2. r = Len(changes[a]) + 1  BY <1>2, <1>5, <2>2, <3>1
    <3>3. c = cmd /\ r = cmd.expected + 1  BY <1>1, <1>2, <1>7, <3>1, <3>2
    <3>4. operations'[cmd.operation] = made  BY <1>0, <1>1, <1>3 DEF TypesInv
    <3>. QED  BY <3>1, <3>3, <3>4
  <2>. QED  BY <2>1, <2>2
<1>8. \A r \in 1 .. Len(changes'[a]) :
        /\ changes'[a][r].target = a
        /\ operations'[changes'[a][r].operation] = [command |-> changes'[a][r], revision |-> r]
  BY <1>7
<1>9. LocalOK(a)'  BY <1>2, <1>6, <1>8 DEF LocalOK
<1>. QED  BY <1>6, <1>9

LEMMA CommandKeepsReceipts ==
  ASSUME ProfilesInv, NEW cmd \in Command, update_local_profile(cmd), NEW o \in Operations
  PROVE  ReceiptOK(o)'
<1>. DEFINE made == [command |-> cmd, revision |-> cmd.expected + 1]
<1>0. cmd.operation \in Operations /\ cmd.target \in Accounts /\ cmd.expected \in Nat
  BY ProfilesAssumption DEF Command, Revision
<1>1. /\ operations[cmd.operation] = None /\ Len(changes[cmd.target]) = cmd.expected
      /\ operations' = [operations EXCEPT ![cmd.operation] = made]
      /\ changes' = [changes EXCEPT ![cmd.target] = Append(changes[cmd.target], cmd)]
  BY CommandApplied
<1>2. ReceiptOK(o) /\ TypesInv  BY DEF ProfilesInv
<1>. SUFFICES ASSUME NEW receipt, receipt = operations'[o], receipt # None
              PROVE  /\ receipt \in Receipt /\ receipt.command.operation = o
                     /\ receipt.revision \in 1 .. Len(changes'[receipt.command.target])
                     /\ changes'[receipt.command.target][receipt.revision] = receipt.command
                     /\ receipt.revision = receipt.command.expected + 1
  BY DEF ReceiptOK
<1>3. CASE o = cmd.operation
  <2>1. receipt = made  BY <1>1, <1>2, <1>3 DEF TypesInv
  <2>2. made \in Receipt  BY <1>0 DEF Receipt
  <2>3. /\ Len(changes'[cmd.target]) = cmd.expected + 1
        /\ changes'[cmd.target][cmd.expected + 1] = cmd
    <3>1. /\ Len(changes'[cmd.target]) = Len(changes[cmd.target]) + 1
          /\ changes'[cmd.target][Len(changes[cmd.target]) + 1] = cmd
      BY <1>0, <1>1, ChangesAppended
    <3>. QED  BY <1>1, <3>1
  <2>. QED  BY <1>0, <1>3, <2>1, <2>2, <2>3
<1>4. CASE o # cmd.operation
  <2>1. receipt = operations[o]  BY <1>1, <1>2, <1>4 DEF TypesInv
  <2>2. /\ receipt \in Receipt /\ receipt.command.operation = o
        /\ receipt.revision \in 1 .. Len(changes[receipt.command.target])
        /\ changes[receipt.command.target][receipt.revision] = receipt.command
        /\ receipt.revision = receipt.command.expected + 1
    BY <1>2, <2>1 DEF ReceiptOK
  <2>. DEFINE a == receipt.command.target
  <2>3. a \in Accounts  BY <2>2 DEF Receipt, Command
  <2>4. /\ \A r \in 1 .. Len(changes[a]) : changes'[a][r] = changes[a][r]
        /\ a # cmd.target => changes'[a] = changes[a]
        /\ a = cmd.target => Len(changes'[a]) = Len(changes[a]) + 1
    BY <1>1, <2>3, ChangesAppended
  <2>5. Len(changes[a]) \in Nat  BY <2>3 DEF ProfilesInv, LocalOK
  <2>. HIDE DEF a
  <2>6. receipt.revision \in 1 .. Len(changes[a]) /\ changes[a][receipt.revision] = receipt.command
    BY <2>2 DEF a
  <2>7. receipt.revision \in 1 .. Len(changes'[a])
    <3>1. CASE a = cmd.target  BY <2>4, <2>5, <2>6, <3>1
    <3>2. CASE a # cmd.target  BY <2>4, <2>6, <3>2
    <3>. QED  BY <3>1, <3>2
  <2>8. changes'[a][receipt.revision] = receipt.command  BY <2>4, <2>6
  <2>. QED  BY <2>2, <2>7, <2>8 DEF a
<1>. QED  BY <1>3, <1>4

LEMMA CommandStep ==
  ASSUME ProfilesInv, NEW cmd \in Command, update_local_profile(cmd)
  PROVE  ProfilesInv'
<1>1. UNCHANGED <<now, providers, sequence, observations, sessions, flow>>
  BY DEF update_local_profile
<1>2. TypesInv  BY DEF ProfilesInv
<1>3. \A a \in Accounts : LocalOK(a)' /\ local[a].revision <= local'[a].revision
  BY CommandKeepsLocal
<1>4. \A o \in Operations : ReceiptOK(o)'  BY CommandKeepsReceipts
<1>5. TypesInv'
  <2>1. DOMAIN local' = Accounts  BY CommandApplied
  <2>2. DOMAIN changes' = DOMAIN changes /\ DOMAIN operations' = DOMAIN operations
    BY DEF update_local_profile
  <2>. QED  BY <1>1, <1>2, <2>1, <2>2 DEF TypesInv
<1>6. ProvidersMoved /\ RevisionsGrow  BY <1>1, <1>2, <1>3, ProvidersKept DEF RevisionsGrow
<1>7. ASSUME NEW a \in Accounts, NEW source \in Sources  PROVE ObservationOK(a, source)'
  <2>1. LocalOK(a)'  BY <1>3
  <2>2. local'[a].revision \in Nat  BY <2>1 DEF LocalOK
  <2>. QED  BY <1>1, <1>6, <2>2, ObservationKept
<1>8. \A f \in Flows : FlowOK(f)'  BY <1>1, <1>6, FlowKept
<1>9. \A s \in 1 .. Len(sessions') : SessionOK(s)'  BY <1>1, SessionsKept
<1>. QED  BY <1>3, <1>4, <1>5, <1>7, <1>8, <1>9 DEF ProfilesInv

-----------------------------------------------------------------------------
(***************************************************************************)
(* Sign-ins and what they observe.                                         *)
(***************************************************************************)

(* The rows of an accepted observation, and all the others. *)
LEMMA AcceptStep ==
  ASSUME ProfilesInv, UNCHANGED <<local, operations, changes, providers>>,
         NEW a \in Accounts, NEW source \in Sources, NEW absolute \in Nat,
         NEW token_expiry \in Nat, NEW o \in Observation,
         accept(a, source, absolute, o, token_expiry),
         source = Local => o.revision = local[a].revision,
         source # Local => o.revision = 0 /\ ReadUnder(source, o.version, o.meaning)
  PROVE  /\ DOMAIN observations' = Accounts \X Sources
         /\ \A b \in Accounts, s \in Sources : ObservationOK(b, s)'
         /\ sessions' \in Seq(Row) /\ \A s \in 1 .. Len(sessions') : SessionOK(s)'
<1>1. TypesInv  BY DEF ProfilesInv
<1>2. ProvidersMoved /\ RevisionsGrow  BY <1>1, ProvidersKept, CommandsKept
<1>3. \A b \in Accounts : local'[b].revision \in Nat
  <2>1. ASSUME NEW b \in Accounts  PROVE local'[b].revision \in Nat
    <3>1. LocalOK(b)  BY DEF ProfilesInv
    <3>. QED  BY <3>1 DEF LocalOK
  <2>. QED  BY <2>1
<1>4. /\ DOMAIN observations' = Accounts \X Sources
      /\ \A k \in Accounts \X Sources : k # <<a, source>> => observations'[k] = observations[k]
      /\ observations'[<<a, source>>] = observations[<<a, source>>] \/ Replaced(a, source, o)
  BY <1>1, AcceptReplaces
<1>5. ASSUME NEW b \in Accounts, NEW s \in Sources  PROVE ObservationOK(b, s)'
  <2>1. CASE observations'[<<b, s>>] = observations[<<b, s>>]
    BY <1>2, <1>3, <2>1, ObservationKept
  <2>2. CASE b = a /\ s = source /\ Replaced(a, source, o)
    <3>. SUFFICES ASSUME NEW n, n = observations'[<<a, source>>]
                  PROVE  /\ n \in Observation
                         /\ source = Local => n.revision <= local'[a].revision
                         /\ source # Local =>
                              n.revision = 0 /\ ReadUnder(source, n.version, n.meaning)'
      BY <2>2 DEF ObservationOK
    <3>1. /\ n \in Observation /\ n.version = o.version /\ n.meaning = o.meaning
          /\ n.revision = o.revision
      BY <2>2 DEF Replaced
    <3>2. source = Local => n.revision <= local'[a].revision  BY <1>3, <3>1
    <3>3. ASSUME source # Local  PROVE ReadUnder(source, n.version, n.meaning)'
      <4>1. source \in Providers /\ n.version \in Nat  BY <3>1, <3>3 DEF Sources, Observation
      <4>2. ReadUnder(source, n.version, n.meaning)  BY <3>1, <3>3
      <4>. QED  BY <1>1, <1>2, <4>1, <4>2, StillReadUnder
    <3>. QED  BY <3>1, <3>2, <3>3
  <2>3. <<b, s>> \in Accounts \X Sources  OBVIOUS
  <2>4. <<b, s>> = <<a, source>> => b = a /\ s = source  OBVIOUS
  <2>. QED  BY <1>4, <2>1, <2>2, <2>3, <2>4
<1>6. SessionAdded  BY <1>1, AcceptBinds
<1>. QED  BY <1>4, <1>5, <1>6, SessionsGrown

(* A local sign-in observes the profile as it is. *)
LEMMA LoginAccepts ==
  ASSUME ProfilesInv, NEW a \in Accounts, login_local(a)
  PROVE  \E absolute \in Nat, token_expiry \in Nat, o \in Observation :
           accept(a, Local, absolute, o, token_expiry) /\ o.revision = local[a].revision
<1>1. now \in Nat /\ sequence \in Nat /\ local[a].revision \in Nat
  BY RevisionsAreNumbers DEF ProfilesInv, TypesInv
<1>2. PICK o : o = [ snapshot |-> 1, sequence |-> sequence + 1, version |-> 0, epoch |-> 0,
         meaning |-> 0, revision |-> local[a].revision, observed_at |-> now, expires_at |-> 0 ]
  OBVIOUS
<1>3. PICK absolute : absolute = Absolute  OBVIOUS
<1>4. PICK token_expiry : token_expiry = now + MaxAge  OBVIOUS
<1>5. o \in Observation  BY <1>1, <1>2 DEF Observation
<1>6. absolute \in Nat /\ token_expiry \in Nat
  BY <1>1, <1>3, <1>4, ProfilesAssumption DEF Absolute
<1>7. accept(a, Local, absolute, o, token_expiry)
  BY Zenon, <1>2, <1>3, <1>4 DEF login_local
<1>8. o.revision = local[a].revision  BY <1>2
<1>. QED  BY <1>5, <1>6, <1>7, <1>8

LEMMA LoginStep ==
  ASSUME ProfilesInv, NEW a \in Accounts, login_local(a)
  PROVE  ProfilesInv'
<1>1. TypesInv  BY DEF ProfilesInv
<1>2. PICK absolute \in Nat, token_expiry \in Nat, o \in Observation :
        accept(a, Local, absolute, o, token_expiry) /\ o.revision = local[a].revision
  BY LoginAccepts
<1>3. UNCHANGED <<now, local, operations, changes, providers, flow>> /\ sequence' = sequence + 1
  BY DEF login_local
<1>4. Local \in Sources  BY DEF Sources
<1>5. /\ DOMAIN observations' = Accounts \X Sources
      /\ \A b \in Accounts, s \in Sources : ObservationOK(b, s)'
      /\ sessions' \in Seq(Row) /\ \A s \in 1 .. Len(sessions') : SessionOK(s)'
  BY <1>2, <1>3, <1>4, AcceptStep
<1>6. TypesInv'  BY <1>1, <1>3, <1>5 DEF TypesInv
<1>7. /\ \A b \in Accounts : LocalOK(b)'
      /\ \A b \in Operations : ReceiptOK(b)'
  BY <1>3, CommandsKept
<1>8. \A f \in Flows : FlowOK(f)'  BY <1>1, <1>3, ProvidersKept, FlowKept
<1>. QED  BY <1>5, <1>6, <1>7, <1>8 DEF ProfilesInv

(* What a sign-in that passes its checks observed is read under the settings  *)
(* of now.                                                                  *)
LEMMA SignInObserves ==
  ASSUME ProfilesInv, NEW f \in Flows, flow[f].pc = "exchanged",
         exact(flow[f].provider, flow[f].version)
  PROVE  /\ flow[f].account \in Accounts /\ flow[f].provider \in Providers
         /\ flow[f].issued_at \in Nat
         /\ oidc_observation(f) \in Observation
         /\ oidc_observation(f).revision = 0
         /\ ReadUnder(flow[f].provider, oidc_observation(f).version, oidc_observation(f).meaning)
<1>1. TypesInv /\ FlowOK(f)  BY DEF ProfilesInv
<1>2. /\ flow[f].account \in Accounts /\ flow[f].provider \in Providers
      /\ {flow[f].version, flow[f].meaning, flow[f].sequence, flow[f].issued_at} \subseteq Nat
      /\ ReadUnder(flow[f].provider, flow[f].version, flow[f].meaning)
  BY <1>1 DEF FlowOK
<1>3. PICK row \in [ enabled : BOOLEAN, version : Nat, revocation_epoch : Nat, meaning : Nat ] :
        row = providers[flow[f].provider]
  BY <1>1, <1>2 DEF TypesInv
<1>4. row.version \in Nat /\ row.revocation_epoch \in Nat /\ row.version = flow[f].version
  BY <1>3 DEF exact
<1>5. oidc_observation(f) \in Observation  BY <1>2, <1>3, <1>4 DEF oidc_observation, Observation
<1>6. /\ oidc_observation(f).version = flow[f].version /\ oidc_observation(f).revision = 0
      /\ oidc_observation(f).meaning = flow[f].meaning
  BY <1>3, <1>4 DEF oidc_observation
<1>. QED  BY <1>2, <1>5, <1>6

LEMMA CompleteAccepts ==
  ASSUME ProfilesInv, NEW f \in Flows, complete_login(f)
  PROVE  \E a \in Accounts, source \in Providers, absolute \in Nat, token_expiry \in Nat,
            o \in Observation :
           /\ accept(a, source, absolute, o, token_expiry)
           /\ o.revision = 0 /\ ReadUnder(source, o.version, o.meaning)
<1>1. now \in Nat /\ SessionSeconds \in Nat /\ TokenSeconds \in Nat
  BY ProfilesAssumption DEF ProfilesInv, TypesInv
<1>2. PICK o, a, source : o = oidc_observation(f) /\ a = flow[f].account /\ source = flow[f].provider
  OBVIOUS
<1>3. PICK absolute : absolute = Absolute  OBVIOUS
<1>4. PICK token_expiry : token_expiry = flow[f].issued_at + TokenSeconds  OBVIOUS
<1>5. /\ a \in Accounts /\ source \in Providers /\ flow[f].issued_at \in Nat
      /\ o \in Observation /\ o.revision = 0 /\ ReadUnder(source, o.version, o.meaning)
  <2>1. flow[f].pc = "exchanged" /\ exact(flow[f].provider, flow[f].version)
    BY DEF complete_login
  <2>. QED  BY <1>2, <2>1, SignInObserves
<1>6. absolute \in Nat  BY <1>1, <1>3 DEF Absolute
<1>7. token_expiry \in Nat  BY <1>1, <1>4, <1>5
<1>8. accept(a, source, absolute, o, token_expiry)
  BY Zenon, <1>2, <1>3, <1>4 DEF complete_login
<1>. QED  BY <1>5, <1>6, <1>7, <1>8

LEMMA CompleteStep ==
  ASSUME ProfilesInv, NEW f \in Flows, complete_login(f)
  PROVE  ProfilesInv'
<1>1. TypesInv  BY DEF ProfilesInv
<1>2. PICK a \in Accounts, source \in Providers, absolute \in Nat, token_expiry \in Nat,
           o \in Observation :
             /\ accept(a, source, absolute, o, token_expiry)
             /\ o.revision = 0 /\ ReadUnder(source, o.version, o.meaning)
  BY CompleteAccepts
<1>3. /\ UNCHANGED <<now, local, operations, changes, providers>> /\ sequence' = sequence + 1
      /\ flow' = [flow EXCEPT ![f] = Idle]
  BY DEF complete_login
<1>4. source \in Sources /\ source # Local  BY <1>2, ProfilesAssumption DEF Sources
<1>5. /\ DOMAIN observations' = Accounts \X Sources
      /\ \A b \in Accounts, s \in Sources : ObservationOK(b, s)'
      /\ sessions' \in Seq(Row) /\ \A s \in 1 .. Len(sessions') : SessionOK(s)'
  BY <1>2, <1>3, <1>4, AcceptStep
<1>6. TypesInv'  BY <1>1, <1>3, <1>5 DEF TypesInv
<1>7. /\ \A b \in Accounts : LocalOK(b)'
      /\ \A b \in Operations : ReceiptOK(b)'
  BY <1>3, CommandsKept
<1>8. ASSUME NEW g \in Flows  PROVE FlowOK(g)'
  <2>1. CASE g = f
    <3>1. flow'[g] = Idle  BY <1>1, <1>3, <2>1 DEF TypesInv
    <3>2. Idle.pc = "idle"  BY DEF Idle
    <3>. QED  BY <3>1, <3>2 DEF FlowOK
  <2>2. CASE g # f
    <3>1. flow'[g] = flow[g]  BY <1>1, <1>3, <2>2 DEF TypesInv
    <3>. QED  BY <1>1, <1>3, <3>1, ProvidersKept, FlowKept
  <2>. QED  BY <2>1, <2>2
<1>. QED  BY <1>5, <1>6, <1>7, <1>8 DEF ProfilesInv

-----------------------------------------------------------------------------
(***************************************************************************)
(* The other steps.                                                        *)
(***************************************************************************)

(* A step that touches neither commands, observations nor sessions.          *)
LEMMA OtherStep ==
  ASSUME ProfilesInv, UNCHANGED <<local, operations, changes, observations, sessions>>,
         ProvidersMoved, now' \in Nat, sequence' \in Nat, DOMAIN flow' = Flows,
         \A f \in Flows : FlowOK(f)'
  PROVE  ProfilesInv'
<1>1. TypesInv  BY DEF ProfilesInv
<1>2. /\ \A a \in Accounts : LocalOK(a)'
      /\ \A o \in Operations : ReceiptOK(o)'
      /\ RevisionsGrow
  BY CommandsKept
<1>3. ASSUME NEW a \in Accounts, NEW source \in Sources  PROVE ObservationOK(a, source)'
  <2>1. LocalOK(a)'  BY <1>2
  <2>2. local'[a].revision \in Nat  BY <2>1 DEF LocalOK
  <2>. QED  BY <1>2, <2>2, ObservationKept
<1>4. sessions' \in Seq(Row) /\ \A s \in 1 .. Len(sessions') : SessionOK(s)'  BY SessionsKept
<1>5. TypesInv'  BY <1>1, <1>4 DEF TypesInv, ProvidersMoved
<1>. QED  BY <1>2, <1>3, <1>4, <1>5 DEF ProfilesInv

LEMMA FlowSet ==
  ASSUME ProfilesInv, ProvidersMoved, NEW f \in Flows, NEW w, flow' = [flow EXCEPT ![f] = w],
         FlowOK(f)'
  PROVE  DOMAIN flow' = Flows /\ \A g \in Flows : FlowOK(g)'
<1>1. TypesInv  BY DEF ProfilesInv
<1>2. ASSUME NEW g \in Flows  PROVE FlowOK(g)'
  <2>1. CASE g = f  BY <2>1
  <2>2. CASE g # f
    <3>1. flow'[g] = flow[g]  BY <1>1, <2>2 DEF TypesInv
    <3>. QED  BY <3>1, FlowKept
  <2>. QED  BY <2>1, <2>2
<1>. QED  BY <1>1, <1>2 DEF TypesInv

LEMMA BeginStep ==
  ASSUME ProfilesInv, NEW f \in Flows, NEW a \in Accounts, NEW p \in Providers, begin_login(f, a, p)
  PROVE  ProfilesInv'
<1>1. TypesInv  BY DEF ProfilesInv
<1>2. PICK w : w = [ Idle EXCEPT !.pc = "begun", !.account = a, !.provider = p,
                                 !.version = providers[p].version, !.sequence = sequence + 1 ]
  OBVIOUS
<1>3. flow' = [flow EXCEPT ![f] = w] /\ sequence' = sequence + 1
  BY Zenon, <1>2 DEF begin_login
<1>4. UNCHANGED <<now, local, operations, changes, providers, observations, sessions>>
  BY DEF begin_login
<1>5. /\ w.pc = "begun" /\ w.account = a /\ w.provider = p /\ w.version = providers[p].version
      /\ w.meaning = 0 /\ w.sequence = sequence + 1 /\ w.issued_at = 0
  BY <1>2 DEF Idle
<1>6. providers[p].version \in Nat /\ sequence + 1 \in Nat  BY <1>1 DEF TypesInv
<1>7. flow'[f] = w  BY <1>1, <1>3 DEF TypesInv
<1>8. providers'[p].version = w.version  BY <1>4, <1>5
<1>9. FlowOK(f)'
  <2>1. DOMAIN w = DOMAIN Idle  BY <1>2
  <2>. QED  BY <1>5, <1>6, <1>7, <1>8, <2>1 DEF FlowOK
<1>10. ProvidersMoved  BY <1>1, <1>4, ProvidersKept
<1>11. DOMAIN flow' = Flows /\ \A g \in Flows : FlowOK(g)'  BY <1>3, <1>9, <1>10, FlowSet
<1>. QED  BY <1>1, <1>3, <1>4, <1>6, <1>10, <1>11, OtherStep DEF TypesInv

LEMMA ExchangeStep ==
  ASSUME ProfilesInv, NEW f \in Flows, NEW issued_at \in Nat, exchange(f, issued_at)
  PROVE  ProfilesInv'
<1>1. TypesInv /\ FlowOK(f)  BY DEF ProfilesInv
<1>2. PICK w : w = [flow[f] EXCEPT !.pc = "exchanged", !.issued_at = issued_at,
                                   !.meaning = providers[flow[f].provider].meaning]
  OBVIOUS
<1>3. /\ flow[f].pc = "begun" /\ flow' = [flow EXCEPT ![f] = w]
      /\ providers[flow[f].provider].version = flow[f].version
  BY Zenon, <1>2 DEF exchange, exact
<1>4. UNCHANGED <<now, local, operations, changes, providers, sequence, observations, sessions>>
  BY DEF exchange
<1>5. /\ flow[f].account \in Accounts /\ flow[f].provider \in Providers
      /\ {flow[f].version, flow[f].sequence} \subseteq Nat
  BY <1>1, <1>3 DEF FlowOK
<1>6. PICK p \in Providers : p = flow[f].provider  BY <1>5
<1>7. flow'[f] = w  BY <1>1, <1>3 DEF TypesInv
<1>8. providers'[p].version = flow[f].version /\ providers'[p].meaning = providers[p].meaning
      /\ providers[p].meaning \in Nat
  BY <1>1, <1>3, <1>4, <1>6 DEF TypesInv
<1>9. FlowOK(f)'
  <2>. SUFFICES /\ DOMAIN w = DOMAIN Idle
                /\ w.account \in Accounts /\ w.provider \in Providers
                /\ {w.version, w.meaning, w.sequence, w.issued_at} \subseteq Nat
                /\ w.version <= providers'[w.provider].version
                /\ ReadUnder(w.provider, w.version, w.meaning)'
    BY <1>7 DEF FlowOK
  <2>1. /\ DOMAIN flow[f] = {"pc", "account", "provider", "version", "meaning", "sequence",
                              "issued_at"}
        /\ DOMAIN w = DOMAIN Idle
    BY <1>1, <1>2 DEF FlowOK, Idle
  <2>2. /\ w.account = flow[f].account /\ w.provider = p /\ w.version = flow[f].version
        /\ w.sequence = flow[f].sequence
    BY <1>2, <1>6, <2>1
  <2>3. w.meaning \in Nat /\ w.issued_at \in Nat /\ w.meaning = providers[p].meaning
    BY <1>2, <1>6, <1>8, <2>1
  <2>. QED  BY <1>5, <1>8, <2>1, <2>2, <2>3 DEF ReadUnder
<1>10. ProvidersMoved  BY <1>1, <1>4, ProvidersKept
<1>11. DOMAIN flow' = Flows /\ \A g \in Flows : FlowOK(g)'  BY <1>3, <1>9, <1>10, FlowSet
<1>. QED  BY <1>1, <1>4, <1>10, <1>11, OtherStep DEF TypesInv

LEMMA AbandonStep ==
  ASSUME ProfilesInv, NEW f \in Flows, Abandon(f)
  PROVE  ProfilesInv'
<1>1. TypesInv  BY DEF ProfilesInv
<1>2. /\ flow' = [flow EXCEPT ![f] = Idle]
      /\ UNCHANGED <<now, local, operations, changes, providers, sequence, observations, sessions>>
  BY DEF Abandon
<1>3. FlowOK(f)'
  <2>1. flow'[f] = Idle  BY <1>1, <1>2 DEF TypesInv
  <2>2. Idle.pc = "idle"  BY DEF Idle
  <2>. QED  BY <2>1, <2>2 DEF FlowOK
<1>4. ProvidersMoved  BY <1>1, <1>2, ProvidersKept
<1>5. DOMAIN flow' = Flows /\ \A g \in Flows : FlowOK(g)'  BY <1>2, <1>3, <1>4, FlowSet
<1>. QED  BY <1>1, <1>2, <1>4, <1>5, OtherStep DEF TypesInv

(* A link copies the locator of a session that has its own or none. *)
LEMMA RetainStep ==
  ASSUME ProfilesInv, NEW s \in 1 .. Len(sessions), retain_binding(s)
  PROVE  ProfilesInv'
<1>1. TypesInv /\ SessionOK(s)  BY DEF ProfilesInv
<1>2. sessions \in Seq(Row) /\ Len(sessions) \in Nat /\ sessions[s] \in Row  BY <1>1 DEF TypesInv
<1>3. Absolute \in Nat  BY <1>1, ProfilesAssumption DEF TypesInv, Absolute
<1>4. PICK row : row = [sessions[s] EXCEPT !.absolute = Absolute, !.snapshot = Retained(sessions[s])]
  OBVIOUS
<1>5. row \in Row /\ row.snapshot = sessions[s].snapshot /\ row.root = sessions[s].root
  BY <1>2, <1>3, <1>4 DEF Row, Retained
<1>6. sessions' = Append(sessions, row)  BY Zenon, <1>4 DEF retain_binding
<1>7. SessionAdded  BY <1>1, <1>2, <1>5, <1>6 DEF SessionAdded, SessionOK
<1>8. sessions' \in Seq(Row) /\ \A t \in 1 .. Len(sessions') : SessionOK(t)'
  BY <1>7, SessionsGrown
<1>9. UNCHANGED <<now, local, operations, changes, providers, sequence, observations, flow>>
  BY DEF retain_binding
<1>10. /\ \A a \in Accounts : LocalOK(a)'
       /\ \A o \in Operations : ReceiptOK(o)'
       /\ RevisionsGrow
  BY <1>9, CommandsKept
<1>11. ProvidersMoved  BY <1>1, <1>9, ProvidersKept
<1>12. ASSUME NEW a \in Accounts, NEW source \in Sources  PROVE ObservationOK(a, source)'
  <2>1. LocalOK(a)'  BY <1>10
  <2>2. local'[a].revision \in Nat  BY <2>1 DEF LocalOK
  <2>. QED  BY <1>9, <1>10, <1>11, <2>2, ObservationKept
<1>13. \A f \in Flows : FlowOK(f)'  BY <1>9, <1>11, FlowKept
<1>14. TypesInv'  BY <1>1, <1>8, <1>9 DEF TypesInv
<1>. QED  BY <1>8, <1>10, <1>12, <1>13, <1>14 DEF ProfilesInv

(* Either edit of a provider makes the next version. *)
LEMMA ProviderEdited ==
  ASSUME ProfilesInv, NEW p \in Providers,
         NEW row \in [ enabled : BOOLEAN, version : Nat, revocation_epoch : Nat, meaning : Nat ],
         row.version = providers[p].version + 1,
         providers' = [providers EXCEPT ![p] = row],
         UNCHANGED <<now, local, operations, changes, sequence, observations, sessions, flow>>
  PROVE  ProfilesInv'
<1>1. TypesInv  BY DEF ProfilesInv
<1>2. providers' \in [Providers -> [ enabled : BOOLEAN, version : Nat, revocation_epoch : Nat,
                                     meaning : Nat ]]
  BY <1>1 DEF TypesInv
<1>3. ASSUME NEW q \in Providers
      PROVE  /\ providers[q].version <= providers'[q].version
             /\ providers[q].version = providers'[q].version =>
                  providers[q].meaning = providers'[q].meaning
  <2>1. providers[q].version \in Nat  BY <1>1 DEF TypesInv
  <2>2. CASE q = p
    <3>1. providers'[q].version = providers[q].version + 1  BY <1>1, <2>2 DEF TypesInv
    <3>. QED  BY <2>1, <3>1
  <2>3. CASE q # p
    <3>1. providers'[q] = providers[q]  BY <1>1, <2>3 DEF TypesInv
    <3>. QED  BY <2>1, <3>1
  <2>. QED  BY <2>2, <2>3
<1>4. ProvidersMoved  BY <1>2, <1>3 DEF ProvidersMoved
<1>5. \A f \in Flows : FlowOK(f)'  BY <1>4, FlowKept
<1>. QED  BY <1>1, <1>4, <1>5, OtherStep DEF TypesInv

LEMMA UpdateProviderStep ==
  ASSUME ProfilesInv, NEW p \in Providers, update_provider(p)
  PROVE  ProfilesInv'
<1>1. PICK old \in [ enabled : BOOLEAN, version : Nat, revocation_epoch : Nat, meaning : Nat ] :
        old = providers[p]
  BY DEF ProfilesInv, TypesInv
<1>2. PICK row : row = [old EXCEPT !.version = old.version + 1,
                                   !.revocation_epoch = old.revocation_epoch + 1,
                                   !.meaning = old.meaning + 1]
  OBVIOUS
<1>3. row \in [ enabled : BOOLEAN, version : Nat, revocation_epoch : Nat, meaning : Nat ]
      /\ row.version = old.version + 1
  <2>1. PICK version \in Nat, epoch \in Nat, meaning \in Nat :
          /\ version = old.version + 1 /\ epoch = old.revocation_epoch + 1
          /\ meaning = old.meaning + 1
    OBVIOUS
  <2>2. row = [old EXCEPT !.version = version, !.revocation_epoch = epoch, !.meaning = meaning]
    BY Zenon, <1>2, <2>1
  <2>. QED  BY Zenon, <2>1, <2>2
<1>4. providers' = [providers EXCEPT ![p] = row]  BY Zenon, <1>1, <1>2 DEF update_provider
<1>5. UNCHANGED <<now, local, operations, changes, sequence, observations, sessions, flow>>
  BY DEF update_provider
<1>. QED  BY <1>1, <1>3, <1>4, <1>5, ProviderEdited

(* What enabling or disabling leaves of a row. *)
Enabled(old, enabled) ==
  [old EXCEPT !.version = old.version + 1, !.enabled = enabled,
     !.revocation_epoch = IF old.enabled # enabled THEN old.revocation_epoch + 1
                          ELSE old.revocation_epoch]

LEMMA EnabledRow ==
  ASSUME NEW old \in [ enabled : BOOLEAN, version : Nat, revocation_epoch : Nat, meaning : Nat ],
         NEW enabled \in BOOLEAN
  PROVE  /\ Enabled(old, enabled) \in
              [ enabled : BOOLEAN, version : Nat, revocation_epoch : Nat, meaning : Nat ]
         /\ Enabled(old, enabled).version = old.version + 1
<1>1. PICK epoch \in Nat : epoch = IF old.enabled # enabled THEN old.revocation_epoch + 1
                                   ELSE old.revocation_epoch
  <2>1. old.revocation_epoch \in Nat  OBVIOUS
  <2>2. old.revocation_epoch + 1 \in Nat  BY <2>1
  <2>. QED  BY Zenon, <2>1, <2>2
<1>2. PICK version \in Nat : version = old.version + 1  OBVIOUS
<1>3. Enabled(old, enabled) = [old EXCEPT !.version = version, !.enabled = enabled,
                                          !.revocation_epoch = epoch]
  BY Zenon, <1>1, <1>2 DEF Enabled
<1>. QED  BY Zenon, <1>1, <1>2, <1>3

LEMMA EnableProviderStep ==
  ASSUME ProfilesInv, NEW p \in Providers, NEW enabled \in BOOLEAN, enable_provider(p, enabled)
  PROVE  ProfilesInv'
<1>1. PICK old \in [ enabled : BOOLEAN, version : Nat, revocation_epoch : Nat, meaning : Nat ] :
        old = providers[p]
  BY DEF ProfilesInv, TypesInv
<1>2. PICK row : row = Enabled(old, enabled)  OBVIOUS
<1>3. row \in [ enabled : BOOLEAN, version : Nat, revocation_epoch : Nat, meaning : Nat ]
      /\ row.version = old.version + 1
  BY <1>2, EnabledRow
<1>4. providers' = [providers EXCEPT ![p] = row]
  BY Zenon, <1>1, <1>2 DEF enable_provider, Enabled
<1>5. UNCHANGED <<now, local, operations, changes, sequence, observations, sessions, flow>>
  BY DEF enable_provider
<1>. QED  BY <1>1, <1>3, <1>4, <1>5, ProviderEdited

LEMMA TickStep ==
  ASSUME ProfilesInv, Tick
  PROVE  ProfilesInv'
<1>1. TypesInv  BY DEF ProfilesInv
<1>2. now' = now + 1
      /\ UNCHANGED <<local, operations, changes, providers, sequence, observations, sessions, flow>>
  BY DEF Tick
<1>3. ProvidersMoved  BY <1>1, <1>2, ProvidersKept
<1>4. \A f \in Flows : FlowOK(f)'  BY <1>2, <1>3, FlowKept
<1>. QED  BY <1>1, <1>2, <1>3, <1>4, OtherStep DEF TypesInv

-----------------------------------------------------------------------------
(***************************************************************************)
(* The invariant.                                                          *)
(***************************************************************************)

LEMMA InitInv == Init => ProfilesInv
<1>. SUFFICES ASSUME Init  PROVE ProfilesInv  OBVIOUS
<1>1. TypesInv
  <2>1. sessions \in Seq(Row)  BY DEF Init
  <2>2. providers \in [Providers -> [ enabled : BOOLEAN, version : Nat, revocation_epoch : Nat,
                                      meaning : Nat ]]
    BY DEF Init
  <2>. QED  BY <2>1, <2>2 DEF Init, TypesInv
<1>2. ASSUME NEW a \in Accounts  PROVE LocalOK(a)
  <2>1. changes[a] = << >> /\ local[a].revision = 0  BY DEF Init
  <2>2. changes[a] \in Seq(Command) /\ Len(changes[a]) = 0  BY <2>1
  <2>. QED  BY <2>1, <2>2 DEF LocalOK
<1>3. \A o \in Operations : ReceiptOK(o)  BY DEF Init, ReceiptOK
<1>4. ASSUME NEW a \in Accounts, NEW source \in Sources  PROVE ObservationOK(a, source)
  <2>1. observations[<<a, source>>] = None  BY DEF Init
  <2>. QED  BY <2>1 DEF ObservationOK
<1>5. \A s \in 1 .. Len(sessions) : SessionOK(s)  BY DEF Init
<1>6. ASSUME NEW f \in Flows  PROVE FlowOK(f)
  <2>1. flow[f] = Idle /\ Idle.pc = "idle"  BY DEF Init, Idle
  <2>. QED  BY <2>1 DEF FlowOK
<1>. QED  BY <1>1, <1>2, <1>3, <1>4, <1>5, <1>6 DEF ProfilesInv

LEMMA StepInv == ProfilesInv /\ [Next]_vars => ProfilesInv'
<1>. SUFFICES ASSUME ProfilesInv, [Next]_vars  PROVE ProfilesInv'  OBVIOUS
<1>1. ASSUME NEW cmd \in Command, update_local_profile(cmd)  PROVE ProfilesInv'
  BY <1>1, CommandStep
<1>2. ASSUME NEW a \in Accounts, login_local(a)  PROVE ProfilesInv'  BY <1>2, LoginStep
<1>3. ASSUME NEW f \in Flows, NEW a \in Accounts, NEW p \in Providers, begin_login(f, a, p)
      PROVE  ProfilesInv'
  BY <1>3, BeginStep
<1>4. ASSUME NEW f \in Flows, NEW ahead \in 0 .. Skew, exchange(f, now + ahead)  PROVE ProfilesInv'
  <2>1. PICK issued_at : issued_at = now + ahead  OBVIOUS
  <2>2. issued_at \in Nat  BY <2>1 DEF ProfilesInv, TypesInv
  <2>3. exchange(f, issued_at)  BY Zenon, <1>4, <2>1
  <2>. QED  BY <2>2, <2>3, ExchangeStep
<1>5. ASSUME NEW f \in Flows, complete_login(f)  PROVE ProfilesInv'  BY <1>5, CompleteStep
<1>6. ASSUME NEW f \in Flows, Abandon(f)  PROVE ProfilesInv'  BY <1>6, AbandonStep
<1>7. ASSUME NEW s \in 1 .. Len(sessions), retain_binding(s)  PROVE ProfilesInv'
  BY <1>7, RetainStep
<1>8. ASSUME NEW p \in Providers, update_provider(p)  PROVE ProfilesInv'
  BY <1>8, UpdateProviderStep
<1>9. ASSUME NEW p \in Providers, NEW e \in BOOLEAN, enable_provider(p, e)  PROVE ProfilesInv'
  BY <1>9, EnableProviderStep
<1>10. ASSUME Tick  PROVE ProfilesInv'  BY <1>10, TickStep
<1>11. ASSUME UNCHANGED vars  PROVE ProfilesInv'
  <2>1. TypesInv  BY DEF ProfilesInv
  <2>2. ProvidersMoved  BY <1>11, <2>1, ProvidersKept DEF vars
  <2>3. \A f \in Flows : FlowOK(f)'  BY <1>11, <2>2, FlowKept DEF vars
  <2>. QED  BY <1>11, <2>1, <2>2, <2>3, OtherStep DEF TypesInv, vars
<1>12. CASE Next
  BY Zenon, <1>1, <1>2, <1>3, <1>4, <1>5, <1>6, <1>7, <1>8, <1>9, <1>10, <1>12 DEF Next
<1>. QED  BY <1>11, <1>12

(* Commands, observations, sessions and sign-ins agree with each other in     *)
(* every state, in whatever order sign-ins complete and commands arrive.     *)
THEOREM ProfilesInvariant == Spec => []ProfilesInv
  BY InitInv, StepInv, PTL DEF Spec

-----------------------------------------------------------------------------
(***************************************************************************)
(* What follows from it.                                                   *)
(***************************************************************************)

(* update_local_profile answers a command from its receipt for ever after it  *)
(* was applied, and no other command with that receipt.                     *)
THEOREM CommandsAreAnswered == Spec => []RepeatedCommandsAreAnswered
<1>1. ProfilesInv => RepeatedCommandsAreAnswered
  <2>. SUFFICES ASSUME ProfilesInv  PROVE RepeatedCommandsAreAnswered  OBVIOUS
  <2>1. ASSUME NEW a \in Accounts, NEW r \in 1 .. Len(changes[a]), NEW cmd, cmd = changes[a][r]
        PROVE  /\ Reply(cmd) = [kind |-> "receipt", revision |-> r]
               /\ local_profile_receipt(cmd.actor, a, cmd.operation) = r
    <3>1. LocalOK(a)  BY DEF ProfilesInv
    <3>2. cmd \in Command /\ r \in Nat  BY <2>1, <3>1 DEF LocalOK
    <3>3. cmd.target = a /\ operations[cmd.operation] = [command |-> cmd, revision |-> r]
      BY <2>1, <3>1 DEF LocalOK
    <3>4. [command |-> cmd, revision |-> r] \in Receipt  BY <3>2 DEF Receipt
    <3>5. operations[cmd.operation] # None  BY <3>3, <3>4, NoneAssumption
    <3>6. operations[cmd.operation].command = cmd /\ operations[cmd.operation].revision = r
      BY <3>3
    <3>7. Reply(cmd) = [kind |-> "receipt", revision |-> r]
      BY <3>5, <3>6 DEF Reply, SameCommand
    <3>8. local_profile_receipt(cmd.actor, a, cmd.operation) = r
      BY <3>3, <3>5, <3>6 DEF local_profile_receipt
    <3>. QED  BY <3>7, <3>8
  <2>2. ASSUME NEW cmd \in Command, Reply(cmd).kind = "receipt"
        PROVE  /\ Reply(cmd).revision \in 1 .. Len(changes[cmd.target])
               /\ changes[cmd.target][Reply(cmd).revision] = cmd
               /\ Reply(cmd).revision = cmd.expected + 1
    <3>1. /\ operations[cmd.operation] # None /\ operations[cmd.operation].command = cmd
          /\ Reply(cmd).revision = operations[cmd.operation].revision
      BY <2>2 DEF Reply, SameCommand
    <3>2. cmd.operation \in Operations  BY DEF Command
    <3>3. ReceiptOK(cmd.operation)  BY <3>2 DEF ProfilesInv
    <3>. QED  BY <3>1, <3>3 DEF ReceiptOK
  <2>. QED  BY <2>1, <2>2 DEF RepeatedCommandsAreAnswered
<1>. QED  BY <1>1, ProfilesInvariant, PTL

(* read_profile gives a session the observation of its own sign-in or none.   *)
THEOREM ReadsAreOwn == Spec => []OwnObservation
<1>1. ProfilesInv => OwnObservation
  <2>. SUFFICES ASSUME ProfilesInv, NEW s \in 1 .. Len(sessions), current_profile(s) # None
                PROVE  current_profile(s).snapshot = sessions[s].root
    BY DEF OwnObservation
  <2>1. SessionOK(s)  BY DEF ProfilesInv
  <2>2. sessions[s].snapshot # 0 /\ current_profile(s).snapshot = sessions[s].snapshot
    BY DEF current_profile
  <2>. QED  BY <2>1, <2>2 DEF SessionOK
<1>. QED  BY <1>1, ProfilesInvariant, PTL

(* latest_profile gives out as good only what was read under the settings     *)
(* the provider has now: comparing the version suffices.                     *)
THEOREM GoodProfilesAreCurrent == Spec => []ProfilesAreCurrent
<1>1. ProfilesInv => ProfilesAreCurrent
  <2>. SUFFICES ASSUME ProfilesInv, NEW s \in 1 .. Len(sessions), NEW a \in Accounts,
                       NEW p \in Providers, latest_profile(s, a, p).available
                PROVE  /\ providers[p].enabled
                       /\ latest_profile(s, a, p).observation.meaning = providers[p].meaning
    BY DEF ProfilesAreCurrent
  <2>. DEFINE o == observations[<<a, p>>]
  <2>1. o # None /\ Vouched(p, o) /\ latest_profile(s, a, p).observation = o
    BY DEF latest_profile
  <2>2. p \in Sources /\ p # Local  BY ProfilesAssumption DEF Sources
  <2>3. providers[p].enabled /\ providers[p].version = o.version
    BY <2>1, <2>2 DEF Vouched, exact
  <2>4. ObservationOK(a, p)  BY <2>2 DEF ProfilesInv
  <2>5. ReadUnder(p, o.version, o.meaning)  BY <2>1, <2>2, <2>4 DEF ObservationOK
  <2>6. o.meaning = providers[p].meaning  BY <2>3, <2>5 DEF ReadUnder
  <2>. QED  BY <2>1, <2>3, <2>6
<1>. QED  BY <1>1, ProfilesInvariant, PTL

(* What a row may become. *)
Advanced(k) ==
  LET old == observations[k] new == observations'[k] IN
  old # None =>
    /\ new.sequence >= old.sequence
    /\ new.revision >= old.revision
    /\ new.version = old.version => new.observed_at >= old.observed_at

LEMMA AcceptAdvances ==
  ASSUME ProfilesInv, NEW a \in Accounts, NEW source \in Sources, NEW absolute \in Nat,
         NEW token_expiry \in Nat, NEW o \in Observation,
         accept(a, source, absolute, o, token_expiry),
         source = Local => o.revision = local[a].revision,
         NEW k \in Accounts \X Sources
  PROVE  Advanced(k)
<1>1. TypesInv  BY DEF ProfilesInv
<1>2. /\ \A i \in Accounts \X Sources : i # <<a, source>> => observations'[i] = observations[i]
      /\ observations'[<<a, source>>] = observations[<<a, source>>] \/ Replaced(a, source, o)
  BY <1>1, AcceptReplaces
<1>. SUFFICES ASSUME NEW old, old = observations[k], old # None, NEW new, new = observations'[k]
              PROVE  /\ new.sequence >= old.sequence
                     /\ new.revision >= old.revision
                     /\ new.version = old.version => new.observed_at >= old.observed_at
  BY DEF Advanced
<1>3. old \in Observation
  <2>1. PICK b \in Accounts, s \in Sources : k = <<b, s>>  OBVIOUS
  <2>2. ObservationOK(b, s)  BY DEF ProfilesInv
  <2>. QED  BY <2>1, <2>2 DEF ObservationOK
<1>4. CASE new = old  BY <1>3, <1>4 DEF Observation
<1>5. CASE k = <<a, source>> /\ Replaced(a, source, o)
  <2>1. /\ new \in Observation /\ Latest(new, old) /\ new.revision = o.revision
    BY <1>5 DEF Replaced
  <2>2. ObservationOK(a, source) /\ LocalOK(a)  BY DEF ProfilesInv
  <2>3. new.revision >= old.revision
    <3>1. CASE source = Local
      <4>1. old.revision <= local[a].revision  BY <1>5, <2>2, <3>1 DEF ObservationOK
      <4>2. new.revision = local[a].revision  BY <2>1, <3>1
      <4>3. old.revision \in Nat /\ local[a].revision \in Nat
        BY <1>3, RevisionsAreNumbers DEF Observation
      <4>. QED  BY <4>1, <4>2, <4>3
    <3>2. CASE source # Local
      <4>1. old.revision = 0  BY <1>5, <2>2, <3>2 DEF ObservationOK
      <4>2. new.revision \in Nat  BY <2>1 DEF Observation
      <4>. QED  BY <4>1, <4>2
    <3>. QED  BY <3>1, <3>2
  <2>4. old.sequence \in Nat /\ new.sequence \in Nat /\ old.observed_at \in Nat
        /\ new.observed_at \in Nat
    BY <1>3, <2>1 DEF Observation
  <2>. QED  BY <2>1, <2>3, <2>4 DEF Latest
<1>. QED  BY <1>2, <1>4, <1>5

(* accept replaces the row of an account and a source only by a later one, in *)
(* whatever order sign-ins complete.                                        *)
THEOREM LaterObservationsOnly == Spec => ObservationsOnlyAdvance
<1>1. ProfilesInv /\ [Next]_vars =>
        [\A k \in Accounts \X Sources :
           LET old == observations[k] new == observations'[k] IN
           old # None =>
             /\ new.sequence >= old.sequence
             /\ new.revision >= old.revision
             /\ new.version = old.version => new.observed_at >= old.observed_at]_vars
  <2>. SUFFICES ASSUME ProfilesInv, [Next]_vars, NEW k \in Accounts \X Sources  PROVE Advanced(k)
    BY DEF Advanced
  <2>1. TypesInv  BY DEF ProfilesInv
  <2>2. ASSUME NEW a \in Accounts, login_local(a)  PROVE Advanced(k)
    <3>1. PICK absolute \in Nat, token_expiry \in Nat, o \in Observation :
            accept(a, Local, absolute, o, token_expiry) /\ o.revision = local[a].revision
      BY <2>2, LoginAccepts
    <3>2. Local \in Sources  BY DEF Sources
    <3>. QED  BY <3>1, <3>2, AcceptAdvances
  <2>3. ASSUME NEW f \in Flows, complete_login(f)  PROVE Advanced(k)
    <3>1. PICK a \in Accounts, source \in Providers, absolute \in Nat, token_expiry \in Nat,
               o \in Observation : accept(a, source, absolute, o, token_expiry)
      BY <2>3, CompleteAccepts
    <3>2. source \in Sources /\ source # Local  BY ProfilesAssumption DEF Sources
    <3>. QED  BY <3>1, <3>2, AcceptAdvances
  <2>4. ASSUME UNCHANGED observations  PROVE Advanced(k)
    <3>1. PICK b \in Accounts, s \in Sources : k = <<b, s>>  OBVIOUS
    <3>2. ObservationOK(b, s)  BY DEF ProfilesInv
    <3>3. observations[k] # None => observations[k] \in Observation
      BY <3>1, <3>2 DEF ObservationOK
    <3>. QED  BY <2>4, <3>3 DEF Advanced, Observation
  <2>5. CASE Next
    <3>1. ASSUME NEW cmd \in Command, update_local_profile(cmd)  PROVE Advanced(k)
      BY <2>4, <3>1 DEF update_local_profile
    <3>2. ASSUME NEW f \in Flows, NEW a \in Accounts, NEW p \in Providers, begin_login(f, a, p)
          PROVE  Advanced(k)
      BY <2>4, <3>2 DEF begin_login
    <3>3. ASSUME NEW f \in Flows, NEW ahead \in 0 .. Skew, exchange(f, now + ahead)
          PROVE  Advanced(k)
      BY <2>4, <3>3 DEF exchange
    <3>4. ASSUME NEW f \in Flows, Abandon(f)  PROVE Advanced(k)
      BY <2>4, <3>4 DEF Abandon
    <3>5. ASSUME NEW s \in 1 .. Len(sessions), retain_binding(s)  PROVE Advanced(k)
      BY <2>4, <3>5 DEF retain_binding
    <3>6. ASSUME NEW p \in Providers, update_provider(p)  PROVE Advanced(k)
      BY <2>4, <3>6 DEF update_provider
    <3>7. ASSUME NEW p \in Providers, NEW e \in BOOLEAN, enable_provider(p, e)  PROVE Advanced(k)
      BY <2>4, <3>7 DEF enable_provider
    <3>8. ASSUME Tick  PROVE Advanced(k)  BY <2>4, <3>8 DEF Tick
    <3>. QED
      BY Zenon, <2>2, <2>3, <2>5, <3>1, <3>2, <3>3, <3>4, <3>5, <3>6, <3>7, <3>8 DEF Next
  <2>6. CASE UNCHANGED vars  BY <2>4, <2>6 DEF vars
  <2>. QED  BY <2>5, <2>6
<1>. QED  BY <1>1, ProfilesInvariant, PTL DEF Spec, ObservationsOnlyAdvance

-----------------------------------------------------------------------------
(***************************************************************************)
(* The register of commands.                                               *)
(***************************************************************************)

Revisions == [a \in Accounts |-> local[a].revision]
Effects ==
  { Effect(operations[o].command) : o \in { id \in Operations : operations[id] # None } }

LEMMA InitRegister ==
  ASSUME Init
  PROVE  Register!RegisterInit
<1>1. Revisions \in [Accounts -> Nat]  BY DEF Init, Revisions
<1>2. Effects = {}  BY DEF Init, Effects
<1>. QED  BY <1>1, <1>2 DEF Revisions, Effects, Register!RegisterInit

(* A command is applied to the revision it expects, under an id that has no    *)
(* effect yet: every effect is under the id of its receipt.                  *)
LEMMA CommandTakesEffect ==
  ASSUME ProfilesInv, NEW cmd \in Command, update_local_profile(cmd)
  PROVE  Register!TakeEffect(cmd.operation, cmd.target)
<1>1. TypesInv  BY DEF ProfilesInv
<1>2. cmd.operation \in Operations /\ cmd.target \in Accounts  BY DEF Command
<1>3. Reply(cmd).kind = "applied"  BY DEF update_local_profile
<1>4. /\ operations[cmd.operation] = None
      /\ local[cmd.target].revision = cmd.expected
      /\ Reply(cmd).revision = cmd.expected + 1
  BY <1>3, AppliedReply
<1>5. PICK receipt : receipt = [command |-> cmd, revision |-> Reply(cmd).revision]  OBVIOUS
<1>6. receipt \in Receipt /\ receipt.command = cmd
  <2>1. Reply(cmd).revision \in Nat  BY <1>4 DEF Command, Revision
  <2>. QED  BY <1>5, <2>1 DEF Receipt
<1>7. operations' = [operations EXCEPT ![cmd.operation] = receipt]
  BY Zenon, <1>5 DEF update_local_profile
<1>8. ASSUME NEW earlier \in Effects  PROVE earlier.id # cmd.operation
  <2>1. PICK o \in Operations : operations[o] # None /\ earlier = Effect(operations[o].command)
    BY DEF Effects
  <2>2. ReceiptOK(o)  BY DEF ProfilesInv
  <2>3. operations[o].command.operation = o  BY <2>1, <2>2 DEF ReceiptOK
  <2>. QED  BY <1>4, <2>1, <2>3 DEF Effect
<1>9. Revisions' = [Revisions EXCEPT ![cmd.target] = @ + 1]
  <2>1. local' = [local EXCEPT ![cmd.target] = [revision |-> cmd.expected + 1,
                                                value |-> cmd.value]]
    BY Zenon, <1>4 DEF update_local_profile
  <2>2. DOMAIN local = Accounts  BY <1>1 DEF TypesInv
  <2>3. ASSUME NEW a \in Accounts
        PROVE  Revisions'[a] = IF a = cmd.target THEN Revisions[a] + 1 ELSE Revisions[a]
    BY <1>2, <1>4, <2>1, <2>2 DEF Revisions
  <2>. QED  BY <1>2, <2>3 DEF Revisions
<1>10. Effects' = Effects \cup { [ id |-> cmd.operation, object |-> cmd.target,
                                   expected |-> Revisions[cmd.target] ] }
  <2>1. Effect(cmd) = [ id |-> cmd.operation, object |-> cmd.target,
                        expected |-> Revisions[cmd.target] ]
    BY <1>2, <1>4 DEF Effect, Revisions
  <2>2. receipt # None  BY <1>6, NoneAssumption
  <2>3. /\ operations'[cmd.operation] = receipt
        /\ \A o \in Operations : o # cmd.operation => operations'[o] = operations[o]
    BY <1>1, <1>2, <1>7 DEF TypesInv
  <2>4. Effects' = Effects \cup {Effect(cmd)}
    <3>1. Effects' = { Effect(operations'[o].command) :
                         o \in { id \in Operations : operations'[id] # None } }
      BY DEF Effects, Effect
    <3>2. { id \in Operations : operations'[id] # None } =
            { id \in Operations : operations[id] # None } \cup {cmd.operation}
      BY <1>2, <2>2, <2>3
    <3>3. ASSUME NEW e \in Effects'  PROVE e \in Effects \cup {Effect(cmd)}
      <4>1. PICK o \in Operations : operations'[o] # None /\ e = Effect(operations'[o].command)
        BY <3>1
      <4>2. CASE o = cmd.operation  BY <1>6, <2>3, <4>1, <4>2
      <4>3. CASE o # cmd.operation
        <5>1. operations'[o] = operations[o]  BY <2>3, <4>3
        <5>. QED  BY <4>1, <5>1 DEF Effects
      <4>. QED  BY <4>2, <4>3
    <3>4. ASSUME NEW e \in Effects  PROVE e \in Effects'
      <4>1. PICK o \in Operations : operations[o] # None /\ e = Effect(operations[o].command)
        BY DEF Effects
      <4>2. operations'[o] = operations[o]  BY <1>4, <2>3, <4>1
      <4>. QED  BY <3>1, <4>1, <4>2
    <3>5. Effect(cmd) \in Effects'  BY <1>2, <1>6, <2>2, <2>3, <3>1
    <3>. QED  BY <3>3, <3>4, <3>5
  <2>. QED  BY <2>1, <2>4
<1>. QED  BY <1>8, <1>9, <1>10 DEF Revisions, Effects, Register!TakeEffect

LEMMA RegisterKept ==
  ASSUME UNCHANGED <<local, operations>>
  PROVE  UNCHANGED Register!register
<1>1. Revisions' = Revisions /\ Effects' = Effects  BY DEF Revisions, Effects, Effect
<1>. QED  BY <1>1 DEF Revisions, Effects, Register!register

LEMMA StepRegister ==
  ASSUME ProfilesInv, [Next]_vars
  PROVE  [Register!RegisterNext]_(Register!register)
<1>1. ASSUME NEW cmd \in Command, update_local_profile(cmd)  PROVE Register!RegisterNext
  <2>1. cmd.operation \in Operations /\ cmd.target \in Accounts  BY DEF Command
  <2>2. Register!TakeEffect(cmd.operation, cmd.target)  BY <1>1, CommandTakesEffect
  <2>. QED  BY <2>1, <2>2 DEF Register!RegisterNext
<1>2. CASE UNCHANGED <<local, operations>>  BY <1>2, RegisterKept
<1>3. CASE Next
  <2>1. ASSUME NEW a \in Accounts, login_local(a)  PROVE UNCHANGED <<local, operations>>
    BY <2>1 DEF login_local
  <2>2. ASSUME NEW f \in Flows, NEW a \in Accounts, NEW p \in Providers, begin_login(f, a, p)
        PROVE  UNCHANGED <<local, operations>>
    BY <2>2 DEF begin_login
  <2>3. ASSUME NEW f \in Flows, NEW ahead \in 0 .. Skew, exchange(f, now + ahead)
        PROVE  UNCHANGED <<local, operations>>
    BY <2>3 DEF exchange
  <2>4. ASSUME NEW f \in Flows, complete_login(f) \/ Abandon(f)
        PROVE  UNCHANGED <<local, operations>>
    BY <2>4 DEF complete_login, Abandon
  <2>5. ASSUME NEW s \in 1 .. Len(sessions), retain_binding(s)
        PROVE  UNCHANGED <<local, operations>>
    BY <2>5 DEF retain_binding
  <2>6. ASSUME NEW p \in Providers, update_provider(p)  PROVE UNCHANGED <<local, operations>>
    BY <2>6 DEF update_provider
  <2>7. ASSUME NEW p \in Providers, NEW e \in BOOLEAN, enable_provider(p, e)
        PROVE  UNCHANGED <<local, operations>>
    BY <2>7 DEF enable_provider
  <2>8. ASSUME Tick  PROVE UNCHANGED <<local, operations>>  BY <2>8 DEF Tick
  <2>. QED
    BY Zenon, <1>1, <1>2, <1>3, <2>1, <2>2, <2>3, <2>4, <2>5, <2>6, <2>7, <2>8 DEF Next
<1>4. CASE UNCHANGED vars  BY <1>2, <1>4 DEF vars
<1>. QED  BY <1>3, <1>4

(* update_local_profile implements the register of commands: a command takes   *)
(* effect once at most and only on the revision its sender saw.              *)
THEOREM ProfilesImplementRegister == Spec => CommandsTakeEffectOnce
<1>1. Init => Register!RegisterInit  BY InitRegister
<1>2. ProfilesInv /\ [Next]_vars => [Register!RegisterNext]_(Register!register)
  BY StepRegister
<1>. QED
  BY <1>1, <1>2, ProfilesInvariant, PTL DEF Spec, CommandsTakeEffectOnce, Register!RegisterSpec
=============================================================================
