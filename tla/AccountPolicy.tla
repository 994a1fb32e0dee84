---------------------------- MODULE AccountPolicy ----------------------------
(***************************************************************************)
(* The pure domain rules of crates/identity-core: the account state and    *)
(* its transitions (account/policy.rs) and the lifetime of a session       *)
(* (session.rs).  Every rule that can fail has a guard (CanChange,         *)
(* CanRecover, ...) and a value, so that an action of a state machine       *)
(* conjoins the guard and assigns the value.                               *)
(*                                                                         *)
(* EpochLimit stands for i64::MAX: checked_add refuses to go past it       *)
(* (AccountRuleError::EpochExhausted).  A password is a version number,     *)
(* which stands for the stored encoding: two encodings are equal only when  *)
(* no credential change was committed between them.                        *)
(***************************************************************************)
EXTENDS Integers

CONSTANTS EpochLimit

ASSUME EpochLimitAssumption == EpochLimit \in Nat \ {0}

Epoch == 1 .. EpochLimit

AccountState ==
  [ enabled : BOOLEAN, member_active : BOOLEAN, epoch : Epoch,
    has_local_password : BOOLEAN, membership_epoch : Epoch, password : Nat ]

(* AccountState::restore with the fields of a new account. *)
NewAccount(local) ==
  [ enabled |-> TRUE, member_active |-> TRUE, epoch |-> 1,
    has_local_password |-> local, membership_epoch |-> 1, password |-> 0 ]

new_local == NewAccount(TRUE)
new_federated == NewAccount(FALSE)

active(s) == s.enabled /\ s.member_active

(* A verification started from `expected` still speaks for the account. *)
matches_verification(s, expected) ==
  /\ active(s)
  /\ s.epoch = expected.epoch
  /\ s.has_local_password = expected.has_local_password
  /\ s.membership_epoch = expected.membership_epoch

(* A plausible slip: the epoch is advanced with an unchecked addition. *)
Mutant_UncheckedRevoke(s) == active(s)

CanRevokeSessions(s) == active(s) /\ s.epoch < EpochLimit
revoke_sessions(s) == [s EXCEPT !.epoch = @ + 1]

(***************************************************************************)
(* LocalChange: set the account's enabled flag, its membership, or replace *)
(* its password.  Every change opens a new epoch, a membership change that  *)
(* changes nothing included; only a real one opens a new membership epoch.  *)
(***************************************************************************)
LocalChange ==
  [ what : {"enabled", "membership"}, value : BOOLEAN ]
    \cup [ what : {"password"}, value : {TRUE} ]

ChangesMembership(s, change) ==
  change.what = "membership" /\ change.value # s.member_active

CanChange(s, change) ==
  /\ change.what = "password" => s.has_local_password
  /\ s.epoch < EpochLimit
  /\ ChangesMembership(s, change) => s.membership_epoch < EpochLimit

(* A plausible slip: flags are flipped without opening a new epoch. *)
Mutant_ChangedKeepsEpoch(s, change) ==
  [ s EXCEPT
      !.epoch = IF change.what = "password" THEN @ + 1 ELSE @,
      !.enabled = IF change.what = "enabled" THEN change.value ELSE @,
      !.member_active = IF change.what = "membership" THEN change.value ELSE @,
      !.password = IF change.what = "password" THEN @ + 1 ELSE @ ]

Changed(s, change) ==
  [ s EXCEPT
      !.epoch = @ + 1,
      !.enabled = IF change.what = "enabled" THEN change.value ELSE @,
      !.member_active = IF change.what = "membership" THEN change.value ELSE @,
      !.membership_epoch = IF ChangesMembership(s, change) THEN @ + 1 ELSE @,
      !.password = IF change.what = "password" THEN @ + 1 ELSE @ ]

(* A plausible slip: the encoding is replaced and nothing is invalidated. *)
Mutant_RecoveredKeepsEpoch(s) == [ s EXCEPT !.password = @ + 1 ]

CanRecover(s) == s.has_local_password /\ s.epoch < EpochLimit
Recovered(s) == [ s EXCEPT !.epoch = @ + 1, !.password = @ + 1 ]

-----------------------------------------------------------------------------
(***************************************************************************)
(* SessionPolicy and SessionLifetime.  A lifetime keeps the policy it was   *)
(* issued under; only its idle expiry ever moves.                          *)
(***************************************************************************)
SessionPolicy == { p \in [idle : Nat, absolute : Nat] : 0 < p.idle /\ p.idle <= p.absolute }

SessionLifetime ==
  [ policy : SessionPolicy, issued_at : Nat, idle_expires_at : Nat, absolute_expires_at : Nat ]

NewLifetime(now, policy) ==
  [ policy |-> policy, issued_at |-> now,
    idle_expires_at |-> now + policy.idle,
    absolute_expires_at |-> now + policy.absolute ]

valid_at(l, now) ==
  now >= l.issued_at /\ now < l.idle_expires_at /\ now < l.absolute_expires_at

LeastOf(a, b) == IF a <= b THEN a ELSE b
GreatestOf(a, b) == IF a <= b THEN b ELSE a

(* A plausible slip: a renewal slides both expiries. *)
Mutant_RenewedPastAbsolute(l, now) ==
  [ l EXCEPT !.idle_expires_at = GreatestOf(@, now + l.policy.idle),
             !.absolute_expires_at = GreatestOf(@, now + l.policy.idle) ]

Renewed(l, now) ==
  [ l EXCEPT !.idle_expires_at =
      GreatestOf(@, LeastOf(now + l.policy.idle, l.absolute_expires_at)) ]
=============================================================================
