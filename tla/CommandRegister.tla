--------------------------- MODULE CommandRegister ---------------------------
(***************************************************************************)
(* What administrators are promised of a thing they change by commands,      *)
(* without saying how it is stored, answered, recorded or retried: a register *)
(* of the revision each object is at and of the commands that took effect.   *)
(*                                                                         *)
(* A command names the revision its sender saw.  It takes effect at most     *)
(* once, however often it is sent; only while the object is still at that    *)
(* revision, so nobody's change is overwritten unseen; and it makes the next  *)
(* one.  Nothing else moves a revision, and an effect is never undone.       *)
(***************************************************************************)
EXTENDS Naturals

CONSTANTS
  Objects,  \* what is changed
  Ids       \* what a command sent again is known by

VARIABLES
  revision,  \* the revision of each object
  effects    \* the commands that took effect

register == <<revision, effects>>

RegisterInit == revision \in [Objects -> Nat] /\ effects = {}

TakeEffect(id, object) ==
  /\ \A earlier \in effects : earlier.id # id
  /\ revision' = [revision EXCEPT ![object] = @ + 1]
  /\ effects' = effects \cup { [id |-> id, object |-> object, expected |-> revision[object]] }

RegisterNext == \E id \in Ids, object \in Objects : TakeEffect(id, object)

RegisterSpec == RegisterInit /\ [][RegisterNext]_register
=============================================================================
