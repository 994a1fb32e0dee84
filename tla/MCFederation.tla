---------------------------- MODULE MCFederation ----------------------------
(* Instances of Federation for TLC. *)
EXTENDS Federation, TLC

(* Flows are interchangeable, and so are the subjects of the providers. *)
Interchangeable == Permutations(Flows) \cup Permutations(Subjects)

(* Every subject is a stranger, or one that linked before the run. *)
Strangers == [k \in Identity |-> Nobody]
Acquainted == [k \in Identity |-> CHOOSE a \in Locals : TRUE]

(* The change that stops an account. *)
Disable == { [what |-> "enabled", value |-> FALSE] }
=============================================================================
