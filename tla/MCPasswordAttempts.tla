------------------------- MODULE MCPasswordAttempts -------------------------
(* Small instances of PasswordAttempts for TLC. *)
EXTENDS PasswordAttempts

CONSTANTS admin, w1, w2, near, provider

OneLogin == {admin}
OneWorker == {w1}
TwoWorkers == {w1, w2}
OneSource == {near}
OneScope == {provider}
OneBudget == {2}
LongBudget == {3}
=============================================================================
