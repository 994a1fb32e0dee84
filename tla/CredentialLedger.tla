--------------------------- MODULE CredentialLedger ---------------------------
(***************************************************************************)
(* What the session authority promises the people who hold credentials,    *)
(* without saying how: a ledger of the credentials that are good right now. *)
(*                                                                         *)
(* A credential is a pair <<session, token>>.  It enters the ledger once,   *)
(* when a session is issued or its token is rotated, with a token nobody    *)
(* held before; it leaves it when it is revoked, replaced, rotated away,    *)
(* invalidated with its account or expired; and what has left never comes   *)
(* back.  Nothing else happens: no step makes two credentials good, no step *)
(* revives a session, no session is good under two tokens.                  *)
(***************************************************************************)
CONSTANTS SessionIds, Tokens

VARIABLES good, usedSessions, usedTokens

ledger == <<good, usedSessions, usedTokens>>

LedgerInit ==
  good = {} /\ usedSessions = {} /\ usedTokens = {}

(* A new session; at most one good credential is given up in exchange. *)
Issue ==
  \E id \in SessionIds \ usedSessions, t \in Tokens \ usedTokens :
    /\ usedSessions' = usedSessions \cup {id}
    /\ usedTokens' = usedTokens \cup {t}
    /\ \/ good' = good \cup {<<id, t>>}
       \/ \E old \in good : good' = (good \ {old}) \cup {<<id, t>>}

(* A good credential is exchanged for a new token of the same session. *)
Rotate ==
  \E old \in good, t \in Tokens \ usedTokens :
    /\ usedTokens' = usedTokens \cup {t}
    /\ good' = (good \ {old}) \cup {<<old[1], t>>}
    /\ UNCHANGED usedSessions

(* Credentials stop being good. *)
Withdraw ==
  /\ good' \subseteq good
  /\ UNCHANGED <<usedSessions, usedTokens>>

LedgerNext == Issue \/ Rotate \/ Withdraw

LedgerSpec == LedgerInit /\ [][LedgerNext]_ledger
=============================================================================
