----------------------------- MODULE PasswordKdf -----------------------------
(***************************************************************************)
(* The bounded pool of password computations a process shares               *)
(* (crates/identity-core/src/account.rs) and how the host shuts it down     *)
(* (app/identity/src/lifecycle.rs, KdfResource).                            *)
(*                                                                         *)
(* A call is admitted under a mutex, then a blocking closure computes with   *)
(* the permit and the tracker's token in its hands.  The caller may be       *)
(* dropped while it waits (a deadline, a client that went away); the closure *)
(* is not, and goes on holding both.                                        *)
(***************************************************************************)
EXTENDS Integers, FiniteSets

CONSTANTS
  Calls,           \* calls that may be under way
  MAX_CONCURRENCY, \* permits of the gate
  NoCaller           \* the holder of a free mutex

ASSUME KdfAssumption == MAX_CONCURRENCY \in Nat \ {0} /\ NoCaller \notin Calls

VARIABLES
  open,     \* the flag the mutex guards
  mutex,    \* who holds it
  permits,  \* permits left in the gate
  tokens,   \* tokens of the tracker that are out
  call,     \* where each caller stands
  closure,  \* where each call's closure stands
  shutdown  \* where KdfResource::shutdown stands

kdf_vars == <<open, mutex, permits, tokens, call, closure, shutdown>>

Closer == "closer"

KdfTypeOK ==
  /\ open \in BOOLEAN
  /\ mutex \in Calls \cup {NoCaller, Closer}
  /\ permits \in 0 .. MAX_CONCURRENCY
  /\ tokens \in Nat
  /\ call \in [Calls -> {"idle", "locked", "awaiting"}]
  /\ closure \in [Calls -> {"none", "queued", "running"}]
  /\ shutdown \in {"serving", "locked", "waiting", "drained", "overrun"}

-----------------------------------------------------------------------------
(* compute: the caller takes the mutex. *)
lock(c) ==
  /\ call[c] = "idle" /\ closure[c] = "none"
  /\ mutex = NoCaller
  /\ mutex' = c
  /\ call' = [call EXCEPT ![c] = "locked"]
  /\ UNCHANGED <<open, permits, tokens, closure, shutdown>>

(* A plausible slip: a call that was on its way in when the pool closed is    *)
(* let through.                                                             *)
Mutant_AdmitsWhoeverCame(c) == permits > 0

(* Admission: neither closed (Unavailable) nor out of permits (Busy). *)
Admits(c) == open /\ permits > 0

(* compute, inside the mutex: the permit and the token are taken together,   *)
(* the closure is handed to the blocking pool.                              *)
admit(c) ==
  /\ call[c] = "locked"
  /\ Admits(c)
  /\ permits' = permits - 1
  /\ tokens' = tokens + 1
  /\ mutex' = NoCaller
  /\ call' = [call EXCEPT ![c] = "awaiting"]
  /\ closure' = [closure EXCEPT ![c] = "queued"]
  /\ UNCHANGED <<open, shutdown>>

(* compute, inside the mutex: refused. *)
refuse(c) ==
  /\ call[c] = "locked"
  /\ ~Admits(c)
  /\ mutex' = NoCaller
  /\ call' = [call EXCEPT ![c] = "idle"]
  /\ UNCHANGED <<open, permits, tokens, closure, shutdown>>

(* A thread of the blocking pool takes the closure up. *)
run(c) ==
  /\ closure[c] = "queued"
  /\ closure' = [closure EXCEPT ![c] = "running"]
  /\ UNCHANGED <<open, mutex, permits, tokens, call, shutdown>>

(* A plausible slip: the token comes back through the caller. *)
Mutant_TokenOfTheCaller(c) == IF call[c] = "awaiting" THEN tokens - 1 ELSE tokens

(* The closure's token is dropped with it, whether anyone awaits it or not. *)
TokenDropped(c) == tokens - 1

(* The closure returns, or the runtime drops it unstarted: either way the    *)
(* permit and the token it owns are dropped with it.                        *)
finish(c) ==
  /\ closure[c] \in {"queued", "running"}
  /\ closure' = [closure EXCEPT ![c] = "none"]
  /\ call' = [call EXCEPT ![c] = "idle"]
  /\ permits' = permits + 1
  /\ tokens' = TokenDropped(c)
  /\ UNCHANGED <<open, mutex, shutdown>>

(* A plausible slip: the permit belongs to the caller's future. *)
Mutant_PermitsOfTheCaller(c) == permits + 1

(* What a dropped caller gives back: nothing, the closure owns the permit. *)
Returned(c) == permits

(* The caller is dropped while it awaits the closure. *)
cancel(c) ==
  /\ call[c] = "awaiting"
  /\ call' = [call EXCEPT ![c] = "idle"]
  /\ permits' = Returned(c)
  /\ UNCHANGED <<open, mutex, tokens, closure, shutdown>>

(* KdfResource::shutdown: close() takes the mutex ... *)
close_lock ==
  /\ shutdown = "serving"
  /\ mutex = NoCaller
  /\ mutex' = Closer
  /\ shutdown' = "locked"
  /\ UNCHANGED <<open, permits, tokens, call, closure>>

(* ... and closes admission and the tracker. *)
close ==
  /\ shutdown = "locked"
  /\ open' = FALSE
  /\ mutex' = NoCaller
  /\ shutdown' = "waiting"
  /\ UNCHANGED <<permits, tokens, call, closure>>

(* TaskTracker::wait: closed, and every token is back. *)
wait_closed ==
  /\ shutdown = "waiting"
  /\ tokens = 0
  /\ shutdown' = "drained"
  /\ UNCHANGED <<open, mutex, permits, tokens, call, closure>>

(* The host's budget for this resource runs out first. *)
Overrun ==
  /\ shutdown = "waiting"
  /\ shutdown' = "overrun"
  /\ UNCHANGED <<open, mutex, permits, tokens, call, closure>>

KdfInit ==
  /\ open = TRUE /\ mutex = NoCaller /\ permits = MAX_CONCURRENCY /\ tokens = 0
  /\ call = [c \in Calls |-> "idle"]
  /\ closure = [c \in Calls |-> "none"]
  /\ shutdown = "serving"

KdfNext ==
  \/ \E c \in Calls : lock(c) \/ admit(c) \/ refuse(c) \/ run(c) \/ finish(c) \/ cancel(c)
  \/ close_lock \/ close \/ wait_closed \/ Overrun

KdfSpec == KdfInit /\ [][KdfNext]_kdf_vars

(* The threads that hold the mutex or compute make progress, and so does     *)
(* the task that waits; callers need not come, shutdown need not begin.     *)
KdfFairSpec ==
  /\ KdfSpec
  /\ \A c \in Calls : WF_kdf_vars(admit(c)) /\ WF_kdf_vars(refuse(c))
  /\ \A c \in Calls : WF_kdf_vars(run(c)) /\ WF_kdf_vars(finish(c))
  /\ WF_kdf_vars(close) /\ WF_kdf_vars(wait_closed)

-----------------------------------------------------------------------------
Computing == { c \in Calls : closure[c] # "none" }

(* Whoever was cancelled, the computations under way and the permits left    *)
(* add up to the limit: memory-hard work never runs wider than the pool.    *)
NeverWider == permits + Cardinality(Computing) = MAX_CONCURRENCY

(* Once shutdown reports the pool drained, no computation is left and none   *)
(* will ever start, not even one that was on its way in when it closed.     *)
DrainedForGood ==
  shutdown = "drained" => ~open /\ Computing = {} /\ \A c \in Calls : call[c] # "awaiting"

(* Shutdown ends: closing is never held up by a caller that went away.       *)
ShutdownEnds == (shutdown = "locked") ~> (shutdown \in {"drained", "overrun"})
=============================================================================
