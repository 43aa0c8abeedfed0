--------------------------- MODULE ProviderReceipt ---------------------------
(***************************************************************************)
(* The durable receipt of one Provider operation, and what each method of  *)
(* Phase32ProviderOperationStore does to it.                               *)
(*                                                                         *)
(* A receipt is one JSON file.  Every method reads it, decides and rewrites *)
(* it under _operation_guard (an RLock plus an flock on a lock file), so a *)
(* method is one atomic step of its caller, and this module gives it as    *)
(* operators on a receipt value: a predicate for the branch that changes   *)
(* the receipt, and the receipt that branch writes.  The modules that      *)
(* model the callers own the variable.                                     *)
(*                                                                         *)
(* Identity checks (request signature, input snapshot, pricing snapshot)   *)
(* always pass here: all callers of one operation key send the same frozen *)
(* request.  The clock is abstracted to whether the current lease is still *)
(* running.                                                                *)
(***************************************************************************)
EXTENDS Naturals

CONSTANTS
  Callers,      \* invocations; each has a lease owner of its own (a uuid4)
  NoCaller,     \* the empty lease_owner
  Payloads,     \* raw Provider payloads
  NoPayload,    \* raw_provider_payload is None
  MaxAttempts   \* max_transport_attempts

ASSUME CallersAssumption == NoCaller \notin Callers
ASSUME PayloadsAssumption == NoPayload \notin Payloads
ASSUME MaxAttemptsAssumption == MaxAttempts \in Nat \ {0}

Attempts == 1 .. MaxAttempts

(* claimed_transport_attempt=None: the caller passes no attempt fence.     *)
NoFence == 0

Statuses == {"absent", "pending", "returned", "succeeded", "contract_rejected"}

(* How a transport attempt of the ledger ended.                            *)
Terminals == {"lease_expired", "transport_failed", "provider_returned"}

(* The diagnostic a rejection is recorded with: the malformed envelope     *)
(* one, the artifact one computed from a returned receipt, or the artifact *)
(* one computed again from an already rejected receipt, which differs from *)
(* both (it nests the previous code).                                      *)
Diagnostics == {"envelope", "artifact", "artifact_again"}

(* One attempt of the ledger: its claimed event (claimer), its terminal    *)
(* event if any (end, closer = the owner digest that event carries).       *)
LedgerEntries ==
  [claimer : Callers \cup {NoCaller},
   end     : {"unclaimed", "open"} \cup Terminals,
   closer  : Callers \cup {NoCaller}]

Unclaimed == [claimer |-> NoCaller, end |-> "unclaimed", closer |-> NoCaller]

Receipts ==
  [status   : Statuses,
   owner    : Callers \cup {NoCaller},
   live     : BOOLEAN,
   attempts : 0 .. MaxAttempts,
   ledger   : [Attempts -> LedgerEntries],
   payload  : Payloads \cup {NoPayload},
   verdict  : Payloads \cup {NoPayload} \cup Diagnostics]

AbsentReceipt ==
  [status   |-> "absent",
   owner    |-> NoCaller,
   live     |-> FALSE,
   attempts |-> 0,
   ledger   |-> [a \in Attempts |-> Unclaimed],
   payload  |-> NoPayload,
   verdict  |-> NoPayload]

(* Mutant: finding a receipt on disk clears the lease left on it.          *)
BegunWithoutLease(r) ==
  IF r.status = "absent" THEN [r EXCEPT !.status = "pending"]
                         ELSE [r EXCEPT !.owner = NoCaller, !.live = FALSE]

(* begin: create the pending receipt, or return the one that exists.       *)
Begun(r) == IF r.status = "absent" THEN [r EXCEPT !.status = "pending"] ELSE r

-----------------------------------------------------------------------------
(* The attempt ledger.                                                     *)

(* validate_transport_attempt_events, run by _read_path on every access:   *)
(* the claims are 1..attempts, only the head may be open, and a terminal   *)
(* event carries the owner of its claim.  A receipt that fails it is       *)
(* "malformed" and every later method raises.                              *)
Readable(r) ==
  \A a \in Attempts :
    /\ r.ledger[a].end = "unclaimed" <=> a > r.attempts
    /\ r.ledger[a].end = "open" => a = r.attempts
    /\ r.ledger[a].end \in Terminals => r.ledger[a].closer = r.ledger[a].claimer

(* append_terminal_attempt_event raises on a second, different terminal... *)
Closable(r, a, kind) == r.ledger[a].end \in {"unclaimed", "open", kind}

(* ...and otherwise adds the event once, if the attempt was claimed.       *)
Closed(ledger, a, kind, c) ==
  IF ledger[a].end = "open"
    THEN [ledger EXCEPT ![a].end = kind, ![a].closer = c]
    ELSE ledger

-----------------------------------------------------------------------------
(* The lease.                                                              *)

(* Mutant: a lease never runs out.                                         *)
LeasedToOtherEver(r, c) == r.owner \notin {NoCaller, c}

LeasedToOther(r, c) == r.owner \notin {NoCaller, c} /\ r.live

(* _require_lease_owner: the attempt fence when there is one, then the     *)
(* owner, unless the lease was released or has expired.                    *)
MayTransition(r, c, fence) ==
  /\ fence # NoFence => r.attempts = fence
  /\ ~LeasedToOther(r, c)

(* Mutants of Claimable: no attempt limit; no lease check.                 *)
ClaimableWithoutLimit(r, c) == ~LeasedToOther(r, c)
ClaimableWhileLeased(r, c) == r.attempts < MaxAttempts

(* claim_pending, the branches that do not return the current receipt.     *)
Claimable(r, c) == ~LeasedToOther(r, c) /\ r.attempts < MaxAttempts

(* Mutant: the abandoned attempt is closed in the name of the new owner.   *)
ClaimedInOwnName(r, c) ==
  LET next    == r.attempts + 1
      expired == IF r.owner = NoCaller
                   THEN r.ledger
                   ELSE Closed(r.ledger, r.attempts, "lease_expired", c)
  IN  [r EXCEPT !.owner    = c,
                !.live     = TRUE,
                !.attempts = next,
                !.ledger   = [expired EXCEPT ![next] =
                                [claimer |-> c, end |-> "open", closer |-> NoCaller]]]

(* Mutant: taking over an expired lease does not count as an attempt.      *)
ClaimedForFree(r, c) ==
  LET next == IF r.owner = NoCaller THEN r.attempts + 1 ELSE r.attempts
  IN  [r EXCEPT !.owner    = c,
                !.live     = TRUE,
                !.attempts = next,
                !.ledger   = [@ EXCEPT ![next] =
                                [claimer |-> c, end |-> "open", closer |-> NoCaller]]]

(* An abandoned lease is closed as expired before the next claim.          *)
ClaimedBy(r, c) ==
  LET next    == r.attempts + 1
      expired == IF r.owner = NoCaller
                   THEN r.ledger
                   ELSE Closed(r.ledger, r.attempts, "lease_expired", r.owner)
  IN  [r EXCEPT !.owner    = c,
                !.live     = TRUE,
                !.attempts = next,
                !.ledger   = [expired EXCEPT ![next] =
                                [claimer |-> c, end |-> "open", closer |-> NoCaller]]]

(* The wall clock passes lease_expires_at.                                 *)
LeaseExpired(r) == [r EXCEPT !.live = FALSE]

-----------------------------------------------------------------------------
(* What a caller that claimed an attempt writes back.                      *)

FencedAttempt(r, fence) == IF fence = NoFence THEN r.attempts ELSE fence

(* release_pending on a pending receipt.                                   *)
CanRelease(r, c, fence) ==
  /\ MayTransition(r, c, fence)
  /\ Closable(r, FencedAttempt(r, fence), "transport_failed")

Released(r, c, fence) ==
  [r EXCEPT !.owner  = NoCaller,
            !.live   = FALSE,
            !.ledger = Closed(@, FencedAttempt(r, fence), "transport_failed", c)]

(* record_return.  On a returned receipt only the same payload is accepted *)
(* (and nothing is written); a succeeded receipt is returned as it is.     *)
CanReturn(r, c, fence, p) ==
  /\ MayTransition(r, c, fence)
  /\ \/ r.status = "succeeded"
     \/ r.status = "returned" /\ r.payload = p
     \/ r.status = "pending" /\ Closable(r, FencedAttempt(r, fence), "provider_returned")

(* Mutant: a late return reopens a receipt that has succeeded.             *)
ReturnedAgain(r, c, fence, p) ==
  [r EXCEPT !.status  = "returned",
            !.payload = p,
            !.owner   = NoCaller,
            !.live    = FALSE,
            !.ledger  = Closed(@, FencedAttempt(r, fence), "provider_returned", c)]

Returned(r, c, fence, p) ==
  IF r.status = "pending"
    THEN [r EXCEPT !.status  = "returned",
                   !.payload = p,
                   !.owner   = NoCaller,
                   !.live    = FALSE,
                   !.ledger  = Closed(@, FencedAttempt(r, fence), "provider_returned", c)]
    ELSE r

(* Mutant: a verdict may replace another verdict.                          *)
CanConcludeAgain(r, status, verdict) ==
  ~LeasedToOther(r, NoCaller) /\ r.status \notin {"absent", "pending"}

(* What ProviderCall calls the phase of the operation.                     *)
Phase(r) ==
  CASE r.status \in {"absent", "pending"} -> "open"
    [] r.status = "returned"              -> "answered"
    [] r.status = "succeeded"             -> "accepted"
    [] r.status = "contract_rejected"     -> "rejected"

(* succeed and reject_contract need a persisted return, and accept a       *)
(* repetition of the same verdict.  Their callers pass no lease owner, so  *)
(* a running lease stops them.                                             *)
CanConclude(r, status, verdict) ==
  /\ ~LeasedToOther(r, NoCaller)
  /\ \/ r.status = "returned"
     \/ r.status = status /\ r.verdict = verdict

Concluded(r, status, verdict) ==
  [r EXCEPT !.status = status, !.verdict = verdict, !.owner = NoCaller, !.live = FALSE]
=============================================================================
