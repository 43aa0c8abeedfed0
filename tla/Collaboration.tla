----------------------------- MODULE Collaboration -----------------------------
(***************************************************************************)
(* One revise turn of an author-collaboration thread.  POST .../turns      *)
(* creates the turn and executes it; posting the same client_turn_id again *)
(* executes a queued or streaming turn again.  POSTs run on the event      *)
(* loop: one of them moves at a time, and the others only while it awaits  *)
(* the Provider.  Cancelling, deciding a patch and deleting the thread run *)
(* in worker threads, between any two steps of a POST.  Unlike the route   *)
(* driver, the executor passes no attempt fence to the receipt store and   *)
(* holds no Run lock.                                                      *)
(***************************************************************************)
EXTENDS ProviderReceipt

CONSTANTS ValidPayloads,  \* those that parse as a patch result
          MaxRestarts     \* bound on how often the process is killed

ASSUME ValidPayloadsAssumption == ValidPayloads \subseteq Payloads
ASSUME MaxRestartsAssumption == MaxRestarts \in Nat

VARIABLES
  receipt,   \* Provider operation receipt of the turn
  turn,      \* status of the turn file
  patches,   \* status of the patch candidate file each answer gives
  message,   \* the answer in the turn's assistant message file
  thread,    \* the thread file: status and has_unapplied_patch
  stale,     \* the thread's source Artifact is no longer the current one
  pc,        \* where each POST stands
  seen,      \* status of the receipt the POST holds in memory
  held,      \* raw payload the POST holds in memory
  cancel,    \* where the cancel request stands
  deletion,  \* where the delete request stands
  deciding,  \* a patch decision has written the patch, not yet the thread
  restarts

answers == <<patches, message>>
posts == <<pc, seen, held>>
workers == <<cancel, deletion, deciding>>
vars == <<receipt, turn, answers, thread, stale, posts, workers, restarts>>

TurnStatuses == {"absent", "queued", "streaming",
                 "completed", "cancelled", "failed", "contract_rejected"}
Settled == {"completed", "cancelled", "failed", "contract_rejected"}

(* _TURN_TRANSITIONS.                                                      *)
MayMove(from, to) ==
  \/ from = "queued" /\ to \in {"streaming", "cancelled", "failed"}
  \/ from = "streaming" /\ to \in Settled

Steps == {"idle", "create", "begin", "stream", "claim", "waiting", "fail", "parse",
          "rejectReceipt", "rejectTurn", "patch", "flag", "message", "succeed", "complete",
          "done"}

TypeOK ==
  /\ receipt \in Receipts
  /\ turn \in TurnStatuses
  /\ patches \in [ValidPayloads -> {"none", "proposed", "rejected", "stale"}]
  /\ message \in ValidPayloads \cup {NoPayload}
  /\ thread \in [status : {"active", "deleted"}, unapplied : BOOLEAN]
  /\ stale \in BOOLEAN
  /\ pc \in [Callers -> Steps]
  /\ seen \in [Callers -> Statuses]
  /\ held \in [Callers -> Payloads \cup {NoPayload}]
  /\ cancel \in {"idle", "checked"}
  /\ deletion \in {"idle", "read", "checked"}
  /\ deciding \in BOOLEAN
  /\ restarts \in 0 .. MaxRestarts

Init ==
  /\ receipt = AbsentReceipt
  /\ turn = "absent"
  /\ patches = [p \in ValidPayloads |-> "none"]
  /\ message = NoPayload
  /\ thread = [status |-> "active", unapplied |-> FALSE]
  /\ stale = FALSE
  /\ pc = [c \in Callers |-> "idle"]
  /\ seen = [c \in Callers |-> "absent"]
  /\ held = [c \in Callers |-> NoPayload]
  /\ cancel = "idle"
  /\ deletion = "idle"
  /\ deciding = FALSE
  /\ restarts = 0

Goto(c, step) == pc' = [pc EXCEPT ![c] = step]

Hold(c, r) ==
  /\ seen' = [seen EXCEPT ![c] = r.status]
  /\ held' = [held EXCEPT ![c] = r.payload]

(* No other coroutine holds the event loop.                                *)
HasLoop(c) == \A d \in Callers \ {c} : pc[d] \in {"idle", "waiting", "done"}

(* Mutant: a store without its lock.                                       *)
StoreUnlocked == TRUE

(* write_patch and transition_patch hold the store's RLock from the patch  *)
(* file to the thread's flag.                                              *)
StoreFree == ~deciding /\ \A c \in Callers : pc[c] # "flag"

Proposed == {p \in ValidPayloads : patches[p] = "proposed"}

(* transition_turn: the same status again is accepted, an illegal move     *)
(* raises and ends the POST with an error.                                 *)
MoveTurn(c, to, step) ==
  IF turn = to \/ MayMove(turn, to)
    THEN turn' = to /\ Goto(c, step)
    ELSE turn' = turn /\ Goto(c, "done")

-----------------------------------------------------------------------------
(* Phase32AuthorCollaborationService.create_turn, up to the replay lookup. *)
Post(c) ==
  /\ pc[c] = "idle" /\ HasLoop(c)
  /\ \/ /\ thread.status = "active"
        /\ \/ turn = "absent" /\ ~stale /\ Goto(c, "create")
           \/ turn \in {"queued", "streaming"} /\ Goto(c, "begin")
     \/ /\ thread.status # "active" \/ (turn = "absent" /\ stale) \/ turn \in Settled
        /\ Goto(c, "done")
  /\ UNCHANGED <<receipt, turn, answers, thread, stale, seen, held, workers, restarts>>

(* Phase32CollaborationStore.create_turn.                                  *)
CreateTurn(c) ==
  /\ pc[c] = "create" /\ StoreFree
  /\ turn' = "queued"
  /\ Goto(c, "begin")
  /\ UNCHANGED <<receipt, answers, thread, stale, seen, held, workers, restarts>>

(* execute: the settled turn and the stale source return early; begin      *)
(* raises on a malformed receipt.                                          *)
Begin(c) ==
  /\ pc[c] = "begin"
  /\ IF turn \in Settled \/ stale \/ ~Readable(receipt)
       THEN Goto(c, "done") /\ UNCHANGED <<receipt, seen, held>>
       ELSE receipt' = Begun(receipt) /\ Hold(c, receipt') /\ Goto(c, "stream")
  /\ UNCHANGED <<turn, answers, thread, stale, workers, restarts>>

Stream(c) ==
  /\ pc[c] = "stream" /\ StoreFree
  /\ MoveTurn(c, "streaming",
       CASE seen[c] = "succeeded"         -> "complete"
         [] seen[c] = "contract_rejected" -> "rejectTurn"
         [] seen[c] = "returned"          -> "parse"
         [] seen[c] = "pending"           -> "claim")
  /\ UNCHANGED <<receipt, answers, thread, stale, seen, held, workers, restarts>>

(* A lease conflict, an exhausted attempt limit or (after the claim) a     *)
(* failed readiness check ends the POST; the turn stays streaming.         *)
Claim(c, ready) ==
  /\ pc[c] = "claim"
  /\ IF Readable(receipt) /\ Claimable(receipt, c)
       THEN receipt' = ClaimedBy(receipt, c) /\ Goto(c, IF ready THEN "waiting" ELSE "done")
       ELSE receipt' = receipt /\ Goto(c, "done")
  /\ UNCHANGED <<turn, answers, thread, stale, seen, held, workers, restarts>>

(* The gateway raises, or its answer is no Phase32ProviderResponse: the    *)
(* attempt is released and the turn fails.  A refused release is           *)
(* swallowed, unless the ledger itself raises (a plain ValueError).        *)
ProviderFails(c) ==
  LET mayRelease == /\ Readable(receipt) /\ receipt.status = "pending"
                    /\ MayTransition(receipt, c, NoFence)
  IN  /\ pc[c] = "waiting" /\ HasLoop(c)
      /\ \/ /\ mayRelease /\ CanRelease(receipt, c, NoFence)
            /\ receipt' = Released(receipt, c, NoFence)
            /\ Goto(c, "fail")
         \/ /\ mayRelease /\ ~CanRelease(receipt, c, NoFence)
            /\ receipt' = receipt
            /\ Goto(c, "done")
         \/ /\ ~mayRelease
            /\ receipt' = receipt
            /\ Goto(c, "fail")
      /\ UNCHANGED <<turn, answers, thread, stale, seen, held, workers, restarts>>

FailTurn(c) ==
  /\ pc[c] = "fail" /\ StoreFree
  /\ MoveTurn(c, "failed", "done")
  /\ UNCHANGED <<receipt, answers, thread, stale, seen, held, workers, restarts>>

(* Mutant: a conflict of record_return is swallowed, like release_pending's.*)
ProviderAnswersAnyway(c, payload) ==
  /\ pc[c] = "waiting" /\ HasLoop(c)
  /\ receipt' = IF Readable(receipt) /\ CanReturn(receipt, c, NoFence, payload)
                  THEN Returned(receipt, c, NoFence, payload)
                  ELSE receipt
  /\ held' = [held EXCEPT ![c] = payload]
  /\ seen' = seen
  /\ Goto(c, "parse")
  /\ UNCHANGED <<turn, answers, thread, stale, workers, restarts>>

(* record_return, whose conflicts end the POST.                            *)
ProviderAnswers(c, payload) ==
  /\ pc[c] = "waiting" /\ HasLoop(c)
  /\ IF Readable(receipt) /\ CanReturn(receipt, c, NoFence, payload)
       THEN /\ receipt' = Returned(receipt, c, NoFence, payload)
            /\ Hold(c, receipt')
            /\ Goto(c, "parse")
       ELSE Goto(c, "done") /\ UNCHANGED <<receipt, seen, held>>
  /\ UNCHANGED <<turn, answers, thread, stale, workers, restarts>>

(* reject_contract and succeed, whose conflicts end the POST.              *)
Conclude(c, status, verdict, step) ==
  IF Readable(receipt) /\ CanConclude(receipt, status, verdict)
    THEN receipt' = Concluded(receipt, status, verdict) /\ Goto(c, step)
    ELSE receipt' = receipt /\ Goto(c, "done")

(* Mutant: the verdict is recorded before the result is persisted.         *)
ParseAndSucceed(c) ==
  /\ pc[c] = "parse"
  /\ IF held[c] \in ValidPayloads
       THEN Conclude(c, "succeeded", held[c], "patch")
       ELSE receipt' = receipt /\ Goto(c, "rejectReceipt")
  /\ UNCHANGED <<turn, answers, thread, stale, seen, held, workers, restarts>>

Parse(c) ==
  /\ pc[c] = "parse"
  /\ Goto(c, IF held[c] \in ValidPayloads THEN "patch" ELSE "rejectReceipt")
  /\ UNCHANGED <<receipt, turn, answers, thread, stale, seen, held, workers, restarts>>

RejectReceipt(c) ==
  /\ pc[c] = "rejectReceipt"
  /\ Conclude(c, "contract_rejected", "artifact", "rejectTurn")
  /\ UNCHANGED <<turn, answers, thread, stale, seen, held, workers, restarts>>

RejectTurn(c) ==
  /\ pc[c] = "rejectTurn" /\ StoreFree
  /\ MoveTurn(c, "contract_rejected", "done")
  /\ UNCHANGED <<receipt, answers, thread, stale, seen, held, workers, restarts>>

(* write_patch: the file, then the thread's flag.  The patch is content    *)
(* addressed: the same proposal again is returned, the flag left alone; a  *)
(* decided one raises.                                                     *)
WritePatch(c) ==
  /\ pc[c] = "patch" /\ StoreFree
  /\ \/ /\ patches[held[c]] = "none"
        /\ patches' = [patches EXCEPT ![held[c]] = "proposed"]
        /\ Goto(c, "flag")
     \/ /\ patches[held[c]] # "none"
        /\ patches' = patches
        /\ Goto(c, IF patches[held[c]] = "proposed" THEN "message" ELSE "done")
  /\ UNCHANGED <<receipt, turn, message, thread, stale, seen, held, workers, restarts>>

FlagPatch(c) ==
  /\ pc[c] = "flag"
  /\ thread' = [thread EXCEPT !.unapplied = TRUE]
  /\ Goto(c, "message")
  /\ UNCHANGED <<receipt, turn, answers, stale, seen, held, workers, restarts>>

(* write_message: one immutable assistant message per turn.                *)
WriteMessage(c) ==
  /\ pc[c] = "message" /\ StoreFree
  /\ message' = IF message = NoPayload THEN held[c] ELSE message
  /\ Goto(c, IF message' = held[c] THEN "succeed" ELSE "done")
  /\ UNCHANGED <<receipt, turn, patches, thread, stale, seen, held, workers, restarts>>

Succeed(c) ==
  /\ pc[c] = "succeed"
  /\ Conclude(c, "succeeded", held[c], "complete")
  /\ UNCHANGED <<turn, answers, thread, stale, seen, held, workers, restarts>>

CompleteTurn(c) ==
  /\ pc[c] = "complete" /\ StoreFree
  /\ MoveTurn(c, "completed", "done")
  /\ UNCHANGED <<receipt, answers, thread, stale, seen, held, workers, restarts>>

-----------------------------------------------------------------------------
(* cancel_queued_turn reads the turn, then asks the store to cancel it.    *)
CancelCheck ==
  /\ cancel = "idle"
  /\ turn = "queued"
  /\ cancel' = "checked"
  /\ UNCHANGED <<receipt, turn, answers, thread, stale, posts, deletion, deciding, restarts>>

CancelTurn ==
  /\ cancel = "checked" /\ StoreFree
  /\ cancel' = "idle"
  /\ turn' = IF MayMove(turn, "cancelled") THEN "cancelled" ELSE turn
  /\ UNCHANGED <<receipt, answers, thread, stale, posts, deletion, deciding, restarts>>

(* delete_thread reads the thread (and stops if it has an unapplied        *)
(* patch), then lists the turns, then writes the status.                   *)
DeleteRead ==
  /\ deletion = "idle"
  /\ thread = [status |-> "active", unapplied |-> FALSE]
  /\ deletion' = "read"
  /\ UNCHANGED <<receipt, turn, answers, thread, stale, posts, cancel, deciding, restarts>>

DeleteCheck ==
  /\ deletion = "read"
  /\ deletion' = IF turn \in {"queued", "streaming"} THEN "idle" ELSE "checked"
  /\ UNCHANGED <<receipt, turn, answers, thread, stale, posts, cancel, deciding, restarts>>

DeleteThread ==
  /\ deletion = "checked" /\ StoreFree
  /\ deletion' = "idle"
  /\ thread' = [thread EXCEPT !.status = "deleted"]
  /\ UNCHANGED <<receipt, turn, answers, stale, posts, cancel, deciding, restarts>>

(* transition_patch, from reject_patch or, once the source is stale, from  *)
(* accept_patch: the patch file, then the thread's flag.                   *)
DecidePatch(p, status) ==
  /\ p \in Proposed /\ StoreFree
  /\ status = "stale" => stale
  /\ patches' = [patches EXCEPT ![p] = status]
  /\ deciding' = TRUE
  /\ UNCHANGED <<receipt, turn, message, thread, stale, posts, cancel, deletion, restarts>>

UnflagPatch ==
  /\ deciding
  /\ thread' = [thread EXCEPT !.unapplied = Proposed # {}]
  /\ deciding' = FALSE
  /\ UNCHANGED <<receipt, turn, answers, stale, posts, cancel, deletion, restarts>>

(* The Run moves on and the thread's source is superseded.                 *)
SourceMovesOn ==
  /\ ~stale
  /\ stale' = TRUE
  /\ UNCHANGED <<receipt, turn, answers, thread, posts, workers, restarts>>

ExpireLease ==
  /\ receipt.live
  /\ receipt' = LeaseExpired(receipt)
  /\ UNCHANGED <<turn, answers, thread, stale, posts, workers, restarts>>

(* The process dies: every request in it is gone, the files stay.          *)
Restart ==
  /\ restarts < MaxRestarts
  /\ deciding \/ \E c \in Callers : pc[c] \notin {"idle", "done"}
  /\ restarts' = restarts + 1
  /\ pc' = [c \in Callers |-> IF pc[c] = "idle" THEN "idle" ELSE "done"]
  /\ cancel' = "idle" /\ deletion' = "idle" /\ deciding' = FALSE
  /\ UNCHANGED <<receipt, turn, answers, thread, stale, seen, held>>

Advance(c) ==
  \/ Post(c)
  \/ CreateTurn(c)
  \/ Begin(c)
  \/ Stream(c)
  \/ \E ready \in BOOLEAN : Claim(c, ready)
  \/ ProviderFails(c)
  \/ FailTurn(c)
  \/ \E payload \in Payloads : ProviderAnswers(c, payload)
  \/ Parse(c)
  \/ RejectReceipt(c)
  \/ RejectTurn(c)
  \/ WritePatch(c)
  \/ FlagPatch(c)
  \/ WriteMessage(c)
  \/ Succeed(c)
  \/ CompleteTurn(c)

Next ==
  \/ \E c \in Callers : Advance(c)
  \/ CancelCheck
  \/ CancelTurn
  \/ DeleteRead
  \/ DeleteCheck
  \/ DeleteThread
  \/ \E p \in ValidPayloads, status \in {"rejected", "stale"} : DecidePatch(p, status)
  \/ UnflagPatch
  \/ SourceMovesOn
  \/ ExpireLease
  \/ Restart

Spec == Init /\ [][Next]_vars

-----------------------------------------------------------------------------
(* A completed turn has all it promises: a succeeded receipt, an assistant *)
(* message and the patch of that message, whatever crash, replay or late   *)
(* answer came between.                                                    *)
CompletedHasResult ==
  turn = "completed" =>
    /\ receipt.status = "succeeded"
    /\ message = receipt.payload
    /\ patches[message] # "none"

(* Although nothing fences late answers, the author only ever sees the     *)
(* answer the receipt recorded: a turn never has two competing proposals.  *)
AnswerIsRecorded ==
  /\ \A p \in ValidPayloads : patches[p] # "none" => p = receipt.payload
  /\ message # NoPayload => message = receipt.payload

(* Unless a process died, the thread's flag says exactly whether a         *)
(* proposal waits for a decision, however decisions and replays interleave.*)
FlagCoversPatch ==
  StoreFree /\ restarts = 0 => (thread.unapplied <=> Proposed # {})

(* Without fences and with a ledger that may become malformed, the         *)
(* operation still makes a bounded number of calls, none after a recorded  *)
(* return, and records one return and one verdict.                         *)
Call == INSTANCE ProviderCall WITH
  Answers    <- Payloads,
  Acceptable <- ValidPayloads,
  NoAnswer   <- NoPayload,
  MaxCalls   <- MaxAttempts,
  phase      <- Phase(receipt),
  calls      <- receipt.attempts,
  answer     <- receipt.payload

ImplementsProviderCall == Call!Spec

-----------------------------------------------------------------------------
(* "A Provider request already in flight cannot be cancelled by this       *)
(* process"; a cancelled turn was "Cancelled before dispatch".  The status *)
(* is read before transition_turn locks the store, so this does not hold.  *)
CancelledBeforeDispatch == turn = "cancelled" => receipt.attempts = 0

(* "Provider attempt terminal owner differs from its claim" is an error of *)
(* the ledger's validation; a late caller without a fence writes such a    *)
(* ledger once the lease of its successor has expired too.                 *)
ReceiptReadable == Readable(receipt)
=============================================================================
