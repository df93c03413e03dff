----------------------------- MODULE AgenticReview -----------------------------
(***************************************************************************)
(* The live model review of one evidence packet: run_agentic_review        *)
(* (src/src/agentic.rs) and the gateway it spawns                          *)
(* (src/workers/agentic/review.mjs).  Rust asks about the criteria whose   *)
(* verdict is needs_review; the gateway takes them batch by batch and      *)
(* surface by surface to a model, within a call budget, retrying once and  *)
(* judging once more when the model asks to look again; Rust accepts the   *)
(* response with its record of the calls, or rejects it, and rewrites      *)
(* evidence.json in place.                                                 *)
(*                                                                         *)
(* The model answers anything at any time: a verdict, an error that is     *)
(* worth a retry or is not, JSON of another shape, a receipt that is not   *)
(* complete.  The Rust process, its timer and the gateway are interleaved. *)
(***************************************************************************)
EXTENDS Naturals, Sequences

CONSTANTS
    Surfaces,   \* the captured states the gateway reviews, in order
    Batches,    \* the groups of criteria it asks about, in order
    MaxCalls,   \* model.max_model_calls
    Nothing,    \* no response
    Torn        \* evidence.json truncated and not yet written

(* A group holds at most eight criteria here: one batch each.              *)
ASSUME ReviewAssumption ==
    /\ Surfaces # <<>>
    /\ \A i, j \in DOMAIN Surfaces : Surfaces[i] = Surfaces[j] => i = j
    /\ \A i, j \in DOMAIN Batches : i # j => Batches[i] \cap Batches[j] = {}
    /\ MaxCalls \in Nat

Criteria  == UNION {Batches[i] : i \in DOMAIN Batches}
SurfaceIds == {Surfaces[i] : i \in DOMAIN Surfaces}

ASSUME SequenceAssumption ==
    /\ Surfaces \in Seq(SurfaceIds)
    /\ Batches \in Seq(SUBSET Criteria)

VARIABLES
    file,     \* evidence.json
    before,   \* history: evidence.json as the run wrote it
    at,       \* where run_agentic_review is
    mem,      \* the packet it holds
    worker,   \* where the gateway is
    key,      \* the gateway finds an API key
    unit,     \* the batch and the surface it is at
    fetch,    \* of this unit: attempts of this fetch, calls of earlier ones, rejudging
    calls,    \* the calls charged against the budget
    sent,     \* the HTTP attempts made: the length of model_call_audit
    sound,    \* every event of the audit is one that Rust accepts
    said,     \* the verdict recorded for each criterion on each surface
    reply     \* agentic-response.json

vars == <<file, before, at, mem, worker, key, unit, fetch, calls, sent, sound,
          said, reply>>

rust    == <<file, before, at, mem>>
ledger  == <<calls, sent, sound>>

----------------------------------------------------------------------------
(* Packets and responses *)

Statuses == {"pass", "fail", "not_applicable", "needs_review"}
Verdict  == {"pass", "fail", "inconclusive"}

(* What a review reads and writes of the packet.  `agentic` holds the      *)
(* criteria whose verdict has evidence class agentic.                      *)
Packet == [verdicts : [Criteria -> Statuses], agentic : SUBSET Criteria,
           calls : Nat, egress : Nat]

Asked(p) == {c \in Criteria : p.verdicts[c] = "needs_review"}

Response == [status : {"ok", "error"}, calls : Nat, events : Nat,
             sound : BOOLEAN, verdicts : [Criteria -> Verdict]]

(* A truncated file is no packet, and no response is not one.              *)
ASSUME NothingAssumption == Torn \notin Packet /\ Nothing \notin Response

(* A slip: one surface that passes is enough.                              *)
AnySurface(verdicts) ==
    IF \E s \in SurfaceIds : verdicts[s] = "fail" THEN "fail"
    ELSE IF \E s \in SurfaceIds : verdicts[s] = "pass" THEN "pass"
    ELSE "inconclusive"

(* finalizeAssessment: one surface that fails fails the criterion, and one *)
(* without a verdict leaves it open.                                       *)
Assessment(verdicts) ==
    IF \E s \in SurfaceIds : verdicts[s] = "fail" THEN "fail"
    ELSE IF \E s \in SurfaceIds : verdicts[s] # "pass" THEN "inconclusive"
    ELSE "pass"

(* record_model_egress: the count of calls is the count of events, and     *)
(* every event holds together.  The slip does not count.                   *)
UncountedAudit(r) == r.sound

AuditAccepted(r) == r.sound /\ r.calls = r.events

WithEgress(p, r) == [p EXCEPT !.calls = r.calls, !.egress = @ + r.events]

(* agentic_promoted_status.  The request asks for no precision gate, so no *)
(* FAIL has passed one.                                                    *)
Promotes(verdict) == verdict = "pass"

Promoted(p, r) ==
    LET settled == {c \in Asked(p) : Promotes(r.verdicts[c])}
    IN  [WithEgress(p, r) EXCEPT
            !.verdicts = [c \in Criteria |-> IF c \in settled THEN r.verdicts[c]
                                                              ELSE @[c]],
            !.agentic  = @ \cup settled]

----------------------------------------------------------------------------

Unit == [batch : 1 .. Len(Batches) + 1, surface : DOMAIN Surfaces]

FirstFetch == [tries |-> 0, spent |-> 0, again |-> FALSE]

TypeOK ==
    /\ file \in Packet \cup {Torn}
    /\ before \in Packet
    /\ at \in {"start", "wait", "write", "fill", "write_error", "fill_error",
               "done", "failed", "crashed"}
    /\ mem \in Packet
    /\ worker \in {"none", "capture", "review", "replied", "exit_zero",
                   "exit_nonzero", "killed"}
    /\ key \in BOOLEAN
    /\ unit \in Unit
    /\ fetch \in [tries : 0 .. 1, spent : 0 .. 2, again : BOOLEAN]
    /\ calls \in Nat /\ sent \in Nat /\ sound \in BOOLEAN
    /\ said \in [Criteria -> [SurfaceIds -> Verdict]]
    /\ reply \in Response \cup {Nothing}

Init ==
    /\ before \in [verdicts : [Criteria -> Statuses], agentic : {{}},
                   calls : {0}, egress : {0}]
    /\ file = before
    /\ at = "start"
    /\ mem = before
    /\ worker = "none"
    /\ key \in BOOLEAN
    /\ unit = [batch |-> 1, surface |-> 1]
    /\ fetch = FirstFetch
    /\ calls = 0 /\ sent = 0 /\ sound = TRUE
    /\ said = [c \in Criteria |-> [s \in SurfaceIds |-> "inconclusive"]]
    /\ reply = Nothing

----------------------------------------------------------------------------
(* run_agentic_review *)

(* Nothing to ask, a model policy that does not allow the route, or a      *)
(* gateway that does not spawn: the packet stays.                          *)
Start ==
    /\ at = "start"
    /\ IF Asked(file) = {}
       THEN at' = "done" /\ UNCHANGED worker
       ELSE \/ at' = "wait" /\ worker' = "capture"
            \/ at' = "failed" /\ UNCHANGED worker
    /\ UNCHANGED <<file, before, mem, key, unit, fetch, ledger, said, reply>>

Timeout ==
    /\ at = "wait"
    /\ worker' = "killed"
    /\ at' = "failed"
    /\ UNCHANGED <<file, before, mem, key, unit, fetch, ledger, said, reply>>

(* The wait, or collecting the output, fails: the review is over and the   *)
(* gateway, if it still runs, is left running.                             *)
WaitFails ==
    /\ at = "wait"
    /\ at' = "failed"
    /\ UNCHANGED <<file, before, mem, worker, key, unit, fetch, ledger, said, reply>>

Exited == worker \in {"exit_zero", "exit_nonzero"}

(* The response is read once the gateway has left: its record of the calls *)
(* first, then its status and the gateway's, then its assessments.  An     *)
(* error that the gateway reported is written down with its calls; every   *)
(* other failure leaves evidence.json alone.                               *)
Ingest ==
    /\ at = "wait" /\ Exited
    /\ \/ /\ reply # Nothing => ~AuditAccepted(reply)
          /\ at' = "failed" /\ UNCHANGED mem
       \/ /\ reply # Nothing /\ AuditAccepted(reply)
          /\ reply.status = "error"
          /\ at' = "write_error" /\ mem' = WithEgress(mem, reply)
       \/ /\ reply # Nothing /\ AuditAccepted(reply)
          /\ reply.status = "ok" /\ worker = "exit_nonzero"
          /\ at' = "failed" /\ UNCHANGED mem
       \/ /\ reply # Nothing /\ AuditAccepted(reply)
          /\ reply.status = "ok" /\ worker = "exit_zero"
          /\ at' = "write" /\ mem' = Promoted(mem, reply)
    /\ UNCHANGED <<file, before, worker, key, unit, fetch, ledger, said, reply>>

(* write_json_pretty truncates evidence.json, then fills it.               *)
OpenPacket ==
    /\ \/ at = "write" /\ at' = "fill"
       \/ at = "write_error" /\ at' = "fill_error"
    /\ file' = Torn
    /\ UNCHANGED <<before, mem, worker, key, unit, fetch, ledger, said, reply>>

FillPacket ==
    /\ \/ at = "fill" /\ at' = "done"
       \/ at = "fill_error" /\ at' = "failed"
    /\ file' = mem
    /\ UNCHANGED <<before, mem, worker, key, unit, fetch, ledger, said, reply>>

Crash ==
    /\ at \notin {"done", "failed", "crashed"}
    /\ at' = "crashed"
    /\ UNCHANGED <<file, before, mem, worker, key, unit, fetch, ledger, said, reply>>

----------------------------------------------------------------------------
(* The gateway: captures, then one unit after the other *)

(* A capture that fails twice leaves the surface without media; it is      *)
(* reviewed like the others.                                               *)
Capture ==
    /\ worker = "capture"
    /\ worker' = "review"
    /\ UNCHANGED <<rust, key, unit, fetch, ledger, said, reply>>

Reviewing == worker = "review" /\ unit.batch <= Len(Batches)

Items == Batches[unit.batch] \cap Asked(mem)

(* The unit after this one.  A group without items is passed over whole.   *)
NextUnit ==
    /\ unit' = IF unit.surface < Len(Surfaces) /\ Items # {}
               THEN [unit EXCEPT !.surface = @ + 1]
               ELSE [batch |-> unit.batch + 1, surface |-> 1]
    /\ fetch' = FirstFetch

SkipGroup ==
    /\ Reviewing /\ Items = {}
    /\ NextUnit
    /\ UNCHANGED <<rust, worker, key, ledger, said, reply>>

(* No key, or the budget is spent: the criteria stay inconclusive.         *)
NotAsked ==
    /\ Reviewing /\ Items # {}
    /\ ~key \/ calls >= MaxCalls
    /\ NextUnit
    /\ UNCHANGED <<rust, worker, key, ledger, said, reply>>

(* The budget that run() hands to assessGroupWithReviewLoop, and that one  *)
(* hands to every fetch of the unit.                                       *)
Budget == MaxCalls - calls

MayTry == Reviewing /\ Items # {} /\ key /\ calls < MaxCalls

(* A slip: one attempt more.                                               *)
RetryPastTheLast == fetch.tries + 1 <= IF Budget < 2 THEN 1 ELSE 2

(* fetchModelJsonWithRetry: one retry, if the budget has room for it.      *)
RetryLeft == fetch.tries + 1 < IF Budget < 2 THEN 1 ELSE 2

Spent == fetch.spent + fetch.tries + 1

(* One HTTP attempt: its event is in the audit whatever comes back.        *)
Sends(complete) == sent' = sent + 1 /\ sound' = (sound /\ complete)

(* The unit ends with the error: nothing is recorded for its criteria.     *)
Throws(charge) ==
    /\ calls' = calls + charge
    /\ NextUnit
    /\ UNCHANGED said

(* A transport error, a status worth a retry, a body that is no JSON.      *)
TransientFailure ==
    /\ MayTry /\ Sends(TRUE)
    /\ IF RetryLeft
       THEN fetch' = [fetch EXCEPT !.tries = @ + 1] /\ UNCHANGED <<unit, calls, said>>
       ELSE Throws(Spent)
    /\ UNCHANGED <<rust, worker, key, reply>>

(* A status that is worth no retry.  The record of a redirect is one that  *)
(* Rust does not accept.                                                   *)
RefusedCall ==
    /\ MayTry /\ \E complete \in BOOLEAN : Sends(complete)
    /\ Throws(Spent)
    /\ UNCHANGED <<rust, worker, key, reply>>

(* JSON of another shape than the prompt asks for throws after the fetch   *)
(* has returned: the error carries no count of this fetch's calls.         *)
GarbledAnswer ==
    /\ MayTry /\ \E complete \in BOOLEAN : Sends(complete)
    /\ Throws(fetch.spent)
    /\ UNCHANGED <<rust, worker, key, reply>>

(* A picture that cannot be read throws before anything is sent.           *)
MediaUnreadable ==
    /\ MayTry /\ fetch.tries = 0
    /\ Throws(fetch.spent)
    /\ UNCHANGED <<rust, worker, key, sent, sound, reply>>

(* Whether a request to look again is granted.  The slip does not ask for  *)
(* the budget.                                                             *)
MayLookAgainAnyway == ~fetch.again

MayLookAgain == ~fetch.again /\ Spent < Budget

(* The model wants to look again and the action's screenshot is taken.     *)
LookAgain ==
    /\ MayTry /\ MayLookAgain
    /\ \E complete \in BOOLEAN : Sends(complete)
    /\ fetch' = [tries |-> 0, spent |-> Spent, again |-> TRUE]
    /\ UNCHANGED <<rust, worker, key, unit, calls, said, reply>>

(* The answer that stands: the last one, for what it has a verdict on.     *)
Answer ==
    /\ MayTry
    /\ \E complete \in BOOLEAN, verdicts \in [Items -> Verdict] :
          /\ Sends(complete)
          /\ said' = [c \in Criteria |->
                IF c \in Items
                THEN [said[c] EXCEPT ![Surfaces[unit.surface]] = verdicts[c]]
                ELSE said[c]]
    /\ calls' = calls + Spent
    /\ NextUnit
    /\ UNCHANGED <<rust, worker, key, reply>>

ResponseOf(status) ==
    [status |-> status, calls |-> calls, events |-> sent, sound |-> sound,
     verdicts |-> [c \in Criteria |->
        IF status = "ok" THEN Assessment(said[c]) ELSE "inconclusive"]]

Reply ==
    /\ worker = "review" /\ unit.batch > Len(Batches)
    /\ reply' = ResponseOf("ok")
    /\ worker' = "replied"
    /\ UNCHANGED <<rust, key, unit, fetch, ledger, said>>

(* A verdict that is no word: recording it throws, in mid-review and past  *)
(* the handler of the unit, when its calls are already charged.            *)
UnreadableVerdict ==
    /\ MayTry
    /\ \E complete \in BOOLEAN : Sends(complete)
    /\ calls' = calls + Spent
    /\ fetch' = FirstFetch
    /\ UNCHANGED <<rust, key, unit, said>>
    /\ reply' = ResponseOf("error")'
    /\ worker' = "replied"

(* The browser that does not start, or does not close.                     *)
ReplyError ==
    /\ worker = "capture" \/ (worker = "review" /\ unit.batch > Len(Batches))
    /\ reply' = ResponseOf("error")
    /\ worker' = "replied"
    /\ UNCHANGED <<rust, key, unit, fetch, ledger, said>>

(* An error is exit code 1; a crash or a signal leaves any status but 0.   *)
GatewayExits ==
    /\ \/ worker = "replied" /\ reply.status = "ok" /\ worker' = "exit_zero"
       \/ worker \in {"capture", "review", "replied"} /\ worker' = "exit_nonzero"
    /\ UNCHANGED <<rust, key, unit, fetch, ledger, said, reply>>

----------------------------------------------------------------------------

Next ==
    \/ Start \/ Timeout \/ WaitFails \/ Ingest \/ OpenPacket \/ FillPacket \/ Crash
    \/ Capture \/ SkipGroup \/ NotAsked
    \/ MediaUnreadable \/ TransientFailure \/ RefusedCall \/ GarbledAnswer
    \/ LookAgain \/ Answer \/ UnreadableVerdict
    \/ Reply \/ ReplyError \/ GatewayExits

Spec == Init /\ [][Next]_vars

----------------------------------------------------------------------------
(* Properties *)

(* A verdict the review changed was needs_review, is pass now, and rests   *)
(* on an explicit pass of every reviewed surface: a budget that ran out,   *)
(* a failed call or a failing surface leaves the criterion open.  A review *)
(* that fails (a timeout, a crash of the gateway, a rejected response, an  *)
(* error it reported at any point) moves none, however far it had come.    *)
PromotionIsEarned ==
    /\ at = "failed" => file # Torn /\ file.verdicts = before.verdicts
    /\ file # Torn =>
          \A c \in Criteria : file.verdicts[c] # before.verdicts[c] =>
              /\ before.verdicts[c] = "needs_review"
              /\ file.verdicts[c] = "pass"
              /\ c \in file.agentic
              /\ \A s \in SurfaceIds : said[c][s] = "pass"

(* A packet that took a verdict from the model holds one egress event for  *)
(* every HTTP attempt that was made, and counts them all as calls.         *)
PromotionIsAudited ==
    file # Torn /\ file.agentic # {} => file.egress = sent /\ file.calls = sent

(* The calls charged to the budget exceed it by at most the one retry of   *)
(* the fetch that was begun within it.                                     *)
ChargesWithinOneRetry == calls <= MaxCalls + 1
=============================================================================
