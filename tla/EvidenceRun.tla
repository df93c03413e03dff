------------------------------ MODULE EvidenceRun ------------------------------
(***************************************************************************)
(* One `allie run`: the Rust process (run_v0 in src/src/lib.rs, the worker *)
(* adapter in src/src/worker.rs) and the browser worker it spawns          *)
(* (src/workers/browser/run.mjs).  The adapter waits for the worker under  *)
(* a timeout, kills it, reads what it wrote, turns the response into one   *)
(* evidence packet and publishes the packet in its output directory.       *)
(*                                                                         *)
(* The two processes are interleaved; either may die at any point and the  *)
(* timer may expire at any point of the wait.  A response is whole or not  *)
(* there: the worker writes it once, after its last state.                 *)
(***************************************************************************)
EXTENDS Naturals, FiniteSets

CONSTANTS
    States,        \* the manifest's flow states
    Criteria,      \* the success criteria of the wcag22-aa profile
    Kind,          \* how criterion_feature_verdict decides each of them
    Observations,  \* what a page may show the worker
    Nothing        \* no observation, no answer, no packet

Kinds == {"axe", "media", "language", "target", "judged"}

(* One page as inspectState reports it: the criteria its axe violations    *)
(* map to, whether it recorded a state error, whether the page has the     *)
(* media and the lang attribute the applicability checks look for, whether *)
(* the mobile audit ran, and whether the trusted axe rule passed there.    *)
Observation == [violates : SUBSET Criteria, errs : BOOLEAN, media : BOOLEAN,
                lang : BOOLEAN, mobile : BOOLEAN, target : BOOLEAN]

ASSUME CriteriaAssumption ==
    /\ Kind \in [Criteria -> Kinds]
    /\ Observations \subseteq Observation
    /\ \A o \in Observations : ~o.mobile => o.errs /\ ~o.target
    /\ Nothing \notin Observation

VARIABLES
    audit,     \* the states whose manifest entry asks for axe
    at,        \* where the Rust process is
    worker,    \* where the worker is
    capture,   \* the states the worker has inspected, and what it saw
    answer,    \* worker-response.json
    failures,  \* run_failures
    reply,     \* the response the packet is built from
    packet,    \* the packet in memory
    evidence,  \* evidence.json: absent, half written, or the whole packet
    dir        \* the phase of the output directory's manifest

vars == <<audit, at, worker, capture, answer, failures, reply, packet,
          evidence, dir>>

----------------------------------------------------------------------------
(* Responses *)

Captures == [States -> Observation \cup {Nothing}]

NoCapture == [s \in States |-> Nothing]

(* WorkerResponse, without the nondeterminism list, which no worker fills. *)
Response == [status : {"passed", "failed", "error"}, pages : Captures]

(* WorkerResponse::error: one error and no states.                         *)
ErrorResponse == [status |-> "error", pages |-> NoCapture]

Captured(pages) == {s \in States : pages[s] # Nothing}

(* What runWorker returns after its last state.                            *)
WorkerResponse(pages) ==
    [status |-> IF \E s \in Captured(pages) :
                     pages[s].violates # {} \/ pages[s].errs
                THEN "failed" ELSE "passed",
     pages |-> pages]

(* response_contract_failures: a state of the flow that was not captured.  *)
(* The worker's paths follow the manifest's flags, so a captured state has *)
(* the files that are required of it.                                      *)
ContractFailures(pages) == States \ Captured(pages)

ExitClasses == {"success", "blocking", "infrastructure"}

(* A slip: the exit class is taken from the findings of the states.        *)
ExitClassOfStates(response, kinds) ==
    IF \E s \in Captured(response.pages) :
          response.pages[s].violates # {} \/ response.pages[s].errs
    THEN "blocking" ELSE "success"

(* exit_class_for_response                                                 *)
ExitClass(response, kinds) ==
    IF response.status = "error" \/ kinds # {} THEN "infrastructure"
    ELSE IF response.status = "failed" \/ ContractFailures(response.pages) # {}
    THEN "blocking"
    ELSE "success"

ModelPolicyKinds == {"model-policy-incomplete", "model-policy-not-allowed"}

FailureKinds == ModelPolicyKinds \cup
    {"missing-credential", "worker-missing", "worker-spawn-failed",
     "worker-wait-failed", "worker-timeout", "worker-output-failed",
     "worker-crash"}

FailureClasses == FailureKinds \cup
    {"worker-error", "required-evidence-missing", "blocking-finding", "none"}

(* Only the preflight finds more than one: credentials come first.         *)
FirstFailure(kinds) ==
    IF "missing-credential" \in kinds THEN "missing-credential"
    ELSE CHOOSE kind \in kinds : TRUE

(* A slip: a response that failed as a whole has no class of its own.      *)
FailureClassOfStates(response, kinds) ==
    IF kinds # {} THEN FirstFailure(kinds)
    ELSE IF ExitClass(response, kinds) = "infrastructure"
    THEN "infrastructure-failure"
    ELSE "none"

(* failure_class_for: the first run failure names the packet.              *)
FailureClass(response, kinds) ==
    IF kinds # {} THEN FirstFailure(kinds)
    ELSE IF response.status = "error" THEN "worker-error"
    ELSE IF ContractFailures(response.pages) # {} THEN "required-evidence-missing"
    ELSE IF ExitClass(response, kinds) = "blocking" THEN "blocking-finding"
    ELSE "none"

----------------------------------------------------------------------------
(* Verdicts (verdicts_from_findings, profile wcag22-aa) *)

VerdictStatuses == {"pass", "fail", "not_applicable", "needs_review"}

FoundAgainst(pages) == UNION {pages[s].violates : s \in Captured(pages)}

(* aggregate_features: over no state at all, nothing is there.             *)
HasMedia(pages)    == \E s \in Captured(pages) : pages[s].media
HasLanguage(pages) == /\ Captured(pages) # {}
                      /\ \A s \in Captured(pages) : pages[s].lang

(* axe_pass::verdict: the trusted rule passed on an audited page.          *)
AxePassed(pages, c) ==
    Kind[c] = "target" /\ \E s \in Captured(pages) : pages[s].target

(* criterion_feature_verdict                                               *)
FeatureVerdict(pages, c) ==
    CASE Kind[c] = "media"    -> IF HasMedia(pages) THEN "needs_review"
                                                    ELSE "not_applicable"
      [] Kind[c] = "language" -> IF HasLanguage(pages) THEN "pass" ELSE "fail"
      [] Kind[c] = "axe"      -> "pass"
      [] OTHER                -> "needs_review"

Verdicts(pages) ==
    [c \in Criteria |->
        IF c \in FoundAgainst(pages) THEN "fail"
        ELSE IF AxePassed(pages, c) THEN "pass"
        ELSE FeatureVerdict(pages, c)]

Packet == [exit : ExitClasses,
           class : FailureClasses,
           captured : SUBSET States,
           verdicts : [Criteria -> VerdictStatuses]]

(* No response and no packet is none of them.                              *)
ASSUME NothingAssumption == Nothing \notin Response /\ Nothing \notin Packet

PacketOf(response, kinds) ==
    [exit     |-> ExitClass(response, kinds),
     class    |-> FailureClass(response, kinds),
     captured |-> Captured(response.pages),
     verdicts |-> Verdicts(response.pages)]

----------------------------------------------------------------------------

TypeOK ==
    /\ audit \subseteq States
    /\ at \in {"start", "preflight", "spawn", "wait", "read", "assemble",
               "report", "evidence", "writing", "finalize", "done", "failed",
               "crashed"}
    /\ worker \in {"none", "running", "writing", "exit_zero", "exit_nonzero",
                   "killed"}
    /\ capture \in Captures
    /\ answer \in Response \cup {Nothing}
    /\ failures \subseteq FailureKinds
    /\ reply \in Response
    /\ packet \in Packet \cup {Nothing}
    /\ evidence \in {"absent", "torn", "whole"}
    /\ dir \in {"unclaimed", "in_progress", "complete"}

Init ==
    /\ audit \in SUBSET States
    /\ at = "start"
    /\ worker = "none"
    /\ capture = NoCapture
    /\ answer = Nothing
    /\ failures = {}
    /\ reply = ErrorResponse
    /\ packet = Nothing
    /\ evidence = "absent"
    /\ dir = "unclaimed"

----------------------------------------------------------------------------
(* run_v0 and worker::execute *)

(* prepare_out_dir, or an error before it: nothing is claimed.             *)
Prepare ==
    /\ at = "start"
    /\ \/ at' = "preflight" /\ dir' = "in_progress"
       \/ at' = "failed" /\ UNCHANGED dir
    /\ UNCHANGED <<audit, worker, capture, answer, failures, reply, packet, evidence>>

(* preflight_failures, of credentials and of the model policy, at most one *)
(* of the latter: with any, no worker is spawned.                          *)
Preflight ==
    /\ at = "preflight"
    /\ \E credential \in {{}, {"missing-credential"}},
          policy \in {{}} \cup {{kind} : kind \in ModelPolicyKinds} :
             failures' = credential \cup policy
    /\ at' = IF failures' = {} THEN "spawn" ELSE "assemble"
    /\ UNCHANGED <<audit, worker, capture, answer, reply, packet, evidence, dir>>

Spawn ==
    /\ at = "spawn"
    /\ \/ at' = "wait" /\ worker' = "running" /\ UNCHANGED failures
       \/ /\ \E kind \in {"worker-missing", "worker-spawn-failed"} :
                failures' = failures \cup {kind}
          /\ at' = "assemble" /\ UNCHANGED worker
    /\ UNCHANGED <<audit, capture, answer, reply, packet, evidence, dir>>

(* wait_timeout sees the worker's exit; of one that failed, the output is  *)
(* collected for the message, which may fail as well ...                   *)
WaitEnds ==
    /\ at = "wait"
    /\ \/ worker = "exit_zero" /\ at' = "read" /\ UNCHANGED failures
       \/ /\ worker = "exit_nonzero" /\ at' = "assemble"
          /\ \E kind \in {"worker-crash", "worker-output-failed"} :
                failures' = failures \cup {kind}
    /\ UNCHANGED <<audit, worker, capture, answer, reply, packet, evidence, dir>>

(* A slip: a response that is there is good enough after the timeout.      *)
TimeoutReadsAnswer ==
    /\ at = "wait"
    /\ worker' = "killed"
    /\ IF answer # Nothing
       THEN at' = "read" /\ UNCHANGED failures
       ELSE at' = "assemble" /\ failures' = failures \cup {"worker-timeout"}
    /\ UNCHANGED <<audit, capture, answer, reply, packet, evidence, dir>>

(* A slip: the timer only counts while nothing has been written.           *)
TimeoutBeforeInspection ==
    /\ at = "wait" /\ Captured(capture) = {}
    /\ worker' = "killed"
    /\ failures' = failures \cup {"worker-timeout"}
    /\ at' = "assemble"
    /\ UNCHANGED <<audit, capture, answer, reply, packet, evidence, dir>>

(* ... or the wait itself fails, whatever the worker is doing: nothing is  *)
(* read and nobody kills the worker, which goes on in the same directory   *)
(* ...                                                                     *)
WaitFails ==
    /\ at = "wait"
    /\ failures' = failures \cup {"worker-wait-failed"}
    /\ at' = "assemble"
    /\ UNCHANGED <<audit, worker, capture, answer, reply, packet, evidence, dir>>

(* ... or its timer expires first: the worker is killed, whatever it has   *)
(* reached by then, and what it wrote is not read.                         *)
Timeout ==
    /\ at = "wait"
    /\ worker' = "killed"
    /\ failures' = failures \cup {"worker-timeout"}
    /\ at' = "assemble"
    /\ UNCHANGED <<audit, capture, answer, reply, packet, evidence, dir>>

(* read_worker_response: no response, or no JSON, is an error response.    *)
ReadResponse ==
    /\ at = "read"
    /\ reply' = IF answer = Nothing THEN ErrorResponse ELSE answer
    /\ at' = "assemble"
    /\ UNCHANGED <<audit, worker, capture, answer, failures, packet, evidence, dir>>

----------------------------------------------------------------------------
(* write_packet_and_report *)

(* An artifact that cannot be hashed ends the run with an error.           *)
Assemble ==
    /\ at = "assemble"
    /\ \/ at' = "report" /\ packet' = PacketOf(reply, failures)
       \/ at' = "failed" /\ Captured(reply.pages) # {} /\ UNCHANGED packet
    /\ UNCHANGED <<audit, worker, capture, answer, failures, reply, evidence, dir>>

WriteReport ==
    /\ at = "report"
    /\ at' = "evidence"
    /\ UNCHANGED <<audit, worker, capture, answer, failures, reply, packet, evidence, dir>>

(* fs::write is not atomic.                                                *)
OpenEvidence ==
    /\ at = "evidence"
    /\ evidence' = "torn"
    /\ at' = "writing"
    /\ UNCHANGED <<audit, worker, capture, answer, failures, reply, packet, dir>>

FillEvidence ==
    /\ at = "writing"
    /\ evidence' = "whole"
    /\ at' = "finalize"
    /\ UNCHANGED <<audit, worker, capture, answer, failures, reply, packet, dir>>

(* A slip: the directory is finalized before its last file is written.     *)
FinalizeEarly ==
    /\ at \in {"evidence", "finalize"}
    /\ dir' = "complete"
    /\ at' = IF at = "evidence" THEN at ELSE "done"
    /\ UNCHANGED <<audit, worker, capture, answer, failures, reply, packet, evidence>>

Finalize ==
    /\ at = "finalize"
    /\ dir' = "complete"
    /\ at' = "done"
    /\ UNCHANGED <<audit, worker, capture, answer, failures, reply, packet, evidence>>

Crash ==
    /\ at \notin {"done", "failed", "crashed"}
    /\ at' = "crashed"
    /\ UNCHANGED <<audit, worker, capture, answer, failures, reply, packet, evidence, dir>>

----------------------------------------------------------------------------
(* The worker.  It outlives a crash of the Rust process. *)

(* What inspectState sees of a page: without axe it sees no violation and  *)
(* no pass.                                                                *)
Seen(s, o) ==
    IF s \in audit THEN o ELSE [o EXCEPT !.violates = {}, !.target = FALSE]

InspectState(s) ==
    /\ worker = "running"
    /\ capture[s] = Nothing
    /\ \E o \in Observations : capture' = [capture EXCEPT ![s] = Seen(s, o)]
    /\ UNCHANGED <<audit, at, worker, answer, failures, reply, packet, evidence, dir>>

(* runWorker returns: its states, or an error (a page that does not load,  *)
(* a login that fails) and none of them.                                   *)
Returns(response) ==
    \/ Captured(capture) = States /\ response = WorkerResponse(capture)
    \/ response = ErrorResponse

Respond ==
    /\ worker = "running"
    /\ \E response \in {WorkerResponse(capture), ErrorResponse} :
          Returns(response) /\ answer' = response
    /\ worker' = "writing"
    /\ UNCHANGED <<audit, at, capture, failures, reply, packet, evidence, dir>>

(* Node leaves with 0 after the write, or with nothing left to wait for;   *)
(* an exception, a signal or a full disk is another status.                *)
WorkerExits ==
    /\ \/ worker = "writing" /\ worker' = "exit_zero" /\ UNCHANGED answer
       \/ worker = "running" /\ worker' = "exit_zero" /\ UNCHANGED answer
       \/ worker = "running" /\ worker' = "exit_nonzero" /\ UNCHANGED answer
       \/ worker = "writing" /\ worker' = "exit_nonzero" /\ answer' = Nothing
    /\ UNCHANGED <<audit, at, capture, failures, reply, packet, evidence, dir>>

----------------------------------------------------------------------------

Adapter ==
    \/ Prepare \/ Preflight \/ Spawn \/ WaitEnds \/ Timeout \/ ReadResponse
    \/ Assemble \/ WriteReport \/ OpenEvidence \/ FillEvidence \/ Finalize

BrowserWorker ==
    \/ \E s \in States : InspectState(s)
    \/ Respond
    \/ WorkerExits

Next == Adapter \/ WaitFails \/ Crash \/ BrowserWorker

Spec == Init /\ [][Next]_vars

(* The Rust process runs and its timer expires; nothing is assumed of the  *)
(* worker, which may hang, nor of a wait that fails.                       *)
FairSpec == Spec /\ WF_vars(Adapter)

----------------------------------------------------------------------------
(* Properties *)

(* What a packet claims stands on the pages of this run.  If it exits 0,  *)
(* every state of the flow was inspected, and no page showed a violation   *)
(* or a state error; and a criterion with a finding against it on any page *)
(* is failed, never passed or set aside for what another page showed.      *)
PagesDecide ==
    packet # Nothing =>
        /\ packet.exit = "success" =>
              /\ packet.captured = States
              /\ \A s \in States : capture[s].violates = {} /\ ~capture[s].errs
        /\ \A s \in packet.captured, c \in Criteria :
              c \in capture[s].violates => packet.verdicts[c] = "fail"

(* The failures a packet may name beside a worker that did not simply      *)
(* leave: one that is still at work, or leaves later, was not waited for.  *)
NamedFor(w) ==
    CASE w = "killed"       -> {"worker-timeout"}
      [] w = "exit_nonzero" -> {"worker-crash", "worker-output-failed",
                                "worker-wait-failed"}
      [] OTHER              -> {"worker-wait-failed"}

(* A worker that was killed, that failed, or that the adapter could not    *)
(* wait for and left running never contributes a page, however far it had  *)
(* got and whatever it still writes: a late answer is not read, and the    *)
(* packet names the failure.                                               *)
LateAnswerIsNotUsed ==
    packet # Nothing /\ (\/ worker \notin {"none", "exit_zero"}
                        \/ packet.class = "worker-wait-failed") =>
        /\ packet.captured = {}
        /\ packet.exit = "infrastructure"
        /\ packet.class \in NamedFor(worker)

(* The directory is complete only with the whole packet of this run in it, *)
(* wherever the process is stopped.                                        *)
CompleteIsPublished ==
    dir = "complete" => packet # Nothing /\ evidence = "whole"

(* A run ends, even when the worker hangs.                                 *)
RunEnds == (at # "start") ~> (at \in {"done", "failed", "crashed"})

(* What VISION.md says of unavailable evidence: never a fabricated pass.   *)
(* An axe criterion without a finding is passed even when no page was ever *)
(* inspected, so a run whose worker timed out passes all of them.          *)
NoFabricatedPass ==
    packet # Nothing /\ packet.captured = {} =>
        \A c \in Criteria : packet.verdicts[c] # "pass"
=============================================================================
