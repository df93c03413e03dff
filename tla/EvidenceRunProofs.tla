--------------------------- MODULE EvidenceRunProofs ---------------------------
(***************************************************************************)
(* Theorems about one evidence run, for any flow, criteria and pages: the  *)
(* types, that the packet stands on the pages of the run, that a killed or *)
(* failed worker contributes none, and that a complete directory holds the *)
(* whole packet.                                                           *)
(***************************************************************************)
EXTENDS EvidenceRun, TLAPS

----------------------------------------------------------------------------
(* Types of what the packet is computed with *)

LEMMA ErrorType == ErrorResponse \in Response
BY DEF ErrorResponse, Response, NoCapture, Captures

LEMMA WorkerResponseType ==
    ASSUME NEW pages \in Captures PROVE WorkerResponse(pages) \in Response
BY DEF WorkerResponse, Response

LEMMA ExitClassType ==
    ASSUME NEW response, NEW kinds PROVE ExitClass(response, kinds) \in ExitClasses
BY DEF ExitClass, ExitClasses

LEMMA FailureClassType ==
    ASSUME NEW response, NEW kinds \in SUBSET FailureKinds
    PROVE  FailureClass(response, kinds) \in FailureClasses
<1>1. ASSUME kinds # {} PROVE FirstFailure(kinds) \in kinds
  BY <1>1 DEF FirstFailure
<1> QED  BY <1>1 DEF FailureClass, FailureClasses

LEMMA VerdictType ==
    ASSUME NEW pages, NEW c \in Criteria PROVE FeatureVerdict(pages, c) \in VerdictStatuses
<1>1. Kind[c] \in Kinds
  BY CriteriaAssumption
<1> QED  BY <1>1 DEF FeatureVerdict, VerdictStatuses, Kinds

LEMMA PacketType ==
    ASSUME NEW response \in Response, NEW kinds \in SUBSET FailureKinds
    PROVE  PacketOf(response, kinds) \in Packet
<1>1. Verdicts(response.pages) \in [Criteria -> VerdictStatuses]
  BY VerdictType DEF Verdicts, VerdictStatuses
<1>2. Captured(response.pages) \in SUBSET States
  BY DEF Captured
<1> QED  BY <1>1, <1>2, ExitClassType, FailureClassType DEF PacketOf, Packet

LEMMA SeenType ==
    ASSUME NEW s \in States, NEW o \in Observations PROVE Seen(s, o) \in Observation
BY CriteriaAssumption DEF Seen, Observation

----------------------------------------------------------------------------
(* Types *)

LEMMA InitType == Init => TypeOK
BY ErrorType DEF Init, TypeOK, NoCapture, Captures

LEMMA NextType == TypeOK /\ [Next]_vars => TypeOK'
<1> SUFFICES ASSUME TypeOK, [Next]_vars PROVE TypeOK'
  OBVIOUS
<1>1. CASE Prepare
  BY <1>1 DEF Prepare, TypeOK
<1>2. CASE Preflight
  BY <1>2 DEF Preflight, TypeOK, FailureKinds, ModelPolicyKinds
<1>3. CASE Spawn
  BY <1>3 DEF Spawn, TypeOK, FailureKinds
<1>4. CASE WaitEnds
  BY <1>4 DEF WaitEnds, TypeOK, FailureKinds
<1>5. CASE Timeout
  BY <1>5 DEF Timeout, TypeOK, FailureKinds
<1>6. CASE ReadResponse
  BY <1>6, ErrorType DEF ReadResponse, TypeOK
<1>7. CASE Assemble
  BY <1>7, PacketType DEF Assemble, TypeOK
<1>8. CASE WriteReport \/ OpenEvidence \/ FillEvidence \/ Finalize \/ Crash
  BY <1>8 DEF WriteReport, OpenEvidence, FillEvidence, Finalize, Crash, TypeOK
<1>9. CASE WaitFails
  BY <1>9 DEF WaitFails, TypeOK, FailureKinds
<1>10. ASSUME NEW s \in States, InspectState(s) PROVE TypeOK'
  BY <1>10, SeenType DEF InspectState, TypeOK, Captures
<1>11. CASE Respond
  BY <1>11, ErrorType, WorkerResponseType DEF Respond, TypeOK
<1>12. CASE WorkerExits
  BY <1>12 DEF WorkerExits, TypeOK
<1>13. CASE UNCHANGED vars
  BY <1>13 DEF vars, TypeOK
<1> QED  BY <1>1, <1>2, <1>3, <1>4, <1>5, <1>6, <1>7, <1>8, <1>9, <1>10, <1>11, <1>12,
            <1>13
         DEF Next, Adapter, BrowserWorker

(* The variables keep their types.                                         *)
THEOREM TypeCorrect == Spec => []TypeOK
BY InitType, NextType, PTL DEF Spec

----------------------------------------------------------------------------
(* The inductive invariant *)

(* A response is the error response, or the worker's over all the states.  *)
(* Either way no later step of the worker changes what it says.            *)
FromPages(response) ==
    response = ErrorResponse
    \/ (Captured(capture) = States /\ response = WorkerResponse(capture))

(* The worker's answer and the reply that the packet is built from stand   *)
(* on the captured pages; a reply next to a failure is the error.          *)
RepliesStand ==
    /\ answer # Nothing => FromPages(answer)
    /\ FromPages(reply)
    /\ failures # {} => reply = ErrorResponse
    /\ at \in {"start", "preflight", "spawn", "wait", "read"} =>
          failures = {} /\ reply = ErrorResponse

(* Past the wait either the wait itself failed, and the worker may do what *)
(* it likes, or the worker is over and how it ended is on record.          *)
Settled ==
    \/ worker # "killed" /\ failures = {"worker-wait-failed"}
    \/ worker \in {"none", "exit_zero"} /\ "worker-wait-failed" \notin failures
    \/ worker = "killed" /\ failures = {"worker-timeout"}
    \/ /\ worker = "exit_nonzero"
       /\ failures \in {{"worker-crash"}, {"worker-output-failed"}}

Early == at \in {"start", "preflight", "spawn"}

WorkerIsOver ==
    /\ Early => worker = "none"
    /\ at = "wait" => worker # "killed"
    /\ at = "read" => worker = "exit_zero"
    /\ at \in {"assemble", "report", "evidence", "writing", "finalize", "done"}
          \/ packet # Nothing => Settled

(* The packet is the one of the reply, and there from its assembly on.     *)
PacketStands ==
    /\ at \in {"start", "preflight", "spawn", "wait", "read", "assemble"} =>
          packet = Nothing
    /\ at \in {"report", "evidence", "writing", "finalize", "done"} => packet # Nothing
    /\ packet # Nothing => packet = PacketOf(reply, failures)

Finalized ==
    /\ at \in {"finalize", "done"} => evidence = "whole"
    /\ dir = "complete" => at = "done"

IInv == RepliesStand /\ WorkerIsOver /\ PacketStands /\ Finalized

LEMMA InitHolds == Init => IInv
BY DEF Init, IInv, RepliesStand, FromPages, WorkerIsOver, Early, PacketStands, Finalized

(* The adapter changes no page.                                            *)
LEMMA AdapterHolds == TypeOK /\ IInv /\ (Adapter \/ WaitFails \/ Crash) => IInv'
<1> SUFFICES ASSUME TypeOK, IInv, Adapter \/ WaitFails \/ Crash PROVE IInv'
  OBVIOUS
<1>1. RepliesStand /\ WorkerIsOver /\ PacketStands /\ Finalized
  BY DEF IInv
<1> USE <1>1 DEF IInv, RepliesStand, FromPages, WorkerIsOver, Early, Settled,
                 PacketStands, Finalized
<1>2. CASE Prepare
  BY <1>2 DEF Prepare
<1>3. CASE Preflight
  BY <1>3 DEF Preflight, ModelPolicyKinds
<1>4. CASE Spawn
  BY <1>4 DEF Spawn
<1>5. CASE WaitEnds
  BY <1>5 DEF WaitEnds
<1>6. CASE Timeout
  BY <1>6 DEF Timeout
<1>7. CASE ReadResponse
  BY <1>7 DEF ReadResponse
<1>8. CASE Assemble
  <2>1. PacketOf(reply, failures) # Nothing
    BY PacketType, NothingAssumption DEF TypeOK
  <2> QED  BY <1>8, <2>1 DEF Assemble
<1>9. CASE WriteReport \/ OpenEvidence \/ FillEvidence \/ Finalize
  BY <1>9 DEF WriteReport, OpenEvidence, FillEvidence, Finalize
<1>10. CASE Crash
  BY <1>10 DEF Crash
<1>11. CASE WaitFails
  BY <1>11 DEF WaitFails
<1> QED  BY <1>2, <1>3, <1>4, <1>5, <1>6, <1>7, <1>8, <1>9, <1>10, <1>11 DEF Adapter

LEMMA WorkerHolds == TypeOK /\ IInv /\ BrowserWorker => IInv'
<1> SUFFICES ASSUME TypeOK, IInv, BrowserWorker PROVE IInv'
  OBVIOUS
<1>1. RepliesStand /\ WorkerIsOver /\ PacketStands /\ Finalized
  BY DEF IInv
<1>2. worker \in {"running", "writing"}
      /\ UNCHANGED <<audit, at, failures, reply, packet, evidence, dir>>
  BY DEF BrowserWorker, InspectState, Respond, WorkerExits
<1>3. worker' \in {"running", "writing", "exit_zero", "exit_nonzero"}
  BY <1>2 DEF BrowserWorker, InspectState, Respond, WorkerExits
<1>4. WorkerIsOver' /\ PacketStands' /\ Finalized'
  BY <1>1, <1>2, <1>3 DEF WorkerIsOver, Early, Settled, PacketStands, Finalized
<1>5. ASSUME NEW s \in States, InspectState(s) PROVE RepliesStand'
  <2>1. Captured(capture) # States /\ answer' = answer
    BY <1>5 DEF InspectState, Captured
  <2> QED  BY <1>1, <1>2, <2>1 DEF RepliesStand, FromPages
<1>6. ASSUME capture' = capture,
             answer' # Nothing => answer' = answer \/ Returns(answer')
      PROVE  RepliesStand'
  <2>1. Captured(capture') = Captured(capture)
        /\ WorkerResponse(capture') = WorkerResponse(capture)
    BY <1>6
  <2>2. answer' # Nothing =>
           answer' = ErrorResponse
           \/ (Captured(capture) = States /\ answer' = WorkerResponse(capture))
    BY <1>1, <1>6 DEF RepliesStand, FromPages, Returns
  <2> QED  BY <1>1, <1>2, <1>6, <2>1, <2>2 DEF RepliesStand, FromPages
<1>7. CASE Respond
  BY <1>4, <1>6, <1>7 DEF Respond, IInv
<1>8. CASE WorkerExits
  BY <1>4, <1>6, <1>8 DEF WorkerExits, IInv
<1> QED  BY <1>4, <1>5, <1>7, <1>8 DEF IInv, BrowserWorker

LEMMA NextHolds == TypeOK /\ IInv /\ [Next]_vars => IInv'
<1>1. TypeOK /\ IInv /\ UNCHANGED vars => IInv'
  BY DEF vars, IInv, RepliesStand, FromPages, WorkerIsOver, Early, Settled, PacketStands,
         Finalized
<1> QED  BY <1>1, AdapterHolds, WorkerHolds DEF Next

LEMMA Inductive == Spec => []IInv
BY TypeCorrect, InitHolds, NextHolds, PTL DEF Spec

----------------------------------------------------------------------------
(* The properties *)

LEMMA NothingCaptured == Captured(ErrorResponse.pages) = {}
BY DEF Captured, ErrorResponse, NoCapture

(* A packet that exits 0 stands on every state of the flow, without a      *)
(* violation or an error on any; and a finding on a captured page fails    *)
(* its criterion.                                                          *)
THEOREM PagesStand == Spec => []PagesDecide
<1>1. ASSUME IInv, packet # Nothing, packet.exit = "success"
      PROVE  /\ packet.captured = States
             /\ \A s \in States : capture[s].violates = {} /\ ~capture[s].errs
  <2>1. packet.exit = ExitClass(reply, failures) /\ packet.captured = Captured(reply.pages)
    BY <1>1 DEF IInv, PacketStands, PacketOf
  <2>2. /\ reply.status # "error" /\ reply.status # "failed"
        /\ ContractFailures(reply.pages) = {}
    BY <1>1, <2>1 DEF ExitClass
  <2>3. reply = WorkerResponse(capture) /\ Captured(capture) = States
    BY <1>1, <2>2 DEF IInv, RepliesStand, FromPages, ErrorResponse
  <2>4. reply.pages = capture
    BY <2>3 DEF WorkerResponse
  <2>5. \A s \in States : capture[s].violates = {} /\ ~capture[s].errs
    BY <2>2, <2>3 DEF WorkerResponse
  <2> QED  BY <2>1, <2>3, <2>4, <2>5
<1>2. ASSUME IInv, packet # Nothing,
             NEW s \in packet.captured, NEW c \in Criteria, c \in capture[s].violates
      PROVE  packet.verdicts[c] = "fail"
  <2>1. packet.verdicts = Verdicts(reply.pages) /\ packet.captured = Captured(reply.pages)
    BY <1>2 DEF IInv, PacketStands, PacketOf
  <2>2. reply = WorkerResponse(capture)
    BY <1>2, <2>1, NothingCaptured DEF IInv, RepliesStand, FromPages
  <2>3. c \in FoundAgainst(reply.pages)
    BY <1>2, <2>1, <2>2 DEF WorkerResponse, FoundAgainst
  <2> QED  BY <2>1, <2>3 DEF Verdicts
<1>3. IInv => PagesDecide
  BY <1>1, <1>2 DEF PagesDecide
<1> QED  BY Inductive, <1>3, PTL

(* A worker that was killed, that failed, or that was left running because *)
(* the wait failed contributes no page, and the packet names the failure.  *)
THEOREM LateAnswerIsLost == Spec => []LateAnswerIsNotUsed
<1>1. ASSUME IInv, packet # Nothing, NEW kind, failures = {kind}
      PROVE  /\ packet.captured = {} /\ packet.exit = "infrastructure"
             /\ packet.class = kind
  <2>1. packet = PacketOf(ErrorResponse, {kind})
    BY <1>1 DEF IInv, PacketStands, RepliesStand
  <2>2. packet.class = FirstFailure({kind}) /\ FirstFailure({kind}) = kind
    BY <2>1 DEF PacketOf, FailureClass, FirstFailure
  <2> QED  BY <2>1, <2>2, NothingCaptured DEF PacketOf, ExitClass
<1>2. ASSUME TypeOK, IInv, packet # Nothing PROVE LateAnswerIsNotUsed
  <2>1. Settled
    BY <1>2 DEF IInv, WorkerIsOver
  <2>2. CASE failures = {"worker-wait-failed"} /\ worker # "killed"
    BY <1>1, <1>2, <2>2 DEF LateAnswerIsNotUsed, NamedFor
  <2>3. CASE worker = "killed" /\ failures = {"worker-timeout"}
    BY <1>1, <1>2, <2>3 DEF LateAnswerIsNotUsed, NamedFor
  <2>4. CASE worker = "exit_nonzero"
             /\ failures \in {{"worker-crash"}, {"worker-output-failed"}}
    BY <1>1, <1>2, <2>4 DEF LateAnswerIsNotUsed, NamedFor
  <2>5. CASE worker \in {"none", "exit_zero"} /\ "worker-wait-failed" \notin failures
    <3>1. packet.class = FailureClass(reply, failures)
      BY <1>2 DEF IInv, PacketStands, PacketOf
    <3>2. failures # {} => FirstFailure(failures) \in failures
      BY DEF FirstFailure
    <3>3. packet.class # "worker-wait-failed"
      BY <2>5, <3>1, <3>2 DEF FailureClass
    <3> QED  BY <2>5, <3>3 DEF LateAnswerIsNotUsed
  <2> QED  BY <2>1, <2>2, <2>3, <2>4, <2>5 DEF Settled
<1>3. TypeOK /\ IInv => LateAnswerIsNotUsed
  BY <1>2 DEF LateAnswerIsNotUsed
<1> QED  BY TypeCorrect, Inductive, <1>3, PTL

(* The directory is complete only with the whole packet of this run in it. *)
THEOREM CompleteHasPacket == Spec => []CompleteIsPublished
<1>1. IInv => CompleteIsPublished
  BY DEF IInv, PacketStands, Finalized, CompleteIsPublished
<1> QED  BY Inductive, <1>1, PTL
=============================================================================
