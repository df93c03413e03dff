-------------------------- MODULE AgenticReviewProofs --------------------------
(***************************************************************************)
(* Theorems about one agentic review, for any surfaces, groups of criteria *)
(* and budget: the types, that a promoted verdict is earned and audited,   *)
(* and that the charged calls stay within one retry of the budget.         *)
(***************************************************************************)
EXTENDS AgenticReview, TLAPS

----------------------------------------------------------------------------
(* Operators *)

LEMMA FirstIsUnit == [batch |-> 1, surface |-> 1] \in Unit
BY ReviewAssumption, SequenceAssumption DEF Unit

(* A review of some unit moves on to a unit, or past the last.             *)
LEMMA NextIsUnit ==
    ASSUME TypeOK, unit.batch <= Len(Batches), NextUnit
    PROVE  unit' \in Unit /\ fetch' = FirstFetch
<1>1. DOMAIN Surfaces = 1 .. Len(Surfaces) /\ Len(Surfaces) \in Nat /\ Len(Batches) \in Nat
  BY SequenceAssumption
<1>2. Len(Surfaces) # 0
  BY ReviewAssumption, SequenceAssumption
<1>3. unit \in [batch : 1 .. Len(Batches) + 1, surface : 1 .. Len(Surfaces)]
      /\ Unit = [batch : 1 .. Len(Batches) + 1, surface : 1 .. Len(Surfaces)]
  BY <1>1 DEF TypeOK, Unit
<1> QED  BY <1>1, <1>2, <1>3 DEF NextUnit

LEMMA AskedType == ASSUME NEW p \in Packet PROVE Asked(p) \subseteq Criteria
BY DEF Asked

LEMMA WithEgressType ==
    ASSUME NEW p \in Packet, NEW r \in Response
    PROVE  /\ WithEgress(p, r) \in Packet
           /\ WithEgress(p, r).verdicts = p.verdicts
           /\ WithEgress(p, r).agentic = p.agentic
           /\ WithEgress(p, r).calls = r.calls
           /\ WithEgress(p, r).egress = p.egress + r.events
<1> DEFINE events == p.egress + r.events
<1>1. p.egress \in Nat /\ r.calls \in Nat /\ events \in Nat
  BY DEF Packet, Response
<1>2. WithEgress(p, r) = [p EXCEPT !.calls = r.calls, !.egress = events]
  BY DEF WithEgress, Packet
<1> HIDE DEF events
<1>3. /\ WithEgress(p, r).verdicts = p.verdicts /\ WithEgress(p, r).agentic = p.agentic
      /\ WithEgress(p, r).calls = r.calls /\ WithEgress(p, r).egress = events
  BY <1>2 DEF Packet
<1>4. WithEgress(p, r) \in Packet
  BY <1>1, <1>2 DEF Packet
<1> QED  BY <1>3, <1>4 DEF events

(* What a promotion does to a packet.                                      *)
LEMMA PromotedType ==
    ASSUME NEW p \in Packet, NEW r \in Response
    PROVE  /\ Promoted(p, r) \in Packet
           /\ Promoted(p, r).calls = r.calls
           /\ Promoted(p, r).egress = p.egress + r.events
           /\ \A c \in Criteria : Promoted(p, r).verdicts[c] # p.verdicts[c] =>
                 /\ c \in Asked(p) /\ r.verdicts[c] = "pass"
                 /\ Promoted(p, r).verdicts[c] = "pass"
                 /\ c \in Promoted(p, r).agentic
<1> DEFINE settled == {c \in Asked(p) : Promotes(r.verdicts[c])}
           w == WithEgress(p, r)
           verdicts == [c \in Criteria |-> IF c \in settled THEN r.verdicts[c]
                                                            ELSE p.verdicts[c]]
<1>1. w \in Packet /\ w.verdicts = p.verdicts /\ w.agentic = p.agentic
      /\ w.calls = r.calls /\ w.egress = p.egress + r.events
  BY WithEgressType
<1>2. Promoted(p, r) = [w EXCEPT !.verdicts = verdicts, !.agentic = p.agentic \cup settled]
  BY <1>1 DEF Promoted
<1>3. settled \subseteq Criteria /\ \A c \in settled : r.verdicts[c] = "pass"
  BY DEF Asked, Promotes
<1>4. verdicts \in [Criteria -> Statuses]
  BY <1>3 DEF Packet, Statuses
<1> DEFINE agentic == p.agentic \cup settled
<1>5. agentic \in SUBSET Criteria
  BY <1>3 DEF Packet
<1> HIDE DEF settled, w, verdicts, agentic
<1>6. Promoted(p, r) = [w EXCEPT !.verdicts = verdicts, !.agentic = agentic]
  BY <1>2 DEF agentic
<1>7. Promoted(p, r) \in Packet
  BY <1>1, <1>4, <1>5, <1>6 DEF Packet
<1>8. /\ Promoted(p, r).calls = w.calls /\ Promoted(p, r).egress = w.egress
      /\ Promoted(p, r).verdicts = verdicts /\ Promoted(p, r).agentic = agentic
  BY <1>1, <1>6 DEF Packet
<1>9. /\ Promoted(p, r) \in Packet
      /\ Promoted(p, r).calls = w.calls /\ Promoted(p, r).egress = w.egress
      /\ Promoted(p, r).verdicts = verdicts
      /\ Promoted(p, r).agentic = p.agentic \cup settled
  BY <1>7, <1>8 DEF agentic
<1>10. \A c \in Criteria : verdicts[c] # p.verdicts[c] =>
         c \in settled /\ c \in Asked(p) /\ verdicts[c] = r.verdicts[c]
  BY DEF verdicts, settled
<1> QED  BY <1>1, <1>3, <1>9, <1>10

LEMMA AssessmentType ==
    ASSUME NEW verdicts PROVE Assessment(verdicts) \in Verdict
BY DEF Assessment, Verdict

(* An assessment is a pass only when every surface passed.                 *)
LEMMA PassIsUnanimous ==
    ASSUME NEW verdicts, Assessment(verdicts) = "pass"
    PROVE  \A s \in SurfaceIds : verdicts[s] = "pass"
BY DEF Assessment

LEMMA ResponseType ==
    ASSUME TypeOK, NEW status \in {"ok", "error"}
    PROVE  ResponseOf(status) \in Response
BY AssessmentType DEF ResponseOf, Response, TypeOK, Verdict

----------------------------------------------------------------------------
(* The budget of calls, with the types: the calls of a unit are bounded    *)
(* because it looks again once, and only then has it spent any before.     *)
Budgeted ==
    /\ calls <= MaxCalls + 1
    /\ ~fetch.again => fetch.spent = 0
    /\ fetch.again => fetch.spent < Budget
    /\ fetch.tries = 1 => Budget >= 2

Types == TypeOK /\ Budgeted

LEMMA InitTypes == Init => Types
<1> SUFFICES ASSUME Init PROVE Types
  OBVIOUS
<1>1. before \in Packet
  BY DEF Init, Packet
<1>2. said \in [Criteria -> [SurfaceIds -> Verdict]]
  BY DEF Init, Verdict
<1>3. fetch \in [tries : 0 .. 1, spent : 0 .. 2, again : BOOLEAN]
  BY DEF Init, FirstFetch
<1>4. TypeOK
  BY <1>1, <1>2, <1>3, FirstIsUnit DEF Init, TypeOK
<1> QED  BY <1>4, ReviewAssumption DEF Init, FirstFetch, Types, Budgeted, Budget

(* The counters of a unit that is asked about, and what it may be charged. *)
LEMMA Charges ==
    ASSUME Types, MayTry
    PROVE  /\ calls \in Nat /\ MaxCalls \in Nat /\ sent \in Nat /\ sound \in BOOLEAN
           /\ fetch.tries \in 0 .. 1 /\ fetch.spent \in 0 .. 2 /\ fetch.again \in BOOLEAN
           /\ Spent \in Nat /\ calls + Spent <= MaxCalls + 1
           /\ fetch.spent <= Spent
           /\ unit.batch <= Len(Batches)
BY ReviewAssumption DEF Types, TypeOK, Budgeted, Budget, Spent, MayTry, Reviewing

(* A unit that ends with a charge leaves the budget as it should be.       *)
LEMMA EndOfUnit ==
    ASSUME Types, MayTry, NEW charge \in {fetch.spent, Spent},
           calls' = calls + charge, NextUnit
    PROVE  /\ calls' \in Nat /\ unit' \in Unit /\ Budgeted'
           /\ fetch' \in [tries : 0 .. 1, spent : 0 .. 2, again : BOOLEAN]
<1>1. fetch' = FirstFetch /\ unit' \in Unit
  BY Charges, NextIsUnit DEF Types
<1>2. calls' \in Nat /\ calls' <= MaxCalls + 1
  BY Charges
<1> QED  BY <1>1, <1>2 DEF FirstFetch, Budgeted

LEMMA NextTypes == Types /\ [Next]_vars => Types'
<1> SUFFICES ASSUME Types, [Next]_vars PROVE Types'
  OBVIOUS
<1>1. TypeOK /\ Budgeted
  BY DEF Types
(* Rust changes neither the gateway's counters nor its verdicts.           *)
<1>2. CASE Start \/ Timeout \/ WaitFails
  BY <1>1, <1>2 DEF Start, Timeout, WaitFails, ledger, Types, TypeOK, Budgeted, Budget
<1>3. CASE Ingest
  <2>1. mem' \in Packet
    BY <1>1, <1>3, WithEgressType, PromotedType DEF Ingest, TypeOK
  <2> QED  BY <1>1, <1>3, <2>1 DEF Ingest, ledger, Types, TypeOK, Budgeted, Budget
<1>4. CASE OpenPacket \/ FillPacket \/ Crash
  BY <1>1, <1>4 DEF OpenPacket, FillPacket, Crash, ledger, Types, TypeOK, Budgeted, Budget
<1>5. CASE Capture \/ GatewayExits
  BY <1>1, <1>5 DEF Capture, GatewayExits, rust, ledger, Types, TypeOK, Budgeted, Budget
<1>6. CASE Reply \/ ReplyError
  <2>1. reply' \in Response
    BY <1>1, <1>6, ResponseType DEF Reply, ReplyError
  <2> QED  BY <1>1, <1>6, <2>1 DEF Reply, ReplyError, rust, ledger, Types, TypeOK,
                                    Budgeted, Budget
<1>7. CASE SkipGroup \/ NotAsked
  <2>1. unit' \in Unit /\ fetch' = FirstFetch
    BY <1>1, <1>7, NextIsUnit DEF SkipGroup, NotAsked, Reviewing
  <2>2. fetch' \in [tries : 0 .. 1, spent : 0 .. 2, again : BOOLEAN]
    BY <2>1 DEF FirstFetch
  <2>3. TypeOK'
    BY <1>1, <1>7, <2>1, <2>2 DEF SkipGroup, NotAsked, rust, ledger, TypeOK
  <2>4. Budgeted'
    BY <1>1, <1>7, <2>1 DEF SkipGroup, NotAsked, ledger, FirstFetch, Budgeted
  <2> QED  BY <2>3, <2>4 DEF Types
<1>8. CASE MediaUnreadable \/ RefusedCall \/ GarbledAnswer \/ (TransientFailure /\ ~RetryLeft)
  <2>1. MayTry /\ UNCHANGED <<rust, worker, key, reply, said>>
    BY <1>8 DEF MediaUnreadable, RefusedCall, GarbledAnswer, TransientFailure, Throws
  <2>2. \E charge \in {fetch.spent, Spent} : calls' = calls + charge /\ NextUnit
    BY <1>8 DEF MediaUnreadable, RefusedCall, GarbledAnswer, TransientFailure, Throws
  <2>3. sent' \in Nat /\ sound' \in BOOLEAN
    BY <1>1, <1>8, <2>1, Charges DEF MediaUnreadable, RefusedCall, GarbledAnswer,
                                     TransientFailure, Sends, TypeOK
  <2>4. /\ calls' \in Nat /\ unit' \in Unit /\ Budgeted'
        /\ fetch' \in [tries : 0 .. 1, spent : 0 .. 2, again : BOOLEAN]
    BY <2>1, <2>2, EndOfUnit
  <2> QED  BY <1>1, <2>1, <2>3, <2>4 DEF Types, TypeOK, rust
<1>9. CASE TransientFailure /\ RetryLeft
  <2>1. /\ MayTry /\ UNCHANGED <<rust, worker, key, reply, unit, calls, said>>
        /\ fetch' = [fetch EXCEPT !.tries = @ + 1]
        /\ sent' = sent + 1 /\ sound' = (sound /\ TRUE)
    BY <1>9 DEF TransientFailure, Sends
  <2>2. fetch.tries = 0 /\ Budget >= 2
    BY <1>9, <2>1, Charges DEF RetryLeft, Budget
  <2>3. /\ fetch' \in [tries : 0 .. 1, spent : 0 .. 2, again : BOOLEAN]
        /\ fetch'.spent = fetch.spent /\ fetch'.again = fetch.again
    BY <1>1, <2>1, <2>2 DEF TypeOK
  <2>4. TypeOK'
    BY <1>1, <2>1, <2>3, Charges DEF TypeOK, rust
  <2>5. Budgeted'
    BY <1>1, <2>1, <2>2, <2>3 DEF Budgeted, Budget
  <2> QED  BY <2>4, <2>5 DEF Types
<1>10. CASE LookAgain
  <2>1. /\ MayTry /\ UNCHANGED <<rust, worker, key, unit, calls, said, reply>>
        /\ fetch' = [tries |-> 0, spent |-> Spent, again |-> TRUE]
        /\ ~fetch.again /\ Spent < Budget
    BY <1>10 DEF LookAgain, MayLookAgain
  <2>2. sent' \in Nat /\ sound' \in BOOLEAN
    BY <1>1, <1>10, <2>1, Charges DEF LookAgain, Sends
  <2>3. Spent \in 0 .. 2
    BY <1>1, <2>1, Charges DEF Spent, Budgeted
  <2>4. fetch' \in [tries : 0 .. 1, spent : 0 .. 2, again : BOOLEAN]
    BY <2>1, <2>3
  <2>5. TypeOK'
    BY <1>1, <2>1, <2>2, <2>4 DEF TypeOK, rust
  <2>6. Budgeted'
    BY <1>1, <2>1 DEF Budgeted, Budget
  <2> QED  BY <2>5, <2>6 DEF Types
<1>11. CASE Answer
  <2>1. PICK complete \in BOOLEAN, verdicts \in [Items -> Verdict] :
           /\ Sends(complete)
           /\ said' = [c \in Criteria |->
                 IF c \in Items
                 THEN [said[c] EXCEPT ![Surfaces[unit.surface]] = verdicts[c]]
                 ELSE said[c]]
    BY <1>11 DEF Answer
  <2>2. /\ MayTry /\ calls' = calls + Spent /\ NextUnit
        /\ UNCHANGED <<rust, worker, key, reply>>
    BY <1>11 DEF Answer
  <2>3. said' \in [Criteria -> [SurfaceIds -> Verdict]]
    <3>1. \A c \in Criteria : said[c] \in [SurfaceIds -> Verdict]
      BY <1>1 DEF TypeOK
    <3> QED  BY <2>1, <3>1
  <2>4. sent' \in Nat /\ sound' \in BOOLEAN
    BY <2>1, <2>2, Charges DEF Sends
  <2>5. /\ calls' \in Nat /\ unit' \in Unit /\ Budgeted'
        /\ fetch' \in [tries : 0 .. 1, spent : 0 .. 2, again : BOOLEAN]
    BY <2>2, EndOfUnit
  <2> QED  BY <1>1, <2>2, <2>3, <2>4, <2>5 DEF Types, TypeOK, rust
<1>12. CASE UnreadableVerdict
  <2>1. /\ MayTry /\ calls' = calls + Spent /\ worker' = "replied"
        /\ fetch' = FirstFetch /\ UNCHANGED <<rust, key, unit, said>>
    BY <1>12 DEF UnreadableVerdict
  <2>2. sent' \in Nat /\ sound' \in BOOLEAN /\ calls' \in Nat
    BY <1>12, <2>1, Charges DEF UnreadableVerdict, Sends
  <2>3. reply' \in Response
    <3>1. reply' = [status |-> "error", calls |-> calls', events |-> sent',
                    sound |-> sound', verdicts |-> [c \in Criteria |-> "inconclusive"]]
      BY <1>12 DEF UnreadableVerdict, ResponseOf
    <3> QED  BY <2>2, <3>1 DEF Response, Verdict
  <2>4. TypeOK'
    BY <1>1, <2>1, <2>2, <2>3 DEF TypeOK, FirstFetch, rust
  <2>5. Budgeted'
    BY <2>1, Charges DEF Budgeted, FirstFetch
  <2> QED  BY <2>4, <2>5 DEF Types
<1>13. CASE UNCHANGED vars
  BY <1>1, <1>13 DEF vars, Types, TypeOK, Budgeted, Budget
<1> QED  BY <1>2, <1>3, <1>4, <1>5, <1>6, <1>7, <1>8, <1>9, <1>10, <1>11, <1>12, <1>13
         DEF Next

LEMMA TypesHold == Spec => []Types
BY InitTypes, NextTypes, PTL DEF Spec

(* The variables keep their types.                                         *)
THEOREM TypeCorrect == Spec => []TypeOK
<1>1. Types => TypeOK
  BY DEF Types
<1> QED  BY TypesHold, <1>1, PTL

(* The charged calls exceed the budget by at most one retry.               *)
THEOREM BudgetHolds == Spec => []ChargesWithinOneRetry
<1>1. Types => ChargesWithinOneRetry
  BY DEF Types, Budgeted, ChargesWithinOneRetry
<1> QED  BY TypesHold, <1>1, PTL

----------------------------------------------------------------------------
(* What is in evidence.json *)

(* A reply is the gateway's last word: it is over, and the reply says what *)
(* was sent and what every surface got.                                    *)
ReplyIsFinal ==
    reply # Nothing =>
        /\ worker \notin {"none", "capture", "review"}
        /\ reply.events = sent
        /\ reply.status = "ok" => \A c \in Criteria : reply.verdicts[c] = Assessment(said[c])

ErrorWritten(p)    == reply # Nothing /\ p = WithEgress(before, reply)
PromotionWritten(p) ==
    /\ reply # Nothing /\ reply.status = "ok" /\ AuditAccepted(reply)
    /\ p = Promoted(before, reply)

(* The packet as the run wrote it has nothing of a review; the file is it, *)
(* torn, or it with what an accepted reply adds.                           *)
FileStands ==
    /\ before.agentic = {} /\ before.egress = 0
    /\ at \in {"start", "wait"} => file = before /\ mem = before
    /\ at \in {"write", "fill"} => PromotionWritten(mem)
    /\ at \in {"write_error", "fill_error"} => ErrorWritten(mem)
    /\ at \in {"write", "write_error"} => file = before
    /\ at \in {"fill", "fill_error"} => file = Torn
    /\ at = "failed" => file = before \/ ErrorWritten(file)
    /\ at = "done" => file = before \/ PromotionWritten(file)
    /\ at = "crashed" => file = before \/ file = Torn
    /\ at = "start" => worker = "none"

IInv == ReplyIsFinal /\ FileStands

LEMMA InitHolds == Init => IInv
BY DEF Init, IInv, ReplyIsFinal, FileStands

LEMMA RustHolds ==
    Types /\ IInv /\ (Start \/ Timeout \/ WaitFails \/ Ingest \/ OpenPacket
                     \/ FillPacket \/ Crash) => IInv'
<1> SUFFICES ASSUME Types, IInv,
                    Start \/ Timeout \/ WaitFails \/ Ingest \/ OpenPacket \/ FillPacket
                    \/ Crash
             PROVE  IInv'
  OBVIOUS
<1>1. ReplyIsFinal /\ FileStands
  BY DEF IInv
<1>2. UNCHANGED <<before, reply, said, sent>>
  BY DEF Start, Timeout, WaitFails, Ingest, OpenPacket, FillPacket, Crash, ledger
<1>3. ReplyIsFinal'
  BY <1>1, <1>2 DEF Start, Timeout, WaitFails, Ingest, OpenPacket, FillPacket, Crash,
                    ReplyIsFinal, FileStands, Types, TypeOK, ledger
<1> USE <1>1, <1>2 DEF FileStands, PromotionWritten, ErrorWritten
<1>4. CASE Start \/ Timeout \/ WaitFails
  BY <1>3, <1>4 DEF Start, Timeout, WaitFails, IInv
<1>5. CASE Ingest
  BY <1>3, <1>5 DEF Ingest, IInv
<1>6. CASE OpenPacket
  BY <1>3, <1>6 DEF OpenPacket, IInv
<1>7. CASE FillPacket
  BY <1>3, <1>7 DEF FillPacket, IInv
<1>8. CASE Crash
  BY <1>3, <1>8 DEF Crash, IInv, Types, TypeOK
<1> QED  BY <1>4, <1>5, <1>6, <1>7, <1>8

LEMMA GatewayHolds ==
    ASSUME IInv, UNCHANGED rust,
           \/ reply = Nothing /\ reply' = Nothing
           \/ /\ worker \in {"capture", "review"} /\ worker' = "replied"
              /\ \E status \in {"ok", "error"} : reply' = ResponseOf(status)'
           \/ UNCHANGED <<sent, said, reply>>,
           worker # "none",
           worker' \in {"capture", "review"} => worker \in {"capture", "review"},
           worker' # "none"
    PROVE  IInv'
<1>1. ReplyIsFinal /\ FileStands
  BY DEF IInv
<1>2. reply' = reply \/ reply = Nothing
  BY <1>1 DEF ReplyIsFinal
<1>3. FileStands'
  BY <1>1, <1>2 DEF FileStands, PromotionWritten, ErrorWritten, rust
<1>4. ReplyIsFinal'
  BY <1>1 DEF ReplyIsFinal, ResponseOf, ledger
<1> QED  BY <1>3, <1>4 DEF IInv

LEMMA NextHolds == Types /\ IInv /\ [Next]_vars => IInv'
<1> SUFFICES ASSUME Types, IInv, [Next]_vars PROVE IInv'
  OBVIOUS
<1>1. CASE Capture \/ SkipGroup \/ NotAsked \/ MediaUnreadable \/ TransientFailure
           \/ RefusedCall \/ GarbledAnswer \/ LookAgain \/ Answer
  <2>1. /\ UNCHANGED <<rust, reply>> /\ worker \in {"capture", "review"}
        /\ worker' \in {"capture", "review"}
    BY <1>1 DEF Capture, SkipGroup, NotAsked, MediaUnreadable, TransientFailure,
                RefusedCall, GarbledAnswer, LookAgain, Answer, MayTry, Reviewing
  <2>2. reply = Nothing
    BY <2>1 DEF IInv, ReplyIsFinal
  <2> QED  BY <2>1, <2>2, GatewayHolds
<1>2. CASE Reply \/ ReplyError
  <2>1. \A status : ResponseOf(status)' = ResponseOf(status)
    BY <1>2 DEF Reply, ReplyError, ResponseOf, ledger
  <2> QED  BY <1>2, <2>1, GatewayHolds DEF Reply, ReplyError
<1>3. CASE UnreadableVerdict
  BY <1>3, GatewayHolds DEF UnreadableVerdict, MayTry, Reviewing
<1>4. CASE GatewayExits
  BY <1>4, GatewayHolds DEF GatewayExits, ledger
<1>5. CASE UNCHANGED vars
  BY <1>5 DEF vars, IInv, ReplyIsFinal, FileStands, PromotionWritten, ErrorWritten
<1> QED  BY <1>1, <1>2, <1>3, <1>4, <1>5, RustHolds DEF Next

LEMMA Inductive == Spec => []IInv
BY TypesHold, InitHolds, NextHolds, PTL DEF Spec

(* Where evidence.json is whole, it is the packet as the run wrote it, or  *)
(* that with an accepted reply's error or promotions.                      *)
LEMMA WholeFile ==
    ASSUME Types, IInv, file # Torn
    PROVE  \/ file = before
           \/ at = "failed" /\ ErrorWritten(file)
           \/ at # "failed" /\ PromotionWritten(file)
BY DEF Types, TypeOK, IInv, FileStands

(* A changed verdict was open, is a pass now, and every reviewed surface   *)
(* passed; a review that fails changes none.                               *)
THEOREM PromotionsAreEarned == Spec => []PromotionIsEarned
<1>1. ASSUME Types, IInv PROVE PromotionIsEarned
  <2>1. before \in Packet /\ before # Torn /\ reply \in Response \cup {Nothing}
    BY <1>1, NothingAssumption DEF Types, TypeOK
  <2>2. CASE file = Torn
    <3>1. ~ErrorWritten(file)
      BY <2>1, <2>2, WithEgressType, NothingAssumption DEF ErrorWritten
    <3>2. at # "failed"
      BY <1>1, <2>1, <2>2, <3>1 DEF IInv, FileStands
    <3> QED  BY <2>2, <3>2 DEF PromotionIsEarned
  <2>3. CASE file = before
    BY <2>1, <2>3 DEF PromotionIsEarned
  <2>4. CASE at = "failed" /\ ErrorWritten(file)
    <3>1. file.verdicts = before.verdicts /\ file \in Packet
      BY <2>1, <2>4, WithEgressType DEF ErrorWritten
    <3> QED  BY <3>1, NothingAssumption DEF PromotionIsEarned
  <2>5. CASE at # "failed" /\ PromotionWritten(file)
    <3>1. reply \in Response /\ file = Promoted(before, reply)
          /\ \A c \in Criteria : reply.verdicts[c] = Assessment(said[c])
      BY <1>1, <2>1, <2>5 DEF PromotionWritten, IInv, ReplyIsFinal
    <3>2. ASSUME NEW c \in Criteria, file.verdicts[c] # before.verdicts[c]
          PROVE  /\ before.verdicts[c] = "needs_review"
                 /\ file.verdicts[c] = "pass" /\ c \in file.agentic
                 /\ \A s \in SurfaceIds : said[c][s] = "pass"
      <4>1. /\ c \in Asked(before) /\ reply.verdicts[c] = "pass"
            /\ file.verdicts[c] = "pass" /\ c \in file.agentic
        BY <2>1, <3>1, <3>2, PromotedType
      <4> QED  BY <3>1, <4>1, PassIsUnanimous DEF Asked
    <3> QED  BY <2>5, <3>2 DEF PromotionIsEarned
  <2> QED  BY <1>1, <2>2, <2>3, <2>4, <2>5, WholeFile
<1> QED  BY TypesHold, Inductive, <1>1, PTL

(* A packet with a verdict of the model counts every attempt that was made.*)
THEOREM PromotionsAreAudited == Spec => []PromotionIsAudited
<1>1. ASSUME Types, IInv, file # Torn, file.agentic # {}
      PROVE  file.egress = sent /\ file.calls = sent
  <2>1. /\ before \in Packet /\ reply \in Response \cup {Nothing}
        /\ before.agentic = {} /\ before.egress = 0
    BY <1>1 DEF Types, TypeOK, IInv, FileStands
  <2>2. PromotionWritten(file)
    <3>1. ~ErrorWritten(file)
      BY <1>1, <2>1, WithEgressType DEF ErrorWritten
    <3> QED  BY <1>1, <2>1, <3>1, WholeFile
  <2>3. /\ reply \in Response /\ file = Promoted(before, reply)
        /\ reply.calls = reply.events /\ reply.events = sent
    BY <1>1, <2>1, <2>2 DEF PromotionWritten, AuditAccepted, IInv, ReplyIsFinal
  <2>4. file.calls = sent /\ file.egress = 0 + sent
    BY <2>1, <2>3, PromotedType
  <2> QED  BY <1>1, <2>4 DEF Types, TypeOK
<1>2. Types /\ IInv => PromotionIsAudited
  BY <1>1 DEF PromotionIsAudited
<1> QED  BY TypesHold, Inductive, <1>2, PTL
=============================================================================
