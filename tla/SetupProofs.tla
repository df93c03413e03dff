------------------------------ MODULE SetupProofs ------------------------------
(***************************************************************************)
(* Theorems about the set-up of a project, for any manifests, secrets and  *)
(* installations: the types, that a request keeps to the policy, that the  *)
(* three judges of the policy agree, and what a run of init and a word of  *)
(* doctor are worth.                                                       *)
(***************************************************************************)
EXTENDS Setup, TLAPS

----------------------------------------------------------------------------
(* Operators *)

LEMMA TwoPresets ==
    /\ DOMAIN Presets = {1, 2}
    /\ Presets[1].provider = "openrouter" /\ Presets[2].provider = "openai"
    /\ \A i \in {1, 2} : /\ Presets[i].provider \in Providers
                         /\ Presets[i].key \in KeyNames /\ Presets[i].url \in Urls
BY DEF Presets, Providers, KeyNames, Urls

(* A file that loads is a manifest with a policy.                          *)
LEMMA LoadedPolicy ==
    ASSUME NEW m, m \in {Absent, Empty, Garbage} \/ m \in Manifest, Loads(m)
    PROVE  m \in Manifest /\ PolicyOf(m) \in Policy
<1>1. DefaultPolicy \in Policy
  BY DEF DefaultPolicy, Policy
<1> QED  BY <1>1 DEF Loads, Manifest, PolicyOf

(* The generated flow has the policy of the file.                          *)
LEMMA FlowOfFile ==
    ASSUME NEW m \in Manifest, PolicyOf(m) \in Policy,
           NEW f, f = [m EXCEPT !.model = PolicyOf(m)]
    PROVE  f \in Manifest /\ f.model \in Policy /\ f.model = PolicyOf(m)
           /\ PolicyOf(f) = PolicyOf(m) /\ f.valid = m.valid
<1>1. f.model = PolicyOf(m) /\ f.valid = m.valid /\ f \in Manifest
  BY DEF Manifest
<1> QED  BY <1>1, MarkersAssumption DEF PolicyOf

(* The policy of a file that has one.                                      *)
LEMMA OwnPolicy ==
    ASSUME NEW m, m.model \in Policy PROVE PolicyOf(m) = m.model
BY MarkersAssumption DEF PolicyOf

LEMMA RouteType ==
    ASSUME NEW p \in Policy
    PROVE  /\ Route(p).provider \in Providers
           /\ Route(p).key \in KeyNames
           /\ Route(p).url \in Urls
<1> DEFINE provider == Or(p.provider, Presets[1].provider)
           preset == IF PresetsOf(provider) = {} THEN Presets[1]
                     ELSE Presets[CHOOSE i \in PresetsOf(provider) : TRUE]
<1>1. provider \in Providers
  BY TwoPresets DEF Or, Policy
<1>2. preset.key \in KeyNames /\ preset.url \in Urls
  <2>1. PresetsOf(provider) \subseteq {1, 2}
    BY TwoPresets DEF PresetsOf
  <2>2. \E i \in {1, 2} : preset = Presets[i]
    BY <2>1
  <2> QED  BY <2>2, TwoPresets
<1>3. Route(p) = [provider |-> provider, key |-> Or(p.key, preset.key),
                  url |-> Or(p.url, preset.url)]
  BY DEF Route
<1> HIDE DEF provider, preset
<1> QED  BY <1>1, <1>2, <1>3 DEF Or, Policy

(* A policy that none of its judges has anything against.                  *)
Accepted(p) == p \in Policy /\ ~GateRefuses(p)

LEMMA DefaultAccepted == Accepted(DefaultPolicy)
BY DEF DefaultPolicy, Accepted, Policy, GateRefuses, Incomplete, Unredacted, NotAllowed, NoZdr

(* The policy that a preset is scaffolded with.                            *)
Listing(i) ==
    [enabled |-> TRUE, allow |-> {Presets[i].provider},
     zdr |-> Presets[i].provider = "openrouter", redaction |-> "none",
     provider |-> Presets[i].provider, key |-> Presets[i].key, url |-> Presets[i].url]

LEMMA ListingAccepted == ASSUME NEW i \in {1, 2} PROVE Accepted(Listing(i))
<1> DEFINE p == Listing(i)
<1>1. /\ p.enabled /\ p.allow = {Presets[i].provider} /\ p.redaction = "none"
      /\ p.zdr = (Presets[i].provider = "openrouter")
      /\ p.provider = Presets[i].provider /\ p.url = Presets[i].url
      /\ p \in Policy
  BY TwoPresets DEF Listing, Policy
<1> HIDE DEF p
<1>2. p.provider # Nothing /\ p.url # Nothing /\ p.redaction # Nothing
  BY <1>1, TwoPresets, MarkersAssumption
<1>3. Route(p).provider = Presets[i].provider /\ Route(p).url = Presets[i].url
  BY <1>1, <1>2 DEF Route, Or
<1>4. ~Incomplete(p) /\ ~Unredacted(p) /\ ~NoZdr(p)
  BY <1>1, <1>2, <1>3 DEF Incomplete, Unredacted, NoZdr
<1>5. ~NotAllowed(p)
  BY <1>1, <1>3, TwoPresets DEF NotAllowed, PresetsOf
<1>6. Accepted(p)
  BY <1>1, <1>4, <1>5 DEF Accepted, GateRefuses
<1> QED  BY <1>6 DEF p

LEMMA ScaffoldAccepted == ASSUME NEW keys PROVE Accepted(ScaffoldPolicy(keys))
<1> DEFINE found == {i \in DOMAIN Presets : Presets[i].key \in keys}
           first == CHOOSE i \in found : \A j \in found : i <= j
<1>1. CASE found = {}
  BY <1>1, DefaultAccepted DEF ScaffoldPolicy
<1>2. CASE found # {}
  <2>1. found \subseteq {1, 2}
    BY TwoPresets
  <2>2. \E i \in found : \A j \in found : i <= j
    BY <1>2, <2>1
  <2>3. first \in {1, 2}
    BY <2>1, <2>2
  <2>4. ScaffoldPolicy(keys) = Listing(first)
    BY <1>2 DEF ScaffoldPolicy, Listing
  <2> HIDE DEF found, first
  <2> QED  BY <2>3, <2>4, ListingAccepted
<1> QED  BY <1>1, <1>2

----------------------------------------------------------------------------
(* Types *)

(* The types, with what init and the pipeline have in hand.                *)
Types ==
    /\ TypeOK
    /\ init # "idle" => pending \in Manifest
    /\ at \in {"map", "run", "review"} => flow \in Manifest /\ flow.model \in Policy

LEMMA ChoiceType ==
    ASSUME NEW m, m \in {Absent, Empty, Garbage} \/ m \in Manifest
    PROVE  ChoiceOf(m) \in {Nothing, Malformed} \/ ChoiceOf(m) \in Policy
BY DEF ChoiceOf, Manifest

LEMMA InitTypes == Init => Types
<1> SUFFICES ASSUME Init PROVE Types
  OBVIOUS
<1>1. file \in {Absent, Empty, Garbage} \/ file \in Manifest
  BY SetupAssumption DEF Init
<1>2. choice \in {Nothing, Malformed} \/ choice \in Policy
  BY <1>1, ChoiceType DEF Init
<1>3. install \in Install /\ changes \in 0 .. MaxChanges
  BY SetupAssumption DEF Init
<1> QED  BY <1>1, <1>2, <1>3 DEF Init, Types, TypeOK

LEMMA NextTypes == Types /\ [Next]_vars => Types'
<1> SUFFICES ASSUME Types, [Next]_vars PROVE Types'
  OBVIOUS
<1>0. /\ Installs \subseteq Install /\ MaxChanges \in Nat
      /\ Change => changes' \in 0 .. MaxChanges /\ healthy' = FALSE /\ vouched' = FALSE
  BY SetupAssumption DEF Change, Outdated, Types, TypeOK
<1> USE DEF Types, Outdated, initVars, pipeVars, Unmoved, End
<1>1. CASE Edit
  <2>1. file' \in {Absent, Empty, Garbage} \/ file' \in Manifest
    BY <1>1, SetupAssumption DEF Edit
  <2>2. choice' \in {Nothing, Malformed} \/ choice' \in Policy
    BY <1>1, <2>1, ChoiceType DEF Edit
  <2> QED  BY <1>0, <1>1, <2>1, <2>2 DEF Edit, TypeOK
<1>2. CASE ChangeEnvironment
  <2>1. env' \subseteq Secrets \cup KeyNames /\ changes' \in 0 .. MaxChanges
        /\ healthy' = FALSE /\ vouched' = FALSE
        /\ UNCHANGED <<file, install, init, pending, choice, scaffold, at, flow, packet,
                       request, result>>
    BY <1>0, <1>2 DEF ChangeEnvironment
  <2>2. /\ init' # "idle" => pending' \in Manifest
        /\ pending' = Nothing \/ (pending' \in Manifest /\ Valid(pending'))
    BY <2>1 DEF TypeOK
  <2>3. /\ file' \in {Absent, Empty, Garbage} \/ file' \in Manifest
        /\ flow' = Nothing \/ (flow' \in Manifest /\ flow'.model \in Policy)
        /\ request' = Nothing \/ request' \in Requests
        /\ choice' \in {Nothing, Malformed} \/ choice' \in Policy
    BY <2>1 DEF TypeOK
  <2> QED  BY <2>1, <2>2, <2>3 DEF TypeOK
<1>3. CASE Reinstall
  <2>1. install' \in Install /\ changes' \in 0 .. MaxChanges
        /\ healthy' = FALSE /\ vouched' = FALSE
        /\ UNCHANGED <<file, env, init, pending, choice, scaffold, at, flow, packet,
                       request, result>>
    BY <1>0, <1>3 DEF Reinstall
  <2>2. /\ init' # "idle" => pending' \in Manifest
        /\ pending' = Nothing \/ (pending' \in Manifest /\ Valid(pending'))
    BY <2>1 DEF TypeOK
  <2>3. /\ file' \in {Absent, Empty, Garbage} \/ file' \in Manifest
        /\ flow' = Nothing \/ (flow' \in Manifest /\ flow'.model \in Policy)
        /\ request' = Nothing \/ request' \in Requests
        /\ choice' \in {Nothing, Malformed} \/ choice' \in Policy
    BY <2>1 DEF TypeOK
  <2> QED  BY <2>1, <2>2, <2>3 DEF TypeOK
<1>4. CASE BeginInit
  <2>1. (IF Keeps(file) THEN file.model ELSE ScaffoldPolicy(env))
           \in Policy \cup {NoKey, Malformed}
    <3>1. Keeps(file) => file \in Manifest
      BY <1>4, LoadedPolicy DEF BeginInit, TypeOK
    <3> QED  BY <3>1, ScaffoldAccepted DEF Accepted, Manifest
  <2>2. PICK target \in Targets :
           pending' = [model |-> IF Keeps(file) THEN file.model ELSE ScaffoldPolicy(env),
                       target |-> target, valid |-> TRUE, needs |-> {}]
    BY <1>4 DEF BeginInit
  <2>3. pending' \in Manifest /\ Valid(pending')
    BY <1>4, <2>1, <2>2 DEF BeginInit, Manifest, Writable
  <2> QED  BY <1>4, <2>3 DEF BeginInit, TypeOK
<1>5. CASE TruncateManifest
  BY <1>5 DEF TruncateManifest, TypeOK
<1>6. CASE FillManifest
  BY <1>6 DEF FillManifest, TypeOK
<1>7. CASE InitDies
  <2>1. /\ init' = "idle" /\ pending' = Nothing /\ scaffold' \in BOOLEAN
        /\ choice' \in {Nothing, choice}
        /\ UNCHANGED <<file, env, install, healthy, vouched, changes, at, flow, packet,
                       request, result>>
    BY <1>7 DEF InitDies, TypeOK
  <2>2. choice' \in {Nothing, Malformed} \/ choice' \in Policy
    BY <2>1 DEF TypeOK
  <2> QED  BY <2>1, <2>2 DEF TypeOK
<1>8. CASE StartPipeline
  BY <1>8 DEF StartPipeline, TypeOK, Results
<1>9. CASE Promote
  <2>1. CASE Loads(file) /\ Valid(file)
    <3>1. file \in Manifest /\ PolicyOf(file) \in Policy
      BY <2>1, LoadedPolicy DEF TypeOK
    <3>2. flow' = [file EXCEPT !.model = PolicyOf(file)]
      BY <1>9, <2>1 DEF Promote
    <3>3. flow' \in Manifest /\ flow'.model \in Policy
      BY <3>1, <3>2, FlowOfFile
    <3> QED  BY <1>9, <2>1, <3>3 DEF Promote, TypeOK
  <2>2. CASE ~(Loads(file) /\ Valid(file))
    BY <1>9, <2>2 DEF Promote, TypeOK, Results
  <2> QED  BY <2>1, <2>2
<1>10. CASE MapProduct
  BY <1>10 DEF MapProduct, TypeOK, Results
<1>11. CASE RunFlow
  BY <1>11 DEF RunFlow, TypeOK, Results
<1>12. CASE ReviewNothing \/ RefuseReview \/ NoReviewer
  BY <1>12 DEF ReviewNothing, RefuseReview, NoReviewer, TypeOK, Results
<1>13. CASE AskModel
  <2>1. flow \in Manifest /\ flow.model \in Policy
    BY <1>13 DEF AskModel
  <2>2. request' \in Requests
    BY <1>13, <2>1, RouteType DEF AskModel, Requests, Policy
  <2> QED  BY <1>13, <2>2 DEF AskModel, TypeOK, Results
<1>14. CASE Doctor
  BY <1>14 DEF Doctor, TypeOK
<1>15. CASE UNCHANGED vars
  BY <1>15 DEF vars, TypeOK
<1> QED  BY <1>1, <1>2, <1>3, <1>4, <1>5, <1>6, <1>7, <1>8, <1>9, <1>10, <1>11, <1>12,
            <1>13, <1>14, <1>15 DEF Next

LEMMA TypesHold == Spec => []Types
BY InitTypes, NextTypes, PTL DEF Spec

(* The variables keep their types.                                         *)
THEOREM TypeCorrect == Spec => []TypeOK
<1>1. Types => TypeOK
  BY DEF Types
<1> QED  BY TypesHold, <1>1, PTL

----------------------------------------------------------------------------
(* The pipeline and the judges *)

(* A request is the last thing a pipeline does, and was within the policy. *)
RequestIsLast == (at # "idle" => request = Nothing) /\ CallsWithinPolicy

(* By the time the gate of the review is asked, what it refuses has made   *)
(* the packet an error.                                                    *)
GateIsForeseen ==
    /\ at # "idle" => result = Nothing
    /\ at = "review" /\ GateRefuses(flow.model) => packet = "error"
    /\ GatesAgree

(* What the preflight and the validation let pass, so does the gate.       *)
LEMMA Foreseen ==
    ASSUME NEW m, m.model \in Policy, Valid(m), GateRefuses(m.model)
    PROVE  PreflightFails(m)
BY OwnPolicy DEF Valid, GateRefuses, PreflightFails

(* What the gate lets pass is within the policy.                           *)
LEMMA PassedIsWithin ==
    ASSUME NEW p \in Policy, p.enabled, ~GateRefuses(p)
    PROVE  /\ p.redaction = "none"
           /\ Route(p).provider \in p.allow
           /\ \E i \in DOMAIN Presets : /\ Presets[i].provider = Route(p).provider
                                        /\ Presets[i].url = Route(p).url
           /\ p.zdr => Route(p).provider = "openrouter"
<1>1. p.redaction = "none"
  BY DEF GateRefuses, Unredacted, Policy
<1>2. /\ Route(p).provider \in p.allow
      /\ \E i \in PresetsOf(Route(p).provider) : Presets[i].url = Route(p).url
  BY DEF GateRefuses, Incomplete, NotAllowed
<1>3. p.zdr => Route(p).provider = "openrouter"
  BY DEF GateRefuses, NoZdr
<1> QED  BY <1>1, <1>2, <1>3 DEF PresetsOf

LEMMA RequestByNext == Types /\ RequestIsLast /\ [Next]_vars => RequestIsLast'
<1> SUFFICES ASSUME Types, RequestIsLast, [Next]_vars PROVE RequestIsLast'
  OBVIOUS
<1>1. at # "idle" => request = Nothing
  BY DEF RequestIsLast
<1>2. CASE AskModel
  <2>1. flow \in Manifest /\ flow.model \in Policy
    BY <1>2 DEF AskModel, Types
  <2> DEFINE p == flow.model
  <2>2. /\ p \in Policy /\ p.enabled /\ ~GateRefuses(p) /\ flow' = flow /\ at' = "idle"
        /\ request' = [provider |-> Route(p).provider, key |-> Route(p).key,
                       url |-> Route(p).url, zdr |-> p.zdr]
    BY <1>2, <2>1 DEF AskModel, End
  <2>3. request'.provider = Route(p).provider /\ request'.url = Route(p).url
        /\ request'.zdr = p.zdr
    BY <2>2
  <2> QED  BY <2>2, <2>3, PassedIsWithin DEF RequestIsLast, CallsWithinPolicy
<1>3. CASE StartPipeline
  BY <1>3 DEF StartPipeline, RequestIsLast, CallsWithinPolicy
<1>4. CASE Promote
  BY <1>1, <1>4 DEF Promote, RequestIsLast, CallsWithinPolicy
<1>5. CASE request' = request /\ flow' = flow /\ (at' = "idle" \/ at # "idle" \/ at' = at)
  BY <1>5 DEF RequestIsLast, CallsWithinPolicy
<1> QED  BY <1>2, <1>3, <1>4, <1>5 DEF Next, Edit, ChangeEnvironment, Reinstall, BeginInit,
            TruncateManifest, FillManifest, InitDies, MapProduct, RunFlow, ReviewNothing,
            RefuseReview, NoReviewer, Doctor, pipeVars, vars

LEMMA ForeseenByNext == Types /\ GateIsForeseen /\ [Next]_vars => GateIsForeseen'
<1> SUFFICES ASSUME Types, GateIsForeseen, [Next]_vars PROVE GateIsForeseen'
  OBVIOUS
<1>1. CASE StartPipeline
  BY <1>1, MarkersAssumption DEF StartPipeline, End, Results, GateIsForeseen, GatesAgree
<1>2. CASE Promote \/ MapProduct
  BY <1>2 DEF Promote, MapProduct, End, GateIsForeseen, GatesAgree
<1>3. CASE RunFlow
  <2>1. flow \in Manifest /\ flow.model \in Policy /\ flow' = flow
    BY <1>3 DEF RunFlow, Types
  <2>2. at' = "review" => Valid(flow) /\ (PreflightFails(flow) => packet' = "error")
    BY <1>3 DEF RunFlow, End
  <2>3. at' = "review" /\ GateRefuses(flow'.model) => packet' = "error"
    BY <2>1, <2>2, Foreseen
  <2>4. (at' # "idle" => result' = Nothing) /\ result' # "refused"
    BY <1>3, MarkersAssumption DEF RunFlow, End, Results, GateIsForeseen
  <2> QED  BY <2>3, <2>4 DEF GateIsForeseen, GatesAgree
<1>4. CASE ReviewNothing \/ RefuseReview \/ NoReviewer \/ AskModel
  BY <1>4 DEF ReviewNothing, RefuseReview, NoReviewer, AskModel, End, GateIsForeseen,
     GatesAgree
<1>5. CASE UNCHANGED pipeVars
  BY <1>5 DEF pipeVars, GateIsForeseen, GatesAgree
<1> QED  BY <1>1, <1>2, <1>3, <1>4, <1>5 DEF Next, Edit, ChangeEnvironment, Reinstall,
            BeginInit, TruncateManifest, FillManifest, InitDies, Doctor, pipeVars, vars

(* A request goes to a known provider that the policy lists, under zero    *)
(* data retention where it is wanted, whatever changes between the steps.  *)
THEOREM RequestsKeepToPolicy == Spec => []CallsWithinPolicy
<1>1. Init => RequestIsLast
  BY DEF Init, RequestIsLast, CallsWithinPolicy
<1>2. RequestIsLast => CallsWithinPolicy
  BY DEF RequestIsLast
<1> QED  BY <1>1, <1>2, TypesHold, RequestByNext, PTL DEF Spec

(* What the gate refuses, an earlier judge has refused.                    *)
THEOREM JudgesAgree == Spec => []GatesAgree
<1>1. Init => GateIsForeseen
  BY MarkersAssumption DEF Init, GateIsForeseen, GatesAgree, Results
<1>2. GateIsForeseen => GatesAgree
  BY DEF GateIsForeseen
<1> QED  BY <1>1, <1>2, TypesHold, ForeseenByNext, PTL DEF Spec

----------------------------------------------------------------------------
(* A word of doctor *)

Sound == /\ Loads(file) /\ Valid(file)
         /\ Resolves("browser") /\ Resolves("agentic") /\ install.node

(* What doctor vouches for is still there, and so is the flow made of it.  *)
Vouched ==
    /\ healthy \/ vouched => Sound
    /\ vouched /\ at \in {"map", "run", "review"} => Valid(flow)
    /\ HealthyMeansRunnable

LEMMA DoctorFindsSound ==
    ASSUME NEW reached, NEW smoke, Failures(reached, smoke) = {} PROVE Sound
<1>1. (IF Resolves("browser") THEN {} ELSE {"browser"}) = {}
  BY DEF Failures
<1>2. (IF Resolves("agentic") THEN {} ELSE {"agentic"}) = {}
  BY DEF Failures
<1>3. (IF install.node THEN {} ELSE {"node"}) = {}
  BY DEF Failures
<1>4. (IF Loads(file) /\ Valid(file) /\ (reached \/ ~install.node)
       THEN {} ELSE {"target"}) = {}
  BY DEF Failures
<1> QED  BY <1>1, <1>2, <1>3, <1>4 DEF Sound

LEMMA VouchedByNext == Types /\ Vouched /\ [Next]_vars => Vouched'
<1> SUFFICES ASSUME Types, Vouched, [Next]_vars PROVE Vouched'
  OBVIOUS
<1>1. CASE Edit \/ ChangeEnvironment \/ Reinstall \/ TruncateManifest \/ FillManifest
  BY <1>1 DEF Edit, ChangeEnvironment, Reinstall, TruncateManifest, FillManifest, Change,
              Outdated, Vouched, HealthyMeansRunnable
(* What a pipeline does is judged by the Sound that has not changed.       *)
<1>2. ASSUME UNCHANGED <<file, install, healthy>>, vouched' => Sound,
             vouched' /\ at' \in {"map", "run", "review"} => Valid(flow'),
             vouched' => /\ result' \notin {"bad_flow", "no_worker"}
                         /\ result' = "bad_manifest" => ~Crawlable(file)
      PROVE  Vouched'
  <2>1. Sound' = Sound
    BY <1>2 DEF Sound, Resolves
  <2> QED  BY <1>2, <2>1 DEF Vouched, HealthyMeansRunnable
<1>3. CASE BeginInit \/ InitDies
  BY <1>2, <1>3 DEF BeginInit, InitDies, pipeVars, Vouched, HealthyMeansRunnable
<1>4. CASE StartPipeline
  BY <1>2, <1>4, MarkersAssumption DEF StartPipeline, Unmoved, End, Vouched, Sound, Results
<1>5. CASE Promote
  <2>1. Loads(file) /\ Valid(file) => Valid(flow') /\ result' = result
    <3>1. SUFFICES ASSUME Loads(file), Valid(file) PROVE Valid(flow') /\ result' = result
      OBVIOUS
    <3>2. file \in Manifest /\ PolicyOf(file) \in Policy
      BY <3>1, LoadedPolicy DEF Types, TypeOK
    <3>3. flow' = [file EXCEPT !.model = PolicyOf(file)] /\ result' = result
      BY <1>5, <3>1 DEF Promote
    <3>4. PolicyOf(flow') = PolicyOf(file) /\ flow'.valid = file.valid
      BY <3>2, <3>3, FlowOfFile
    <3> QED  BY <3>1, <3>3, <3>4 DEF Valid
  <2>2. vouched => /\ Sound /\ result \notin {"bad_flow", "no_worker"}
                   /\ result = "bad_manifest" => ~Crawlable(file)
    BY DEF Vouched, HealthyMeansRunnable
  <2> QED  BY <1>2, <1>5, <2>1, <2>2 DEF Promote, Unmoved, Sound
<1>6. CASE MapProduct \/ RunFlow \/ ReviewNothing \/ RefuseReview \/ NoReviewer \/ AskModel
  BY <1>2, <1>6 DEF MapProduct, RunFlow, ReviewNothing, RefuseReview, NoReviewer, AskModel,
                    Unmoved, End, Vouched, HealthyMeansRunnable, Sound
<1>7. CASE Doctor
  <2>1. healthy' => Sound
    BY <1>7, DoctorFindsSound DEF Doctor
  <2>2. Sound' = Sound
    BY <1>7 DEF Doctor, Sound, Resolves
  <2> QED  BY <1>7, <2>1, <2>2 DEF Doctor, pipeVars, Vouched, HealthyMeansRunnable
<1>8. CASE UNCHANGED vars
  BY <1>2, <1>8 DEF vars, Vouched, HealthyMeansRunnable
<1> QED  BY <1>1, <1>3, <1>4, <1>5, <1>6, <1>7, <1>8 DEF Next

(* Where doctor found nothing wrong and nothing has changed, the pipeline  *)
(* is not stopped by its flow, by a missing worker, or by anything in the  *)
(* manifest but a target that discovery cannot read.                       *)
THEOREM HealthyRuns == Spec => []HealthyMeansRunnable
<1>1. Init => Vouched
  BY DEF Init, Vouched, HealthyMeansRunnable
<1>2. Vouched => HealthyMeansRunnable
  BY DEF Vouched
<1> QED  BY <1>1, <1>2, TypesHold, VouchedByNext, PTL DEF Spec

----------------------------------------------------------------------------
(* A run of init *)

Usable(m) == m \in Manifest /\ m.valid /\ m.needs = {} /\ Accepted(m.model)

(* Where the operator's choice and init's own policy are: in the file, or, *)
(* while that is truncated, in the manifest that is about to be written.   *)
InHand ==
    /\ init = "ready" =>
          /\ pending.valid /\ pending.needs = {}
          /\ Keeps(file) => pending.model = file.model
          /\ ~Keeps(file) => Accepted(pending.model)
    /\ scaffold => Usable(IF init = "truncated" THEN pending ELSE file)
    /\ choice # Nothing =>
          IF init = "truncated" THEN pending.model = choice
          ELSE file \in Manifest /\ file.model = choice

LEMMA UsableIsUsable ==
    ASSUME NEW m, Usable(m)
    PROVE  Loads(m) /\ Valid(m) /\ ~GateRefuses(PolicyOf(m)) /\ ~PreflightFails(m)
<1>1. m.model \in Policy /\ ~GateRefuses(m.model) /\ PolicyOf(m) = m.model
  BY OwnPolicy DEF Usable, Accepted
<1>2. Loads(m)
  BY <1>1, MarkersAssumption DEF Usable, Loads
<1> QED  BY <1>1, <1>2 DEF Usable, Valid, PreflightFails, GateRefuses

(* A choice is what the file has, where it has one.                        *)
LEMMA ChoiceInFile ==
    ASSUME NEW m, m \in {Absent, Empty, Garbage} \/ m \in Manifest, ChoiceOf(m) # Nothing
    PROVE  m \in Manifest /\ m.model = ChoiceOf(m)
BY DEF ChoiceOf

LEMMA InHandByNext == Types /\ InHand /\ [Next]_vars => InHand'
<1> SUFFICES ASSUME Types, InHand, [Next]_vars PROVE InHand'
  OBVIOUS
<1>1. file \in {Absent, Empty, Garbage} \/ file \in Manifest
  BY DEF Types, TypeOK
(* A file that holds the choice, or init's own policy, is one that is kept.*)
<1>2. ASSUME file \in Manifest, file.model \in Policy \cup {Malformed} PROVE Keeps(file)
  BY <1>2, MarkersAssumption DEF Keeps, ChoiceOf
<1>3. CASE Edit
  <2>1. file' \in {Absent, Empty, Garbage} \/ file' \in Manifest
    BY <1>3, SetupAssumption DEF Edit
  <2>2. choice' # Nothing => file' \in Manifest /\ file'.model = choice'
    BY <1>3, <2>1, ChoiceInFile DEF Edit
  <2> QED  BY <1>3, <2>2 DEF Edit, InHand
<1>4. CASE BeginInit
  <2>1. PICK target \in Targets :
           pending' = [model |-> IF Keeps(file) THEN file.model ELSE ScaffoldPolicy(env),
                       target |-> target, valid |-> TRUE, needs |-> {}]
    BY <1>4 DEF BeginInit
  <2>2. /\ pending'.valid /\ pending'.needs = {}
        /\ Keeps(file) => pending'.model = file.model
        /\ ~Keeps(file) => Accepted(pending'.model)
    BY <2>1, ScaffoldAccepted
  <2> QED  BY <1>4, <2>2 DEF BeginInit, InHand
<1>5. CASE TruncateManifest
  <2>1. /\ init = "ready" /\ init' = "truncated" /\ UNCHANGED <<pending, choice>>
        /\ scaffold' = (scaffold \/ ~Keeps(file)) /\ pending \in Manifest
    BY <1>5 DEF TruncateManifest, Types
  <2>2. scaffold => Keeps(file) /\ Accepted(file.model)
    BY <1>2, <2>1 DEF InHand, Usable, Accepted
  <2>3. Accepted(pending.model) \/ ~scaffold'
    BY <2>1, <2>2 DEF InHand
  <2>4. scaffold' => Usable(pending)
    BY <2>1, <2>3 DEF InHand, Usable
  <2>5. choice # Nothing => pending.model = choice
    BY <1>2, <2>1 DEF InHand, Types, TypeOK
  <2> QED  BY <2>1, <2>4, <2>5 DEF InHand
<1>6. CASE FillManifest
  BY <1>6 DEF FillManifest, InHand, Types
<1>7. CASE InitDies
  BY <1>7 DEF InitDies, InHand
<1>8. CASE UNCHANGED <<initVars, file>>
  BY <1>8 DEF initVars, InHand
<1> QED  BY <1>3, <1>4, <1>5, <1>6, <1>7, <1>8 DEF Next, ChangeEnvironment, Reinstall,
            StartPipeline, Promote, MapProduct, RunFlow, ReviewNothing, RefuseReview,
            NoReviewer, AskModel, Doctor, Unmoved, initVars, vars

LEMMA InHandHolds == Spec => []InHand
<1>1. ASSUME Init PROVE InHand
  <2>1. file \in {Absent, Empty, Garbage} \/ file \in Manifest
    BY <1>1, SetupAssumption DEF Init
  <2> QED  BY <1>1, <2>1, ChoiceInFile DEF Init, InHand
<1> QED  BY <1>1, TypesHold, InHandByNext, PTL DEF Spec

(* A manifest that init has scaffolded and nobody has edited is accepted   *)
(* by every judge.                                                         *)
THEOREM ScaffoldsAreUsable == Spec => []ScaffoldIsUsable
<1>1. InHand => ScaffoldIsUsable
  BY UsableIsUsable DEF InHand, Usable, ScaffoldIsUsable
<1> QED  BY InHandHolds, <1>1, PTL

(* The model section that the operator last saved is kept by every init.   *)
THEOREM ChoicesAreKept == Spec => []ChoiceIsKept
<1>1. InHand => ChoiceIsKept
  BY DEF InHand, ChoiceIsKept
<1> QED  BY InHandHolds, <1>1, PTL
=============================================================================
