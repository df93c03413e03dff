-------------------------------- MODULE Setup --------------------------------
(***************************************************************************)
(* From `allie init` to the first request that leaves the machine: the     *)
(* manifest that init scaffolds and an operator edits, the three places    *)
(* that judge its model policy (src/src/model_policy.rs): validation, the  *)
(* preflight of the run, the gate of the agentic review; and `allie        *)
(* doctor` (src/src/worker_runtime.rs), which tells beforehand how it will *)
(* go.  The pipeline of `allie verify` reads the manifest several times,   *)
(* and an operator may edit it, change the environment or the installation *)
(* between any two steps.                                                  *)
(*                                                                         *)
(* Of a manifest there is its `model:` section, its target, whether the    *)
(* rest is valid, and the environment variables its credentials and login  *)
(* need.                                                                   *)
(***************************************************************************)
EXTENDS Naturals

CONSTANTS
    Manifests,   \* the manifests an operator may save
    Secrets,     \* the environment variables a login may need
    Installs,    \* the states of the installation
    MaxChanges,  \* bound: what an operator changes
    Nothing, Absent, Empty, Garbage, NoKey, Malformed

(* MODEL_PROVIDER_PRESETS, in the order in which they are probed.          *)
Presets ==
    <<[provider |-> "openrouter", key |-> "OPENROUTER_API_KEY", url |-> "openrouter.ai"],
      [provider |-> "openai", key |-> "OPENAI_API_KEY", url |-> "api.openai.com"]>>

Providers == {"openrouter", "openai", "another"}
Urls      == {"openrouter.ai", "api.openai.com", "elsewhere"}
KeyNames  == {"OPENROUTER_API_KEY", "OPENAI_API_KEY", "OTHER_KEY"}

(* ModelPolicy.  A setting that is missing or blank is Nothing.            *)
Policy == [enabled : BOOLEAN, allow : SUBSET Providers, zdr : BOOLEAN,
           redaction : {"none", Nothing}, provider : Providers \cup {Nothing},
           key : KeyNames \cup {Nothing}, url : Urls \cup {Nothing}]

(* A fixture directory, or a base_url of http://, a host and perhaps a     *)
(* port; and any other base_url, as one of a site behind https.            *)
Targets == {"plain", "other"}

(* A file that parses as YAML.  Without the key the policy is the default; *)
(* a section that is no policy makes the whole file unreadable.            *)
Manifest == [model : Policy \cup {NoKey, Malformed}, target : Targets,
             valid : BOOLEAN, needs : SUBSET Secrets]

Workers == {"browser", "agentic"}

(* Where the worker scripts are: an override by the environment, which may *)
(* name a file that is not there, and those bundled with the executable.   *)
Install == [override : [Workers -> {"found", "missing", Nothing}],
            bundled : SUBSET Workers, node : BOOLEAN]

ASSUME SetupAssumption ==
    /\ Manifests \subseteq Manifest /\ Installs \subseteq Install
    /\ MaxChanges \in Nat /\ Secrets \cap KeyNames = {}

VARIABLES
    file,       \* the manifest on disk
    env,        \* the login variables that serve, the keys that are not blank
    install,    \* the installation
    init,       \* how far `allie init` is
    pending,    \* the manifest that init is about to write
    at,         \* the next step of the pipeline
    flow,       \* the generated flow manifest
    packet,     \* the evidence packet
    request,    \* the request the model gateway has sent
    result,     \* how the pipeline ended
    healthy,    \* what doctor last said of the manifest
    vouched,    \* history: the pipeline started healthy, and nothing changed
    choice,     \* history: the model section that the operator last saved
    scaffold,   \* history: the policy on disk is init's own
    changes

vars == <<file, env, install, init, pending, at, flow, packet, request, result,
          healthy, vouched, choice, scaffold, changes>>

initVars == <<init, pending, choice, scaffold>>

pipeVars == <<at, flow, packet, request, result>>

----------------------------------------------------------------------------
(* The policy and its judges *)

DefaultPolicy == [enabled |-> FALSE, allow |-> {}, zdr |-> TRUE,
                  redaction |-> Nothing, provider |-> Nothing, key |-> Nothing,
                  url |-> Nothing]

PolicyOf(m) == IF m.model = NoKey THEN DefaultPolicy ELSE m.model

PresetsOf(provider) == {i \in DOMAIN Presets : Presets[i].provider = provider}

Or(setting, default) == IF setting = Nothing THEN default ELSE setting

(* resolved_route: an unknown provider borrows the first preset's settings.*)
Route(p) ==
    LET provider == Or(p.provider, Presets[1].provider)
        preset   == IF PresetsOf(provider) = {} THEN Presets[1]
                    ELSE Presets[CHOOSE i \in PresetsOf(provider) : TRUE]
    IN [provider |-> provider, key |-> Or(p.key, preset.key),
        url |-> Or(p.url, preset.url)]

Incomplete(p) == p.enabled /\ p.allow = {}

Unredacted(p) == p.enabled /\ p.redaction = Nothing

(* A slip: a listed provider may be anywhere.                              *)
NotListed(p) == p.enabled /\ p.allow # {} /\ Route(p).provider \notin p.allow

(* provider_allowlist_failure: known, listed, and at its own endpoint.     *)
NotAllowed(p) ==
    /\ p.enabled /\ p.allow # {}
    /\ \/ Route(p).provider \notin p.allow
       \/ ~\E i \in PresetsOf(Route(p).provider) : Presets[i].url = Route(p).url

NoZdr(p) == p.enabled /\ p.zdr /\ Route(p).provider # "openrouter"

Loads(m) == m \notin {Absent, Empty, Garbage} /\ m.model # Malformed

(* FlowManifest::validate *)
Valid(m) == m.valid /\ ~Unredacted(PolicyOf(m)) /\ ~NoZdr(PolicyOf(m))

(* LiveBaseUrl::parse, which a fixture directory does not come to.         *)
Crawlable(m) == m.target # "other"

(* A slip: an empty allowlist is the only policy failure of the preflight. *)
OnlyIncomplete(m) ==
    ~(m.needs \subseteq env) \/ Incomplete(PolicyOf(m))

(* preflight_failures *)
PreflightFails(m) ==
    LET p == PolicyOf(m)
    IN ~(m.needs \subseteq env) \/ Incomplete(p) \/ Unredacted(p) \/ NotAllowed(p)

(* enforce_model_provider_allowlist *)
GateRefuses(p) == Incomplete(p) \/ Unredacted(p) \/ NotAllowed(p) \/ NoZdr(p)

(* resolve_worker_script: an override is the last word, also a wrong one.  *)
Resolves(w) ==
    IF install.override[w] = Nothing THEN w \in install.bundled
    ELSE install.override[w] = "found"

----------------------------------------------------------------------------
Files == Manifest \cup {Absent, Empty, Garbage}

Requests == [provider : Providers, key : KeyNames, url : Urls, zdr : BOOLEAN]

Results == {"done", "bad_manifest", "bad_flow", "no_worker", "refused"}

(* The markers are told apart from each other and from what they are not.  *)
ASSUME MarkersAssumption ==
    /\ Nothing \notin Providers \cup KeyNames \cup Urls \cup Policy \cup Manifest
    /\ Nothing \notin Requests \cup Results \cup {"none", "error", "other"}
    /\ NoKey \notin Policy /\ Malformed \notin Policy
    /\ NoKey # Malformed /\ NoKey # Nothing /\ Malformed # Nothing
    /\ Absent \notin Manifest /\ Empty \notin Manifest /\ Garbage \notin Manifest

TypeOK ==
    /\ file \in {Absent, Empty, Garbage} \/ file \in Manifest
    /\ env \subseteq Secrets \cup KeyNames
    /\ install \in Install
    /\ init \in {"idle", "ready", "truncated"}
    /\ pending = Nothing \/ (pending \in Manifest /\ Valid(pending))
    /\ at \in {"idle", "promote", "map", "run", "review"}
    /\ flow = Nothing \/ (flow \in Manifest /\ flow.model \in Policy)
    /\ packet \in {"error", "other", Nothing}
    /\ request = Nothing \/ request \in Requests
    /\ result \in Results \cup {Nothing}
    /\ healthy \in BOOLEAN /\ vouched \in BOOLEAN /\ scaffold \in BOOLEAN
    /\ choice \in {Nothing, Malformed} \/ choice \in Policy
    /\ changes \in 0..MaxChanges

(* The section of a file that its operator has chosen.                     *)
ChoiceOf(m) ==
    IF m \in {Absent, Empty, Garbage} \/ m.model = NoKey THEN Nothing ELSE m.model

Init ==
    /\ file \in Manifests \cup {Absent, Garbage}
    /\ env \in SUBSET (Secrets \cup KeyNames)
    /\ install \in Installs
    /\ init = "idle" /\ pending = Nothing
    /\ at = "idle" /\ flow = Nothing /\ packet = Nothing
    /\ request = Nothing /\ result = Nothing
    /\ healthy = FALSE /\ vouched = FALSE
    /\ choice = ChoiceOf(file) /\ scaffold = FALSE /\ changes = 0

(* Whatever doctor has said is no longer about what is there.              *)
Outdated == healthy' = FALSE /\ vouched' = FALSE

----------------------------------------------------------------------------
(* The operator.  An editor that saves while init runs is left out.        *)

Change == changes < MaxChanges /\ changes' = changes + 1 /\ Outdated

Edit ==
    /\ init = "idle" /\ Change
    /\ file' \in Manifests \cup {Absent, Garbage}
    /\ choice' = ChoiceOf(file') /\ scaffold' = FALSE
    /\ UNCHANGED <<env, install, init, pending>> /\ UNCHANGED pipeVars

ChangeEnvironment ==
    /\ Change /\ env' \in SUBSET (Secrets \cup KeyNames)
    /\ UNCHANGED <<file, install>> /\ UNCHANGED initVars /\ UNCHANGED pipeVars

Reinstall ==
    /\ Change /\ install' \in Installs
    /\ UNCHANGED <<file, env>> /\ UNCHANGED initVars /\ UNCHANGED pipeVars

----------------------------------------------------------------------------
(* allie init *)

(* A slip: the policy is enabled, and lists nobody.                        *)
ScaffoldUnlisted(keys) ==
    IF \A i \in DOMAIN Presets : Presets[i].key \notin keys THEN DefaultPolicy
    ELSE [DefaultPolicy EXCEPT !.enabled = TRUE, !.redaction = "none"]

(* scaffold_model_policy: the first preset whose key is set.               *)
ScaffoldPolicy(keys) ==
    LET found == {i \in DOMAIN Presets : Presets[i].key \in keys}
    IN IF found = {} THEN DefaultPolicy
       ELSE LET p == Presets[CHOOSE i \in found : \A j \in found : i <= j]
            IN [enabled |-> TRUE, allow |-> {p.provider},
                zdr |-> p.provider = "openrouter", redaction |-> "none",
                provider |-> p.provider, key |-> p.key, url |-> p.url]

(* A slip: a section that does not parse is as good as none.               *)
KeepsParsed(m) == ChoiceOf(m) \notin {Nothing, Malformed}

(* existing_model_policy finds a section, sound or not.                    *)
Keeps(m) == ChoiceOf(m) # Nothing

(* A slip: what was kept is not looked at.                                 *)
AnyManifest(m) == TRUE

Writable(m) == Valid(m)

(* Everything is decided before the file is touched: an existing file      *)
(* without --force, a broken section and a policy that does not validate   *)
(* end the command here.  The target is the one the operator names.        *)
BeginInit ==
    /\ init = "idle"
    /\ \E force \in BOOLEAN : file = Absent \/ force
    /\ Keeps(file) => Loads(file)
    /\ \E target \in Targets :
          pending' = [model |-> IF Keeps(file) THEN file.model ELSE ScaffoldPolicy(env),
                      target |-> target, valid |-> TRUE, needs |-> {}]
    /\ Writable(pending')
    /\ init' = "ready"
    /\ UNCHANGED <<file, env, install, choice, scaffold, changes, healthy, vouched>>
    /\ UNCHANGED pipeVars

(* write_string: the file is truncated ...                                 *)
TruncateManifest ==
    /\ init = "ready" /\ init' = "truncated"
    /\ file' = Empty /\ scaffold' = (scaffold \/ ~Keeps(file)) /\ Outdated
    /\ UNCHANGED <<env, install, pending, choice, changes>> /\ UNCHANGED pipeVars

(* ... and filled.                                                         *)
FillManifest ==
    /\ init = "truncated" /\ init' = "idle"
    /\ file' = pending /\ pending' = Nothing /\ Outdated
    /\ UNCHANGED <<env, install, choice, scaffold, changes>> /\ UNCHANGED pipeVars

(* Killed after the truncation, init has destroyed what it was to keep.    *)
InitDies ==
    /\ init # "idle" /\ init' = "idle" /\ pending' = Nothing
    /\ choice' = IF init = "truncated" THEN Nothing ELSE choice
    /\ scaffold' = IF init = "truncated" THEN FALSE ELSE scaffold
    /\ UNCHANGED <<file, env, install, healthy, vouched, changes>>
    /\ UNCHANGED pipeVars

----------------------------------------------------------------------------
(* allie verify, as far as the manifest and the policy go *)

End(how) == result' = how /\ at' = "idle"

Unmoved == UNCHANGED <<file, env, install, healthy, choice, scaffold, init,
                       pending, changes>>

(* run_pipeline and its discovery load and validate the manifest, and the  *)
(* crawl of a site reads its address.                                      *)
StartPipeline ==
    /\ at = "idle"
    /\ flow' = Nothing /\ packet' = Nothing /\ request' = Nothing
    /\ IF Loads(file) /\ Valid(file) /\ Crawlable(file)
       THEN at' = "promote" /\ result' = Nothing
       ELSE End("bad_manifest")
    /\ vouched' = healthy /\ Unmoved

(* run_promote_flow reads it again: this is the policy of all that follows.*)
Promote ==
    /\ at = "promote"
    /\ IF Loads(file) /\ Valid(file)
       THEN /\ flow' = [file EXCEPT !.model = PolicyOf(file)]
            /\ at' = "map" /\ UNCHANGED result
       ELSE End("bad_manifest") /\ UNCHANGED flow
    /\ UNCHANGED <<packet, request, vouched>> /\ Unmoved

(* run_map reads it once more, and crawls the site again.                  *)
MapProduct ==
    /\ at = "map"
    /\ IF Loads(file) /\ Valid(file) /\ Crawlable(file)
       THEN at' = "run" /\ UNCHANGED result
       ELSE End("bad_manifest")
    /\ UNCHANGED <<flow, packet, request, vouched>> /\ Unmoved

(* run_v0 over the generated flow.  What the preflight finds, and a worker *)
(* that is not there, make an error packet; the pipeline goes on with it.  *)
RunFlow ==
    /\ at = "run"
    /\ IF ~Valid(flow)
       THEN End("bad_flow") /\ UNCHANGED packet
       ELSE /\ at' = "review" /\ UNCHANGED result
            /\ IF PreflightFails(flow) \/ ~Resolves("browser") \/ ~install.node
               THEN packet' = "error"
               ELSE packet' \in {"error", "other"}
    /\ UNCHANGED <<flow, request, vouched>> /\ Unmoved

(* run_pipeline_review: without a policy that is enabled, a criterion that *)
(* needs review, or (in the worker) a key, nothing is asked.               *)
ReviewNothing ==
    /\ at = "review" /\ End("done")
    /\ UNCHANGED <<flow, packet, request, vouched>> /\ Unmoved

RefuseReview ==
    /\ at = "review" /\ flow.model.enabled /\ GateRefuses(flow.model)
    /\ End("refused")
    /\ UNCHANGED <<flow, packet, request, vouched>> /\ Unmoved

NoReviewer ==
    /\ at = "review" /\ flow.model.enabled /\ ~GateRefuses(flow.model)
    /\ ~Resolves("agentic") \/ ~install.node
    /\ End("no_worker")
    /\ UNCHANGED <<flow, packet, request, vouched>> /\ Unmoved

(* The worker asks when it has a key, also about a run that never captured *)
(* anything: it then looks at the home page itself.                        *)
AskModel ==
    /\ at = "review" /\ flow.model.enabled /\ ~GateRefuses(flow.model)
    /\ Resolves("agentic") /\ install.node
    /\ LET route == Route(flow.model)
       IN /\ route.key \in env
          /\ request' = [provider |-> route.provider, key |-> route.key,
                         url |-> route.url, zdr |-> flow.model.zdr]
    /\ End("done")
    /\ UNCHANGED <<flow, packet, vouched>> /\ Unmoved

----------------------------------------------------------------------------
(* allie doctor *)

(* A slip: the reviewer is not looked for.                                 *)
BrowserFailures(reached, smoke) ==
    (IF Resolves("browser") THEN {} ELSE {"browser"})
    \cup (IF install.node THEN {} ELSE {"node"})
    \cup (IF Resolves("browser") /\ install.node /\ smoke THEN {} ELSE {"playwright"})
    \cup (IF Loads(file) /\ Valid(file) /\ (reached \/ ~install.node)
          THEN {} ELSE {"target"})

(* run_doctor with a manifest: the checks that fail.  The target of a site *)
(* is not tried without node; the model check fails only on a file that    *)
(* does not load, and what it says otherwise is no failure.                *)
Failures(reached, smoke) ==
    (IF Resolves("browser") THEN {} ELSE {"browser"})
    \cup (IF Resolves("agentic") THEN {} ELSE {"agentic"})
    \cup (IF install.node THEN {} ELSE {"node"})
    \cup (IF Resolves("browser") /\ install.node /\ smoke THEN {} ELSE {"playwright"})
    \cup (IF Loads(file) /\ Valid(file) /\ (reached \/ ~install.node)
          THEN {} ELSE {"target"})
    \cup (IF file = Absent \/ Loads(file) THEN {} ELSE {"model"})

Doctor ==
    /\ \E reached, smoke \in BOOLEAN : healthy' = (Failures(reached, smoke) = {})
    /\ UNCHANGED <<file, env, install, vouched, changes>>
    /\ UNCHANGED initVars /\ UNCHANGED pipeVars

----------------------------------------------------------------------------
Next ==
    \/ Edit \/ ChangeEnvironment \/ Reinstall
    \/ BeginInit \/ TruncateManifest \/ FillManifest \/ InitDies
    \/ StartPipeline \/ Promote \/ MapProduct \/ RunFlow
    \/ ReviewNothing \/ RefuseReview \/ NoReviewer \/ AskModel
    \/ Doctor

Spec == Init /\ [][Next]_vars

----------------------------------------------------------------------------
(* Properties *)

(* Whatever is edited, set or installed between any two steps, a request   *)
(* that leaves the machine goes to the endpoint of a known provider that   *)
(* the promoted policy lists, under zero data retention where the policy   *)
(* wants it, and only under a policy that is enabled and has owned up to   *)
(* sending unredacted captures.                                            *)
CallsWithinPolicy ==
    request # Nothing =>
        LET p == flow.model
        IN /\ p.enabled /\ p.redaction = "none"
           /\ request.provider \in p.allow
           /\ \E i \in DOMAIN Presets : /\ Presets[i].provider = request.provider
                                        /\ Presets[i].url = request.url
           /\ p.zdr => request.zdr /\ request.provider = "openrouter"

(* The three judges agree: what the gate of the review refuses, the        *)
(* validation or the preflight of the run has refused before, and the      *)
(* packet that is left behind says error.                                  *)
GatesAgree == result = "refused" => packet = "error"

(* A manifest that init has scaffolded, and nobody has edited, is accepted *)
(* by every judge of its policy, whatever becomes of the environment whose *)
(* keys it was scaffolded from: an init never leads to a refusal of its    *)
(* model.  (Discovery may still refuse the target the operator named.)     *)
ScaffoldIsUsable ==
    scaffold /\ init = "idle" =>
        /\ Loads(file) /\ Valid(file)
        /\ ~GateRefuses(PolicyOf(file))
        /\ file.needs = {} /\ ~(PreflightFails(file))

(* --force replaces the manifest but not the choice in it: the model       *)
(* section the operator last saved, sound or broken, is still the one on   *)
(* disk after any number of inits, or, while one of them is at its write,  *)
(* about to be.  An init that is killed there has destroyed it.            *)
ChoiceIsKept ==
    choice # Nothing =>
        choice = (IF init = "truncated" THEN pending ELSE file).model

(* A manifest that doctor has found healthy, and that nothing has changed  *)
(* under since, does not stop the pipeline on account of the generated     *)
(* flow, of a worker that is missing, or of anything in the manifest but   *)
(* its target: doctor fetches any address, and discovery refuses all but   *)
(* plain http.                                                             *)
HealthyMeansRunnable ==
    vouched => /\ result \notin {"bad_flow", "no_worker"}
               /\ result = "bad_manifest" => ~Crawlable(file)
=============================================================================
