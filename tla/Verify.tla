-------------------------------- MODULE Verify --------------------------------
(***************************************************************************)
(* What `allie verify` hands from step to step (run_pipeline in            *)
(* src/src/pipeline.rs): the flow that discovery promotes, the product map *)
(* that a second discovery draws, the evidence packet of the run, the      *)
(* review that settles verdicts of it, the report over the map, and the    *)
(* release decision over the packet.  `allie report` and `allie release`   *)
(* read the same packet again, with the waivers an operator has attached.  *)
(*                                                                         *)
(* The site answers each of the two crawls as it likes, the run finds what *)
(* it finds, the model passes what it likes, and time passes.              *)
(***************************************************************************)
EXTENDS Naturals, Sequences, FiniteSetsExt

CONSTANTS
    Routes,      \* the routes of the site
    Ids,         \* the names of states and surfaces
    IdOf,        \* route_to_id: two routes may have one name
    Manifests,   \* the flow states an operator's manifest may list, in order
    Bootstrap,   \* the login routes, which no crawl may name
    Files,       \* the routes of the HTML files of the project
    Criteria,    \* the success criteria of the profile
    Kind,        \* how the run decides each of them without a finding
    Violable,    \* the criteria an axe rule of the tag map may violate
    App,         \* the name of the app
    Requests,    \* what an operator may name as changed surfaces
    Offered,     \* the waivers an operator may attach
    Nothing      \* no map, no packet, no report, no decision, no name

Kinds == {"axe", "feature", "media", "judged"}

(* An attached waiver.  `sound`: it carries provenance and packet refs.    *)
Waiver == [surface : Ids \cup {Nothing}, criterion : Criteria \cup {Nothing},
           status : {"waived", "risk_accepted", "other"},
           expires : {"never", "ahead", "past"}, sound : BOOLEAN]

ASSUME SiteAssumption ==
    /\ IdOf \in [Routes -> Ids]
    /\ \A m \in Manifests : m \in Seq([id : Ids, path : Routes]) /\ m # <<>>
    /\ Bootstrap \subseteq Routes /\ Files \subseteq Routes
    /\ Kind \in [Criteria -> Kinds] /\ Violable \subseteq Criteria
    /\ Criteria # {}
    /\ App \notin Ids /\ Nothing \notin Ids \cup Criteria \cup {App}
    /\ \A changed \in Requests : changed \subseteq Ids \cup {App}
    /\ Offered \subseteq Waiver

VARIABLES
    at,        \* the next step of the pipeline
    manifest,  \* the flow states of the operator's manifest
    request,   \* --changed-surface
    plan,      \* the candidates of flow-plan.json
    flow,      \* the states of the promoted manifest
    map,       \* the surfaces of product-map.json
    packet,    \* evidence.json
    report,    \* compliance-report.json
    release,   \* release-summary.json
    green      \* what the pipeline's exit code said: it ended with 0

vars == <<at, manifest, request, plan, flow, map, packet, report, release, green>>

input == <<manifest, request>>

----------------------------------------------------------------------------
(* Discovery *)

State   == [id : Ids, path : Routes]
Surface == [id : Ids, route : Routes, evidence : SUBSET Ids]

Declared(route) == {i \in DOMAIN manifest : manifest[i].path = route}

(* One surface per route: the last state the manifest has there, or the    *)
(* route's own name.                                                       *)
Named(route) ==
    IF Declared(route) = {} THEN IdOf[route] ELSE manifest[Max(Declared(route))].id

(* discover_surfaces: the manifest's routes and those the crawl reached.   *)
Discovered(reached) ==
    {route \in Routes : Declared(route) # {}} \cup (reached \ Bootstrap)

(* flow_candidate_for_surface *)
Candidates(reached) ==
    {[id |-> Named(route), path |-> route] : route \in Discovered(reached)}

(* product_surfaces: a crawl of its own, and the files of the project.     *)
SurfacesOf(reached) ==
    {[id |-> Named(route), route |-> route,
      evidence |-> {manifest[i].id : i \in Declared(route)}] :
        route \in Discovered(reached) \cup Files}

----------------------------------------------------------------------------
(* The packet *)

Statuses == {"pass", "fail", "not_applicable", "needs_review"}

CellStatuses == Statuses \cup {"not_tested", "waived", "risk_accepted"}

(* `found`: the state and the criterion of each axe finding.  `states` is  *)
(* empty in an error packet, and the whole flow in every other.            *)
Packet == [status : {"pass", "fail", "error"}, states : SUBSET State,
           found : SUBSET (Ids \X Criteria), verdicts : [Criteria -> Statuses],
           waivers : SUBSET Waiver]

ASSUME NothingAssumption == Nothing \notin Packet

CapturedIds(p) == {state.id : state \in p.states}

Found(p, c) == \E id \in Ids : <<id, c>> \in p.found

(* What the features of the captured pages say: what the scripted check of *)
(* a `feature` criterion (reflow) came to, and whether there is media.     *)
Features == [check : {"pass", "fail", "needs_review"}, media : BOOLEAN]

NoFeatures == [check |-> "needs_review", media |-> FALSE]

VerdictOf(found, features, c) ==
    IF \E id \in Ids : <<id, c>> \in found THEN "fail"
    ELSE CASE Kind[c] = "axe"     -> "pass"
           [] Kind[c] = "feature" -> features.check
           [] Kind[c] = "media"   -> IF features.media THEN "needs_review"
                                                       ELSE "not_applicable"
           [] Kind[c] = "judged"  -> "needs_review"

(* The status follows the findings; a fail of a feature check is none.     *)
PacketOf(status, states, found, features) ==
    [status |-> status, states |-> states, found |-> found,
     verdicts |-> [c \in Criteria |-> VerdictOf(found, features, c)],
     waivers |-> {}]

----------------------------------------------------------------------------
(* The report *)

(* A slip: what the run captured is what the surface has.                  *)
CapturedStateIds(surface, p) ==
    LET named == {state.id : state \in {t \in p.states :
                                 t.path = surface.route \/ t.id = surface.id}}
    IN IF named = {} THEN {surface.id} ELSE named

(* surface_state_ids *)
StateIds(surface, p) ==
    LET named == surface.evidence \cup
            {state.id : state \in {t \in p.states :
                            t.path = surface.route \/ t.id = surface.id}}
    IN IF named = {} THEN {surface.id} ELSE named

(* verdict_applies_to_state: a verdict names the captured states, none of  *)
(* them in an error packet, and then it applies everywhere.  One that      *)
(* rests on findings names the state of the last; the others have theirs.  *)
Applies(p, c, id) ==
    IF Found(p, c) THEN <<id, c>> \in p.found
    ELSE p.states = {} \/ id \in CapturedIds(p)

(* matching_cell_waivers: whatever its date and its metadata.              *)
WaiversOf(p, surface, c) ==
    {w.status : w \in {v \in p.waivers :
                  v.surface = surface.id /\ v.criterion \in {c, Nothing}}}

(* A slip: the status of a waiver is the status of its cell.               *)
CellStatusAsWaived(p, surface, id, c) ==
    IF WaiversOf(p, surface, c) # {} THEN CHOOSE status \in WaiversOf(p, surface, c) : TRUE
    ELSE IF Applies(p, c, id) THEN p.verdicts[c]
    ELSE IF Kind[c] \in {"axe", "feature"} THEN "not_tested"
    ELSE "needs_review"

(* criterion_cell_status.  Where no verdict applies, what a person reviews *)
(* is open; what axe and the scripted check decide was not tested.         *)
CellStatus(p, surface, id, c) ==
    IF "risk_accepted" \in WaiversOf(p, surface, c) THEN "risk_accepted"
    ELSE IF "waived" \in WaiversOf(p, surface, c) THEN "waived"
    ELSE IF Applies(p, c, id) THEN p.verdicts[c]
    ELSE IF Kind[c] \in {"axe", "feature"} THEN "not_tested"
    ELSE "needs_review"

Cells(surfaces, p) ==
    UNION {{[surface |-> surface.id, state |-> id, criterion |-> c,
             status |-> CellStatus(p, surface, id, c)] :
                id \in StateIds(surface, p), c \in Criteria} : surface \in surfaces}

(* A slip: what was not tested is asked for first.                         *)
OpenFirst == <<"needs_review", "not_tested", "fail", "risk_accepted", "waived">>

(* aggregate_cell_status: the first of these that a cell of the row has.   *)
Precedence == <<"fail", "needs_review", "not_tested", "risk_accepted", "waived">>

RowOf(statuses) ==
    IF statuses \subseteq {"not_applicable"} THEN "not_applicable"
    ELSE LET ranked == {i \in DOMAIN Precedence : Precedence[i] \in statuses}
         IN IF ranked = {} THEN "pass" ELSE Precedence[Min(ranked)]

(* aggregate_criteria_from_cells                                           *)
Rows(cells) ==
    [c \in Criteria |-> RowOf({cell.status : cell \in {d \in cells : d.criterion = c}})]

(* compliance_summary                                                      *)
ReportStatus(p, rows) ==
    LET seen == {rows[c] : c \in Criteria}
    IN IF p.status = "error" THEN "error"
       ELSE IF "fail" \in seen THEN "fail"
       ELSE IF seen \cap {"needs_review", "not_tested", "waived", "risk_accepted"} # {}
       THEN "needs_review" ELSE "pass"

ReportOf(surfaces, p) ==
    LET cells == Cells(surfaces, p)
    IN [cells |-> cells, rows |-> Rows(cells), status |-> ReportStatus(p, Rows(cells))]

(* validate_criterion_coverage_cells refuses a report with one key twice.  *)
Refused(surfaces, p) ==
    \E s, t \in surfaces :
        s # t /\ s.id = t.id /\ StateIds(s, p) \cap StateIds(t, p) # {}

----------------------------------------------------------------------------
(* The release decision (project_release_decision) *)

Touches(w, changed) == changed = {} \/ w.surface = Nothing \/ w.surface \in changed

Invalid(w) == w.surface = Nothing \/ w.status = "other" \/ w.expires = "never" \/ ~w.sound

(* A slip: one changed surface that was captured is enough.                *)
MissingAll(p, changed) ==
    IF changed \cap (CapturedIds(p) \cup {App}) # {} THEN {} ELSE changed

(* The surfaces whose evidence is required and is not there.               *)
Missing(p, changed) == changed \ (CapturedIds(p) \cup {App})

(* A slip: a finding that a waiver is attached to does not block.          *)
BlockedUnlessWaived(p, changed) ==
    \/ p.status # "pass" /\ p.waivers = {}
    \/ Missing(p, changed) # {}
    \/ \E w \in p.waivers : Touches(w, changed) /\ (w.expires = "past" \/ Invalid(w))

Blocked(p, changed) ==
    \/ p.status # "pass"
    \/ Missing(p, changed) # {}
    \/ \E w \in p.waivers : Touches(w, changed) /\ (w.expires = "past" \/ Invalid(w))

(* The profile's own human obligations keep it from "approved".            *)
ReleaseOf(p, changed) ==
    [status  |-> IF Blocked(p, changed) THEN "blocked" ELSE "needs_review",
     changed |-> changed]

(* verify_changed_surfaces                                                 *)
Changed == IF request # {} THEN request ELSE {candidate.id : candidate \in plan}

----------------------------------------------------------------------------

TypeOK ==
    /\ at \in {"discover", "promote", "map", "run", "review", "report", "release",
               "done", "stopped"}
    /\ manifest \in Manifests /\ request \in Requests
    /\ plan \subseteq State /\ flow \subseteq State
    /\ map \in SUBSET Surface
    /\ packet \in Packet \cup {Nothing}
    /\ report = Nothing \/
         /\ report.rows \in [Criteria -> CellStatuses]
         /\ report.status \in {"pass", "fail", "error", "needs_review"}
         /\ \A cell \in report.cells :
               /\ cell.state \in Ids /\ cell.surface \in Ids
               /\ cell.status \in CellStatuses
    /\ release = Nothing \/ release.status \in {"blocked", "needs_review"}
    /\ green \in BOOLEAN

Init ==
    /\ at = "discover"
    /\ manifest \in Manifests /\ request \in Requests
    /\ plan = {} /\ flow = {} /\ map = {}
    /\ packet = Nothing /\ report = Nothing /\ release = Nothing
    /\ green = FALSE

(* Any step may end the pipeline with an error, before or after the next   *)
(* one could read what it wrote.                                           *)
Fail ==
    /\ at \notin {"done", "stopped"}
    /\ at' = "stopped"
    /\ UNCHANGED <<input, plan, flow, map, packet, report, release, green>>

Discover ==
    /\ at = "discover"
    /\ \E reached \in SUBSET Routes : plan' = Candidates(reached)
    /\ at' = "promote"
    /\ UNCHANGED <<input, flow, map, packet, report, release, green>>

PromoteFlow ==
    /\ at = "promote"
    /\ flow' = plan
    /\ at' = "map"
    /\ UNCHANGED <<input, plan, map, packet, report, release, green>>

Map ==
    /\ at = "map"
    /\ \E reached \in SUBSET Routes : map' = SurfacesOf(reached)
    /\ at' = "run"
    /\ UNCHANGED <<input, plan, flow, packet, report, release, green>>

(* The worker fails, or captures the whole flow.  A state error or a       *)
(* missing artifact is a finding against no criterion.                     *)
Run ==
    /\ at = "run"
    /\ \/ packet' = PacketOf("error", {}, {}, NoFeatures)
       \/ \E found \in SUBSET ({state.id : state \in flow} \X Violable),
             trouble \in BOOLEAN, features \in Features :
                packet' = PacketOf(IF found = {} /\ ~trouble THEN "pass" ELSE "fail",
                                   flow, found, features)
    /\ at' = "review"
    /\ UNCHANGED <<input, plan, flow, map, report, release, green>>

(* The live review passes what it likes of the open criteria, or nothing.  *)
Review ==
    /\ at = "review"
    /\ \E passed \in SUBSET {c \in Criteria : packet.verdicts[c] = "needs_review"} :
          packet' = [packet EXCEPT !.verdicts =
                        [c \in Criteria |-> IF c \in passed THEN "pass" ELSE @[c]]]
    /\ at' = "report"
    /\ UNCHANGED <<input, plan, flow, map, report, release, green>>

(* run_compliance_report, as a step or as a command of its own.  Its       *)
(* output directory is cleaned first.                                      *)
Report ==
    /\ at \in {"report", "done"}
    /\ IF Refused(map, packet)
       THEN report' = Nothing /\ at' = IF at = "done" THEN at ELSE "stopped"
       ELSE report' = ReportOf(map, packet) /\ at' = IF at = "done" THEN at ELSE "release"
    /\ UNCHANGED <<input, plan, flow, map, packet, release, green>>

(* verify_exit_class                                                       *)
ExitsGreen == packet.status # "error" /\ ~Blocked(packet, Changed)

Release ==
    /\ at = "release"
    /\ release' = ReleaseOf(packet, Changed)
    /\ green' = ExitsGreen
    /\ at' = "done"
    /\ UNCHANGED <<input, plan, flow, map, packet, report>>

(* `allie release` with surfaces of its own.                               *)
ReleaseAgain ==
    /\ at = "done"
    /\ \E changed \in Requests : release' = ReleaseOf(packet, changed)
    /\ UNCHANGED <<at, input, plan, flow, map, packet, report, green>>

(* An operator attaches a waiver to the packet.                            *)
Attest ==
    /\ at = "done" /\ packet.waivers = {}
    /\ \E w \in Offered : packet' = [packet EXCEPT !.waivers = {w}]
    /\ UNCHANGED <<at, input, plan, flow, map, report, release, green>>

Expire ==
    /\ at = "done"
    /\ \E w \in packet.waivers :
          /\ w.expires = "ahead"
          /\ packet' = [packet EXCEPT !.waivers = {[w EXCEPT !.expires = "past"]}]
    /\ UNCHANGED <<at, input, plan, flow, map, report, release, green>>

Next ==
    \/ Fail \/ Discover \/ PromoteFlow \/ Map \/ Run \/ Review \/ Report \/ Release
    \/ ReleaseAgain \/ Attest \/ Expire

Spec == Init /\ [][Next]_vars

----------------------------------------------------------------------------
(* Properties *)

Mapped(id) ==
    \E state \in packet.states, surface \in map :
        state.id = id /\ state.path = surface.route

(* When verify exits 0, the run captured every state that discovery had    *)
(* planned, with no finding against any criterion, and every surface that  *)
(* was said to have changed was captured or is the app itself.             *)
GreenIsEarned ==
    green => /\ packet.states = plan /\ packet.found = {}
             /\ \A surface \in Changed : surface \in CapturedIds(packet) \cup {App}

(* A finding on a state whose route the map knows makes its criterion's    *)
(* row fail, whatever the other states, the model or the aggregation say,  *)
(* unless a waiver is attached to a surface of that criterion.             *)
MappedFailIsReported ==
    report # Nothing /\ packet.waivers = {} =>
        \A id \in Ids, c \in Criteria :
            <<id, c>> \in packet.found /\ Mapped(id) => report.rows[c] = "fail"

(* Green stands on captures.  A cell of the matrix passes only for a state *)
(* that was captured, as long as any state was: neither the model's pass   *)
(* nor another state's stands for it.  A report that says pass stands on a *)
(* capture of every state that the manifest lists, although discovery      *)
(* drops all but one of a route, and on a capture of every surface of the  *)
(* map, although the run never saw it.                                     *)
GreenIsCovered ==
    report # Nothing =>
        /\ packet.states # {} => \A cell \in report.cells :
              cell.status = "pass" => cell.state \in CapturedIds(packet)
        /\ report.status = "pass" =>
              /\ \A i \in DOMAIN manifest : manifest[i].id \in CapturedIds(packet)
              /\ \A surface \in map : \E state \in packet.states :
                    state.path = surface.route \/ state.id = surface.id

(* A finding that the report does not show as a failed row, because a      *)
(* waiver covers it or because the map misses its route, still blocks the  *)
(* release, whoever asks and whatever the waiver's date.                   *)
HiddenFailIsBlocked ==
    report # Nothing /\ release # Nothing =>
        \A c \in Criteria :
            Found(packet, c) /\ report.rows[c] # "fail" => release.status = "blocked"

(* docs/verification.md says that exit 0 means that the evidence passed    *)
(* for the required deterministic and scripted checks.  The scripted check *)
(* for reflow fails its verdict without a finding, and only findings are   *)
(* counted.                                                                *)
ExitZeroMeansChecksPassed ==
    green => \A c \in Criteria : packet.verdicts[c] # "fail"
=============================================================================
