------------------------------ MODULE VerifyProofs ------------------------------
(* For every site, manifest, profile and waiver: the types of Verify, that *)
(* an exit of 0 is earned and covered, and that no finding is lost between *)
(* the report and the release decision.                                    *)
EXTENDS Verify, WellFoundedInduction, TLAPS

----------------------------------------------------------------------------
(* The operators *)

LEMMA LeastOf ==
    ASSUME NEW S \in SUBSET Nat, S # {}
    PROVE  \E k \in S : \A j \in S : k <= j
<1> DEFINE R == OpToRel(<, Nat)
<1>1. \A j, k \in Nat : j < k => <<j, k>> \in R
  BY DEF OpToRel
<1>2. IsWellFoundedOn(R, Nat)
  BY NatLessThanWellFounded
<1> HIDE DEF R
<1>3. PICK k \in S : \A j \in S : ~ (<<j, k>> \in R)
  BY <1>2, WFMin
<1>4. ASSUME NEW j \in S PROVE k <= j
  <2>1. j \in Nat /\ k \in Nat /\ ~ (j < k)
    BY <1>1, <1>3
  <2> QED  BY <2>1
<1> QED  BY <1>4

LEMMA MaxIsGreatest ==
    ASSUME NEW n \in Nat, NEW S \in SUBSET (1 .. n), S # {}
    PROVE  Max(S) \in S /\ \A k \in S : Max(S) >= k
<1> DEFINE Bounds == {b \in Nat : \A k \in S : k <= b}
<1>1. n \in Bounds /\ Bounds \in SUBSET Nat
  OBVIOUS
<1>2. PICK b \in Bounds : \A c \in Bounds : b <= c
  <2> HIDE DEF Bounds
  <2> QED  BY <1>1, LeastOf
<1>3. b \in S
  <2> SUFFICES ASSUME b \notin S PROVE FALSE
    OBVIOUS
  <2>1. PICK k \in S : TRUE
    OBVIOUS
  <2>2. b - 1 \in Nat /\ \A j \in S : j <= b - 1
    BY <2>1
  <2> QED  BY <1>2, <2>2
<1>4. \E k \in S : \A j \in S : k >= j
  BY <1>3
<1> QED  BY <1>4 DEF Max

LEMMA MinIsLeast ==
    ASSUME NEW n \in Nat, NEW S \in SUBSET (1 .. n), S # {}
    PROVE  Min(S) \in S /\ \A k \in S : Min(S) <= k
<1>1. PICK k \in S : \A j \in S : k <= j
  BY LeastOf
<1> QED  BY <1>1 DEF Min

(* A failed cell fails its row, and a row that is neither open nor failed  *)
(* has only passed cells and cells that do not apply.                      *)
LEMMA RowIsWorst ==
    ASSUME NEW statuses \in SUBSET CellStatuses
    PROVE  /\ RowOf(statuses) \in CellStatuses
           /\ "fail" \in statuses => RowOf(statuses) = "fail"
           /\ RowOf(statuses) \in {"pass", "not_applicable"} =>
                 statuses \subseteq {"pass", "not_applicable"}
<1> DEFINE ranked == {i \in DOMAIN Precedence : Precedence[i] \in statuses}
<1>1. DOMAIN Precedence = 1 .. 5 /\ ranked \in SUBSET (1 .. 5)
  BY DEF Precedence
<1>2. /\ Precedence[1] = "fail" /\ Precedence[2] = "needs_review"
      /\ Precedence[3] = "not_tested" /\ Precedence[4] = "risk_accepted"
      /\ Precedence[5] = "waived"
  BY DEF Precedence
<1>3. CellStatuses = {"pass", "fail", "not_applicable", "needs_review", "not_tested",
                      "waived", "risk_accepted"}
  BY DEF CellStatuses, Statuses
<1>4. CASE statuses \subseteq {"not_applicable"}
  BY <1>3, <1>4 DEF RowOf
<1>5. CASE ~(statuses \subseteq {"not_applicable"}) /\ ranked = {}
  <2>1. RowOf(statuses) = "pass"
    BY <1>5 DEF RowOf
  <2>2. statuses \cap {"fail", "needs_review", "not_tested", "risk_accepted", "waived"} = {}
    BY <1>1, <1>2, <1>5
  <2> QED  BY <1>3, <2>1, <2>2
<1>6. CASE ~(statuses \subseteq {"not_applicable"}) /\ ranked # {}
  <2>1. RowOf(statuses) = Precedence[Min(ranked)]
    BY <1>6 DEF RowOf
  <2>2. Min(ranked) \in ranked /\ \A k \in ranked : Min(ranked) <= k
    BY <1>1, <1>6, MinIsLeast
  <2>3. Min(ranked) \in 1 .. 5
    BY <1>1, <2>2
  <2>4. "fail" \in statuses => Min(ranked) = 1
    <3>1. "fail" \in statuses => 1 \in ranked
      BY <1>1, <1>2
    <3> HIDE DEF ranked
    <3> QED  BY <2>2, <2>3, <3>1
  <2>5. RowOf(statuses) \in {"fail", "needs_review", "not_tested", "risk_accepted", "waived"}
    <3> HIDE DEF ranked
    <3>1. Min(ranked) \in {1, 2, 3, 4, 5}
      BY <2>3
    <3> QED  BY <1>2, <2>1, <3>1
  <2> QED  BY <1>2, <1>3, <2>1, <2>4, <2>5
<1> QED  BY <1>4, <1>5, <1>6

(* A surface that the manifest names has the name of one of its states.    *)
LEMMA NamedIsDeclared ==
    ASSUME manifest \in Manifests, NEW route \in Routes
    PROVE  /\ Named(route) \in Ids
           /\ Declared(route) # {} =>
                 Named(route) \in {manifest[i].id : i \in Declared(route)}
           /\ {manifest[i].id : i \in Declared(route)} \subseteq Ids
<1>1. manifest \in Seq([id : Ids, path : Routes])
  BY SiteAssumption
<1>2. Len(manifest) \in Nat /\ DOMAIN manifest = 1 .. Len(manifest)
      /\ \A i \in 1 .. Len(manifest) : manifest[i].id \in Ids
  <2> DEFINE entries == [id : Ids, path : Routes]
  <2>1. \A e \in entries : e.id \in Ids
    OBVIOUS
  <2> HIDE DEF entries
  <2>2. manifest \in Seq(entries)
    BY <1>1 DEF entries
  <2>3. /\ Len(manifest) \in Nat /\ DOMAIN manifest = 1 .. Len(manifest)
        /\ \A i \in 1 .. Len(manifest) : manifest[i] \in entries
    BY <2>2
  <2> QED  BY <2>1, <2>3
<1>3. Declared(route) \in SUBSET (1 .. Len(manifest))
  BY <1>2 DEF Declared
<1>4. Declared(route) # {} => Max(Declared(route)) \in Declared(route)
  BY <1>2, <1>3, MaxIsGreatest
<1> QED  BY <1>2, <1>3, <1>4, SiteAssumption DEF Named

----------------------------------------------------------------------------
(* Packets, the cells of a report, and its rows *)

(* A finding fails its criterion; the others have one of the statuses.     *)
LEMMA VerdictsAre ==
    ASSUME NEW found, NEW features, features.check \in {"pass", "fail", "needs_review"},
           NEW c \in Criteria
    PROVE  /\ VerdictOf(found, features, c) \in Statuses
           /\ (\E id \in Ids : <<id, c>> \in found) => VerdictOf(found, features, c) = "fail"
<1>1. Kind[c] \in {"axe", "feature", "media", "judged"}
  BY SiteAssumption DEF Kinds
<1>2. VerdictOf(found, features, c) \in Statuses
  BY <1>1 DEF VerdictOf, Statuses
<1>3. (\E id \in Ids : <<id, c>> \in found) => VerdictOf(found, features, c) = "fail"
  BY DEF VerdictOf
<1> QED  BY <1>2, <1>3

(* A cell that passes or does not apply is of a captured state, of no      *)
(* finding and of no waiver.                                               *)
LEMMA CellIsEarned ==
    ASSUME NEW p \in Packet, NEW surface \in Surface, NEW id \in Ids, NEW c \in Criteria,
           Found(p, c) => p.verdicts[c] = "fail"
    PROVE  /\ CellStatus(p, surface, id, c) \in CellStatuses
           /\ CellStatus(p, surface, id, c) \in {"pass", "not_applicable"} =>
                 p.states = {} \/ id \in CapturedIds(p)
           /\ p.waivers = {} /\ <<id, c>> \in p.found =>
                 CellStatus(p, surface, id, c) = "fail"
<1>1. p.verdicts[c] \in CellStatuses
  BY DEF Packet, CellStatuses
<1>2. CellStatus(p, surface, id, c) \in CellStatuses
  BY <1>1 DEF CellStatus, CellStatuses, Statuses
<1>3. ASSUME CellStatus(p, surface, id, c) \in {"pass", "not_applicable"}
      PROVE  p.states = {} \/ id \in CapturedIds(p)
  <2>1. Applies(p, c, id) /\ CellStatus(p, surface, id, c) = p.verdicts[c]
    BY <1>3 DEF CellStatus
  <2>2. ~ Found(p, c)
    BY <1>3, <2>1
  <2> QED  BY <2>1, <2>2 DEF Applies
<1>4. ASSUME p.waivers = {}, <<id, c>> \in p.found
      PROVE  CellStatus(p, surface, id, c) = "fail"
  <2>1. WaiversOf(p, surface, c) = {}
    BY <1>4 DEF WaiversOf
  <2>2. Found(p, c)
    BY <1>4 DEF Found
  <2>3. Applies(p, c, id)
    BY <1>4, <2>2 DEF Applies
  <2> QED  BY <2>1, <2>2, <2>3 DEF CellStatus
<1> QED  BY <1>2, <1>3, <1>4

LEMMA StateIdsType ==
    ASSUME NEW p \in Packet, NEW surface \in Surface
    PROVE  StateIds(surface, p) \subseteq Ids /\ StateIds(surface, p) # {}
<1>1. surface.id \in Ids /\ surface.evidence \subseteq Ids /\ p.states \subseteq State
  BY DEF Surface, Packet
<1>2. \A state \in p.states : state.id \in Ids
  BY <1>1 DEF State
<1> QED  BY <1>1, <1>2 DEF StateIds

LEMMA CellsAre ==
    ASSUME NEW surfaces, NEW p, NEW cell
    PROVE  cell \in Cells(surfaces, p) <=>
              \E surface \in surfaces : \E id \in StateIds(surface, p), c \in Criteria :
                 cell = [surface |-> surface.id, state |-> id, criterion |-> c,
                         status |-> CellStatus(p, surface, id, c)]
BY DEF Cells

(* The statuses of a criterion's cells.                                    *)
Column(cells, c) == {cell.status : cell \in {d \in cells : d.criterion = c}}

LEMMA ColumnsAre ==
    ASSUME NEW surfaces \in SUBSET Surface, NEW p \in Packet,
           \A c \in Criteria : Found(p, c) => p.verdicts[c] = "fail"
    PROVE  LET cells == Cells(surfaces, p)
           IN  /\ \A cell \in cells : /\ cell.state \in Ids /\ cell.surface \in Ids
                                      /\ cell.criterion \in Criteria
                                      /\ cell.status \in CellStatuses
                                      /\ cell.status \in {"pass", "not_applicable"} =>
                                            p.states = {} \/ cell.state \in CapturedIds(p)
               /\ \A c \in Criteria, surface \in surfaces : \A id \in StateIds(surface, p) :
                     CellStatus(p, surface, id, c) \in Column(cells, c)
               /\ \A c \in Criteria : /\ Column(cells, c) \in SUBSET CellStatuses
                                      /\ Rows(cells)[c] = RowOf(Column(cells, c))
<1> DEFINE cells == Cells(surfaces, p)
<1>1. ASSUME NEW cell \in cells
      PROVE  /\ cell.state \in Ids /\ cell.surface \in Ids /\ cell.criterion \in Criteria
             /\ cell.status \in CellStatuses
             /\ cell.status \in {"pass", "not_applicable"} =>
                   p.states = {} \/ cell.state \in CapturedIds(p)
  <2>1. PICK surface \in surfaces : \E id \in StateIds(surface, p), c \in Criteria :
           cell = [surface |-> surface.id, state |-> id, criterion |-> c,
                   status |-> CellStatus(p, surface, id, c)]
    BY CellsAre
  <2>2. PICK id \in StateIds(surface, p), c \in Criteria :
           cell = [surface |-> surface.id, state |-> id, criterion |-> c,
                   status |-> CellStatus(p, surface, id, c)]
    BY <2>1
  <2>3. surface \in Surface /\ surface.id \in Ids /\ id \in Ids
    BY StateIdsType DEF Surface
  <2>4. /\ cell.state = id /\ cell.surface = surface.id /\ cell.criterion = c
        /\ cell.status = CellStatus(p, surface, id, c)
    BY <2>2
  <2>5. /\ CellStatus(p, surface, id, c) \in CellStatuses
        /\ CellStatus(p, surface, id, c) \in {"pass", "not_applicable"} =>
              p.states = {} \/ id \in CapturedIds(p)
    BY <2>3, CellIsEarned
  <2> QED  BY <2>3, <2>4, <2>5
<1>2. ASSUME NEW c \in Criteria, NEW surface \in surfaces, NEW id \in StateIds(surface, p)
      PROVE  CellStatus(p, surface, id, c) \in Column(cells, c)
  <2> DEFINE cell == [surface |-> surface.id, state |-> id, criterion |-> c,
                      status |-> CellStatus(p, surface, id, c)]
  <2>1. cell \in cells
    BY CellsAre
  <2>2. cell.criterion = c /\ cell.status = CellStatus(p, surface, id, c)
    OBVIOUS
  <2> HIDE DEF cell, cells
  <2> QED  BY <2>1, <2>2 DEF Column
<1> HIDE DEF cells
<1>3. \A c \in Criteria : /\ Column(cells, c) \in SUBSET CellStatuses
                          /\ Rows(cells)[c] = RowOf(Column(cells, c))
  BY <1>1 DEF Column, Rows
<1> QED  BY <1>1, <1>2, <1>3 DEF cells

LEMMA ReportType ==
    ASSUME NEW surfaces \in SUBSET Surface, NEW p \in Packet,
           \A c \in Criteria : Found(p, c) => p.verdicts[c] = "fail"
    PROVE  LET r == ReportOf(surfaces, p)
           IN  /\ r.rows \in [Criteria -> CellStatuses]
               /\ r.status \in {"pass", "fail", "error", "needs_review"}
               /\ \A cell \in r.cells : /\ cell.state \in Ids /\ cell.surface \in Ids
                                        /\ cell.status \in CellStatuses
<1> DEFINE cells == Cells(surfaces, p)
           r == ReportOf(surfaces, p)
<1>1. r.rows = Rows(cells) /\ r.cells = cells /\ r.status = ReportStatus(p, Rows(cells))
  BY DEF ReportOf
<1>2. \A cell \in cells : /\ cell.state \in Ids /\ cell.surface \in Ids
                          /\ cell.status \in CellStatuses
  BY ColumnsAre
<1>3. ASSUME NEW c \in Criteria PROVE Rows(cells)[c] \in CellStatuses
  <2>1. Column(cells, c) \in SUBSET CellStatuses /\ Rows(cells)[c] = RowOf(Column(cells, c))
    BY ColumnsAre
  <2> QED  BY <2>1, RowIsWorst
<1>4. Rows(cells) \in [Criteria -> CellStatuses]
  BY <1>3 DEF Rows
<1>5. ReportStatus(p, Rows(cells)) \in {"pass", "fail", "error", "needs_review"}
  BY DEF ReportStatus
<1> HIDE DEF cells, r
<1>6. /\ r.rows \in [Criteria -> CellStatuses]
      /\ r.status \in {"pass", "fail", "error", "needs_review"}
      /\ \A cell \in r.cells : /\ cell.state \in Ids /\ cell.surface \in Ids
                               /\ cell.status \in CellStatuses
  BY <1>1, <1>2, <1>4, <1>5
<1> QED  BY <1>6 DEF r

----------------------------------------------------------------------------
(* The inductive invariant *)

Before == {"discover", "promote", "map", "run"}

(* The map is one that a crawl could draw.                                 *)
Drawn == \E reached \in SUBSET Routes : map = SurfacesOf(reached)

(* What each step has to hand to the next.                                 *)
InOrder ==
    /\ at \in Before => packet = Nothing
    /\ at \in {"promote", "map", "run"} => plan # {}
    /\ at \in {"map", "run"} => flow = plan
    /\ at = "run" => Drawn
    /\ at \in {"review", "report", "release", "done"} => packet # Nothing
    /\ at \in Before \cup {"review", "report"} => report = Nothing
    /\ at # "done" => release = Nothing /\ ~green

(* An evidence packet captured the whole plan, and its status and its      *)
(* verdicts know every finding.                                            *)
PacketStands ==
    packet # Nothing =>
        /\ plan # {} /\ Drawn
        /\ packet.status # "error" => packet.states = plan
        /\ packet.found # {} => packet.status # "pass"
        /\ \A c \in Criteria : Found(packet, c) => packet.verdicts[c] = "fail"

(* The report is that of the packet, but for waivers attached since.       *)
ReportStands ==
    report # Nothing =>
        /\ packet # Nothing
        /\ \E waivers \in SUBSET Waiver :
              /\ report = ReportOf(map, [packet EXCEPT !.waivers = waivers])
              /\ packet.waivers = {} => waivers = {}

ReleaseStands ==
    /\ release # Nothing =>
          /\ packet # Nothing
          /\ packet.status # "pass" => release.status = "blocked"
    /\ green => /\ packet # Nothing /\ packet.status = "pass"
                /\ Missing(packet, Changed) = {}

IInv == TypeOK /\ InOrder /\ PacketStands /\ ReportStands /\ ReleaseStands

LEMMA SurfacesStay ==
    ASSUME manifest' = manifest
    PROVE  \A reached : SurfacesOf(reached)' = SurfacesOf(reached)
<1>1. \A route : Declared(route)' = Declared(route)
  BY DEF Declared
<1>2. \A route : Named(route)' = Named(route)
  BY <1>1 DEF Named
<1>3. \A reached : Discovered(reached)' = Discovered(reached)
  BY <1>1 DEF Discovered
<1> QED  BY <1>1, <1>2, <1>3 DEF SurfacesOf

LEMMA DrawnStays ==
    ASSUME Drawn, manifest' = manifest, map' = map
    PROVE  Drawn'
BY SurfacesStay DEF Drawn

(* Two packets that differ in their waivers.                               *)
LEMMA OtherWaivers ==
    ASSUME NEW p \in Packet, NEW waivers \in SUBSET Waiver,
           NEW q, q = [p EXCEPT !.waivers = waivers]
    PROVE  /\ q \in Packet /\ q.status = p.status /\ q.states = p.states
           /\ q.found = p.found /\ q.verdicts = p.verdicts /\ q.waivers = waivers
           /\ \A other : [q EXCEPT !.waivers = other] = [p EXCEPT !.waivers = other]
BY DEF Packet

LEMMA SurfacesAre ==
    ASSUME manifest \in Manifests, NEW reached \in SUBSET Routes
    PROVE  /\ SurfacesOf(reached) \in SUBSET Surface
           /\ Candidates(reached) \in SUBSET State /\ Candidates(reached) # {}
           /\ \A surface \in SurfacesOf(reached) :
                 surface.evidence # {} => surface.id \in surface.evidence
           /\ \A i \in DOMAIN manifest : \E surface \in SurfacesOf(reached) :
                 manifest[i].id \in surface.evidence
<1>1. Discovered(reached) \cup Files \subseteq Routes
  BY SiteAssumption DEF Discovered
<1>2. ASSUME NEW route \in Routes
      PROVE  LET evidence == {manifest[i].id : i \in Declared(route)}
             IN  /\ Named(route) \in Ids /\ evidence \subseteq Ids
                 /\ evidence # {} => Named(route) \in evidence
  BY NamedIsDeclared
<1>3. SurfacesOf(reached) \in SUBSET Surface
  BY <1>1, <1>2 DEF SurfacesOf, Surface
<1>4. Candidates(reached) \in SUBSET State
  BY <1>1, <1>2 DEF Candidates, State
<1>5. \A surface \in SurfacesOf(reached) :
         surface.evidence # {} => surface.id \in surface.evidence
  BY <1>1, <1>2 DEF SurfacesOf
<1>6. ASSUME NEW i \in DOMAIN manifest
      PROVE  /\ manifest[i].path \in Discovered(reached)
             /\ i \in Declared(manifest[i].path)
  <2> DEFINE entries == [id : Ids, path : Routes]
  <2>1. \A e \in entries : e.path \in Routes
    OBVIOUS
  <2> HIDE DEF entries
  <2>2. manifest \in Seq(entries)
    BY SiteAssumption DEF entries
  <2>3. manifest[i] \in entries
    BY <2>2
  <2>4. i \in Declared(manifest[i].path)
    BY DEF Declared
  <2> QED  BY <2>1, <2>3, <2>4 DEF Discovered
<1>7. ASSUME NEW i \in DOMAIN manifest
      PROVE  \E surface \in SurfacesOf(reached) : manifest[i].id \in surface.evidence
  <2> DEFINE route == manifest[i].path
             surface == [id |-> Named(route), route |-> route,
                         evidence |-> {manifest[k].id : k \in Declared(route)}]
  <2>1. surface \in SurfacesOf(reached)
    BY <1>6 DEF SurfacesOf
  <2>2. manifest[i].id \in surface.evidence
    BY <1>6
  <2> QED  BY <2>1, <2>2
<1>8. Candidates(reached) # {}
  <2>1. manifest \in Seq([id : Ids, path : Routes]) /\ manifest # <<>>
    BY SiteAssumption
  <2>2. 1 \in DOMAIN manifest
    BY <2>1
  <2> QED  BY <1>6, <2>2 DEF Candidates
<1> QED  BY <1>3, <1>4, <1>5, <1>7, <1>8

LEMMA ReportIsMade ==
    ASSUME IInv, Report, packet # Nothing
    PROVE  IInv'
<1>1. /\ packet \in Packet /\ map \in SUBSET Surface /\ packet' = packet /\ map' = map
      /\ UNCHANGED <<input, plan, flow, release, green>> /\ at \in {"report", "done"}
  BY DEF IInv, TypeOK, Report
<1>2. PacketStands' /\ ReleaseStands'
  BY <1>1, DrawnStays DEF IInv, PacketStands, ReleaseStands,
     Changed, Found, Missing, CapturedIds, input
<1>3. report' = Nothing \/ report' = ReportOf(map, packet)
  BY DEF Report
<1>4. packet = [packet EXCEPT !.waivers = packet.waivers] /\ packet.waivers \in SUBSET Waiver
  BY <1>1 DEF Packet
<1>5. ReportStands'
  BY <1>1, <1>3, <1>4 DEF IInv, ReportStands
<1>6. report' = Nothing \/
        /\ report'.rows \in [Criteria -> CellStatuses]
        /\ report'.status \in {"pass", "fail", "error", "needs_review"}
        /\ \A cell \in report'.cells : /\ cell.state \in Ids /\ cell.surface \in Ids
                                       /\ cell.status \in CellStatuses
  <2>1. \A c \in Criteria : Found(packet, c) => packet.verdicts[c] = "fail"
    BY DEF IInv, PacketStands
  <2> QED  BY <1>1, <1>3, <2>1, ReportType
<1>7. /\ at' \in {"stopped", "release", "done"} /\ at' = "done" <=> at = "done"
      /\ at \notin {"done"} => at' \in {"stopped", "release"}
  BY <1>1 DEF Report
<1>8. TypeOK'
  BY <1>1, <1>6, <1>7 DEF IInv, TypeOK, input
<1>9. InOrder'
  BY <1>1, <1>7 DEF IInv, InOrder, Before
<1> QED  BY <1>2, <1>5, <1>8, <1>9 DEF IInv

(* A waiver is attached, or expires: nothing else of the packet changes.   *)
LEMMA WaiversChange ==
    ASSUME IInv, at = "done", NEW waivers \in SUBSET Waiver, waivers # {},
           packet' = [packet EXCEPT !.waivers = waivers],
           UNCHANGED <<at, input, plan, flow, map, report, release, green>>
    PROVE  IInv'
<1>1. packet \in Packet /\ packet # Nothing
  BY DEF IInv, TypeOK, InOrder
<1>2. /\ packet' \in Packet /\ packet' # Nothing /\ packet'.status = packet.status
      /\ packet'.states = packet.states /\ packet'.found = packet.found
      /\ packet'.verdicts = packet.verdicts /\ packet'.waivers = waivers
      /\ \A other : [packet' EXCEPT !.waivers = other] = [packet EXCEPT !.waivers = other]
  <2>1. PICK q : q = [packet EXCEPT !.waivers = waivers]
    OBVIOUS
  <2>2. /\ q \in Packet /\ q.status = packet.status /\ q.states = packet.states
        /\ q.found = packet.found /\ q.verdicts = packet.verdicts /\ q.waivers = waivers
    BY <1>1, <2>1, OtherWaivers
  <2>3. \A other : [q EXCEPT !.waivers = other] = [packet EXCEPT !.waivers = other]
    BY <1>1, <2>1, OtherWaivers
  <2> QED  BY <2>1, <2>2, <2>3, NothingAssumption
<1>3. TypeOK' /\ InOrder'
  BY <1>2 DEF IInv, TypeOK, InOrder, input, Before
<1>4. PacketStands'
  BY <1>1, <1>2, DrawnStays DEF IInv, PacketStands, Found, input
<1>5. ReportStands'
  BY <1>2 DEF IInv, ReportStands
<1>6. ReleaseStands'
  BY <1>1, <1>2 DEF IInv, ReleaseStands, Missing, Changed, CapturedIds, input
<1> QED  BY <1>3, <1>4, <1>5, <1>6 DEF IInv

LEMMA IInvByNext == IInv /\ [Next]_vars => IInv'
<1> SUFFICES ASSUME IInv, [Next]_vars PROVE IInv'
  OBVIOUS
<1> USE DEF input
<1>1. /\ TypeOK /\ InOrder /\ PacketStands /\ ReportStands /\ ReleaseStands
      /\ manifest \in Manifests
  BY DEF IInv, TypeOK
<1>2. CASE UNCHANGED vars
  <2>1. TypeOK' /\ InOrder'
    BY <1>1, <1>2, DrawnStays DEF vars, TypeOK, InOrder, Before
  <2>2. PacketStands' /\ ReportStands' /\ ReleaseStands'
    BY <1>1, <1>2, DrawnStays DEF vars, PacketStands, ReportStands, ReleaseStands, Missing,
       Changed
  <2> QED  BY <2>1, <2>2 DEF IInv
<1>3. CASE Fail
  <2>1. TypeOK' /\ InOrder'
    BY <1>1, <1>3 DEF Fail, TypeOK, InOrder, Before
  <2>2. PacketStands' /\ ReportStands' /\ ReleaseStands'
    BY <1>1, <1>3, DrawnStays DEF Fail, PacketStands, ReportStands, ReleaseStands, Missing,
       Changed, InOrder
  <2> QED  BY <2>1, <2>2 DEF IInv
<1>4. CASE Discover
  <2>1. PICK reached \in SUBSET Routes : plan' = Candidates(reached)
    BY <1>4 DEF Discover
  <2>2. plan' \in SUBSET State /\ plan' # {}
    BY <1>1, <2>1, SurfacesAre
  <2>3. packet' = Nothing /\ report' = Nothing /\ release' = Nothing /\ ~green
    BY <1>1, <1>4 DEF Discover, InOrder, Before
  <2>4. TypeOK' /\ InOrder'
    BY <1>1, <1>4, <2>2, <2>3 DEF Discover, TypeOK, InOrder, Before
  <2> QED  BY <1>4, <2>3, <2>4
           DEF Discover, IInv, PacketStands, ReportStands, ReleaseStands
<1>5. CASE PromoteFlow
  <2>1. packet' = Nothing /\ report' = Nothing /\ release' = Nothing /\ ~green
    BY <1>1, <1>5 DEF PromoteFlow, InOrder, Before
  <2>2. TypeOK' /\ InOrder'
    BY <1>1, <1>5, <2>1 DEF PromoteFlow, TypeOK, InOrder, Before
  <2> QED  BY <1>5, <2>1, <2>2
           DEF PromoteFlow, IInv, PacketStands, ReportStands, ReleaseStands
<1>6. CASE Map
  <2>1. PICK reached \in SUBSET Routes : map' = SurfacesOf(reached)
    BY <1>6 DEF Map
  <2>2. map' \in SUBSET Surface
    BY <1>1, <2>1, SurfacesAre
  <2>3. packet' = Nothing /\ report' = Nothing /\ release' = Nothing /\ ~green
    BY <1>1, <1>6 DEF Map, InOrder, Before
  <2>4. Drawn'
    BY <1>6, <2>1, SurfacesStay DEF Map, Drawn
  <2>5. TypeOK' /\ InOrder'
    BY <1>1, <1>6, <2>2, <2>3, <2>4 DEF Map, TypeOK, InOrder, Before
  <2> QED  BY <1>6, <2>3, <2>5
           DEF Map, IInv, PacketStands, ReportStands, ReleaseStands
<1>7. CASE Run
  <2>1. /\ at = "run" /\ at' = "review" /\ plan # {} /\ flow = plan /\ flow \in SUBSET State
        /\ UNCHANGED <<manifest, request, plan, flow, map, report, release, green>>
        /\ report = Nothing /\ release = Nothing /\ ~green
    BY <1>1, <1>7 DEF Run, InOrder, Before, TypeOK
  <2>2. Drawn'
    BY <1>1, <2>1, DrawnStays DEF InOrder
  <2>3. /\ packet' \in Packet
        /\ packet'.status # "error" => packet'.states = plan
        /\ packet'.found # {} => packet'.status # "pass"
        /\ \A c \in Criteria : Found(packet', c) => packet'.verdicts[c] = "fail"
    <3>1. CASE packet' = PacketOf("error", {}, {}, NoFeatures)
      <4>1. /\ packet' \in Packet /\ packet'.status = "error" /\ packet'.found = {}
            /\ \A c \in Criteria : Found(packet', c) => packet'.verdicts[c] = "fail"
        <5>1. {} \in SUBSET State /\ {} \in SUBSET (Ids \X Criteria)
          OBVIOUS
        <5>2. PICK verdicts : verdicts = [c \in Criteria |-> VerdictOf({}, NoFeatures, c)]
          OBVIOUS
        <5>3. /\ verdicts \in [Criteria -> Statuses]
              /\ \A c \in Criteria : (\E id \in Ids : <<id, c>> \in {}) => verdicts[c] = "fail"
          <6>1. NoFeatures.check \in {"pass", "fail", "needs_review"}
            BY DEF Features, NoFeatures
          <6> QED  BY <5>2, <6>1, VerdictsAre
        <5>4. PICK p : p = PacketOf("error", {}, {}, NoFeatures)
          OBVIOUS
        <5>5. p = [status |-> "error", states |-> {}, found |-> {}, verdicts |-> verdicts,
                   waivers |-> {}]
          BY <5>2, <5>4 DEF PacketOf
        <5>6. /\ p \in Packet /\ p.status = "error" /\ p.states = {} /\ p.found = {}
              /\ \A c \in Criteria : Found(p, c) => p.verdicts[c] = "fail"
          BY <5>1, <5>3, <5>5 DEF Packet, Found
        <5> QED  BY <3>1, <5>4, <5>6
      <4> QED  BY <4>1
    <3>2. CASE packet' # PacketOf("error", {}, {}, NoFeatures)
      <4>1. PICK found \in SUBSET ({state.id : state \in flow} \X Violable),
                 trouble \in BOOLEAN, features \in Features :
                    packet' = PacketOf(IF found = {} /\ ~trouble THEN "pass" ELSE "fail",
                                       flow, found, features)
        BY <1>7, <3>2 DEF Run
      <4>2. found \in SUBSET (Ids \X Criteria)
        <5>1. {state.id : state \in flow} \subseteq Ids /\ Violable \subseteq Criteria
          BY <2>1, SiteAssumption DEF State
        <5> QED  BY <5>1
      <4>3. PICK status \in {"pass", "fail"} :
               /\ packet' = PacketOf(status, flow, found, features)
               /\ found # {} => status = "fail"
        BY <4>1
      <4>4. /\ packet' \in Packet /\ packet'.status = status
            /\ packet'.states = flow /\ packet'.found = found
            /\ \A c \in Criteria : Found(packet', c) => packet'.verdicts[c] = "fail"
        <5>1. PICK verdicts : verdicts = [c \in Criteria |-> VerdictOf(found, features, c)]
          OBVIOUS
        <5>2. /\ verdicts \in [Criteria -> Statuses]
              /\ \A c \in Criteria :
                    (\E id \in Ids : <<id, c>> \in found) => verdicts[c] = "fail"
          <6>1. features.check \in {"pass", "fail", "needs_review"}
            BY DEF Features, NoFeatures
          <6> QED  BY <5>1, <6>1, VerdictsAre
        <5>3. PICK p : p = PacketOf(status, flow, found, features)
          OBVIOUS
        <5>4. p = [status |-> status, states |-> flow, found |-> found, verdicts |-> verdicts,
                   waivers |-> {}]
          BY <5>1, <5>3 DEF PacketOf
        <5>5. /\ p.status = status /\ p.states = flow /\ p.found = found
              /\ p.verdicts = verdicts
          BY <5>4
        <5>6. p \in Packet
          BY <2>1, <4>2, <5>2, <5>4 DEF Packet
        <5>7. \A c \in Criteria : Found(p, c) => p.verdicts[c] = "fail"
          BY <5>2, <5>5 DEF Found
        <5> QED  BY <4>3, <5>3, <5>5, <5>6, <5>7
      <4> QED  BY <2>1, <4>3, <4>4
    <3> QED  BY <3>1, <3>2
  <2>4. packet' # Nothing
    BY <2>3, NothingAssumption
  <2>5. TypeOK' /\ InOrder'
    BY <1>1, <2>1, <2>3, <2>4 DEF TypeOK, InOrder, Before
  <2>6. PacketStands'
    BY <2>1, <2>2, <2>3 DEF PacketStands, Found
  <2> QED  BY <2>1, <2>5, <2>6 DEF IInv, ReportStands, ReleaseStands
<1>8. CASE Review
  <2>1. /\ at = "review" /\ at' = "report" /\ packet \in Packet /\ packet # Nothing
        /\ UNCHANGED <<manifest, request, plan, flow, map, report, release, green>>
        /\ report = Nothing /\ release = Nothing /\ ~green
    BY <1>1, <1>8 DEF Review, InOrder, Before, TypeOK
  <2>2. PICK passed \in SUBSET {c \in Criteria : packet.verdicts[c] = "needs_review"} :
           packet' = [packet EXCEPT !.verdicts =
                        [c \in Criteria |-> IF c \in passed THEN "pass" ELSE @[c]]]
    BY <1>8 DEF Review
  <2> DEFINE verdicts == [c \in Criteria |-> IF c \in passed THEN "pass"
                                                             ELSE packet.verdicts[c]]
  <2>3. verdicts \in [Criteria -> Statuses]
    BY <2>1 DEF Packet, Statuses
  <2>4. \A c \in Criteria : packet.verdicts[c] = "fail" => verdicts[c] = "fail"
    BY <2>2
  <2>5. packet' = [packet EXCEPT !.verdicts = verdicts]
    BY <2>2
  <2> HIDE DEF verdicts
  <2>6. /\ packet' \in Packet /\ packet'.status = packet.status
        /\ packet'.states = packet.states /\ packet'.found = packet.found
        /\ packet'.verdicts = verdicts
    BY <2>1, <2>3, <2>5 DEF Packet
  <2>7. packet' # Nothing
    BY <2>6, NothingAssumption
  <2>8. TypeOK' /\ InOrder'
    BY <1>1, <2>1, <2>6, <2>7 DEF TypeOK, InOrder, Before
  <2>9. PacketStands'
    BY <1>1, <2>1, <2>4, <2>6, DrawnStays DEF PacketStands, Found
  <2> QED  BY <2>1, <2>8, <2>9 DEF IInv, ReportStands, ReleaseStands
<1>9. CASE Report
  BY <1>1, <1>9, ReportIsMade DEF Report, InOrder
<1>10. CASE Release
  <2>1. /\ at = "release" /\ at' = "done" /\ packet \in Packet /\ packet # Nothing
        /\ UNCHANGED <<manifest, request, plan, flow, map, packet, report>>
        /\ release' = ReleaseOf(packet, Changed) /\ green' = ExitsGreen
    BY <1>1, <1>10 DEF Release, InOrder, TypeOK
  <2>2. /\ release'.status \in {"blocked", "needs_review"}
        /\ packet.status # "pass" => release'.status = "blocked"
    BY <2>1 DEF ReleaseOf, Blocked
  <2>3. green' => packet.status = "pass" /\ Missing(packet, Changed) = {}
    BY <2>1 DEF ExitsGreen, Blocked
  <2>4. green' \in BOOLEAN
    BY <2>1 DEF ExitsGreen
  <2>5. TypeOK' /\ InOrder'
    BY <1>1, <2>1, <2>2, <2>4 DEF TypeOK, InOrder, Before
  <2>6. PacketStands' /\ ReportStands'
    BY <1>1, <2>1, DrawnStays DEF PacketStands, ReportStands
  <2>7. ReleaseStands'
    BY <2>1, <2>2, <2>3 DEF ReleaseStands, Missing, Changed
  <2> QED  BY <2>5, <2>6, <2>7 DEF IInv
<1>11. CASE ReleaseAgain
  <2>1. PICK changed \in Requests : release' = ReleaseOf(packet, changed)
    BY <1>11 DEF ReleaseAgain
  <2>2. /\ at = "done" /\ packet # Nothing
        /\ UNCHANGED <<at, manifest, request, plan, flow, map, packet, report, green>>
    BY <1>1, <1>11 DEF ReleaseAgain, InOrder
  <2>3. /\ release'.status \in {"blocked", "needs_review"}
        /\ packet.status # "pass" => release'.status = "blocked"
    BY <2>1 DEF ReleaseOf, Blocked
  <2>4. TypeOK' /\ InOrder'
    BY <1>1, <2>2, <2>3 DEF TypeOK, InOrder, Before
  <2>5. PacketStands' /\ ReportStands'
    BY <1>1, <2>2, DrawnStays DEF PacketStands, ReportStands
  <2>6. ReleaseStands'
    BY <1>1, <2>2, <2>3 DEF ReleaseStands, Missing, Changed
  <2> QED  BY <2>4, <2>5, <2>6 DEF IInv
<1>12. CASE Attest
  <2>1. PICK w \in Offered : packet' = [packet EXCEPT !.waivers = {w}]
    BY <1>12 DEF Attest
  <2>2. {w} \in SUBSET Waiver /\ {w} # {}
    BY SiteAssumption
  <2> QED  BY <1>12, <2>1, <2>2, WaiversChange DEF Attest
<1>13. CASE Expire
  <2>1. PICK w \in packet.waivers : packet' = [packet EXCEPT !.waivers =
                                                  {[w EXCEPT !.expires = "past"]}]
    BY <1>13 DEF Expire
  <2>2. w \in Waiver
    BY <1>1, <1>13 DEF Expire, TypeOK, InOrder, Packet
  <2>3. [w EXCEPT !.expires = "past"] \in Waiver
    BY <2>2 DEF Waiver
  <2> QED  BY <1>13, <2>1, <2>3, WaiversChange DEF Expire
<1> QED  BY <1>2, <1>3, <1>4, <1>5, <1>6, <1>7, <1>8, <1>9, <1>10, <1>11, <1>12, <1>13 DEF Next

LEMMA Inductive == Spec => []IInv
<1>1. Init => IInv
  BY DEF Init, IInv, TypeOK, InOrder, Before, PacketStands, ReportStands, ReleaseStands
<1> QED  BY <1>1, IInvByNext, PTL DEF Spec

----------------------------------------------------------------------------
(* What follows *)

LEMMA ReportIsOf ==
    ASSUME IInv, report # Nothing
    PROVE  \E p \in Packet :
              /\ report.cells = Cells(map, p) /\ report.rows = Rows(Cells(map, p))
              /\ report.status = ReportStatus(p, report.rows)
              /\ p.status = packet.status /\ p.states = packet.states
              /\ p.found = packet.found
              /\ packet.waivers = {} => p.waivers = {}
              /\ \A c \in Criteria : Found(p, c) => p.verdicts[c] = "fail"
<1>1. packet \in Packet /\ packet # Nothing
  BY DEF IInv, TypeOK, ReportStands
<1>2. PICK waivers \in SUBSET Waiver :
         /\ report = ReportOf(map, [packet EXCEPT !.waivers = waivers])
         /\ packet.waivers = {} => waivers = {}
  BY DEF IInv, ReportStands
<1>3. PICK p : p = [packet EXCEPT !.waivers = waivers]
  OBVIOUS
<1>4. /\ p \in Packet /\ p.status = packet.status /\ p.states = packet.states
      /\ p.found = packet.found /\ p.verdicts = packet.verdicts /\ p.waivers = waivers
  BY <1>1, <1>3, OtherWaivers
<1>5. \A c \in Criteria : Found(p, c) => p.verdicts[c] = "fail"
  BY <1>1, <1>4 DEF IInv, PacketStands, Found
<1>6. report = ReportOf(map, p)
  BY <1>2, <1>3
<1>7. /\ report.cells = Cells(map, p) /\ report.rows = Rows(Cells(map, p))
      /\ report.status = ReportStatus(p, report.rows)
  BY <1>6 DEF ReportOf
<1> QED  BY <1>2, <1>4, <1>5, <1>7

(* Every variable of the pipeline has its type: what discovery names, what *)
(* the run decides and what the report aggregates are names and statuses   *)
(* that the next reader knows.                                             *)
THEOREM TypeCorrect == Spec => []TypeOK
<1>1. IInv => TypeOK
  BY DEF IInv
<1> QED  BY <1>1, Inductive, PTL

(* Whatever the two crawls reach and whatever the model passes: when       *)
(* verify exits 0, the whole plan was captured without a finding, and each *)
(* surface that was said to have changed was captured or is the app.       *)
THEOREM ExitZeroIsEarned == Spec => []GreenIsEarned
<1>1. ASSUME IInv, green
      PROVE  /\ packet.states = plan /\ packet.found = {}
             /\ \A surface \in Changed : surface \in CapturedIds(packet) \cup {App}
  <2>1. packet # Nothing /\ packet.status = "pass" /\ Missing(packet, Changed) = {}
    BY <1>1 DEF IInv, ReleaseStands
  <2>2. packet.states = plan /\ packet.found = {}
    BY <1>1, <2>1 DEF IInv, PacketStands
  <2>3. \A surface \in Changed : surface \in CapturedIds(packet) \cup {App}
    BY <2>1 DEF Missing
  <2> QED  BY <2>2, <2>3
<1>2. IInv => GreenIsEarned
  BY <1>1 DEF GreenIsEarned
<1> QED  BY <1>2, Inductive, PTL

(* For every map and profile: a finding on a state whose route the map     *)
(* knows fails its criterion's row, while no waiver is attached.           *)
THEOREM FindingsReachRows == Spec => []MappedFailIsReported
<1>1. ASSUME IInv, report # Nothing, packet.waivers = {}, NEW id \in Ids,
             NEW c \in Criteria, <<id, c>> \in packet.found, Mapped(id)
      PROVE  report.rows[c] = "fail"
  <2>1. PICK p \in Packet :
           /\ report.cells = Cells(map, p) /\ report.rows = Rows(Cells(map, p))
           /\ p.states = packet.states /\ p.found = packet.found /\ p.waivers = {}
           /\ \A k \in Criteria : Found(p, k) => p.verdicts[k] = "fail"
    BY <1>1, ReportIsOf
  <2>2. map \in SUBSET Surface
    BY <1>1 DEF IInv, TypeOK
  <2>3. PICK state \in p.states, surface \in map : state.id = id /\ state.path = surface.route
    BY <1>1, <2>1 DEF Mapped
  <2>4. id \in StateIds(surface, p)
    BY <2>3 DEF StateIds
  <2>5. CellStatus(p, surface, id, c) = "fail"
    BY <1>1, <2>1, <2>2, <2>3, CellIsEarned
  <2> DEFINE column == Column(Cells(map, p), c)
  <2>6. /\ CellStatus(p, surface, id, c) \in column
        /\ column \in SUBSET CellStatuses /\ Rows(Cells(map, p))[c] = RowOf(column)
    BY <2>1, <2>2, <2>4, ColumnsAre
  <2> HIDE DEF column
  <2>7. RowOf(column) = "fail"
    BY <2>5, <2>6, RowIsWorst
  <2> QED  BY <2>1, <2>6, <2>7
<1>2. IInv => MappedFailIsReported
  BY <1>1 DEF MappedFailIsReported
<1> QED  BY <1>2, Inductive, PTL

(* For every manifest, map and profile: a cell passes only for a captured  *)
(* state once any was captured, and a report that says pass stands on a    *)
(* capture of every state of the manifest and of every surface of the map. *)
THEOREM PassStandsOnCaptures == Spec => []GreenIsCovered
<1>1. ASSUME IInv, report # Nothing
      PROVE  /\ packet.states # {} => \A cell \in report.cells :
                   cell.status = "pass" => cell.state \in CapturedIds(packet)
             /\ report.status = "pass" =>
                   /\ \A i \in DOMAIN manifest : manifest[i].id \in CapturedIds(packet)
                   /\ \A surface \in map : \E state \in packet.states :
                         state.path = surface.route \/ state.id = surface.id
  <2>1. PICK p \in Packet :
           /\ report.cells = Cells(map, p) /\ report.rows = Rows(Cells(map, p))
           /\ report.status = ReportStatus(p, report.rows)
           /\ p.status = packet.status /\ p.states = packet.states
           /\ \A k \in Criteria : Found(p, k) => p.verdicts[k] = "fail"
    BY <1>1, ReportIsOf
  <2>2. /\ map \in SUBSET Surface /\ packet # Nothing /\ manifest \in Manifests
        /\ PacketStands
    BY <1>1 DEF IInv, TypeOK, ReportStands
  <2>3. CapturedIds(p) = CapturedIds(packet)
    BY <2>1 DEF CapturedIds
  <2>4. packet.states # {} => \A cell \in report.cells :
           cell.status = "pass" => cell.state \in CapturedIds(packet)
    <3>1. \A cell \in Cells(map, p) : cell.status \in {"pass", "not_applicable"} =>
             p.states = {} \/ cell.state \in CapturedIds(p)
      BY <2>1, <2>2, ColumnsAre
    <3> QED  BY <2>1, <2>3, <3>1
  <2>5. ASSUME report.status = "pass"
        PROVE  \A surface \in map : StateIds(surface, p) \subseteq CapturedIds(packet)
    <3>1. p.status # "error" /\ p.states # {}
      <4>1. p.status # "error"
        BY <2>1, <2>5 DEF ReportStatus
      <4> QED  BY <2>1, <2>2, <4>1 DEF PacketStands
    <3> SUFFICES ASSUME NEW surface \in map, NEW id \in StateIds(surface, p)
                 PROVE  id \in CapturedIds(packet)
      OBVIOUS
    <3>2. PICK c \in Criteria : TRUE
      BY SiteAssumption
    <3> DEFINE column == Column(Cells(map, p), c)
    <3>3. /\ CellStatus(p, surface, id, c) \in column
          /\ column \in SUBSET CellStatuses /\ report.rows[c] = RowOf(column)
      BY <2>1, <2>2, ColumnsAre
    <3> HIDE DEF column
    <3>4. RowOf(column) \in {"pass", "not_applicable"}
      <4>1. RowOf(column) \in CellStatuses
        BY <3>3, RowIsWorst
      <4>2. RowOf(column) \notin {"fail", "needs_review", "not_tested", "waived",
                                  "risk_accepted"}
        BY <2>1, <2>5, <3>3 DEF ReportStatus
      <4> QED  BY <4>1, <4>2 DEF CellStatuses, Statuses
    <3>5. CellStatus(p, surface, id, c) \in {"pass", "not_applicable"}
      BY <3>3, <3>4, RowIsWorst
    <3>6. id \in Ids
      BY <2>2, StateIdsType
    <3> QED  BY <2>1, <2>2, <2>3, <3>1, <3>5, <3>6, CellIsEarned
  <2>6. PICK reached \in SUBSET Routes : map = SurfacesOf(reached)
    BY <2>2 DEF PacketStands, Drawn
  <2>7. ASSUME report.status = "pass", NEW i \in DOMAIN manifest
        PROVE  manifest[i].id \in CapturedIds(packet)
    <3>1. PICK surface \in map : manifest[i].id \in surface.evidence
      BY <2>2, <2>6, SurfacesAre
    <3>2. manifest[i].id \in StateIds(surface, p)
      BY <3>1 DEF StateIds
    <3> QED  BY <2>5, <2>7, <3>2
  <2>8. ASSUME report.status = "pass", NEW surface \in map
        PROVE  \E state \in packet.states :
                  state.path = surface.route \/ state.id = surface.id
    <3>1. surface.evidence # {} => surface.id \in surface.evidence
      BY <2>2, <2>6, SurfacesAre
    <3>2. CASE surface.id \in StateIds(surface, p)
      BY <2>5, <2>8, <3>2 DEF CapturedIds
    <3>3. CASE surface.id \notin StateIds(surface, p)
      BY <2>1, <3>1, <3>3 DEF StateIds
    <3> QED  BY <3>2, <3>3
  <2> QED  BY <2>4, <2>7, <2>8
<1>2. IInv => GreenIsCovered
  BY <1>1 DEF GreenIsCovered
<1> QED  BY <1>2, Inductive, PTL

(* A finding that a waiver or the map keeps from the report's rows blocks  *)
(* every release decision all the same.                                    *)
THEOREM HiddenFailsBlock == Spec => []HiddenFailIsBlocked
<1>1. ASSUME IInv, release # Nothing, NEW c \in Criteria, Found(packet, c)
      PROVE  release.status = "blocked"
  <2>1. packet # Nothing /\ packet.found # {}
    BY <1>1 DEF IInv, ReleaseStands, Found
  <2> QED  BY <1>1, <2>1 DEF IInv, ReleaseStands, PacketStands
<1>2. IInv => HiddenFailIsBlocked
  BY <1>1 DEF HiddenFailIsBlocked
<1> QED  BY <1>2, Inductive, PTL
=============================================================================
