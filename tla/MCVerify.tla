------------------------------- MODULE MCVerify -------------------------------
(* Verify over a home page the manifest names once or twice, a page and a  *)
(* file with the same name, another page, and one criterion of each kind.  *)
EXTENDS Verify

MCRoutes   == {"/", "/a", "/a.html", "/b"}
MCIds      == {"menu", "home", "a", "b"}
MCIdOf     == [route \in MCRoutes |->
                CASE route = "/" -> "home" [] route = "/b" -> "b" [] OTHER -> "a"]
MCManifests == {<<[id |-> "home", path |-> "/"]>>,
                <<[id |-> "menu", path |-> "/"], [id |-> "home", path |-> "/"]>>}
MCFiles    == {"/a.html"}
MCCriteria == {"contrast", "reflow", "captions", "meaning"}
MCKind     == [c \in MCCriteria |->
                CASE c = "contrast" -> "axe"   [] c = "reflow"  -> "feature"
                  [] c = "captions" -> "media" [] c = "meaning" -> "judged"]
MCRequests == {{}, {"a", "home"}, {"app"}}

(* Waivers of one surface and one criterion, current and past, and waivers *)
(* of no surface, of every criterion and without their metadata.           *)
MCWaiver(surface, criterion, status, expires, sound) ==
    [surface |-> surface, criterion |-> criterion, status |-> status,
     expires |-> expires, sound |-> sound]

MCOffered ==
    {MCWaiver("home", "contrast", status, expires, TRUE) :
        status \in {"waived", "risk_accepted"}, expires \in {"ahead", "past"}}
    \cup {MCWaiver("home", "contrast", "waived", "ahead", FALSE),
          MCWaiver("home", Nothing, "other", "never", TRUE),
          MCWaiver("a", Nothing, "waived", "ahead", TRUE),
          MCWaiver("a", "meaning", "risk_accepted", "ahead", TRUE),
          MCWaiver(Nothing, Nothing, "waived", "ahead", TRUE)}
=============================================================================
