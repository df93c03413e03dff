---------------------------- MODULE MCEvidenceRun ----------------------------
(* EvidenceRun with one criterion of each kind, and the pages that tell    *)
(* the verdicts apart.                                                     *)
EXTENDS EvidenceRun

MCCriteria == Kinds
MCKind     == [c \in Kinds |-> c]

Page == [violates |-> {}, errs |-> FALSE, media |-> FALSE, lang |-> TRUE,
         mobile |-> TRUE, target |-> TRUE]

MCObservations ==
    {Page,
     [Page EXCEPT !.violates = {"axe"}, !.media = TRUE],
     [Page EXCEPT !.violates = {"target"}],
     [Page EXCEPT !.errs = TRUE, !.mobile = FALSE, !.target = FALSE, !.lang = FALSE]}
=============================================================================
