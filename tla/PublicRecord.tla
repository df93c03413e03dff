----------------------------- MODULE PublicRecord -----------------------------
(***************************************************************************)
(* What a public directory promises its readers (the head of               *)
(* src/src/publication.rs, docs/verification.md): it shows nothing, or one *)
(* report that a verification has issued, and it goes from one report to   *)
(* the next through showing nothing.  Publication implements it.           *)
(***************************************************************************)
CONSTANTS
    Reports,  \* what a verification may report
    Nothing   \* the directory shows no report

VARIABLES
    issued,   \* the reports that verifications have written in full
    shown     \* the report that a reader of the directory sees

Init == issued = {} /\ shown = Nothing

Issue == \E report \in Reports : issued' = issued \cup {report} /\ UNCHANGED shown

Publish == shown = Nothing /\ shown' \in issued /\ UNCHANGED issued

Retract == shown' = Nothing /\ UNCHANGED issued

Next == Issue \/ Publish \/ Retract

Spec == Init /\ [][Next]_<<issued, shown>>
=============================================================================
