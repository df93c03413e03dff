-------------------------------- MODULE Survey --------------------------------
(***************************************************************************)
(* What a bounded discovery of routes promises, whatever the order in      *)
(* which it looks at them and however often it asks: it admits routes up   *)
(* to a budget, settles every route it has admitted once, as a page, as a  *)
(* miss or as neither, and is over when all of them are settled, having    *)
(* said whether the budget left any out.  Crawl implements it.             *)
(***************************************************************************)
EXTENDS FiniteSets, Naturals

CONSTANTS
    Routes,  \* what there is to discover
    Start,   \* where discovery starts
    Budget   \* how many routes it may admit

VARIABLES
    over,      \* the survey has ended
    admitted,  \* the routes it has taken on
    settled,   \* those it has done with
    pages,     \* those that became surfaces
    misses,    \* those on record as missed
    short,     \* a route was left out for lack of budget
    told       \* that is on record

vars == <<over, admitted, settled, pages, misses, short, told>>

Init ==
    /\ ~over /\ admitted = {Start} /\ settled = {}
    /\ pages = {} /\ misses = {} /\ ~short /\ ~told

(* The target is none that can be surveyed.                                *)
Decline ==
    /\ ~over /\ over' /\ settled = {}
    /\ UNCHANGED <<admitted, settled, pages, misses, short, told>>

Admit ==
    /\ ~over /\ Cardinality(admitted) < Budget
    /\ \E route \in Routes \ admitted : admitted' = admitted \cup {route}
    /\ UNCHANGED <<over, settled, pages, misses, short, told>>

LeaveOut ==
    /\ ~over /\ Cardinality(admitted) = Budget
    /\ short'
    /\ UNCHANGED <<over, admitted, settled, pages, misses, told>>

Settle ==
    /\ ~over
    /\ \E route \in admitted \ settled :
          /\ settled' = settled \cup {route}
          /\ \/ pages' = pages \cup {route} /\ UNCHANGED misses
             \/ misses' = misses \cup {route} /\ UNCHANGED pages
             \/ UNCHANGED <<pages, misses>>
    /\ UNCHANGED <<over, admitted, short, told>>

Close ==
    /\ ~over /\ over' /\ settled = admitted
    /\ told' = short
    /\ UNCHANGED <<admitted, settled, pages, misses, short>>

Next == Decline \/ Admit \/ LeaveOut \/ Settle \/ Close

Spec == Init /\ [][Next]_vars
=============================================================================
