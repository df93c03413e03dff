--------------------------------- MODULE Crawl ---------------------------------
(***************************************************************************)
(* The bounded crawl of a live target (src/src/discovery/live.rs).  It     *)
(* reads the sitemap, then fetches route after route from a queue, and     *)
(* queues the routes that each page links to, up to a budget of routes.  A *)
(* request that fails is tried once more; what then fails becomes a        *)
(* diagnostic, and so does a budget that was too small.                    *)
(*                                                                         *)
(* The site answers every request as it likes: with a page, whole or cut   *)
(* at the byte limit, with something that is no page, with a status that   *)
(* is not 2xx, or not at all before the timeout.                           *)
(***************************************************************************)
EXTENDS Naturals, Sequences, FiniteSets, Functions

CONSTANTS
    Routes,    \* the routes of the target's origin
    Start,     \* the route of target.base_url
    Links,     \* the routes of the origin that each page links to, in order
    Sitemaps,  \* the routes /sitemap.xml may list, as the document has them
    Sorted,    \* the routes of a BTreeSet, in their order
    MaxPages   \* LIVE_DISCOVERY_MAX_PAGES, 24 in the code

ASSUME SiteAssumption ==
    /\ Start \in Routes
    /\ Links \in [Routes -> Seq(Routes)]
    /\ Sitemaps \subseteq Seq(Routes)
    /\ Sorted \in [SUBSET Routes -> Seq(Routes)]
    /\ \A routes \in SUBSET Routes : Range(Sorted[routes]) = routes
    /\ MaxPages \in Nat \ {0}

VARIABLES
    at,           \* where discover_live_base_url_surfaces is
    tries,        \* the failed attempts of the current fetch
    todo,         \* the links of the sitemap or page read, not yet looked at
    queue,        \* the routes to fetch
    seen,         \* the routes that were ever queued
    surfaces,     \* the routes that became surfaces
    diagnostics,  \* the misses on record
    exhausted,    \* budget_exhausted
    outcome,      \* history: how the fetch of each route ended
    named         \* history: the routes that the sitemap and the pages read name

vars == <<at, tries, todo, queue, seen, surfaces, diagnostics, exhausted,
          outcome, named>>

history == <<outcome, named>>

----------------------------------------------------------------------------

Outcomes == {"page", "asset", "refused", "failed"}

Diagnostic == [source : {"route_fetch"}, route : Routes]
                  \cup [source : {"sitemap_fetch", "route_budget"}]

MissOf(route) == [source |-> "route_fetch", route |-> route]
SitemapMiss   == [source |-> "sitemap_fetch"]
BudgetMiss    == [source |-> "route_budget"]

TypeOK ==
    /\ at \in {"parse", "sitemap", "crawl", "done", "rejected"}
    /\ tries \in 0 .. 1
    /\ todo \in Seq(Routes)
    /\ queue \in Seq(Routes)
    /\ seen \subseteq Routes /\ Cardinality(seen) \in 1 .. MaxPages
    /\ surfaces \subseteq seen
    /\ diagnostics \subseteq Diagnostic
    /\ exhausted \in BOOLEAN
    /\ outcome \in [Routes -> Outcomes \cup {"none"}]
    /\ named \subseteq Routes

Init ==
    /\ at = "parse"
    /\ tries = 0
    /\ todo = <<>>
    /\ queue = <<Start>>
    /\ seen = {Start}
    /\ surfaces = {}
    /\ diagnostics = {}
    /\ exhausted = FALSE
    /\ outcome = [route \in Routes |-> "none"]
    /\ named = {}

(* LiveBaseUrl::parse takes http:// targets only; any other ends discovery *)
(* with an error.                                                          *)
Parse ==
    /\ at = "parse"
    /\ at' \in {"sitemap", "rejected"}
    /\ UNCHANGED <<tries, todo, queue, seen, surfaces, diagnostics, exhausted,
                   history>>

----------------------------------------------------------------------------
(* enqueue_route, for the links of the sitemap or of a page *)

(* A slip: one route more.                                                 *)
RoomAfterLast == Cardinality(seen) <= MaxPages

Room == Cardinality(seen) < MaxPages

(* A slip: the budget is looked at before the route is known to be new.    *)
EnqueueCountsFirst ==
    /\ todo # <<>>
    /\ \/ /\ ~Room
          /\ todo' = <<>> /\ exhausted' = TRUE
          /\ UNCHANGED <<queue, seen>>
       \/ /\ Room
          /\ seen' = seen \cup {Head(todo)}
          /\ queue' = IF Head(todo) \in seen THEN queue ELSE Append(queue, Head(todo))
          /\ todo' = Tail(todo)
          /\ UNCHANGED exhausted
    /\ UNCHANGED <<at, tries, surfaces, diagnostics, history>>

(* The first route beyond the budget ends the loop over the links.         *)
Enqueue ==
    /\ todo # <<>>
    /\ \/ /\ Head(todo) \in seen
          /\ todo' = Tail(todo)
          /\ UNCHANGED <<queue, seen, exhausted>>
       \/ /\ Head(todo) \notin seen /\ ~Room
          /\ todo' = <<>> /\ exhausted' = TRUE
          /\ UNCHANGED <<queue, seen>>
       \/ /\ Head(todo) \notin seen /\ Room
          /\ seen' = seen \cup {Head(todo)}
          /\ queue' = Append(queue, Head(todo))
          /\ todo' = Tail(todo)
          /\ UNCHANGED exhausted
    /\ UNCHANGED <<at, tries, surfaces, diagnostics, history>>

----------------------------------------------------------------------------
(* fetch_live_response: one request, and one more after an I/O error *)

Fetching(point) ==
    /\ at = point
    /\ todo = <<>>
    /\ point = "crawl" => queue # <<>>

Retry ==
    /\ \E point \in {"sitemap", "crawl"} : Fetching(point)
    /\ tries = 0 /\ tries' = 1
    /\ UNCHANGED <<at, todo, queue, seen, surfaces, diagnostics, exhausted, history>>

(* The links in what was read: all of them, or those before the byte limit.*)
Read(links) == {SubSeq(links, 1, n) : n \in 0 .. Len(links)}

Follow(links) ==
    /\ todo' = links
    /\ named' = named \cup Range(todo')

(* discover_sitemap_routes.  The document is cut before its routes are put *)
(* in order; one that is not there, or is no sitemap, lists nothing.       *)
ReadSitemap ==
    /\ Fetching("sitemap")
    /\ at' = "crawl" /\ tries' = 0
    /\ \E document \in Sitemaps \cup {<<>>} :
          \E listed \in Read(document) : Follow(Sorted[Range(listed)])
    /\ UNCHANGED <<queue, seen, surfaces, diagnostics, exhausted, outcome>>

SitemapFails ==
    /\ Fetching("sitemap") /\ tries = 1
    /\ at' = "crawl" /\ tries' = 0
    /\ diagnostics' = diagnostics \cup {SitemapMiss}
    /\ UNCHANGED <<todo, queue, seen, surfaces, exhausted, outcome, named>>

(* The route at the head of the queue is done with.                        *)
Leave(result) ==
    /\ queue' = Tail(queue)
    /\ tries' = 0
    /\ outcome' = [outcome EXCEPT ![Head(queue)] = result]

ReadPage ==
    /\ Fetching("crawl")
    /\ Leave("page")
    /\ surfaces' = surfaces \cup {Head(queue)}
    /\ \E links \in Read(Links[Head(queue)]) : Follow(links)
    /\ UNCHANGED <<at, seen, diagnostics, exhausted>>

(* An answer that is no page, or whose status is not 2xx, is passed over.  *)
PassOver ==
    /\ Fetching("crawl")
    /\ \E result \in {"asset", "refused"} : Leave(result)
    /\ UNCHANGED <<at, todo, seen, surfaces, diagnostics, exhausted, named>>

(* A slip: a route that cannot be fetched ends the crawl.                  *)
PageFailureEndsCrawl ==
    /\ Fetching("crawl") /\ tries = 1
    /\ tries' = 0
    /\ queue' = <<>>
    /\ outcome' = [outcome EXCEPT ![Head(queue)] = "failed"]
    /\ diagnostics' = diagnostics \cup {MissOf(Head(queue))}
    /\ UNCHANGED <<at, todo, seen, surfaces, exhausted, named>>

(* A slip: a route that cannot be fetched is left for later.               *)
PageFailsLater ==
    /\ Fetching("crawl") /\ tries = 1
    /\ tries' = 0
    /\ queue' = Append(Tail(queue), Head(queue))
    /\ outcome' = [outcome EXCEPT ![Head(queue)] = "failed"]
    /\ diagnostics' = diagnostics \cup {MissOf(Head(queue))}
    /\ UNCHANGED <<at, todo, seen, surfaces, exhausted, named>>

PageFails ==
    /\ Fetching("crawl") /\ tries = 1
    /\ Leave("failed")
    /\ diagnostics' = diagnostics \cup {MissOf(Head(queue))}
    /\ UNCHANGED <<at, todo, seen, surfaces, exhausted, named>>

Finish ==
    /\ at = "crawl" /\ todo = <<>> /\ queue = <<>>
    /\ at' = "done"
    /\ diagnostics' = diagnostics \cup (IF exhausted THEN {BudgetMiss} ELSE {})
    /\ UNCHANGED <<tries, todo, queue, seen, surfaces, exhausted, history>>

----------------------------------------------------------------------------

Next ==
    \/ Parse \/ Enqueue \/ Retry \/ ReadSitemap \/ SitemapFails
    \/ ReadPage \/ PassOver \/ PageFails \/ Finish

Spec == Init /\ [][Next]_vars

(* A request ends within its timeout, and the crawl waits for nothing else.*)
FairSpec == Spec /\ WF_vars(Next)

----------------------------------------------------------------------------
(* Properties *)

(* When the crawl is over, every route that anything it read has named is  *)
(* a surface, or was answered with something else than a page, or is on    *)
(* record as a miss, unless the budget is on record as too small.          *)
MissesAreAccounted ==
    at = "done" =>
        \A route \in {Start} \cup named :
            \/ route \in surfaces
            \/ outcome[route] \in {"asset", "refused"}
            \/ MissOf(route) \in diagnostics
            \/ BudgetMiss \in diagnostics

(* The budget is on record as too small exactly when a route was named     *)
(* that the crawl never queued, in the sitemap or on any page.             *)
BudgetIsReported ==
    at = "done" => (BudgetMiss \in diagnostics <=> ~(named \subseteq seen))

(* The crawl implements Survey: whatever the queue, the retries and the    *)
(* cycles of the site, every route it has queued is fetched to an end once,*)
(* is a page or a miss but not both, and the crawl ends with none left.    *)
Abstract == INSTANCE Survey
    WITH over <- at \in {"done", "rejected"}, admitted <- seen,
         settled <- {route \in Routes : outcome[route] # "none"},
         pages <- surfaces, misses <- {route \in Routes : MissOf(route) \in diagnostics},
         short <- exhausted, told <- BudgetMiss \in diagnostics,
         Budget <- MaxPages

IsSurvey == Abstract!Spec

(* The crawl ends, whatever cycles the links have and whatever fails.      *)
CrawlEnds == <>(at \in {"done", "rejected"})
=============================================================================
