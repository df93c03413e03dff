------------------------------ MODULE CrawlProofs ------------------------------
(* Proofs about the crawl, for every site and every budget: its types, that *)
(* no route goes missing without a trace, that the budget is on record      *)
(* exactly when it was too small, and that the crawl implements Survey.     *)
EXTENDS Crawl, FiniteSetTheorems, TLAPS

----------------------------------------------------------------------------
(* Sequences *)

(* An empty queue holds no route.                                          *)
LEMMA RangeOfEmpty == Range(<<>>) = {}
BY DEF Range

(* push_back adds one route to what a queue holds.                         *)
LEMMA RangeOfAppend ==
    ASSUME NEW S, NEW s \in Seq(S), NEW x \in S
    PROVE  /\ Append(s, x) \in Seq(S)
           /\ Range(Append(s, x)) = Range(s) \cup {x}
<1>1. DOMAIN s = 1 .. Len(s) /\ Len(s) \in Nat
  OBVIOUS
<1>2. DOMAIN Append(s, x) = 1 .. Len(s) + 1
  OBVIOUS
<1>3. \A i \in 1 .. Len(s) : Append(s, x)[i] = s[i]
  OBVIOUS
<1>4. Append(s, x)[Len(s) + 1] = x
  OBVIOUS
<1>5. Range(Append(s, x)) \subseteq Range(s) \cup {x}
  BY <1>1, <1>2, <1>3, <1>4 DEF Range
<1>6. Range(s) \cup {x} \subseteq Range(Append(s, x))
  BY <1>1, <1>2, <1>3, <1>4 DEF Range
<1> QED  BY <1>5, <1>6

(* A queue holds its head and what its tail holds (pop_front).             *)
LEMMA RangeOfTail ==
    ASSUME NEW S, NEW s \in Seq(S), s # <<>>
    PROVE  /\ Head(s) \in S
           /\ Tail(s) \in Seq(S)
           /\ Range(s) = {Head(s)} \cup Range(Tail(s))
<1>1. DOMAIN s = 1 .. Len(s) /\ Len(s) \in Nat \ {0}
  OBVIOUS
<1>2. Tail(s) \in Seq(S) /\ Len(Tail(s)) = Len(s) - 1
  OBVIOUS
<1>3. DOMAIN Tail(s) = 1 .. Len(s) - 1
  BY <1>2
<1>4. \A i \in 1 .. Len(s) - 1 : Tail(s)[i] = s[i + 1]
  OBVIOUS
<1>5. Head(s) = s[1] /\ Head(s) \in S
  OBVIOUS
<1>6. Range(s) \subseteq {Head(s)} \cup Range(Tail(s))
  <2> SUFFICES ASSUME NEW i \in 1 .. Len(s), i # 1
               PROVE  s[i] \in Range(Tail(s))
    BY <1>1, <1>5 DEF Range
  <2>1. i - 1 \in 1 .. Len(s) - 1 /\ (i - 1) + 1 = i
    BY <1>1
  <2>2. Tail(s)[i - 1] = s[i]
    BY <2>1, <1>4
  <2> QED  BY <2>1, <2>2, <1>3 DEF Range
<1>7. Range(Tail(s)) \subseteq Range(s)
  <2> SUFFICES ASSUME NEW i \in 1 .. Len(s) - 1
               PROVE  s[i + 1] \in Range(s)
    BY <1>3, <1>4 DEF Range
  <2>1. i + 1 \in DOMAIN s
    BY <1>1
  <2> QED  BY <2>1 DEF Range
<1>8. Head(s) \in Range(s)
  BY <1>1, <1>5 DEF Range
<1> QED  BY <1>2, <1>5, <1>6, <1>7, <1>8

(* The links before the byte limit are links.                              *)
LEMMA RangeOfPrefix ==
    ASSUME NEW S, NEW s \in Seq(S), NEW n \in 0 .. Len(s)
    PROVE  /\ SubSeq(s, 1, n) \in Seq(S)
           /\ Range(SubSeq(s, 1, n)) \subseteq S
<1>1. SubSeq(s, 1, n) \in Seq(S)
  OBVIOUS
<1>2. \A t \in Seq(S) : Range(t) \subseteq S
  BY DEF Range
<1> QED  BY <1>1, <1>2

----------------------------------------------------------------------------
(* The inductive invariant *)

(* What is queued was seen, and what is to be looked at was named.         *)
Sources ==
    /\ IsFiniteSet(seen)
    /\ Start \in seen
    /\ Range(queue) \subseteq seen
    /\ Range(todo) \subseteq named

(* A route that was seen is still queued or has been fetched, and its fetch*)
(* left what it must leave.                                                *)
Fetched ==
    /\ \A route \in seen : route \in Range(queue) \/ outcome[route] # "none"
    /\ \A route \in Routes :
          /\ outcome[route] = "page" => route \in surfaces
          /\ outcome[route] = "failed" => MissOf(route) \in diagnostics

(* Until the budget is exhausted nothing named is dropped; it is exhausted *)
(* for good, and for a route that was not seen.                            *)
Budgeted ==
    /\ ~exhausted => named \subseteq seen \cup Range(todo)
    /\ exhausted => ~Room /\ ~(named \subseteq seen)
    /\ BudgetMiss \in diagnostics => exhausted

(* A crawl that is over has nothing left to look at.                       *)
Over ==
    at = "done" =>
        /\ queue = <<>> /\ todo = <<>>
        /\ exhausted => BudgetMiss \in diagnostics

IInv == TypeOK /\ Sources /\ Fetched /\ Budgeted /\ Over

----------------------------------------------------------------------------
(* What the steps preserve *)

USE SiteAssumption DEF history, Outcomes

LEMMA InitHolds == Init => IInv
<1> SUFFICES ASSUME Init PROVE IInv
  OBVIOUS
<1>1. IsFiniteSet(seen) /\ Cardinality(seen) = 1
  BY FS_Singleton DEF Init
<1>2. <<Start>> \in Seq(Routes) /\ Range(<<Start>>) = {Start}
  BY DEF Range
<1>3. 1 \in 1 .. MaxPages
  OBVIOUS
<1>4. TypeOK
  <2>1. todo \in Seq(Routes) /\ queue \in Seq(Routes)
    BY <1>2 DEF Init
  <2>2. seen \subseteq Routes /\ Cardinality(seen) \in 1 .. MaxPages
    BY <1>1, <1>3 DEF Init
  <2>3. outcome \in [Routes -> Outcomes \cup {"none"}]
    BY DEF Init
  <2>4. /\ at \in {"parse", "sitemap", "crawl", "done", "rejected"}
        /\ tries \in 0 .. 1
    BY DEF Init
  <2>5. exhausted \in BOOLEAN
    BY DEF Init
  <2>6. surfaces \subseteq seen /\ diagnostics \subseteq Diagnostic /\ named \subseteq Routes
    BY DEF Init
  <2> QED  BY <2>1, <2>2, <2>3, <2>4, <2>5, <2>6 DEF TypeOK
<1>5. Sources
  BY <1>1, <1>2, RangeOfEmpty DEF Init, Sources
<1>6. Fetched
  BY <1>2 DEF Init, Fetched
<1>7. Budgeted /\ Over
  BY DEF Init, Budgeted, Over
<1> QED  BY <1>4, <1>5, <1>6, <1>7 DEF IInv

(* The three diagnostics are different, and each is one.                   *)
LEMMA Misses ==
    /\ SitemapMiss \in Diagnostic /\ BudgetMiss \in Diagnostic
    /\ SitemapMiss # BudgetMiss
    /\ \A route \in Routes : MissOf(route) \in Diagnostic /\ MissOf(route) # BudgetMiss
<1>1. SitemapMiss.source = "sitemap_fetch" /\ BudgetMiss.source = "route_budget"
  BY DEF SitemapMiss, BudgetMiss
<1>2. \A route \in Routes : MissOf(route).source = "route_fetch"
  BY DEF MissOf
<1>3. SitemapMiss \in Diagnostic /\ BudgetMiss \in Diagnostic
  BY DEF SitemapMiss, BudgetMiss, Diagnostic
<1>4. \A route \in Routes : MissOf(route) \in Diagnostic
  BY DEF MissOf, Diagnostic
<1> QED  BY <1>1, <1>2, <1>3, <1>4

(* One look at a link.                                                     *)
LEMMA EnqueueHolds ==
    ASSUME IInv, Enqueue
    PROVE  IInv'
<1> USE DEF IInv
<1>1. /\ Head(todo) \in Routes /\ Tail(todo) \in Seq(Routes)
      /\ Range(todo) = {Head(todo)} \cup Range(Tail(todo))
  BY RangeOfTail DEF Enqueue, TypeOK
<1>2. at # "done" /\ at' # "done" /\ Over'
  BY DEF Enqueue, Over, TypeOK
<1>3. CASE Head(todo) \in seen /\ todo' = Tail(todo) /\ UNCHANGED <<queue, seen, exhausted>>
  <2>1. TypeOK'
    BY <1>1, <1>3 DEF Enqueue, TypeOK
  <2>2. Sources' /\ Fetched'
    BY <1>1, <1>3 DEF Enqueue, Sources, Fetched
  <2>3. Budgeted'
    BY <1>1, <1>3 DEF Enqueue, Budgeted, Room
  <2> QED  BY <1>2, <2>1, <2>2, <2>3
<1>4. CASE /\ Head(todo) \notin seen /\ ~Room
           /\ todo' = <<>> /\ exhausted' = TRUE /\ UNCHANGED <<queue, seen>>
  <2>1. TypeOK'
    BY <1>4 DEF Enqueue, TypeOK
  <2>2. Sources' /\ Fetched'
    BY <1>4, RangeOfEmpty DEF Enqueue, Sources, Fetched
  <2>3. Head(todo) \in named
    BY <1>1 DEF Sources
  <2>4. Budgeted'
    BY <1>4, <2>3 DEF Enqueue, Budgeted, Room
  <2> QED  BY <1>2, <2>1, <2>2, <2>4
<1>5. CASE /\ Head(todo) \notin seen /\ Room
           /\ seen' = seen \cup {Head(todo)}
           /\ queue' = Append(queue, Head(todo))
           /\ todo' = Tail(todo) /\ UNCHANGED exhausted
  <2>1. /\ queue' \in Seq(Routes)
        /\ Range(queue') = Range(queue) \cup {Head(todo)}
    BY <1>1, <1>5, RangeOfAppend DEF TypeOK
  <2>2. IsFiniteSet(seen') /\ Cardinality(seen') = Cardinality(seen) + 1
    BY <1>5, FS_AddElement DEF Sources
  <2>3. Cardinality(seen') \in 1 .. MaxPages
    BY <1>5, <2>2 DEF Room, TypeOK
  <2>4. TypeOK'
    BY <1>1, <1>5, <2>1, <2>3 DEF Enqueue, TypeOK
  <2>5. Sources'
    BY <1>1, <1>5, <2>1, <2>2 DEF Enqueue, Sources
  <2>6. Fetched'
    BY <1>5, <2>1 DEF Enqueue, Fetched
  <2>7. ~exhausted /\ ~exhausted'
    BY <1>5 DEF Budgeted
  <2>8. Budgeted'
    BY <1>1, <1>5, <2>7 DEF Enqueue, Budgeted
  <2> QED  BY <1>2, <2>4, <2>5, <2>6, <2>8
<1> QED  BY <1>3, <1>4, <1>5 DEF Enqueue

(* What is read of a page or of a sitemap are routes.                      *)
LEMMA ReadType ==
    ASSUME NEW all \in Seq(Routes), NEW links \in Read(all)
    PROVE  links \in Seq(Routes) /\ Range(links) \subseteq Routes
<1>1. PICK n \in 0 .. Len(all) : links = SubSeq(all, 1, n)
  BY DEF Read
<1> QED  BY <1>1, RangeOfPrefix

(* What was read names more routes and leaves them to be looked at.        *)
LEMMA LinksRead ==
    ASSUME NEW links \in Seq(Routes), Follow(links), named \subseteq Routes
    PROVE  /\ todo' \in Seq(Routes)
           /\ named' = named \cup Range(todo')
           /\ named' \subseteq Routes
<1>1. Range(links) \subseteq Routes
  BY DEF Range
<1> QED  BY <1>1 DEF Follow

LEMMA ReadSitemapHolds ==
    ASSUME IInv, ReadSitemap
    PROVE  IInv'
<1> USE DEF IInv
<1>1. PICK document \in Sitemaps \cup {<<>>} :
         \E listed \in Read(document) : Follow(Sorted[Range(listed)])
  BY DEF ReadSitemap
<1>2. PICK listed \in Read(document) : Follow(Sorted[Range(listed)])
  BY <1>1
<1>3. document \in Seq(Routes)
  <2>1. Sitemaps \subseteq Seq(Routes) /\ <<>> \in Seq(Routes)
    OBVIOUS
  <2> QED  BY <2>1
<1>4. Sorted[Range(listed)] \in Seq(Routes)
  <2>1. Range(listed) \subseteq Routes
    BY <1>2, <1>3, ReadType
  <2>2. Sorted \in [SUBSET Routes -> Seq(Routes)]
    BY SiteAssumption
  <2> QED  BY <2>1, <2>2
<1>5. /\ todo' \in Seq(Routes)
      /\ named' = named \cup Range(todo') /\ named' \subseteq Routes
  BY <1>2, <1>4, LinksRead DEF TypeOK
<1>6. TypeOK'
  BY <1>5 DEF ReadSitemap, TypeOK
<1>7. Sources' /\ Fetched'
  BY <1>5 DEF ReadSitemap, Sources, Fetched
<1>8. Range(todo) = {}
  BY RangeOfEmpty DEF ReadSitemap, Fetching
<1>9. Budgeted'
  BY <1>5, <1>8 DEF ReadSitemap, Budgeted, Room
<1>10. Over'
  BY DEF ReadSitemap, Over
<1> QED  BY <1>6, <1>7, <1>9, <1>10

(* Leaving the head of the queue: it was seen, and it now has an outcome.  *)
LEMMA LeaveHolds ==
    ASSUME TypeOK, Sources, Fetched, Fetching("crawl"),
           NEW result \in Outcomes, Leave(result)
    PROVE  /\ Head(queue) \in seen /\ Head(queue) \in Routes
           /\ queue' \in Seq(Routes) /\ Range(queue') \subseteq seen
           /\ tries' = 0
           /\ outcome' \in [Routes -> Outcomes \cup {"none"}]
           /\ outcome'[Head(queue)] = result
           /\ \A route \in Routes \ {Head(queue)} : outcome'[route] = outcome[route]
           /\ \A route \in seen : route \in Range(queue') \/ outcome'[route] # "none"
<1>1. /\ Head(queue) \in Routes /\ Tail(queue) \in Seq(Routes)
      /\ Range(queue) = {Head(queue)} \cup Range(Tail(queue))
  BY RangeOfTail DEF TypeOK, Fetching
<1>2. Head(queue) \in seen /\ Range(Tail(queue)) \subseteq seen
  BY <1>1 DEF Sources
<1>3. /\ outcome' \in [Routes -> Outcomes \cup {"none"}]
      /\ outcome'[Head(queue)] = result
      /\ \A route \in Routes \ {Head(queue)} : outcome'[route] = outcome[route]
  BY <1>1 DEF Leave, TypeOK
<1>4. \A route \in seen : route \in Range(queue') \/ outcome'[route] # "none"
  BY <1>1, <1>3 DEF Leave, Fetched, TypeOK
<1> QED  BY <1>1, <1>2, <1>3, <1>4 DEF Leave

LEMMA ReadPageHolds ==
    ASSUME IInv, ReadPage
    PROVE  IInv'
<1> USE DEF IInv
<1> DEFINE route == Head(queue)
<1>1. /\ route \in seen /\ route \in Routes
      /\ queue' \in Seq(Routes) /\ Range(queue') \subseteq seen
      /\ tries' = 0
      /\ outcome' \in [Routes -> Outcomes \cup {"none"}]
      /\ outcome'[route] = "page"
      /\ \A other \in Routes \ {route} : outcome'[other] = outcome[other]
      /\ \A other \in seen : other \in Range(queue') \/ outcome'[other] # "none"
  BY LeaveHolds DEF ReadPage
<1>2. PICK links \in Read(Links[route]) : Follow(links)
  BY DEF ReadPage
<1>3. links \in Seq(Routes)
  <2>1. Links[route] \in Seq(Routes)
    BY <1>1, SiteAssumption
  <2> QED  BY <1>2, <2>1, ReadType
<1>4. /\ todo' \in Seq(Routes)
      /\ named' = named \cup Range(todo') /\ named' \subseteq Routes
  BY <1>2, <1>3, LinksRead DEF TypeOK
<1> HIDE DEF route
<1>5. /\ surfaces' = surfaces \cup {route}
      /\ UNCHANGED <<at, seen, diagnostics, exhausted>>
  BY DEF ReadPage, route
<1>6. TypeOK'
  BY <1>1, <1>4, <1>5 DEF TypeOK
<1>7. Sources'
  BY <1>1, <1>4, <1>5 DEF Sources
<1>8. Fetched'
  BY <1>1, <1>5 DEF Fetched
<1>9. Range(todo) = {}
  BY RangeOfEmpty DEF ReadPage, Fetching
<1>10. Budgeted'
  BY <1>4, <1>5, <1>9 DEF Budgeted, Room
<1>11. Over'
  BY <1>5 DEF ReadPage, Fetching, Over
<1> QED  BY <1>6, <1>7, <1>8, <1>10, <1>11

LEMMA PassOverHolds ==
    ASSUME IInv, PassOver
    PROVE  IInv'
<1> USE DEF IInv
<1> DEFINE route == Head(queue)
<1>1. PICK result \in {"asset", "refused"} : Leave(result)
  BY DEF PassOver
<1>2. /\ route \in seen /\ route \in Routes
      /\ queue' \in Seq(Routes) /\ Range(queue') \subseteq seen
      /\ tries' = 0
      /\ outcome' \in [Routes -> Outcomes \cup {"none"}]
      /\ outcome'[route] = result
      /\ \A other \in Routes \ {route} : outcome'[other] = outcome[other]
      /\ \A other \in seen : other \in Range(queue') \/ outcome'[other] # "none"
  BY <1>1, LeaveHolds DEF PassOver
<1> HIDE DEF route
<1>3. UNCHANGED <<at, todo, seen, surfaces, diagnostics, exhausted, named>>
  BY DEF PassOver
<1>4. TypeOK'
  BY <1>2, <1>3 DEF TypeOK
<1>5. Sources' /\ Budgeted'
  BY <1>2, <1>3 DEF Sources, Budgeted, Room
<1>6. Fetched'
  BY <1>2, <1>3 DEF Fetched
<1>7. Over'
  BY <1>3 DEF PassOver, Fetching, Over
<1> QED  BY <1>4, <1>5, <1>6, <1>7

LEMMA PageFailsHolds ==
    ASSUME IInv, PageFails
    PROVE  IInv'
<1> USE DEF IInv
<1> DEFINE route == Head(queue)
<1>1. /\ route \in seen /\ route \in Routes
      /\ queue' \in Seq(Routes) /\ Range(queue') \subseteq seen
      /\ tries' = 0
      /\ outcome' \in [Routes -> Outcomes \cup {"none"}]
      /\ outcome'[route] = "failed"
      /\ \A other \in Routes \ {route} : outcome'[other] = outcome[other]
      /\ \A other \in seen : other \in Range(queue') \/ outcome'[other] # "none"
  BY LeaveHolds DEF PageFails
<1> HIDE DEF route
<1>2. /\ diagnostics' = diagnostics \cup {MissOf(route)}
      /\ UNCHANGED <<at, todo, seen, surfaces, exhausted, named>>
  BY DEF PageFails, route
<1>3. TypeOK'
  BY <1>1, <1>2, Misses DEF TypeOK
<1>4. Sources'
  BY <1>1, <1>2 DEF Sources
<1>5. Budgeted'
  BY <1>1, <1>2, Misses DEF Budgeted, Room
<1>6. Fetched'
  BY <1>1, <1>2 DEF Fetched
<1>7. Over'
  BY <1>2 DEF PageFails, Fetching, Over
<1> QED  BY <1>3, <1>4, <1>5, <1>6, <1>7

(* The steps that change neither the queue nor what is left to look at.    *)
LEMMA OthersHold ==
    ASSUME IInv, Parse \/ Retry \/ SitemapFails \/ Finish \/ UNCHANGED vars
    PROVE  IInv'
<1> USE DEF IInv
<1>1. UNCHANGED <<todo, queue, seen, surfaces, exhausted, outcome, named>>
  BY DEF Parse, Retry, SitemapFails, Finish, vars
<1>2. Sources'
  BY <1>1 DEF Sources
<1>3. CASE Parse
  BY <1>1, <1>2, <1>3 DEF Parse, TypeOK, Fetched, Budgeted, Over, Room
<1>4. CASE Retry
  BY <1>1, <1>2, <1>4 DEF Retry, TypeOK, Fetched, Budgeted, Over, Room
<1>5. CASE SitemapFails
  <2>1. diagnostics' \subseteq Diagnostic /\ (BudgetMiss \in diagnostics' => exhausted)
    BY <1>5, Misses DEF SitemapFails, TypeOK, Budgeted
  <2>2. at = "sitemap" /\ at' = "crawl" /\ tries' = 0 /\ diagnostics \subseteq diagnostics'
    BY <1>5 DEF SitemapFails, Fetching
  <2>3. TypeOK'
    BY <1>1, <2>1, <2>2 DEF TypeOK
  <2>4. Fetched'
    BY <1>1, <2>2 DEF Fetched
  <2>5. Budgeted' /\ Over'
    BY <1>1, <2>1, <2>2 DEF Budgeted, Over, Room
  <2> QED  BY <1>2, <2>3, <2>4, <2>5
<1>6. CASE Finish
  <2>1. diagnostics' \subseteq Diagnostic /\ (BudgetMiss \in diagnostics' => exhausted)
    BY <1>6, Misses DEF Finish, TypeOK, Budgeted
  <2>2. exhausted => BudgetMiss \in diagnostics'
    BY <1>6 DEF Finish
  <2> QED  BY <1>1, <1>2, <1>6, <2>1, <2>2 DEF Finish, TypeOK, Fetched, Budgeted, Over, Room
<1>7. CASE UNCHANGED vars
  BY <1>1, <1>2, <1>7 DEF vars, TypeOK, Fetched, Budgeted, Over, Room
<1> QED  BY <1>3, <1>4, <1>5, <1>6, <1>7

LEMMA Inductive == Spec => []IInv
<1>1. IInv /\ [Next]_vars => IInv'
  BY EnqueueHolds, ReadSitemapHolds, ReadPageHolds, PassOverHolds, PageFailsHolds,
     OthersHold DEF Next
<1> QED  BY InitHolds, <1>1, PTL DEF Spec

----------------------------------------------------------------------------
(* The theorems *)

(* The queue holds routes of the target, and never more than the budget    *)
(* were seen.                                                              *)
THEOREM TypeCorrect == Spec => []TypeOK
<1>1. IInv => TypeOK
  BY DEF IInv
<1> QED  BY Inductive, <1>1, PTL

(* For every site: what a finished crawl read of and did not make a surface*)
(* was answered with no page or is on record.                              *)
THEOREM NothingGoesMissing == Spec => []MissesAreAccounted
<1>1. IInv => MissesAreAccounted
  <2> SUFFICES ASSUME IInv, at = "done", BudgetMiss \notin diagnostics,
                      NEW route \in {Start} \cup named
               PROVE  \/ route \in surfaces
                      \/ outcome[route] \in {"asset", "refused"}
                      \/ MissOf(route) \in diagnostics
    BY DEF MissesAreAccounted
  <2> USE DEF IInv
  <2>1. ~exhausted /\ queue = <<>> /\ todo = <<>>
    BY DEF Over
  <2>2. route \in seen
    BY <2>1, RangeOfEmpty DEF Budgeted, Sources
  <2>3. route \in Routes /\ outcome[route] # "none"
    BY <2>1, <2>2, RangeOfEmpty DEF Fetched, TypeOK
  <2> QED  BY <2>3 DEF Fetched, TypeOK
<1> QED  BY Inductive, <1>1, PTL

(* For every site and every budget: a finished crawl reports its budget    *)
(* exactly when it left out a route that it had read of.                   *)
THEOREM BudgetReportIsExact == Spec => []BudgetIsReported
<1>1. IInv => BudgetIsReported
  <2> SUFFICES ASSUME IInv, at = "done"
               PROVE  BudgetMiss \in diagnostics <=> ~(named \subseteq seen)
    BY DEF BudgetIsReported
  <2> USE DEF IInv
  <2>1. todo = <<>> /\ (exhausted <=> BudgetMiss \in diagnostics)
    BY DEF Over, Budgeted
  <2>2. exhausted <=> ~(named \subseteq seen)
    BY <2>1, RangeOfEmpty DEF Budgeted
  <2> QED  BY <2>1, <2>2
<1> QED  BY Inductive, <1>1, PTL

----------------------------------------------------------------------------
(* The crawl implements Survey *)

(* A route is in the queue once, and not after it was fetched; only what was*)
(* seen is fetched; nothing was before the target is parsed, and a rejected*)
(* target has nothing to look at.                                          *)
Once ==
    /\ \A i, j \in DOMAIN queue : i # j => queue[i] # queue[j]
    /\ \A route \in Range(queue) : outcome[route] = "none"
    /\ \A route \in Routes : outcome[route] # "none" => route \in seen
    /\ at \in {"parse", "rejected"} => todo = <<>>
    /\ at = "parse" => \A route \in Routes : outcome[route] = "none"

LEMMA OnceAtFirst == Init => Once
<1> SUFFICES ASSUME Init PROVE Once
  OBVIOUS
<1>1. DOMAIN queue = {1} /\ Range(queue) \subseteq Routes
  BY DEF Init, Range
<1>2. \A route \in Routes : outcome[route] = "none"
  BY DEF Init
<1> QED  BY <1>1, <1>2 DEF Init, Once

(* push_back of a route that was not seen.                                 *)
LEMMA EnqueueOnce ==
    ASSUME IInv, Once, Enqueue
    PROVE  Once'
<1> USE DEF IInv
<1>1. UNCHANGED <<at, outcome>> /\ at \notin {"parse", "rejected"}
  BY DEF Enqueue, Once
<1>2. CASE UNCHANGED <<queue, seen>>
  BY <1>1, <1>2 DEF Once
<1>3. CASE /\ Head(todo) \notin seen
           /\ seen' = seen \cup {Head(todo)}
           /\ queue' = Append(queue, Head(todo))
  <2> DEFINE route == Head(todo)
  <2>1. route \in Routes
    BY RangeOfTail DEF Enqueue, TypeOK
  <2>2. Range(queue') = Range(queue) \cup {route}
    BY <1>3, <2>1, RangeOfAppend DEF TypeOK
  <2>3. outcome[route] = "none"
    BY <1>3, <2>1 DEF Once
  <2>4. route \notin Range(queue)
    BY <1>3 DEF Sources
  <2>5. /\ DOMAIN queue = 1 .. Len(queue) /\ Len(queue) \in Nat
        /\ DOMAIN queue' = 1 .. Len(queue) + 1
        /\ \A i \in 1 .. Len(queue) : queue'[i] = queue[i]
        /\ queue'[Len(queue) + 1] = route
    BY <1>3, <2>1 DEF TypeOK
  <2> HIDE DEF route
  <2>6. \A i \in 1 .. Len(queue) : queue[i] # route
    BY <2>4, <2>5 DEF Range
  <2>7. \A i, j \in DOMAIN queue' : i # j => queue'[i] # queue'[j]
    BY <2>5, <2>6 DEF Once
  <2>8. \A other \in Range(queue') : outcome'[other] = "none"
    BY <1>1, <2>2, <2>3 DEF Once
  <2>9. \A other \in Routes : outcome'[other] # "none" => other \in seen'
    BY <1>1, <1>3 DEF Once
  <2> QED  BY <1>1, <2>7, <2>8, <2>9 DEF Once
<1> QED  BY <1>2, <1>3 DEF Enqueue

(* pop_front: what is left of the queue is not the route just fetched.     *)
LEMMA LeaveOnce ==
    ASSUME IInv, Once, Fetching("crawl"), at' = at, seen' = seen,
           NEW result \in Outcomes, Leave(result)
    PROVE  /\ Once'
           /\ Head(queue) \in seen
           /\ outcome[Head(queue)] = "none"
           /\ {route \in Routes : outcome'[route] # "none"}
                 = {route \in Routes : outcome[route] # "none"} \cup {Head(queue)}
<1> USE DEF IInv
<1>1. /\ Head(queue) \in seen /\ Head(queue) \in Routes
      /\ outcome'[Head(queue)] = result
      /\ \A route \in Routes \ {Head(queue)} : outcome'[route] = outcome[route]
  BY LeaveHolds
<1>2. /\ Range(queue) = {Head(queue)} \cup Range(Tail(queue))
      /\ Range(Tail(queue)) \subseteq Routes
  BY RangeOfTail DEF Fetching, TypeOK, Sources
<1>3. outcome[Head(queue)] = "none"
  BY <1>2 DEF Once
<1>4. /\ DOMAIN queue = 1 .. Len(queue) /\ Len(queue) \in Nat \ {0}
      /\ DOMAIN Tail(queue) = 1 .. Len(queue) - 1
      /\ \A i \in 1 .. Len(queue) - 1 : Tail(queue)[i] = queue[i + 1]
      /\ Head(queue) = queue[1]
  BY DEF Fetching, TypeOK
<1>5. queue' = Tail(queue)
  BY DEF Leave
<1>6. \A i, j \in DOMAIN queue' : i # j => queue'[i] # queue'[j]
  <2> SUFFICES ASSUME NEW i \in 1 .. Len(queue) - 1, NEW j \in 1 .. Len(queue) - 1,
                      i # j
               PROVE  Tail(queue)[i] # Tail(queue)[j]
    BY <1>4, <1>5
  <2>1. i + 1 \in DOMAIN queue /\ j + 1 \in DOMAIN queue /\ i + 1 # j + 1
    BY <1>4
  <2>2. queue[i + 1] # queue[j + 1]
    BY <2>1 DEF Once
  <2>3. Tail(queue)[i] = queue[i + 1] /\ Tail(queue)[j] = queue[j + 1]
    BY <1>4
  <2> QED  BY <2>2, <2>3
<1>7. Head(queue) \notin Range(Tail(queue))
  <2>1. \A i \in 1 .. Len(queue) - 1 : queue[i + 1] # queue[1]
    <3> TAKE i \in 1 .. Len(queue) - 1
    <3>1. i + 1 \in DOMAIN queue /\ 1 \in DOMAIN queue /\ i + 1 # 1
      BY <1>4
    <3> QED  BY <3>1 DEF Once
  <2>2. \A i \in DOMAIN Tail(queue) : Tail(queue)[i] # Head(queue)
    BY <1>4, <2>1
  <2> QED  BY <2>2 DEF Range
<1>8. \A route \in Range(queue') : outcome'[route] = "none"
  BY <1>1, <1>2, <1>5, <1>7 DEF Once
<1>9. \A route \in Routes : outcome'[route] # "none" => route \in seen'
  BY <1>1 DEF Once
<1>10. Once'
  BY <1>6, <1>8, <1>9 DEF Fetching, Once
<1>11. result # "none"
  OBVIOUS
<1>12. \A route \in Routes :
          outcome'[route] # "none" <=> outcome[route] # "none" \/ route = Head(queue)
  BY <1>1, <1>11
<1> QED  BY <1>1, <1>3, <1>10, <1>12

(* Survey counts with the Cardinality of its own FiniteSets.               *)
LEMMA SameCount == \A S : Abstract!Cardinality(S) = Cardinality(S)
BY DEF Abstract!Cardinality, Cardinality

(* Each step of the crawl is one of a survey, or none.                     *)
LEMMA StepIsOfSurvey ==
    ASSUME IInv, Once, [Next]_vars
    PROVE  Once' /\ [Abstract!Next]_Abstract!vars
<1> USE DEF IInv
<1> DEFINE Missed == {route \in Routes : MissOf(route) \in diagnostics}
           Done   == {route \in Routes : outcome[route] # "none"}
           Fetch(route) ==
              /\ at = "crawl" /\ at' = "crawl"
              /\ route \in seen /\ outcome[route] = "none"
              /\ Done' = Done \cup {route}
              /\ UNCHANGED <<seen, exhausted, BudgetMiss \in diagnostics>>
<1>1. CASE Parse
  <2>1. Once'
    BY <1>1 DEF Parse, Once
  <2>2. CASE at' = "sitemap"
    BY <1>1, <2>1, <2>2 DEF Parse, Abstract!vars, history
  <2>3. CASE at' = "rejected"
    <3>1. Done = {}
      BY <1>1 DEF Parse, Once
    <3>2. Abstract!Decline
      BY <1>1, <2>3, <3>1 DEF Parse, Abstract!Decline, history
    <3> QED  BY <2>1, <3>2 DEF Abstract!Next
  <2> QED  BY <1>1, <2>2, <2>3 DEF Parse
<1>2. CASE Enqueue
  <2>1. at \notin {"done", "rejected"}
    BY <1>2 DEF Enqueue, Over, Once
  <2>2. Head(todo) \in Routes
    BY <1>2, RangeOfTail DEF Enqueue, TypeOK
  <2>3. CASE UNCHANGED <<seen, exhausted>>
    BY <1>2, <2>3, EnqueueOnce DEF Enqueue, Abstract!vars, history
  <2>4. CASE ~Room /\ exhausted' = TRUE /\ UNCHANGED seen
    <3>1. Cardinality(seen) = MaxPages
      BY <2>4 DEF Room, TypeOK
    <3>2. Abstract!LeaveOut
      BY <1>2, <2>1, <2>4, <3>1, SameCount DEF Enqueue, Abstract!LeaveOut, history
    <3> QED  BY <1>2, <3>2, EnqueueOnce DEF Abstract!Next
  <2>5. CASE /\ Head(todo) \notin seen /\ Room /\ UNCHANGED exhausted
             /\ seen' = seen \cup {Head(todo)}
    <3>1. Abstract!Admit
      BY <1>2, <2>1, <2>2, <2>5, SameCount DEF Enqueue, Room, Abstract!Admit, history
    <3> QED  BY <1>2, <3>1, EnqueueOnce DEF Abstract!Next
  <2> QED  BY <1>2, <2>3, <2>4, <2>5 DEF Enqueue
<1>3. CASE Retry \/ ReadSitemap \/ UNCHANGED vars
  <2>1. UNCHANGED <<at, todo>> \/ (at = "sitemap" /\ at' = "crawl")
    <3>1. Retry => UNCHANGED <<at, todo>>
      BY DEF Retry
    <3>2. ReadSitemap => at = "sitemap" /\ at' = "crawl"
      BY DEF ReadSitemap, Fetching
    <3> QED  BY <1>3, <3>1, <3>2 DEF vars
  <2>2. UNCHANGED <<queue, seen, surfaces, diagnostics, exhausted, outcome>>
    BY <1>3 DEF Retry, ReadSitemap, vars, history
  <2>3. Once'
    BY <2>1, <2>2 DEF Once
  <2> QED  BY <2>1, <2>2, <2>3 DEF Abstract!vars
<1>4. CASE SitemapFails
  <2>1. /\ at = "sitemap" /\ at' = "crawl"
        /\ UNCHANGED <<queue, seen, surfaces, exhausted, outcome>>
    BY <1>4 DEF SitemapFails, Fetching
  <2>2. Once'
    BY <2>1 DEF Once
  <2>3. \A route \in Routes : MissOf(route) # SitemapMiss
    BY DEF MissOf, SitemapMiss
  <2>4. Missed' = Missed /\ (BudgetMiss \in diagnostics)' = (BudgetMiss \in diagnostics)
    BY <1>4, <2>3, Misses DEF SitemapFails
  <2> QED  BY <2>1, <2>2, <2>4 DEF Abstract!vars
<1>5. CASE ReadPage
  <2>1. Once' /\ Fetch(Head(queue))
    BY <1>5, LeaveOnce DEF ReadPage, Fetching
  <2>2. surfaces' = surfaces \cup {Head(queue)} /\ Missed' = Missed
    BY <1>5 DEF ReadPage
  <2>3. Abstract!Settle
    BY <2>1, <2>2 DEF Abstract!Settle
  <2> QED  BY <2>1, <2>3 DEF Abstract!Next
<1>6. CASE PassOver
  <2>1. PICK result \in {"asset", "refused"} : Leave(result)
    BY <1>6 DEF PassOver
  <2>2. Once' /\ Fetch(Head(queue))
    BY <1>6, <2>1, LeaveOnce DEF PassOver, Fetching
  <2>3. UNCHANGED <<surfaces, Missed>>
    BY <1>6 DEF PassOver
  <2>4. Abstract!Settle
    BY <2>2, <2>3 DEF Abstract!Settle
  <2> QED  BY <2>2, <2>4 DEF Abstract!Next
<1>7. CASE PageFails
  <2>1. diagnostics' = diagnostics \cup {MissOf(Head(queue))}
    BY <1>7 DEF PageFails
  <2>2. Head(queue) \in Routes
    BY <1>7, RangeOfTail DEF PageFails, Fetching, TypeOK
  <2>3. (BudgetMiss \in diagnostics)' = (BudgetMiss \in diagnostics)
    BY <2>1, <2>2, Misses
  <2>4. Once' /\ Fetch(Head(queue))
    BY <1>7, <2>3, LeaveOnce DEF PageFails, Fetching
  <2>5. \A route \in Routes : MissOf(route) = MissOf(Head(queue)) => route = Head(queue)
    BY <2>2 DEF MissOf
  <2>6. Missed' = Missed \cup {Head(queue)}
    BY <2>1, <2>2, <2>5
  <2>7. Abstract!Settle
    BY <1>7, <2>4, <2>6 DEF PageFails, Abstract!Settle
  <2> QED  BY <2>4, <2>7 DEF Abstract!Next
<1>8. CASE Finish
  <2>1. Once'
    BY <1>8 DEF Finish, Once, history
  <2>2. Done = seen
    BY <1>8, RangeOfEmpty DEF Finish, Fetched, Once, TypeOK
  <2>3. (BudgetMiss \in diagnostics') = exhausted
    BY <1>8, Misses DEF Finish, Budgeted, TypeOK
  <2>4. Missed' = Missed
    BY <1>8, Misses DEF Finish
  <2>5. Abstract!Close
    BY <1>8, <2>2, <2>3, <2>4 DEF Finish, Abstract!Close, history
  <2> QED  BY <2>1, <2>5 DEF Abstract!Next
<1> QED  BY <1>1, <1>2, <1>3, <1>4, <1>5, <1>6, <1>7, <1>8 DEF Next

(* For every site: the crawl is a survey of it.                            *)
THEOREM ImplementsSurvey == Spec => IsSurvey
<1>1. Init => Abstract!Init
  BY Misses DEF Init, Abstract!Init
<1>2. IInv /\ Once /\ [Next]_vars => Once'
  BY StepIsOfSurvey
<1>3. IInv /\ Once /\ [Next]_vars => [Abstract!Next]_Abstract!vars
  BY StepIsOfSurvey
<1> QED  BY <1>1, <1>2, <1>3, OnceAtFirst, Inductive, PTL
        DEF Spec, IsSurvey, Abstract!Spec
=============================================================================
