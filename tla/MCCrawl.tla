------------------------------- MODULE MCCrawl -------------------------------
(* Crawl of five routes with a cycle, a repeated link and pages that name  *)
(* more routes than the budget has room for.                               *)
EXTENDS Crawl

MCRoutes   == {"/", "/a", "/b", "/c", "/d"}
MCLinks    == [route \in MCRoutes |->
                CASE route = "/"  -> <<"/a", "/b", "/a">>
                  [] route = "/a" -> <<"/", "/c">>
                  [] route = "/b" -> <<"/d", "/a">>
                  [] OTHER        -> <<>>]
MCSitemaps == {<<"/c", "/">>, <<"/d", "/b", "/c">>}

MCSorted   == [routes \in SUBSET MCRoutes |->
                SelectSeq(<<"/", "/a", "/b", "/c", "/d">>,
                          LAMBDA route : route \in routes)]
=============================================================================
