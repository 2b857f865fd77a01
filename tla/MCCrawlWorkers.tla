--------------------------- MODULE MCCrawlWorkers ----------------------------
(* A site with loops, links found twice on a page and a link back home.    *)
EXTENDS CrawlWorkers, TLC
CONSTANTS a, b, c, d

MCLinksOn == a :> <<b, c, b, c>> @@ b :> <<a, d>> @@ c :> <<d, b>> @@ d :> <<>>
=============================================================================
