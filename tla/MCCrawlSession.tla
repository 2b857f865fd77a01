--------------------------- MODULE MCCrawlSession ----------------------------
(* One pipeline with two crawls to do: the second meets what a first that  *)
(* timed out has left running, on the same status entry and the same VDI.  *)
EXTENDS CrawlSession
CONSTANTS c1, c2, p1, v1
=============================================================================
