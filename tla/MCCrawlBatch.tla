---------------------------- MODULE MCCrawlBatch -----------------------------
(* Two pipelines and a channel of two, which three sources overfill. *)
EXTENDS CrawlBatch, TLC
CONSTANTS s1, s2, s3

MCSymmetry == Permutations({s1, s2, s3})
=============================================================================
