----------------------------- MODULE MCIndexer -----------------------------
(* Instances of the indexer for TLC: a ledger with two events, one with    *)
(* none, and one whose event can leave the retention window.               *)
EXTENDS Indexer, TLC

MCChain == <<2, 2, 3>>
MCShortChain == <<2, 3>>
=============================================================================
