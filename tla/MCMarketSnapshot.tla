--------------------------- MODULE MCMarketSnapshot ---------------------------
(* Instances of MarketSnapshot for TLC.                                    *)
EXTENDS MarketSnapshot
=============================================================================
