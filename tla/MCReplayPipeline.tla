--------------------------- MODULE MCReplayPipeline ---------------------------
(***************************************************************************)
(* ReplayPipeline with a flat commission and a tenth of the price as fee.  *)
(***************************************************************************)
EXTENDS ReplayPipeline

MCPaperFee(price, n) == 1 + n * (price \div 10)
=============================================================================
