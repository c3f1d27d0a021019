---------------------------- MODULE MCPriceMonitor ----------------------------
(***************************************************************************)
(* PriceMonitor on small instances: prices that hit a 10% stop, a trailing *)
(* stop and a 15% profit from entries of 80, 100 and 120.                  *)
(***************************************************************************)
EXTENDS PriceMonitor

MCPrices == {80, 100, 120}
=============================================================================
