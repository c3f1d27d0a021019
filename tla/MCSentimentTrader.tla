--------------------------- MODULE MCSentimentTrader ---------------------------
(***************************************************************************)
(* SentimentTrader on small instances: a bullish event that names one of   *)
(* two symbols twice, a bearish one, and one too weak to act on.           *)
(***************************************************************************)
EXTENDS SentimentTrader

CONSTANTS s1, s2

Event(symbols, mood, size) == [symbols |-> symbols, mood |-> mood, size |-> size]

MCEvents == {Event(<<s1, s2, s1>>, "bull", 80), Event(<<s1>>, "bear", 80),
             Event(<<s1>>, "weak", 80)}
=============================================================================
