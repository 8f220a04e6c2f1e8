---------------------------- MODULE MCMarketRefresh ----------------------------
(***************************************************************************)
(* An instance of MarketRefresh for TLC.  Each venue is in one of the      *)
(* pairs, with an interval its adapter knows and, where that can be, with  *)
(* one it does not, and a rate it takes a forecast of another for.         *)
(* Between two events there is room for a snapshot to go stale while the   *)
(* event it tells of is still ahead.                                       *)
(***************************************************************************)
EXTENDS MarketRefresh, TLC

Terms(rate, told, interval, read) ==
  [rate |-> rate, told |-> told, interval |-> interval, read |-> read]

\* Known, with a positive and a negative rate.
Pays == Terms(1, 1, 4, 4)
Charges == Terms(-1, -1, 4, 4)

MCOffers ==
  {"bybit" :> Pays @@ "okx" :> Charges,
   "bybit" :> Terms(-1, -1, 2, 2) @@ "okx" :> Terms(1, -1, 2, 4),
   "bybit" :> Terms(1, 1, 2, 0) @@ "mexc" :> Charges,
   "bybit" :> Charges @@ "mexc" :> Terms(1, 1, 2, 4),
   "gate" :> Terms(-1, -1, 2, 2) @@ "binance" :> Pays,
   "gate" :> Terms(1, 1, 4, 0) @@ "binance" :> Terms(-1, -1, 2, 4),
   "kucoin" :> Terms(1, 0, 4, 4) @@ "bitget" :> Terms(1, 1, 2, 4),
   "kucoin" :> Terms(-1, -1, 2, 2) @@ "bitget" :> Terms(1, 1, 2, 2),
   "okx" :> Terms(1, 1, 4, 4) @@ "mexc" :> Charges}
===============================================================================
