-------------------------------- MODULE Venues --------------------------------
(***************************************************************************)
(* The adapters the worker builds, one per venue                           *)
(* (internal/app/livewiring.go).                                           *)
(***************************************************************************)
EXTENDS ExchangeAdapter

BinanceModule == INSTANCE Binance
BitgetModule == INSTANCE Bitget
BybitModule == INSTANCE Bybit
GateModule == INSTANCE Gate
KucoinModule == INSTANCE Kucoin
MexcModule == INSTANCE Mexc
OkxModule == INSTANCE Okx

AllVenues == {"binance", "bitget", "bybit", "gate", "kucoin", "mexc", "okx"}

Of(v, binance, bitget, bybit, gate, kucoin, mexc, okx) ==
  CASE v = "binance" -> binance [] v = "bitget" -> bitget [] v = "bybit" -> bybit
    [] v = "gate" -> gate [] v = "kucoin" -> kucoin [] v = "mexc" -> mexc [] v = "okx" -> okx

AdapterTables ==
  [v \in AllVenues |-> Of(v, BinanceModule!Adapter, BitgetModule!Adapter, BybitModule!Adapter,
     GateModule!Adapter, KucoinModule!Adapter,
     MexcModule!Adapter, OkxModule!Adapter)]

TopicsOf ==
  [v \in AllVenues |-> Of(v, BinanceModule!Topics, BitgetModule!Topics, BybitModule!Topics,
     GateModule!Topics, KucoinModule!Topics, MexcModule!Topics, OkxModule!Topics)]

EmitsOf ==
  [v \in AllVenues |-> Of(v, BinanceModule!Emits, BitgetModule!Emits, BybitModule!Emits,
     GateModule!Emits, KucoinModule!Emits, MexcModule!Emits, OkxModule!Emits)]

\* The others have no private stream.
WithPrivateStream == {"binance", "bybit"}

StreamOf(v, kind) ==
  IF kind = "private"
  THEN IF v = "binance" THEN BinanceModule!PrivateStream ELSE BybitModule!PrivateStream
  ELSE Of(v, BinanceModule!Stream, BitgetModule!Stream, BybitModule!Stream, GateModule!Stream,
          KucoinModule!Stream, MexcModule!Stream, OkxModule!Stream)

WireOf(v, req, mult) ==
  Of(v, BinanceModule!Wire(req, mult), BitgetModule!Wire(req, mult), BybitModule!Wire(req, mult),
     GateModule!Wire(req, mult), KucoinModule!Wire(req, mult),
     MexcModule!Wire(req, mult), OkxModule!Wire(req, mult))

FilledOf(v, size, mult) ==
  Of(v, BinanceModule!Filled(size, mult), BitgetModule!Filled(size, mult), BybitModule!Filled(size, mult),
     GateModule!Filled(size, mult), KucoinModule!Filled(size, mult),
     MexcModule!Filled(size, mult), OkxModule!Filled(size, mult))
===============================================================================
