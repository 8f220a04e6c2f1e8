------------------------------ MODULE MCAdapters ------------------------------
(***************************************************************************)
(* Instances of Adapters for TLC.                                          *)
(***************************************************************************)
EXTENDS Adapters

\* With contracts of 2, one unit is too small for a contract and three leave one.
MCQtys == {1, 3}
MCSlices == {1, 2}
MCLossy == AllVenues \ {"gate"}
MCDelistable == AllVenues \ {"kucoin", "mexc"}
GateOnly == {"gate"}
MexcOnly == {"mexc"}
MCLegs == {"long"}
===============================================================================
