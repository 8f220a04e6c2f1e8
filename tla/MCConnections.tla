----------------------------- MODULE MCConnections -----------------------------
(***************************************************************************)
(* An instance of Connections for TLC.                                     *)
(***************************************************************************)
EXTENDS Connections

CONSTANTS read1, read2, order1

MCCalls == {read1, read2, order1}
MCSafe == {read1, read2}
MCTimed == {order1}
MCSubscriptions == {{"ticker"}, {"depth", "mark"}}
===============================================================================
