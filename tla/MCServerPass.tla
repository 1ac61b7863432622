---------------------------- MODULE MCServerPass ----------------------------
(* The instance of ServerPass that TLC checks. *)
EXTENDS ServerPass

CONSTANTS w1, w2

MCWorkers == {w1, w2}

(* The smallest capacity that CapacityAssumption allows. *)
MCSize == Hosts + Cardinality(MCWorkers)
=============================================================================
