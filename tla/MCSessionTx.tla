---------------------------- MODULE MCSessionTx ----------------------------
(* Instances of SessionTx for TLC: the beans and SQL texts are strings, one  *)
(* bean with a processor and one without.                                    *)
EXTENDS SessionTx

MCKind == {"insert", "delete"}
MCBean == {"plain", "hooked"}
MCProcessor == {"hooked"}
MCQuery == {"q1"}
MCAllFaults == FaultNames
============================================================================
