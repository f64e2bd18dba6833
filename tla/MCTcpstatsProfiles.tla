------------------------ MODULE MCTcpstatsProfiles ------------------------
(* Two names, one of 32 characters that is stored as the other.            *)
EXTENDS TcpstatsProfiles

CONSTANTS web, long

MCStored == [n \in Names |-> IF n = long THEN web ELSE n]
============================================================================
