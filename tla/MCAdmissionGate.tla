-------------------------- MODULE MCAdmissionGate --------------------------
(* Instance for TLC: four clients, and limits that go to zero and back.    *)
EXTENDS AdmissionGate, TLC

CONSTANTS c1, c2, c3, c4

MCClients == {c1, c2, c3, c4}
MCLimits  == 0 .. 2
MCSymmetry == Permutations(MCClients)
============================================================================
