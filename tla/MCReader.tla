------------------------------ MODULE MCReader ------------------------------
\* Three addresses, two processes.
EXTENDS Reader

CONSTANTS p1, p2

MCPids == {p1, p2}
============================================================================
