----------------------------- MODULE MCExporter -----------------------------
\* Three requests to an exporter with a limit of two a second.
EXTENDS Exporter

CONSTANTS r1, r2, r3

MCRequests == {r1, r2, r3}
============================================================================
