--------------------------- MODULE MCRateLimiter ---------------------------
\* Three writers share a bucket.
EXTENDS RateLimiter

CONSTANTS w1, w2, w3

MCWriters == {w1, w2, w3}
============================================================================
