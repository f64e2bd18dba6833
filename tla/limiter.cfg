\* Three writers of two tokens, a bucket of five, refills of two.
CONSTANTS
  w1 = w1
  w2 = w2
  w3 = w3
  Writers <- MCWriters
  Rate = 5
  Refill = 2
  Amount = 2
SPECIFICATION LimiterFairSpec
INVARIANTS TokensConserved
PROPERTIES BucketServes
CHECK_DEADLOCK FALSE
