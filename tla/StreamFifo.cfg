\* Four streams, so that a keepalive burst of two doubled packets meets an
\* older packet in the queue; the count drifts up to MaxCount.
CONSTANTS
  Stream = {s1, s2, s3, s4}
  NULL = NULL
  MaxCount = 8
SPECIFICATION Spec
SYMMETRY StreamSymmetry
INVARIANTS ListIsQueue ListEnds CountCoversQueue
