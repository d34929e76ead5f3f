CONSTANTS
  Bases = {0, 7, 214748364, 429496729, 858993459, 1000000000}
  Extra = {0, 5, 6, 7, 9}

SPECIFICATION Spec

INVARIANT AtoiSaturates
