SPECIFICATION Spec
CONSTANTS
  Workers = {w1, w2}
  Concurrency = 2
  MaxSize = 2
  MaxTries = 2
SYMMETRY Symmetry
INVARIANTS SlotsAccounted
PROPERTIES ImplementsCounter
