CONSTANTS
  MaxLines = 5
  MaxTruncations = 2
SPECIFICATION SourceSpec
INVARIANTS ReadOnceInOrder NothingSkipped
