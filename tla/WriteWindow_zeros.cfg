SPECIFICATION WindowSpec
CONSTANTS WordBytes=2 Chunk=3 FixedCapacity=5 MaxWindow=5 Scratch=TRUE
INVARIANT ZerosAreZeros
CHECK_DEADLOCK FALSE
