\* IDs of ten bits, in words of four, four and two: every range that halving the
\* whole ID space can reach, 2047 of them, across both carries.
CONSTANTS
  Half = 2
  LittleEndian = TRUE
SPECIFICATION Spec
INVARIANTS
  Halving
  OrderIsNumeric
  IdsSurvive
  NodesSurvive
CHECK_DEADLOCK FALSE
