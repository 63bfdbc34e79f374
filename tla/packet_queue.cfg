SPECIFICATION Spec
CONSTANTS
  SIZE = 3
  Address = {1, 2, 3, 4}
  Flag = {"l1i", "l1d"}
INVARIANTS
  TypeOK
  RingConsistent
PROPERTIES
  FifoSpec
