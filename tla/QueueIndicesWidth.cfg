SPECIFICATION Spec
CONSTANT
  Modulus = 32
INVARIANTS
  UnsignedAgrees
  CountsAreExact
