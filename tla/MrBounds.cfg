\* Every region, message limit and buffer of an address space of ten bytes.
CONSTANT AddressSpace = 10
SPECIFICATION Spec
INVARIANTS
  HeldInside
  FittingAccepted
