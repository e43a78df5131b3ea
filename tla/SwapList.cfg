SPECIFICATION SwapListSpec
CONSTANTS
  a1 = a1
  a2 = a2
  a3 = a3
  a4 = a4
  zero = zero
  Blank <- ZeroItem
  Address = {a1, a2, a3, a4}
  Value = {1, 2}
  Capacities = {2, 4}
INVARIANTS AddressesAreUnique CountFits
PROPERTIES ImplementsRecordSet
