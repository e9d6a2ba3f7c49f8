\* Enough cells for a query with its copy beside one request that is waiting.
\* A shorter supply would only make more allocations fail.
SPECIFICATION Spec
CONSTANTS
  Natives = {n1, n2, n3, n4}
  Wrappers = {w1, w2}
  Lists <- MCLists
  MaxEvents = 2
  Null = Null
SYMMETRY Symmetry
INVARIANTS
  OneOwner
  AskedFor
PROPERTIES
  RequestsDelivered
