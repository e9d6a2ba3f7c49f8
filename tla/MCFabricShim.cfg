\* One fabric and one domain; two endpoints side by side, three operations on
\* CQs of capacity two, so that a CQ fills up and a spent CQ is met again.
SYMMETRY Symmetry
CONSTANTS
  None = None
  Fabrics = {f1}
  Domains = {d1}
  Eqs = {q1}
  Cqs = {c1, c2, c3, c4}
  Listeners = {l1}
  Eps = {e1, e2}
  Mrs = {m1}
  Ops = {o1, o2, o3}
  Capacity = 2
SPECIFICATION Spec

INVARIANTS
  TypeOK
  CountersExact
  ParentsOutlive
  BorrowsPinned
  ContextsPinned
  CqNeverOverruns
  CleanupOrder
PROPERTY InFlightStable
