\* Two fabrics with a domain each: pointers that cross from one to the other.
CONSTANTS
  None = None
  Fabrics = {f1, f2}
  Domains = {d1, d2}
  Eqs = {q1, q2}
  Cqs = {c1, c2}
  Listeners = {l1}
  Eps = {e1}
  Mrs = {m1}
  Ops = {o1}
  Capacity = 1
SPECIFICATION Spec
SYMMETRY Symmetry
INVARIANTS
  ParentsOutlive
  BorrowsPinned
