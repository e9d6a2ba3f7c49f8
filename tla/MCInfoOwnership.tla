--------------------------- MODULE MCInfoOwnership ---------------------------
(***************************************************************************)
(* InfoOwnership with the result lists that tell its filter apart: empty,  *)
(* one entry that fails one test each, and a fitting entry behind one that *)
(* names another domain, another direction or no domain.                   *)
(***************************************************************************)
EXTENDS InfoOwnership, TLC

Good == [complete |-> TRUE, verbs |-> TRUE, msg |-> TRUE,
         domain |-> "near", src |-> TRUE, dest |-> TRUE]

MCLists ==
  {<<>>, <<Good>>,
   <<[Good EXCEPT !.complete = FALSE, !.domain = Null], Good>>,
   <<[Good EXCEPT !.verbs = FALSE]>>, <<[Good EXCEPT !.msg = FALSE]>>,
   <<[Good EXCEPT !.domain = "far"], Good>>,
   <<[Good EXCEPT !.src = FALSE], [Good EXCEPT !.dest = FALSE, !.domain = Null]>>}

Symmetry == Permutations(Natives) \cup Permutations(Wrappers)
=============================================================================
