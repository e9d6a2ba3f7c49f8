-------------------------------- MODULE Loan --------------------------------
(***************************************************************************)
(* What a program that lends memory to a NIC promises: a buffer is freed   *)
(* only by its owner, after the NIC has returned it and it is no longer    *)
(* registered.  A program that cannot get a buffer back may give it up for *)
(* good, and then never frees it.                                          *)
(***************************************************************************)
CONSTANT Buffers

VARIABLE state

State == {"none", "owned", "registered", "lent", "freed", "leaked"}

TypeOK == state \in [Buffers -> State]

Init == state = [b \in Buffers |-> "none"]

(* The buffers S, all in one of the states from, come to be in state to.   *)
Move(S, from, to) ==
  /\ \A b \in S : state[b] \in from
  /\ state' = [b \in Buffers |-> IF b \in S THEN to ELSE state[b]]

Allocate(S) == Move(S, {"none"}, "owned")
Register(S) == Move(S, {"owned"}, "registered")
Lend(S) == Move(S, {"registered"}, "lent")
Return(S) == Move(S, {"lent"}, "registered")
Unregister(S) == Move(S, {"registered"}, "owned")
Free(S) == Move(S, {"owned"}, "freed")
GiveUp(S) == Move(S, {"owned", "registered", "lent"}, "leaked")

Next ==
  \E S \in SUBSET Buffers :
    \/ Allocate(S) \/ Free(S) \/ GiveUp(S)
    \/ Register(S) \/ Unregister(S)
    \/ Lend(S) \/ Return(S)

Spec == Init /\ [][Next]_state
=============================================================================
