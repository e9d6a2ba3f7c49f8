------------------------------ MODULE Handshake ------------------------------
(***************************************************************************)
(* What the two programs promise each other, without endpoints, buffers or *)
(* queues: a conversation of three messages, hello, world, ack, spoken     *)
(* alternately.  A side advances by saying the next message when it is its *)
(* turn, or by hearing one the other side has already said; it may give up *)
(* at any time; and it reports success only at the end of the conversation.*)
(***************************************************************************)
EXTENDS Integers

Side == {"client", "server"}
Peer(s) == IF s = "client" THEN "server" ELSE "client"

(* The client says the first and the third message, the server the second. *)
Speaker(k) == IF k = 2 THEN "server" ELSE "client"

VARIABLES
  heard,      \* how many messages of the conversation each side has taken part in
  verdict     \* "none" while a side runs, then "ok" or "failed"

vars == <<heard, verdict>>

TypeOK ==
  /\ heard \in [Side -> 0..3]
  /\ verdict \in [Side -> {"none", "ok", "failed"}]

Init ==
  /\ heard = [s \in Side |-> 0]
  /\ verdict = [s \in Side |-> "none"]

Advance(s) ==
  /\ verdict[s] = "none"
  /\ heard[s] < 3
  /\ Speaker(heard[s] + 1) = s \/ heard[s] < heard[Peer(s)]
  /\ heard' = [heard EXCEPT ![s] = @ + 1]
  /\ UNCHANGED verdict

Conclude(s, v) ==
  /\ verdict[s] = "none"
  /\ v = "ok" => heard[s] = 3
  /\ verdict' = [verdict EXCEPT ![s] = v]
  /\ UNCHANGED heard

Next == \E s \in Side : Advance(s) \/ \E v \in {"ok", "failed"} : Conclude(s, v)

Spec == Init /\ [][Next]_vars

(* The sides are never more than one message apart, so a side that ends    *)
(* well knows that the other has heard and checked all but the last one.   *)
InStep ==
  \A s \in Side :
    /\ heard[s] <= heard[Peer(s)] + 1
    /\ verdict[s] = "ok" => heard[Peer(s)] >= 2
=============================================================================
