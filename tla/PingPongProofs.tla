---------------------------- MODULE PingPongProofs ----------------------------
(***************************************************************************)
(* Proofs about PingPong, for every interleaving of the two C programs     *)
(* with the provider and with any number of other clients, for any choice  *)
(* of faults: the type invariant, the safety properties, and that the      *)
(* programs implement Handshake.                                           *)
(***************************************************************************)
EXTENDS PingPong, NetworkProofs, FiniteSetTheorems, FunctionTheorems

(* The entries of a program's EQ.                                          *)
ClientEvent == {"connected", "shutdown", "refused"}
ServerEvent == ClientEvent \cup {"client", "stranger"}

(* The types of all variables but the queues of the provider.              *)
Types ==
  /\ pc \in [Side -> 1..9] /\ pc["client"] \in 1..8
  /\ poll \in [Side -> {"head", "tx", "rx", "eq", "back", "out", "done"}]
  /\ tx_done \in [Side -> BOOLEAN] /\ rx_done \in [Side -> BOOLEAN]
  /\ rx \in [Side -> Message \cup {None}]
  /\ verdict \in [Side -> {"none", "ok", "timeout", "setup", "event", "call",
                           "busy", "completion", "content", "ended"}]
  /\ link \in {"none", "requested", "accepted", "rejected"}
  /\ est \subseteq Side /\ told \subseteq Side
  /\ gone \subseteq Side /\ broken \subseteq Side
  /\ eqq \in [Side -> Seq(ServerEvent)] /\ eqq["client"] \in Seq(ClientEvent)

(* The endpoint receives messages.                                         *)
Live(s) == s \notin gone \cup broken

(* Who a message is for, whether it has been sent, and read from the CQ.   *)
To(s) == IF s = "client" THEN {"world"} ELSE {"hello", "ack"}
Said(m) ==
  \/ m = "hello" /\ pc["client"] >= 5
  \/ m = "world" /\ pc["server"] >= 8
  \/ m = "ack" /\ pc["client"] >= 7
Heard(m) ==
  \/ m = "hello" /\ (pc["server"] >= 6 \/ rx_done["server"])
  \/ m = "world" /\ rx_done["client"]
  \/ m = "ack" /\ pc["server"] >= 7 /\ rx_done["server"]

(* A program passes only at the end of its script, and progress() runs     *)
(* only in the phases that submit or wait for completions.                 *)
Control ==
  \A s \in Side :
    /\ verdict[s] = "none" <=> poll[s] \notin {"out", "done"}
    /\ verdict[s] = "ok" => pc[s] = IF s = "client" THEN 8 ELSE 9
    /\ s \in gone <=> poll[s] = "done"
    /\ poll[s] \in {"tx", "rx", "eq", "back"} =>
         pc[s] \in IF s = "client" THEN {1, 4, 5, 6, 7} ELSE {2, 5, 6, 7, 8}

(* Before a receive or a send is posted its flag is down and there is none *)
(* yet; a phase that waits for both is left with both flags up.            *)
Posting(s) == pc[s] \in IF s = "client" THEN {1} ELSE {1, 2, 6}
Sending(s) == pc[s] \in IF s = "client" THEN {4, 6} ELSE {7}
Flags ==
  /\ \A s \in Side :
       /\ Posting(s) => ~rx_done[s] /\ rq[s] = 0 /\ rcq[s] = <<>>
       /\ Sending(s) => ~tx_done[s] /\ txwr[s] = "none" /\ tcq[s] = <<>>
       /\ tx_done[s] => txwr[s] = "none" /\ tcq[s] = <<>>
       /\ rx_done[s] => rq[s] = 0 /\ rcq[s] = <<>>
  /\ pc["client"] <= 3 => tx_done["client"]
  /\ pc["server"] <= 6 => tx_done["server"]
  /\ pc["client"] >= 6 => rx_done["client"]
  /\ pc["server"] >= 9 => rx_done["server"]

(* How far the connection is, and where the client's request.              *)
Connected ==
  /\ link = "none" <=> pc["client"] <= 2
  /\ pc["server"] = 1 <=> request = None
  /\ link = "accepted" <=> request = "client" /\ pc["server"] >= 4
  /\ est # {} => link = "accepted"
  /\ pc["client"] >= 4 => "client" \in est
  /\ \A i \in DOMAIN eqq["client"] : eqq["client"][i] = "connected" => "client" \in est
  /\ \A i \in DOMAIN eqq["server"] : eqq["server"][i] = "client" =>
       /\ link = "requested" /\ request # "client"
       /\ \A j \in DOMAIN eqq["server"] : eqq["server"][j] = "client" => i = j

(* The requests in the EQ, the one in hand that waits for its answer, and  *)
(* whether the session's client has yet to make its own.                   *)
Knocks(q) == {i \in DOMAIN q : q[i] \in {"client", "stranger"}}
InHand == poll["server"] # "done" /\ pc["server"] <= 3
Unsent == IF link = "none" THEN 1 ELSE 0
Answers ==
  /\ request \in {None, "client", "stranger"}
  /\ strangers \in 0..Strangers /\ taken \in Nat /\ answered \in Nat
  /\ taken = IF request # None /\ InHand THEN answered + 1 ELSE answered
  /\ taken + strangers + Unsent + Cardinality(Knocks(eqq["server"])) <= Strangers + 1
  /\ request = "client" /\ ~InHand => link \in {"accepted", "rejected"}
  /\ request = "client" => link # "none"

(* A message is in one place between the step that sends it and the one    *)
(* that reads it, and they follow each other.                              *)
Journeys ==
  /\ \A s \in Side, m \in Message :
       /\ wire[s] = <<m>> \/ rcq[s] = <<m>> => m \in To(s) /\ Said(m) /\ ~Heard(m)
       /\ wire[s] = <<m>> => rcq[s] # <<m>>
  /\ \A m \in Message : Heard(m) => Said(m)

(* A message that is not read yet, and may be under way, finds a receive.  *)
Receives ==
  /\ Live("client") /\ pc["client"] >= 2
       /\ (~Said("world") \/ wire["client"] # <<>>) => rq["client"] = 1
  /\ Live("server") /\ pc["server"] \in 3..5
       /\ (~Said("hello") \/ wire["server"] = <<"hello">>) => rq["server"] = 1
  /\ Live("server") /\ pc["server"] \in 7..8
       /\ (~Said("ack") \/ wire["server"] = <<"ack">>) => rq["server"] = 1

IInv ==
  /\ Types /\ ShortQueues /\ Control /\ Flags /\ Connected /\ Answers
  /\ Journeys /\ Receives

-----------------------------------------------------------------------------
(* The scripts.                                                            *)

(* Those of the client, line by line.                                      *)
LEMMA ClientLines ==
  /\ ClientScript[1] = <<"post", None>> /\ ClientScript[2] = <<"connect", None>>
  /\ ClientScript[3] = <<"connected", None>> /\ ClientScript[4] = <<"send", "hello">>
  /\ ClientScript[5] = <<"wait", "world">> /\ ClientScript[6] = <<"send", "ack">>
  /\ ClientScript[7] = <<"wait", None>> /\ ClientScript[8] = <<"end", None>>
BY DEF ClientScript

(* Those of the server.                                                    *)
LEMMA ServerLines ==
  /\ ServerScript[1] = <<"request", None>> /\ ServerScript[2] = <<"post", None>>
  /\ ServerScript[3] = <<"accept", None>> /\ ServerScript[4] = <<"connected", None>>
  /\ ServerScript[5] = <<"wait", "hello">> /\ ServerScript[6] = <<"post", None>>
  /\ ServerScript[7] = <<"send", "world">> /\ ServerScript[8] = <<"wait", "ack">>
  /\ ServerScript[9] = <<"end", None>>
BY DEF ServerScript

(* What each phase of the client calls, and with what message.             *)
LEMMA ClientCalls ==
  ASSUME NEW k \in 1..8
  PROVE  /\ Script["client"][k][1] = "post" <=> k = 1
         /\ Script["client"][k][1] = "connect" <=> k = 2
         /\ Script["client"][k][1] = "connected" <=> k = 3
         /\ Script["client"][k][1] = "send" <=> k \in {4, 6}
         /\ Script["client"][k][1] = "wait" <=> k \in {5, 7}
         /\ Script["client"][k][1] = "end" <=> k = 8
         /\ Script["client"][k][1] \notin {"request", "accept"}
         /\ Script["client"][k][2] = IF k = 4 THEN "hello" ELSE IF k = 5 THEN "world"
                                     ELSE IF k = 6 THEN "ack" ELSE None
<1>1. Script["client"] = ClientScript
  BY DEF Script
<1>2. k = 1 \/ k = 2 \/ k = 3 \/ k = 4 \/ k = 5 \/ k = 6 \/ k = 7 \/ k = 8
  OBVIOUS
<1>3. CASE k = 1 \/ k = 2 \/ k = 3 \/ k = 4
  BY <1>1, <1>3, ClientLines
<1>4. CASE k = 5 \/ k = 6 \/ k = 7 \/ k = 8
  BY <1>1, <1>4, ClientLines
<1> QED
  BY <1>2, <1>3, <1>4

(* And those of the server.                                                *)
LEMMA ServerCalls ==
  ASSUME NEW k \in 1..9
  PROVE  /\ Script["server"][k][1] = "request" <=> k = 1
         /\ Script["server"][k][1] = "post" <=> k \in {2, 6}
         /\ Script["server"][k][1] = "accept" <=> k = 3
         /\ Script["server"][k][1] = "connected" <=> k = 4
         /\ Script["server"][k][1] = "wait" <=> k \in {5, 8}
         /\ Script["server"][k][1] = "send" <=> k = 7
         /\ Script["server"][k][1] = "end" <=> k = 9
         /\ Script["server"][k][1] # "connect"
         /\ Script["server"][k][2] = IF k = 5 THEN "hello" ELSE IF k = 7 THEN "world"
                                     ELSE IF k = 8 THEN "ack" ELSE None
<1>1. Script["server"] = ServerScript
  BY DEF Script
<1>2. k = 1 \/ k = 2 \/ k = 3 \/ k = 4 \/ k = 5 \/ k = 6 \/ k = 7 \/ k = 8 \/ k = 9
  OBVIOUS
<1>3. CASE k = 1 \/ k = 2 \/ k = 3 \/ k = 4
  BY <1>1, <1>3, ServerLines
<1>4. CASE k = 5 \/ k = 6 \/ k = 7 \/ k = 8 \/ k = 9
  BY <1>1, <1>4, ServerLines
<1> QED
  BY <1>2, <1>3, <1>4

(* The phase a program is in.                                              *)
LEMMA Phases ==
  ASSUME Types, NEW s \in Side
  PROVE  /\ Call(s) = "request" <=> s = "server" /\ pc[s] = 1
         /\ Call(s) = "post" <=> pc[s] \in IF s = "client" THEN {1} ELSE {2, 6}
         /\ Call(s) = "connect" <=> s = "client" /\ pc[s] = 2
         /\ Call(s) = "accept" <=> s = "server" /\ pc[s] = 3
         /\ Call(s) = "connected" <=> pc[s] = IF s = "client" THEN 3 ELSE 4
         /\ Call(s) = "send" <=> Sending(s)
         /\ Call(s) = "wait" <=> pc[s] \in IF s = "client" THEN {5, 7} ELSE {5, 8}
         /\ Call(s) = "end" <=> pc[s] = IF s = "client" THEN 8 ELSE 9
         /\ s = "client" => Text(s) = IF pc[s] = 4 THEN "hello" ELSE IF pc[s] = 5 THEN "world"
                                      ELSE IF pc[s] = 6 THEN "ack" ELSE None
         /\ s = "server" => Text(s) = IF pc[s] = 5 THEN "hello" ELSE IF pc[s] = 7 THEN "world"
                                      ELSE IF pc[s] = 8 THEN "ack" ELSE None
<1>1. CASE s = "client"
  BY <1>1, ClientCalls DEF Types, Call, Text, Sending
<1>2. CASE s = "server"
  BY <1>2, ServerCalls DEF Types, Call, Text, Sending
<1> QED
  BY <1>1, <1>2 DEF Side

(* What entering the next phase does to the flags.                         *)
LEMMA Advances ==
  ASSUME Types, NEW s \in Side, Advance(s), Call(s) # "end",
         pc[s] + 1 \in (IF s = "client" THEN {4, 6} ELSE {7}) => tx_done[s]
  PROVE  /\ pc' = [pc EXCEPT ![s] = pc[s] + 1] /\ pc' \in [Side -> 1..9]
         /\ pc'["client"] \in 1..8 /\ pc'[s] = pc[s] + 1
         /\ poll' = [poll EXCEPT ![s] = "head"] /\ verdict' = verdict
         /\ tx_done' \in [Side -> BOOLEAN] /\ rx_done' \in [Side -> BOOLEAN]
         /\ tx_done'[s] <=> tx_done[s] /\ ~Sending(s)'
         /\ rx_done'[s] <=> rx_done[s] /\ pc'[s] \notin IF s = "client" THEN {1} ELSE {2, 6}
         /\ \A r \in Side \ {s} : /\ pc'[r] = pc[r]
                                  /\ tx_done'[r] <=> tx_done[r]
                                  /\ rx_done'[r] <=> rx_done[r]
<1> DEFINE next == Script[s][pc[s] + 1][1]
<1>1. /\ next = "send" <=> pc[s] + 1 \in (IF s = "client" THEN {4, 6} ELSE {7})
      /\ next = "post" <=> pc[s] + 1 \in (IF s = "client" THEN {1} ELSE {2, 6})
      /\ pc[s] \in 1..8 /\ (s = "client" => pc[s] \in 1..7)
  <2>1. CASE s = "client"
    <3>1. pc[s] \in 1..7 /\ pc[s] + 1 \in 1..8
      BY <2>1, Phases DEF Types
    <3> QED
      BY <2>1, <3>1, ClientCalls
  <2>2. CASE s = "server"
    <3>1. pc[s] \in 1..8 /\ pc[s] + 1 \in 1..9
      BY <2>2, Phases DEF Types
    <3> QED
      BY <2>2, <3>1, ServerCalls
  <2> QED
    BY <2>1, <2>2 DEF Side
<1> HIDE DEF next
<1>2. /\ pc' = [pc EXCEPT ![s] = pc[s] + 1]
      /\ poll' = [poll EXCEPT ![s] = "head"] /\ verdict' = verdict
      /\ tx_done' = [tx_done EXCEPT ![s] = tx_done[s] /\ next # "send"]
      /\ rx_done' = [rx_done EXCEPT ![s] = rx_done[s] /\ next # "post"]
  <2>1. ~(next = "send" /\ ~tx_done[s])
    BY <1>1
  <2> QED
    BY <2>1 DEF Advance, At, Types, next
<1>3. /\ pc' \in [Side -> 1..9] /\ pc'["client"] \in 1..8 /\ pc'[s] = pc[s] + 1
      /\ \A r \in Side \ {s} : pc'[r] = pc[r]
  BY <1>1, <1>2 DEF Types, Side
<1>4. /\ tx_done' \in [Side -> BOOLEAN]
      /\ tx_done'[s] <=> tx_done[s] /\ next # "send"
      /\ \A r \in Side \ {s} : tx_done'[r] <=> tx_done[r]
  BY <1>2 DEF Types
<1>5. /\ rx_done' \in [Side -> BOOLEAN]
      /\ rx_done'[s] <=> rx_done[s] /\ next # "post"
      /\ \A r \in Side \ {s} : rx_done'[r] <=> rx_done[r]
  BY <1>2 DEF Types
<1> QED
  BY <1>1, <1>2, <1>3, <1>4, <1>5 DEF Sending

-----------------------------------------------------------------------------
(* The parts of the invariant that a step leaves alone.                    *)

(* Neither the connection nor the EQs change.                              *)
LEMMA ConnectedFrame ==
  ASSUME Connected, UNCHANGED <<link, request, est, eqq>>,
         pc'["client"] <= 2 <=> pc["client"] <= 2,
         pc'["client"] >= 4 => pc["client"] >= 4,
         pc'["server"] = 1 <=> pc["server"] = 1,
         pc'["server"] >= 4 <=> pc["server"] >= 4
  PROVE  Connected'
BY DEF Connected

(* No request is read or answered.                                         *)
LEMMA AnswersFrame ==
  ASSUME Answers, UNCHANGED <<requests, link, eqq>>, InHand' <=> InHand
  PROVE  Answers'
BY DEF Answers, requests, Knocks, Unsent

(* No message is sent or read; one under way may be lost.                  *)
LEMMA JourneysFrame ==
  ASSUME Journeys,
         \A m \in Message : (Said(m)' <=> Said(m)) /\ (Heard(m)' <=> Heard(m)),
         \A s \in Side, m \in Message : /\ wire'[s] = <<m>> => wire[s] = <<m>>
                                        /\ rcq'[s] = <<m>> => rcq[s] = <<m>>
  PROVE  Journeys'
<1>1. \A s \in Side, m \in Message :
        /\ wire'[s] = <<m>> \/ rcq'[s] = <<m>> => m \in To(s) /\ Said(m)' /\ ~Heard(m)'
        /\ wire'[s] = <<m>> => rcq'[s] # <<m>>
  BY DEF Journeys
<1>2. \A m \in Message : Heard(m)' => Said(m)'
  BY DEF Journeys
<1> QED
  BY <1>1, <1>2 DEF Journeys, To

(* A phase ends that neither posts nor sends.                              *)
LEMMA PhaseEnds ==
  ASSUME IInv, NEW s \in Side, Advance(s), poll[s] \in {"head", "back"},
         Call(s) \in {"request", "connect", "accept", "connected"}
           \/ (Call(s) = "wait" /\ tx_done[s] /\ rx_done[s]),
         UNCHANGED <<gone, broken, rq, wire, txwr, rcq, tcq>>
  PROVE  /\ pc' \in [Side -> 1..9] /\ pc'["client"] \in 1..8
         /\ pc' = [pc EXCEPT ![s] = pc[s] + 1] /\ pc'[s] = pc[s] + 1
         /\ poll' = [poll EXCEPT ![s] = "head"] /\ verdict' = verdict
         /\ tx_done' \in [Side -> BOOLEAN] /\ rx_done' \in [Side -> BOOLEAN]
         /\ \A r \in Side \ {s} : pc'[r] = pc[r]
         /\ ShortQueues' /\ Control' /\ Flags' /\ Journeys' /\ Receives'
<1> USE DEF Side
<1>1. /\ Types
      /\ pc[s] \in IF s = "client" THEN {2, 3, 5, 7} ELSE {1, 3, 4, 5, 8}
      /\ Call(s) # "end"
      /\ pc[s] \in {5, 7, 8} => tx_done[s] /\ rx_done[s]
  BY Phases DEF IInv
<1>2. pc[s] + 1 \in (IF s = "client" THEN {4, 6} ELSE {7}) => tx_done[s]
  BY <1>1 DEF IInv, Flags, Types
<1>3. /\ pc' = [pc EXCEPT ![s] = pc[s] + 1] /\ pc' \in [Side -> 1..9]
      /\ pc'["client"] \in 1..8 /\ pc'[s] = pc[s] + 1
      /\ poll' = [poll EXCEPT ![s] = "head"] /\ verdict' = verdict
      /\ tx_done' \in [Side -> BOOLEAN] /\ rx_done' \in [Side -> BOOLEAN]
      /\ tx_done'[s] <=> tx_done[s] /\ ~Sending(s)'
      /\ rx_done'[s] <=> rx_done[s] /\ pc'[s] \notin IF s = "client" THEN {1} ELSE {2, 6}
      /\ \A r \in Side \ {s} : /\ pc'[r] = pc[r]
                               /\ tx_done'[r] <=> tx_done[r]
                               /\ rx_done'[r] <=> rx_done[r]
  BY <1>1, <1>2, Advances
<1>4. ShortQueues'
  BY DEF IInv, ShortQueues
<1>5. Control'
  BY <1>1, <1>3 DEF IInv, Control, Types
<1>6. Flags'
  <2>1. CASE s = "client"
    BY <1>1, <1>3, <2>1 DEF IInv, Flags, Types, Posting, Sending
  <2>2. CASE s = "server"
    BY <1>1, <1>3, <2>2 DEF IInv, Flags, Types, Posting, Sending
  <2> QED
    BY <2>1, <2>2
<1>7. \A m \in Message : (Said(m)' <=> Said(m)) /\ (Heard(m)' <=> Heard(m))
  <2>1. \A m \in Message : Said(m)' <=> Said(m)
    BY <1>1, <1>3 DEF Said, Types
  <2>2. pc["server"] <= 2 => ~rx_done["server"]
    BY <1>1 DEF IInv, Flags, Posting, Types
  <2>3. \A m \in Message : Heard(m)' <=> Heard(m)
    BY <1>1, <1>3, <2>2 DEF Heard, Types
  <2> QED
    BY <2>1, <2>3
<1>8. Journeys'
  BY <1>7, JourneysFrame DEF IInv
<1>9. Receives'
  <2>1. {"hello", "world", "ack"} = Message
    BY DEF Message
  <2> QED
    BY <1>1, <1>3, <1>7, <2>1 DEF IInv, Receives, Live, Types
<1> QED
  BY <1>3, <1>4, <1>5, <1>6, <1>8, <1>9

(* A program gives up, whatever it has just read.                          *)
LEMMA GivesUp ==
  ASSUME IInv, NEW s \in Side, NEW why, Fail(s, why), poll[s] \notin {"out", "done"},
         why \in {"ok", "timeout", "setup", "event", "call", "busy", "completion",
                  "content", "ended"},
         why = "ok" => Call(s) = "end",
         UNCHANGED <<tx_done, rx_done, gone, broken, rq, wire, txwr>>,
         tcq' \in {tcq, [tcq EXCEPT ![s] = <<>>]},
         rcq' \in {rcq, [rcq EXCEPT ![s] = <<>>]}
  PROVE  /\ poll' = [poll EXCEPT ![s] = "out"] /\ pc' = pc
         /\ verdict' \in [Side -> {"none", "ok", "timeout", "setup", "event", "call",
                                   "busy", "completion", "content", "ended"}]
         /\ (InHand' <=> InHand)
         /\ ShortQueues' /\ Control' /\ Flags' /\ Journeys' /\ Receives'
<1> USE DEF Side
<1>1. /\ poll' = [poll EXCEPT ![s] = "out"] /\ pc' = pc
      /\ verdict' = [verdict EXCEPT ![s] = why]
  BY DEF Fail, At
<1>2. \A r \in Side : /\ rcq'[r] \in {rcq[r], <<>>} /\ tcq'[r] \in {tcq[r], <<>>}
                      /\ poll'[r] = IF r = s THEN "out" ELSE poll[r]
                      /\ verdict'[r] = IF r = s THEN why ELSE verdict[r]
  BY <1>1 DEF IInv, ShortQueues, Types
<1>3. ShortQueues'
  <2>1. /\ rcq' \in [Side -> One(Message \cup {"err"})]
        /\ tcq' \in [Side -> One({"ok", "err"})]
    BY Entries DEF IInv, ShortQueues
  <2> QED
    BY <1>2, <2>1 DEF IInv, ShortQueues
<1>4. Control'
  <2>1. why = "ok" => pc[s] = IF s = "client" THEN 8 ELSE 9
    BY Phases DEF IInv
  <2> QED
    BY <1>1, <1>2, <2>1 DEF IInv, Control, Types
<1>5. Flags'
  BY <1>1, <1>2 DEF IInv, Flags, Posting, Sending
<1>6. \A m \in Message : (Said(m)' <=> Said(m)) /\ (Heard(m)' <=> Heard(m))
  BY <1>1 DEF Said, Heard
<1>7. Journeys'
  <2>1. \A r \in Side, m \in Message : rcq'[r] = <<m>> => rcq[r] = <<m>>
    BY <1>2, Single
  <2> QED
    BY <1>6, <2>1, JourneysFrame DEF IInv
<1>8. Receives'
  BY <1>1 DEF IInv, Receives, Live, Said
<1>9. InHand' <=> InHand
  BY <1>1, <1>2 DEF InHand
<1> QED
  BY <1>1, <1>3, <1>4, <1>5, <1>7, <1>8, <1>9 DEF IInv, Types

(* A program goes to another place of its phase.                           *)
LEMMA GoesTo ==
  ASSUME IInv, NEW s \in Side, NEW p \in {"head", "tx", "rx", "eq", "back"}, At(s, p),
         poll[s] \notin {"out", "done"},
         poll[s] = "head" => pc[s] \in IF s = "client" THEN {1, 4, 5, 6, 7} ELSE {2, 5, 6, 7, 8},
         UNCHANGED <<pc, verdict, tx_done, rx_done, gone, broken, nic>>
  PROVE  /\ poll' = [poll EXCEPT ![s] = p]
         /\ (InHand' <=> InHand)
         /\ ShortQueues' /\ Control' /\ Flags' /\ Journeys' /\ Receives'
<1> USE DEF Side, nic
<1>1. poll' = [poll EXCEPT ![s] = p]
  BY DEF At
<1>2. \A r \in Side : poll'[r] = IF r = s THEN p ELSE poll[r]
  BY <1>1 DEF IInv, Types
<1>3. ShortQueues'
  BY DEF IInv, ShortQueues
<1>4. Control'
  BY <1>2 DEF IInv, Control, Types
<1>5. Flags'
  BY DEF IInv, Flags, Posting, Sending
<1>6. \A m \in Message : (Said(m)' <=> Said(m)) /\ (Heard(m)' <=> Heard(m))
  BY DEF Said, Heard
<1>7. Journeys'
  BY <1>6, JourneysFrame DEF IInv
<1>8. Receives'
  BY DEF IInv, Receives, Live, Said
<1>9. InHand' <=> InHand
  BY <1>2 DEF InHand
<1> QED
  BY <1>1, <1>3, <1>4, <1>5, <1>7, <1>8, <1>9

-----------------------------------------------------------------------------
(* The EQ of the server.                                                   *)

(* How many others knock, and are not read, when an entry comes or goes.   *)
LEMMA KnockAdded ==
  ASSUME NEW q \in Seq(ServerEvent), NEW e \in ServerEvent
  PROVE  /\ IsFiniteSet(Knocks(q)) /\ Cardinality(Knocks(q)) \in Nat
         /\ Cardinality(Knocks(Append(q, e))) =
              Cardinality(Knocks(q)) + (IF e \in {"client", "stranger"} THEN 1 ELSE 0)
<1>1. IsFiniteSet(Knocks(q)) /\ Cardinality(Knocks(q)) \in Nat
  <2>1. Knocks(q) \in SUBSET (1..Len(q)) /\ IsFiniteSet(1..Len(q))
    BY FS_Interval DEF Knocks
  <2> QED
    BY <2>1, FS_Subset, FS_CardinalityType
<1>2. CASE e \in {"client", "stranger"}
  <2>1. Knocks(Append(q, e)) = Knocks(q) \cup {Len(q) + 1} /\ Len(q) + 1 \notin Knocks(q)
    BY <1>2 DEF Knocks
  <2> QED
    BY <1>1, <1>2, <2>1, FS_AddElement
<1>3. CASE e \notin {"client", "stranger"}
  <2>1. Knocks(Append(q, e)) = Knocks(q)
    BY <1>3 DEF Knocks
  <2> QED
    BY <1>1, <1>3, <2>1
<1> QED
  BY <1>1, <1>2, <1>3

(* And when an entry is read.                                              *)
LEMMA KnockRead ==
  ASSUME NEW q \in Seq(ServerEvent), q # <<>>
  PROVE  /\ Cardinality(Knocks(Tail(q))) \in Nat
         /\ Cardinality(Knocks(q)) =
              Cardinality(Knocks(Tail(q))) + (IF Head(q) \in {"client", "stranger"} THEN 1 ELSE 0)
<1> DEFINE t == Knocks(Tail(q))
           u == Knocks(q) \ {1}
           next == [i \in t |-> i + 1]
<1>1. Tail(q) \in Seq(ServerEvent) /\ Len(q) >= 1
  OBVIOUS
<1>2. IsFiniteSet(t) /\ Cardinality(t) \in Nat
  BY <1>1, KnockAdded DEF ServerEvent
<1>3. next \in Bijection(t, u)
  <2>1. next \in [t -> u]
    BY DEF Knocks
  <2>2. \A i, j \in t : next[i] = next[j] => i = j
    BY DEF Knocks
  <2>3. \A j \in u : j - 1 \in t /\ next[j - 1] = j
    BY DEF Knocks
  <2> QED
    BY <2>1, <2>2, <2>3, Fun_IsBij
<1>4. IsFiniteSet(u) /\ Cardinality(u) = Cardinality(t)
  <2>1. ExistsBijection(t, u)
    BY <1>3 DEF ExistsBijection
  <2> QED
    BY <1>2, <2>1, FS_Bijection
<1>5. CASE Head(q) \in {"client", "stranger"}
  <2>1. Knocks(q) = u \cup {1} /\ 1 \notin u
    BY <1>1, <1>5 DEF Knocks
  <2> QED
    BY <1>2, <1>4, <1>5, <2>1, FS_AddElement
<1>6. CASE Head(q) \notin {"client", "stranger"}
  <2>1. Knocks(q) = u
    BY <1>1, <1>6 DEF Knocks
  <2>2. Cardinality(Knocks(q)) = Cardinality(t)
    BY <1>4, <2>1
  <2> HIDE DEF t
  <2>3. Cardinality(t) = Cardinality(t) + 0
    BY <1>2
  <2> QED
    BY <1>2, <1>6, <2>2, <2>3 DEF t
<1> QED
  BY <1>2, <1>5, <1>6

(* What a program finds when it reads its EQ, and what is left there.      *)
LEMMA EventRead ==
  ASSUME IInv, NEW s \in Side, eqq[s] # <<>>, eqq' = [eqq EXCEPT ![s] = Tail(eqq[s])]
  PROVE  /\ Head(eqq[s]) \in ServerEvent
         /\ s = "client" => Head(eqq[s]) \in ClientEvent
         /\ s = "client" /\ Head(eqq[s]) = "connected" => "client" \in est
         /\ Head(eqq[s]) = "client" =>
              /\ s = "server" /\ link = "requested" /\ request # "client"
              /\ \A i \in DOMAIN eqq'["server"] : eqq'["server"][i] # "client"
         /\ eqq' \in [Side -> Seq(ServerEvent)] /\ eqq'["client"] \in Seq(ClientEvent)
         /\ \A i \in DOMAIN eqq'["client"] : eqq'["client"][i] = "connected" => "client" \in est
         /\ \A i \in DOMAIN eqq'["server"] : eqq'["server"][i] = "client" =>
              /\ link = "requested" /\ request # "client"
              /\ \A j \in DOMAIN eqq'["server"] : eqq'["server"][j] = "client" => i = j
         /\ Cardinality(Knocks(eqq'["server"])) \in Nat
         /\ Cardinality(Knocks(eqq["server"])) =
              Cardinality(Knocks(eqq'["server"])) +
                (IF Head(eqq[s]) \in {"client", "stranger"} THEN 1 ELSE 0)
<1> DEFINE q == eqq[s]
<1>1. /\ eqq \in [Side -> Seq(ServerEvent)] /\ eqq["client"] \in Seq(ClientEvent)
      /\ Connected
  BY DEF IInv, Types
<1>2. /\ q \in Seq(ServerEvent)
      /\ s = "client" => q \in Seq(ClientEvent)
      /\ q # <<>> /\ eqq'[s] = Tail(q) /\ \A r \in Side \ {s} : eqq'[r] = eqq[r]
  BY <1>1
<1>3. /\ 1 \in DOMAIN q /\ Head(q) = q[1] /\ Head(q) \in ServerEvent
      /\ s = "client" => Head(q) \in ClientEvent
      /\ Tail(q) \in Seq(ServerEvent)
      /\ s = "client" => Tail(q) \in Seq(ClientEvent)
      /\ \A i \in DOMAIN Tail(q) : i \in Nat /\ i + 1 \in DOMAIN q /\ Tail(q)[i] = q[i + 1]
  <2>1. 1 \in DOMAIN q /\ Head(q) = q[1]
    BY <1>2
  <2>2. Head(q) \in ServerEvent /\ Tail(q) \in Seq(ServerEvent)
    BY <1>2
  <2>3. s = "client" => Head(q) \in ClientEvent /\ Tail(q) \in Seq(ClientEvent)
    BY <1>2
  <2>4. \A i \in DOMAIN Tail(q) : i \in Nat /\ i + 1 \in DOMAIN q /\ Tail(q)[i] = q[i + 1]
    BY <1>2
  <2> QED
    BY <2>1, <2>2, <2>3, <2>4
<1> HIDE DEF q
<1>4. eqq' \in [Side -> Seq(ServerEvent)] /\ eqq'["client"] \in Seq(ClientEvent)
  <2>1. eqq' \in [Side -> Seq(ServerEvent)]
    BY <1>1, <1>3 DEF q
  <2>2. eqq'["client"] \in Seq(ClientEvent)
    BY <1>1, <1>2, <1>3 DEF Side
  <2> QED
    BY <2>1, <2>2
<1>5. CASE s = "client"
  <2>1. /\ eqq'["client"] = Tail(q) /\ eqq["client"] = q /\ eqq'["server"] = eqq["server"]
        /\ Head(q) \in ClientEvent
    BY <1>2, <1>3, <1>5 DEF q, Side
  <2>2. Head(q) = "connected" => "client" \in est
    BY <1>1, <1>3, <2>1 DEF Connected
  <2>3. \A i \in DOMAIN eqq'["client"] : eqq'["client"][i] = "connected" => "client" \in est
    BY <1>1, <1>3, <2>1 DEF Connected
  <2>4. Head(q) \notin {"client", "stranger"}
    BY <2>1 DEF ClientEvent
  <2>5. \A i \in DOMAIN eqq'["server"] : eqq'["server"][i] = "client" =>
          /\ link = "requested" /\ request # "client"
          /\ \A j \in DOMAIN eqq'["server"] : eqq'["server"][j] = "client" => i = j
    BY <1>1, <2>1 DEF Connected
  <2>6. /\ Cardinality(Knocks(eqq'["server"])) \in Nat
        /\ Cardinality(Knocks(eqq["server"])) = Cardinality(Knocks(eqq'["server"])) + 0
    <3>1. Cardinality(Knocks(eqq["server"])) \in Nat
      BY <1>1, KnockAdded DEF Side, ServerEvent
    <3> QED
      BY <2>1, <3>1
  <2> QED
    BY <1>3, <1>4, <1>5, <2>2, <2>3, <2>4, <2>5, <2>6 DEF q
<1>6. CASE s = "server"
  <2>1. /\ eqq'["server"] = Tail(q) /\ eqq["server"] = q /\ eqq'["client"] = eqq["client"]
    BY <1>2, <1>6 DEF q, Side
  <2>2. \A i \in DOMAIN eqq'["client"] : eqq'["client"][i] = "connected" => "client" \in est
    BY <1>1, <2>1 DEF Connected
  <2>3. \A i \in DOMAIN q : q[i] = "client" =>
          /\ link = "requested" /\ request # "client"
          /\ \A j \in DOMAIN q : q[j] = "client" => i = j
    BY <1>1, <2>1 DEF Connected
  <2>4. Head(q) = "client" =>
          /\ link = "requested" /\ request # "client"
          /\ \A i \in DOMAIN Tail(q) : Tail(q)[i] # "client"
    BY <1>3, <2>3
  <2>5. \A i \in DOMAIN Tail(q) : Tail(q)[i] = "client" =>
          /\ link = "requested" /\ request # "client"
          /\ \A j \in DOMAIN Tail(q) : Tail(q)[j] = "client" => i = j
    <3> SUFFICES ASSUME NEW i \in DOMAIN Tail(q), Tail(q)[i] = "client"
                 PROVE  /\ link = "requested" /\ request # "client"
                        /\ \A j \in DOMAIN Tail(q) : Tail(q)[j] = "client" => i = j
      OBVIOUS
    <3>1. i \in Nat /\ i + 1 \in DOMAIN q /\ q[i + 1] = "client"
      BY <1>3
    <3>2. \A j \in DOMAIN Tail(q) : Tail(q)[j] = "client" => i = j
      BY <1>3, <2>3, <3>1
    <3> QED
      BY <2>3, <3>1, <3>2
  <2>6. /\ Cardinality(Knocks(Tail(q))) \in Nat
        /\ Cardinality(Knocks(q)) =
             Cardinality(Knocks(Tail(q))) + (IF Head(q) \in {"client", "stranger"} THEN 1 ELSE 0)
    BY <1>2, KnockRead DEF q
  <2> QED
    BY <1>3, <1>4, <1>6, <2>1, <2>2, <2>4, <2>5, <2>6 DEF q
<1> QED
  BY <1>5, <1>6 DEF Side

(* A step of the CM alone.                                                 *)
LEMMA Still ==
  ASSUME IInv, UNCHANGED <<pc, poll, verdict, tx_done, rx_done, gone, broken, nic>>
  PROVE  /\ (InHand' <=> InHand)
         /\ ShortQueues' /\ Control' /\ Flags' /\ Journeys' /\ Receives'
<1> USE DEF nic
<1>1. ShortQueues' /\ Control' /\ (InHand' <=> InHand)
  BY DEF IInv, ShortQueues, Control, InHand
<1>2. Flags'
  BY DEF IInv, Flags, Posting, Sending
<1>3. \A m \in Message : (Said(m)' <=> Said(m)) /\ (Heard(m)' <=> Heard(m))
  BY DEF Said, Heard
<1>4. Journeys'
  BY <1>3, JourneysFrame DEF IInv
<1>5. Receives'
  BY DEF IInv, Receives, Live, Said
<1> QED
  BY <1>1, <1>2, <1>4, <1>5

-----------------------------------------------------------------------------
(* The phases that set the connection up.                                  *)

(* A request is found in the EQ: the one that is waited for, or one that   *)
(* turns up later and is rejected.                                         *)
LEMMA RequestTaken ==
  ASSUME IInv, NEW s \in Side, WaitEvent(s), Head(eqq[s]) \in {"client", "stranger"}
  PROVE  IInv'
<1> DEFINE ev == Head(eqq[s])
<1>1. /\ Call(s) \in {"request", "connected"} /\ poll[s] = "head" /\ eqq[s] # <<>>
      /\ eqq' = [eqq EXCEPT ![s] = Tail(eqq[s])]
      /\ UNCHANGED <<rx, strangers, est, told, gone, broken, nic>>
      /\ taken' = taken + 1
  BY DEF WaitEvent
<1>2. /\ ev \in {"client", "stranger"} /\ s = "server"
      /\ ev = "client" =>
           /\ link = "requested" /\ request # "client"
           /\ \A i \in DOMAIN eqq'["server"] : eqq'["server"][i] # "client"
      /\ eqq' \in [Side -> Seq(ServerEvent)] /\ eqq'["client"] \in Seq(ClientEvent)
      /\ \A i \in DOMAIN eqq'["client"] : eqq'["client"][i] = "connected" => "client" \in est
      /\ \A i \in DOMAIN eqq'["server"] : eqq'["server"][i] = "client" =>
           /\ link = "requested" /\ request # "client"
           /\ \A j \in DOMAIN eqq'["server"] : eqq'["server"][j] = "client" => i = j
      /\ Cardinality(Knocks(eqq'["server"])) \in Nat
      /\ Cardinality(Knocks(eqq["server"])) =
           Cardinality(Knocks(eqq'["server"])) + 1
  BY <1>1, EventRead DEF Side, ClientEvent
<1> HIDE DEF ev
<1>3. CASE Call(s) = "request"
  <2>1. /\ request' = ev /\ Advance(s) /\ UNCHANGED <<link, answered>>
    BY <1>2, <1>3 DEF WaitEvent, ev
  <2>2. pc["server"] = 1 /\ request = None
    BY <1>2, <1>3, Phases DEF IInv, Connected
  <2>3. /\ pc' \in [Side -> 1..9] /\ pc'["client"] \in 1..8
        /\ pc' = [pc EXCEPT ![s] = pc[s] + 1] /\ pc'[s] = pc[s] + 1
        /\ poll' = [poll EXCEPT ![s] = "head"] /\ verdict' = verdict
        /\ tx_done' \in [Side -> BOOLEAN] /\ rx_done' \in [Side -> BOOLEAN]
        /\ \A r \in Side \ {s} : pc'[r] = pc[r]
        /\ ShortQueues' /\ Control' /\ Flags' /\ Journeys' /\ Receives'
    BY <1>1, <1>3, <2>1, PhaseEnds DEF nic
  <2>4. Types'
    BY <1>1, <1>2, <2>1, <2>3 DEF IInv, Types
  <2>5. pc'["server"] = 2 /\ pc'["client"] = pc["client"] /\ poll'["server"] = "head"
    BY <1>2, <2>2, <2>3 DEF Side, IInv, Types
  <2>6. Connected'
    BY <1>1, <1>2, <2>1, <2>2, <2>5 DEF IInv, Connected, None
  <2>7. Answers'
    <3>1. InHand'
      BY <2>5 DEF InHand
    <3>2. taken = answered
      BY <2>2 DEF IInv, Answers, None
    <3>3. ev = "client" => link' # "none"
      BY <1>2, <2>1
    <3>4. taken' = answered' + 1 /\ request' # None
      BY <1>1, <1>2, <2>1, <3>2 DEF IInv, Answers, None
    <3> QED
      BY <1>1, <1>2, <2>1, <2>2, <3>1, <3>3, <3>4 DEF IInv, Answers, Unsent
  <2> QED
    BY <2>3, <2>4, <2>6, <2>7 DEF IInv
<1>4. CASE Call(s) = "connected"
  <2>1. Turn(ev) /\ UNCHANGED <<request, pc, poll, tx_done, rx_done, verdict>>
    BY <1>2, <1>4 DEF WaitEvent, ev
  <2>2. pc["server"] = 4
    BY <1>2, <1>4, Phases DEF IInv
  <2>3. ShortQueues' /\ Control' /\ Flags' /\ Journeys' /\ Receives' /\ (InHand' <=> InHand)
    BY <1>1, <2>1, Still
  <2>4. Types'
    BY <1>1, <1>2, <2>1 DEF IInv, Types, Turn
  <2>5. Connected'
    BY <1>1, <1>2, <2>1 DEF IInv, Connected, Turn
  <2>6. Answers'
    <3>1. ~InHand
      BY <2>2 DEF InHand
    <3>2. Unsent' = Unsent
      BY <1>2, <2>1 DEF Turn, Unsent
    <3>3. taken' = taken + 1 /\ answered' = answered + 1
      BY <1>1, <1>2, <2>1 DEF Turn
    <3>4. request = "client" => link' = link
      BY <1>2, <2>1 DEF Turn
    <3>5. taken' + strangers + Unsent + Cardinality(Knocks(eqq'["server"])) <= Strangers + 1
      <4>1. /\ taken \in Nat /\ strangers \in Nat /\ Unsent \in Nat
            /\ taken + strangers + Unsent + Cardinality(Knocks(eqq["server"])) <= Strangers + 1
        BY StrangersNumber DEF IInv, Answers, Unsent
      <4> QED
        BY <1>2, <3>3, <4>1, StrangersNumber
    <3>6. taken' \in Nat /\ answered' \in Nat /\ taken' = answered'
      BY <3>1, <3>3 DEF IInv, Answers
    <3> QED
      BY <1>1, <2>1, <2>3, <3>1, <3>2, <3>4, <3>5, <3>6 DEF IInv, Answers
  <2> QED
    BY <2>3, <2>4, <2>5, <2>6 DEF IInv
<1> QED
  BY <1>1, <1>3, <1>4

(* Any other event is the one the phase waits for, or the end.             *)
LEMMA WaitEventKept ==
  ASSUME IInv, NEW s \in Side, WaitEvent(s)
  PROVE  IInv'
<1> DEFINE ev == Head(eqq[s])
<1>1. /\ Call(s) \in {"request", "connected"} /\ poll[s] = "head" /\ eqq[s] # <<>>
      /\ eqq' = [eqq EXCEPT ![s] = Tail(eqq[s])]
      /\ UNCHANGED <<rx, strangers, est, told, gone, broken, nic>>
  BY DEF WaitEvent
<1>2. CASE ev \in {"client", "stranger"}
  BY <1>2, RequestTaken
<1>3. CASE ev \notin {"client", "stranger"}
  <2>1. /\ ev = Call(s) => Advance(s)
        /\ ev # Call(s) => Fail(s, "event") /\ UNCHANGED <<tx_done, rx_done>>
        /\ UNCHANGED <<request, taken, answered, link>>
    BY <1>3 DEF WaitEvent
  <2>2. /\ ev \in ServerEvent
        /\ s = "client" /\ ev = "connected" => "client" \in est
        /\ eqq' \in [Side -> Seq(ServerEvent)] /\ eqq'["client"] \in Seq(ClientEvent)
        /\ \A i \in DOMAIN eqq'["client"] : eqq'["client"][i] = "connected" => "client" \in est
        /\ \A i \in DOMAIN eqq'["server"] : eqq'["server"][i] = "client" =>
             /\ link = "requested" /\ request # "client"
             /\ \A j \in DOMAIN eqq'["server"] : eqq'["server"][j] = "client" => i = j
        /\ Cardinality(Knocks(eqq'["server"])) \in Nat
        /\ Cardinality(Knocks(eqq["server"])) = Cardinality(Knocks(eqq'["server"])) + 0
    BY <1>1, <1>3, EventRead
  <2> HIDE DEF ev
  <2>3. CASE ev = Call(s)
    <3>1. Call(s) = "connected"
      BY <1>1, <2>2, <2>3 DEF ServerEvent, ClientEvent
    <3>2. pc[s] = IF s = "client" THEN 3 ELSE 4
      BY <3>1, Phases DEF IInv
    <3>3. /\ pc' \in [Side -> 1..9] /\ pc'["client"] \in 1..8
          /\ pc' = [pc EXCEPT ![s] = pc[s] + 1] /\ pc'[s] = pc[s] + 1
          /\ poll' = [poll EXCEPT ![s] = "head"] /\ verdict' = verdict
          /\ tx_done' \in [Side -> BOOLEAN] /\ rx_done' \in [Side -> BOOLEAN]
          /\ \A r \in Side \ {s} : pc'[r] = pc[r]
          /\ ShortQueues' /\ Control' /\ Flags' /\ Journeys' /\ Receives'
      BY <1>1, <2>1, <2>3, <3>1, PhaseEnds DEF nic
    <3>4. Types'
      BY <1>1, <2>1, <2>2, <3>3 DEF IInv, Types
    <3>5. s = "client" => "client" \in est
      BY <2>2, <2>3, <3>1
    <3>6. /\ s = "client" => pc'["client"] = 4 /\ pc["client"] = 3 /\ pc'["server"] = pc["server"]
          /\ s = "server" => pc'["server"] = 5 /\ pc["server"] = 4 /\ pc'["client"] = pc["client"]
      BY <3>2, <3>3 DEF Side
    <3>7. Connected'
      <4>1. CASE s = "client"
        BY <1>1, <2>1, <2>2, <3>5, <3>6, <4>1 DEF IInv, Connected
      <4>2. CASE s = "server"
        BY <1>1, <2>1, <2>2, <3>6, <4>2 DEF IInv, Connected
      <4> QED
        BY <4>1, <4>2 DEF Side
    <3>8. InHand' <=> InHand
      BY <1>1, <3>3, <3>6 DEF InHand, IInv, Types, Side
    <3>9. Answers'
      BY <1>1, <2>1, <2>2, <3>8 DEF IInv, Answers, Unsent
    <3> QED
      BY <3>3, <3>4, <3>7, <3>9 DEF IInv
  <2>4. CASE ev # Call(s)
    <3>1. /\ poll' = [poll EXCEPT ![s] = "out"] /\ pc' = pc
          /\ verdict' \in [Side -> {"none", "ok", "timeout", "setup", "event", "call",
                                    "busy", "completion", "content", "ended"}]
          /\ (InHand' <=> InHand)
          /\ ShortQueues' /\ Control' /\ Flags' /\ Journeys' /\ Receives'
      BY <1>1, <2>1, <2>4, GivesUp DEF nic
    <3>2. Types'
      BY <1>1, <2>1, <2>2, <2>4, <3>1 DEF IInv, Types
    <3>3. Connected'
      BY <1>1, <2>1, <2>2, <3>1 DEF IInv, Connected
    <3>4. Answers'
      BY <1>1, <2>1, <2>2, <3>1 DEF IInv, Answers, Unsent
    <3> QED
      BY <3>1, <3>2, <3>3, <3>4 DEF IInv
  <2> QED
    BY <2>3, <2>4
<1> QED
  BY <1>2, <1>3

(* What it means that an entry is added to an EQ.                          *)
Added(s, e) ==
  /\ eqq' \in [Side -> Seq(ServerEvent)] /\ eqq'["client"] \in Seq(ClientEvent)
  /\ \A r \in Side \ {s} : eqq'[r] = eqq[r]
  /\ \A r \in Side : \A i \in DOMAIN eqq'[r] :
       \/ i \in DOMAIN eqq[r] /\ eqq'[r][i] = eqq[r][i]
       \/ r = s /\ i = Len(eqq[s]) + 1 /\ eqq'[r][i] = e
  /\ Cardinality(Knocks(eqq["server"])) \in Nat
  /\ Cardinality(Knocks(eqq'["server"])) =
       Cardinality(Knocks(eqq["server"])) + (IF e \in {"client", "stranger"} THEN 1 ELSE 0)

(* An entry comes into an EQ.                                              *)
LEMMA EventAdded ==
  ASSUME Types, NEW s \in Side, NEW e \in ServerEvent, s = "client" => e \in ClientEvent,
         eqq' = [eqq EXCEPT ![s] = Append(eqq[s], e)]
  PROVE  Added(s, e)
<1>1. /\ eqq[s] \in Seq(ServerEvent) /\ eqq["server"] \in Seq(ServerEvent)
      /\ eqq["client"] \in Seq(ClientEvent) /\ eqq \in [Side -> Seq(ServerEvent)]
  BY DEF Types, Side
<1>2. eqq'[s] = Append(eqq[s], e) /\ \A r \in Side \ {s} : eqq'[r] = eqq[r]
  BY <1>1
<1>3. eqq' \in [Side -> Seq(ServerEvent)]
  <2>1. Append(eqq[s], e) \in Seq(ServerEvent)
    BY <1>1
  <2> QED
    BY <1>1, <2>1
<1>4. eqq'["client"] \in Seq(ClientEvent)
  BY <1>1, <1>2 DEF Side
<1>5. \A r \in Side : \A i \in DOMAIN eqq'[r] :
        \/ i \in DOMAIN eqq[r] /\ eqq'[r][i] = eqq[r][i]
        \/ r = s /\ i = Len(eqq[s]) + 1 /\ eqq'[r][i] = e
  <2>1. \A i \in DOMAIN Append(eqq[s], e) :
          \/ i \in DOMAIN eqq[s] /\ Append(eqq[s], e)[i] = eqq[s][i]
          \/ i = Len(eqq[s]) + 1 /\ Append(eqq[s], e)[i] = e
    BY <1>1
  <2> QED
    BY <1>2, <2>1
<1>6. /\ Cardinality(Knocks(eqq["server"])) \in Nat
      /\ Cardinality(Knocks(eqq'["server"])) =
           Cardinality(Knocks(eqq["server"])) + (IF e \in {"client", "stranger"} THEN 1 ELSE 0)
  <2>1. Cardinality(Knocks(eqq["server"])) \in Nat
    BY <1>1, KnockAdded DEF ServerEvent
  <2>2. CASE s = "server"
    BY <1>1, <1>2, <2>2, KnockAdded
  <2>3. CASE s = "client"
    <3>1. eqq'["server"] = eqq["server"] /\ e \notin {"client", "stranger"}
      BY <1>2, <2>3 DEF Side, ClientEvent
    <3> QED
      BY <2>1, <3>1
  <2> QED
    BY <2>1, <2>2, <2>3 DEF Side
<1> QED
  BY <1>2, <1>3, <1>4, <1>5, <1>6 DEF Added

(* The client's connect.                                                   *)
LEMMA ConnectKept ==
  ASSUME IInv, NEW s \in Side, Connect(s)
  PROVE  IInv'
<1>1. /\ Call(s) = "connect" /\ poll[s] = "head" /\ link' = "requested" /\ Advance(s)
      /\ UNCHANGED <<rx, requests, est, told, gone, broken, nic>>
  BY DEF Connect
<1>2. s = "client" /\ pc["client"] = 2
  BY <1>1, Phases DEF IInv
<1>3. /\ pc' \in [Side -> 1..9] /\ pc'["client"] \in 1..8
      /\ pc' = [pc EXCEPT ![s] = pc[s] + 1] /\ pc'[s] = pc[s] + 1
      /\ poll' = [poll EXCEPT ![s] = "head"] /\ verdict' = verdict
      /\ tx_done' \in [Side -> BOOLEAN] /\ rx_done' \in [Side -> BOOLEAN]
      /\ \A r \in Side \ {s} : pc'[r] = pc[r]
      /\ ShortQueues' /\ Control' /\ Flags' /\ Journeys' /\ Receives'
  BY <1>1, PhaseEnds DEF nic
<1>4. pc'["client"] = 3 /\ pc'["server"] = pc["server"] /\ poll'["server"] = poll["server"]
  BY <1>2, <1>3 DEF Side, IInv, Types
<1>5. /\ link = "none" /\ request # "client" /\ est = {}
      /\ \A i \in DOMAIN eqq["server"] : eqq["server"][i] # "client"
  BY <1>2 DEF IInv, Connected, Answers
<1>6. /\ eqq' \in [Side -> Seq(ServerEvent)] /\ eqq'["client"] \in Seq(ClientEvent)
      /\ eqq'["client"] = eqq["client"]
      /\ \A i \in DOMAIN eqq'["server"] :
           eqq'["server"][i] = "client" => i = Len(eqq["server"]) + 1
      /\ Cardinality(Knocks(eqq["server"])) \in Nat
      /\ Cardinality(Knocks(eqq'["server"])) \in
           Cardinality(Knocks(eqq["server"])) .. Cardinality(Knocks(eqq["server"])) + 1
  <2>1. CASE "server" \in gone
    <3>1. eqq' = eqq
      BY <2>1 DEF Connect, IInv, Types
    <3>2. Cardinality(Knocks(eqq["server"])) \in Nat
      BY KnockAdded DEF IInv, Types, Side, ServerEvent
    <3> QED
      BY <1>5, <3>1, <3>2 DEF IInv, Types
  <2>2. CASE "server" \notin gone
    <3>1. eqq' = [eqq EXCEPT !["server"] = Append(eqq["server"], "client")]
      BY <2>2 DEF Connect
    <3>2. "server" \in Side /\ "client" \in Side /\ "client" \in ServerEvent
      BY DEF Side, ServerEvent
    <3>3. /\ eqq' \in [Side -> Seq(ServerEvent)] /\ eqq'["client"] \in Seq(ClientEvent)
          /\ \A r \in Side \ {"server"} : eqq'[r] = eqq[r]
          /\ \A r \in Side : \A i \in DOMAIN eqq'[r] :
               \/ i \in DOMAIN eqq[r] /\ eqq'[r][i] = eqq[r][i]
               \/ r = "server" /\ i = Len(eqq["server"]) + 1 /\ eqq'[r][i] = "client"
          /\ Cardinality(Knocks(eqq["server"])) \in Nat
          /\ Cardinality(Knocks(eqq'["server"])) = Cardinality(Knocks(eqq["server"])) + 1
      <4>1. Added("server", "client")
        BY <3>1, <3>2, EventAdded DEF IInv
      <4> QED
        BY <4>1 DEF Added
    <3> QED
      BY <1>5, <3>2, <3>3
  <2> QED
    BY <2>1, <2>2
<1>7. Types'
  BY <1>1, <1>3, <1>6 DEF IInv, Types
<1>8. Connected'
  BY <1>1, <1>2, <1>4, <1>5, <1>6 DEF IInv, Connected, requests
<1>9. Answers'
  <2>1. InHand' <=> InHand
    BY <1>4 DEF InHand
  <2>2. Unsent = 1 /\ Unsent' = 0
    BY <1>1, <1>5 DEF Unsent
  <2>3. taken + strangers + Unsent' + Cardinality(Knocks(eqq'["server"])) <= Strangers + 1
    <3>1. /\ taken \in Nat /\ strangers \in Nat
          /\ taken + strangers + 1 + Cardinality(Knocks(eqq["server"])) <= Strangers + 1
      BY <2>2, StrangersNumber DEF IInv, Answers
    <3>2. Cardinality(Knocks(eqq'["server"])) <= Cardinality(Knocks(eqq["server"])) + 1
          /\ Cardinality(Knocks(eqq'["server"])) \in Nat
      BY <1>6
    <3> QED
      BY <1>6, <2>2, <3>1, <3>2, StrangersNumber
  <2> QED
    BY <1>1, <1>5, <2>1, <2>3 DEF IInv, Answers, requests
<1> QED
  BY <1>3, <1>7, <1>8, <1>9 DEF IInv

(* The server accepts whoever came first.                                  *)
LEMMA AcceptKept ==
  ASSUME IInv, NEW s \in Side, Accept(s)
  PROVE  IInv'
<1>1. /\ Call(s) = "accept" /\ poll[s] = "head" /\ Advance(s)
      /\ link' = IF request = "client" THEN "accepted" ELSE link
      /\ answered' = answered + 1
      /\ UNCHANGED <<rx, request, strangers, taken, est, told, eqq, gone, broken, nic>>
  BY DEF Accept
<1>2. s = "server" /\ pc["server"] = 3
  BY <1>1, Phases DEF IInv
<1>3. /\ pc' \in [Side -> 1..9] /\ pc'["client"] \in 1..8
      /\ pc' = [pc EXCEPT ![s] = pc[s] + 1] /\ pc'[s] = pc[s] + 1
      /\ poll' = [poll EXCEPT ![s] = "head"] /\ verdict' = verdict
      /\ tx_done' \in [Side -> BOOLEAN] /\ rx_done' \in [Side -> BOOLEAN]
      /\ \A r \in Side \ {s} : pc'[r] = pc[r]
      /\ ShortQueues' /\ Control' /\ Flags' /\ Journeys' /\ Receives'
  BY <1>1, PhaseEnds DEF nic
<1>4. pc'["server"] = 4 /\ pc'["client"] = pc["client"]
  BY <1>2, <1>3 DEF Side
<1>5. InHand /\ ~InHand' /\ request # None
  BY <1>1, <1>2, <1>4 DEF InHand, IInv, Connected
<1>6. Types'
  BY <1>1, <1>3 DEF IInv, Types
<1>7. Connected'
  BY <1>1, <1>2, <1>4 DEF IInv, Connected, Answers, None
<1>8. Answers'
  <2>1. Unsent' = Unsent
    BY <1>1 DEF IInv, Answers, Unsent
  <2> QED
    BY <1>1, <1>5, <2>1 DEF IInv, Answers
<1> QED
  BY <1>3, <1>6, <1>7, <1>8 DEF IInv

-----------------------------------------------------------------------------
(* The ways a phase ends the program, and its loops.                       *)

(* A call fails, a deadline passes, or the script is at its end.           *)
LEMMA EndsKept ==
  ASSUME IInv, NEW s \in Side,
         SetupFails(s) \/ CallFails(s) \/ Timeout(s) \/ Passed(s)
  PROVE  IInv'
<1>1. PICK why \in {"setup", "call", "timeout", "ok"} :
        Fail(s, why) /\ (why = "ok" => Call(s) = "end")
  BY DEF SetupFails, CallFails, Timeout, Passed, Fail
<1>2. poll[s] \notin {"out", "done"} /\ UNCHANGED <<session, requests, network>>
  BY DEF SetupFails, CallFails, Timeout, Passed
<1> USE DEF session, requests, network, cm, nic
<1>3. /\ poll' = [poll EXCEPT ![s] = "out"] /\ pc' = pc
      /\ verdict' \in [Side -> {"none", "ok", "timeout", "setup", "event", "call",
                                "busy", "completion", "content", "ended"}]
      /\ (InHand' <=> InHand)
      /\ ShortQueues' /\ Control' /\ Flags' /\ Journeys' /\ Receives'
  BY <1>1, <1>2, GivesUp
<1>4. Types'
  BY <1>2, <1>3 DEF IInv, Types
<1>5. Connected'
  BY <1>2, <1>3, ConnectedFrame DEF IInv
<1>6. Answers'
  BY <1>2, <1>3, AnswersFrame DEF IInv
<1> QED
  BY <1>3, <1>4, <1>5, <1>6 DEF IInv

(* A round of progress() begins.                                           *)
LEMMA RoundKept ==
  ASSUME IInv, NEW s \in Side, Round(s)
  PROVE  IInv'
<1>1. /\ poll[s] = "head" /\ At(s, "tx") /\ Call(s) \in {"post", "send", "wait"}
      /\ UNCHANGED <<pc, session, requests, verdict, network>>
  BY DEF Round
<1> USE DEF session, requests, network, cm
<1>2. pc[s] \in IF s = "client" THEN {1, 4, 5, 6, 7} ELSE {2, 5, 6, 7, 8}
  BY <1>1, Phases DEF IInv, Sending, Side
<1>3. /\ poll' = [poll EXCEPT ![s] = "tx"] /\ (InHand' <=> InHand)
      /\ ShortQueues' /\ Control' /\ Flags' /\ Journeys' /\ Receives'
  BY <1>1, <1>2, GoesTo
<1>4. Types'
  BY <1>1, <1>3 DEF IInv, Types, nic
<1>5. Connected'
  BY <1>1, ConnectedFrame DEF IInv
<1>6. Answers'
  BY <1>1, <1>3, AnswersFrame DEF IInv
<1> QED
  BY <1>3, <1>4, <1>5, <1>6 DEF IInv

-----------------------------------------------------------------------------
(* progress() and the loop around it.                                      *)

(* The TX CQ is read: tx_done is raised only after the entry is taken.     *)
LEMMA PollTxKept ==
  ASSUME IInv, NEW s \in Side, PollTx(s)
  PROVE  IInv'
<1> USE DEF session, requests, network, cm
<1>1. poll[s] = "tx" /\ UNCHANGED <<rx_done, rx, requests>>
  BY DEF PollTx
<1>2. CASE tcq[s] = <<>>
  <2>1. At(s, "rx") /\ UNCHANGED <<pc, tx_done, verdict, network>>
    BY <1>2 DEF PollTx
  <2>2. /\ poll' = [poll EXCEPT ![s] = "rx"] /\ (InHand' <=> InHand)
        /\ ShortQueues' /\ Control' /\ Flags' /\ Journeys' /\ Receives'
    BY <1>1, <2>1, GoesTo
  <2>3. Types'
    BY <1>1, <2>1, <2>2 DEF IInv, Types
  <2>4. Connected' /\ Answers'
    BY <1>1, <2>1, <2>2, ConnectedFrame, AnswersFrame DEF IInv
  <2> QED
    BY <2>2, <2>3, <2>4 DEF IInv
<1>3. CASE tcq[s] # <<>>
  <2>1. ReadTx(s)
    BY <1>3 DEF PollTx
  <2>2. /\ ShortQueues'
        /\ Head(tcq[s]) \in {"ok", "err"} /\ tcq[s] = <<Head(tcq[s])>>
        /\ tcq' = [tcq EXCEPT ![s] = <<>>] /\ txwr[s] = "none"
        /\ UNCHANGED <<cm, gone, broken, rq, wire, txwr, rcq>>
    BY <1>3, <2>1, ReadTxOne DEF IInv
  <2>3. CASE Head(tcq[s]) = "err"
    <3>1. Fail(s, "completion") /\ UNCHANGED tx_done
      BY <1>3, <2>3 DEF PollTx
    <3>2. /\ poll' = [poll EXCEPT ![s] = "out"] /\ pc' = pc
          /\ verdict' \in [Side -> {"none", "ok", "timeout", "setup", "event", "call",
                                    "busy", "completion", "content", "ended"}]
          /\ (InHand' <=> InHand)
          /\ ShortQueues' /\ Control' /\ Flags' /\ Journeys' /\ Receives'
      BY <1>1, <2>2, <3>1, GivesUp
    <3>3. Types'
      BY <1>1, <2>2, <3>1, <3>2 DEF IInv, Types
    <3>4. Connected' /\ Answers'
      BY <1>1, <2>2, <3>2, ConnectedFrame, AnswersFrame DEF IInv
    <3> QED
      BY <3>2, <3>3, <3>4 DEF IInv
  <2>4. CASE Head(tcq[s]) # "err"
    <3>1. /\ tx_done' = [tx_done EXCEPT ![s] = TRUE] /\ At(s, "rx")
          /\ UNCHANGED <<pc, verdict>>
      BY <1>3, <2>4 DEF PollTx
    <3>2. poll' = [poll EXCEPT ![s] = "rx"]
      BY <3>1 DEF At
    <3>3. Types'
      BY <1>1, <2>2, <3>1, <3>2 DEF IInv, Types
    <3>4. Control' /\ (InHand' <=> InHand)
      BY <1>1, <2>2, <3>1, <3>2 DEF IInv, Control, Types, InHand
    <3>5. Flags'
      <4>1. \A r \in Side : /\ tcq'[r] = IF r = s THEN <<>> ELSE tcq[r]
                            /\ tx_done'[r] <=> r = s \/ tx_done[r]
        BY <2>2, <3>1 DEF IInv, ShortQueues, Types
      <4>2. ~Sending(s)
        BY <1>3 DEF IInv, Flags
      <4> QED
        BY <1>1, <2>2, <3>1, <4>1, <4>2 DEF IInv, Flags, Posting, Sending, Side
    <3>6. \A m \in Message : (Said(m)' <=> Said(m)) /\ (Heard(m)' <=> Heard(m))
      BY <1>1, <3>1 DEF Said, Heard
    <3>7. Journeys'
      BY <2>2, <3>6, JourneysFrame DEF IInv
    <3>8. Receives'
      BY <2>2, <3>1 DEF IInv, Receives, Live, Said
    <3>9. Connected' /\ Answers'
      BY <1>1, <2>2, <3>1, <3>4, ConnectedFrame, AnswersFrame DEF IInv
    <3> QED
      BY <2>2, <3>3, <3>4, <3>5, <3>7, <3>8, <3>9 DEF IInv
  <2> QED
    BY <2>3, <2>4
<1> QED
  BY <1>2, <1>3

(* A message is heard after it is said, and each answers the one before.   *)
LEMMA Talk ==
  ASSUME IInv
  PROVE  /\ Heard("hello") => Said("hello")
         /\ Said("world") => Heard("hello")
         /\ Heard("world") => Said("world")
         /\ Said("ack") => Heard("world")
         /\ Heard("ack") => Said("ack")
<1>1. \A m \in Message : Heard(m) => Said(m)
  BY DEF IInv, Journeys
<1>2. Said("world") => Heard("hello")
  BY DEF Said, Heard, IInv, Types, Side
<1>3. Said("ack") => Heard("world")
  BY DEF Said, Heard, IInv, Types, Flags, Side
<1> QED
  BY <1>1, <1>2, <1>3 DEF Message

(* The EQ is read: a request that turns up is answered at once.            *)
LEMMA PollEqKept ==
  ASSUME IInv, NEW s \in Side, PollEq(s)
  PROVE  IInv'
<1> DEFINE ev == Head(eqq[s])
<1>1. poll[s] = "eq" /\ UNCHANGED <<session, request, strangers, est, told, gone, broken, nic>>
  BY DEF PollEq
<1> USE DEF session
<1>2. CASE eqq[s] = <<>>
  <2>1. At(s, "back") /\ UNCHANGED <<pc, verdict, taken, answered, link, eqq>>
    BY <1>2 DEF PollEq
  <2>2. /\ poll' = [poll EXCEPT ![s] = "back"] /\ (InHand' <=> InHand)
        /\ ShortQueues' /\ Control' /\ Flags' /\ Journeys' /\ Receives'
    BY <1>1, <2>1, GoesTo
  <2>3. Types'
    BY <1>1, <2>1, <2>2 DEF IInv, Types
  <2>4. Connected' /\ Answers'
    BY <1>1, <2>1, <2>2, ConnectedFrame, AnswersFrame DEF IInv, requests
  <2> QED
    BY <2>2, <2>3, <2>4 DEF IInv
<1>3. CASE eqq[s] # <<>>
  <2>1. eqq' = [eqq EXCEPT ![s] = Tail(eqq[s])]
    BY <1>3 DEF PollEq
  <2>2. /\ ev \in ServerEvent
        /\ ev = "client" =>
             /\ link = "requested" /\ request # "client"
             /\ \A i \in DOMAIN eqq'["server"] : eqq'["server"][i] # "client"
        /\ eqq' \in [Side -> Seq(ServerEvent)] /\ eqq'["client"] \in Seq(ClientEvent)
        /\ \A i \in DOMAIN eqq'["client"] : eqq'["client"][i] = "connected" => "client" \in est
        /\ \A i \in DOMAIN eqq'["server"] : eqq'["server"][i] = "client" =>
             /\ link = "requested" /\ request # "client"
             /\ \A j \in DOMAIN eqq'["server"] : eqq'["server"][j] = "client" => i = j
        /\ Cardinality(Knocks(eqq'["server"])) \in Nat
        /\ Cardinality(Knocks(eqq["server"])) =
             Cardinality(Knocks(eqq'["server"])) + (IF ev \in {"client", "stranger"} THEN 1 ELSE 0)
    BY <1>3, <2>1, EventRead
  <2> HIDE DEF ev
  <2>3. CASE ev \in {"refused", "shutdown"}
    <3>1. Fail(s, "ended") /\ UNCHANGED <<taken, answered, link>>
      BY <1>3, <2>3 DEF PollEq, ev
    <3>2. /\ poll' = [poll EXCEPT ![s] = "out"] /\ pc' = pc
          /\ verdict' \in [Side -> {"none", "ok", "timeout", "setup", "event", "call",
                                    "busy", "completion", "content", "ended"}]
          /\ (InHand' <=> InHand)
          /\ ShortQueues' /\ Control' /\ Flags' /\ Journeys' /\ Receives'
      BY <1>1, <3>1, GivesUp DEF nic
    <3>3. Types'
      BY <1>1, <2>2, <3>1, <3>2 DEF IInv, Types
    <3>4. Connected'
      BY <1>1, <2>2, <3>1, <3>2 DEF IInv, Connected
    <3>5. Answers'
      BY <1>1, <2>2, <2>3, <3>1, <3>2 DEF IInv, Answers, Unsent
    <3> QED
      BY <3>2, <3>3, <3>4, <3>5 DEF IInv
  <2>4. CASE ev \notin {"refused", "shutdown"}
    <3>1. /\ At(s, "back") /\ Turn(ev) /\ UNCHANGED <<pc, verdict>>
          /\ taken' = IF ev \in {"client", "stranger"} THEN taken + 1 ELSE taken
      BY <1>3, <2>4 DEF PollEq, ev
    <3>2. /\ poll' = [poll EXCEPT ![s] = "back"] /\ (InHand' <=> InHand)
          /\ ShortQueues' /\ Control' /\ Flags' /\ Journeys' /\ Receives'
      BY <1>1, <3>1, GoesTo
    <3>3. Types'
      BY <1>1, <2>2, <3>1, <3>2 DEF IInv, Types, Turn
    <3>4. Connected'
      BY <1>1, <2>2, <3>1 DEF IInv, Connected, Turn
    <3>5. Answers'
      <4>1. /\ request' = request /\ strangers' = strangers /\ (InHand' <=> InHand)
            /\ answered' = IF ev \in {"client", "stranger"} THEN answered + 1 ELSE answered
            /\ request = "client" => link' = link
            /\ Unsent' = Unsent
        BY <1>1, <2>2, <3>1, <3>2 DEF Turn, Unsent
      <4>2. CASE ev \in {"client", "stranger"}
        <5>1. /\ taken \in Nat /\ answered \in Nat /\ strangers \in Nat /\ Unsent \in Nat
              /\ taken' = taken + 1 /\ answered' = answered + 1
              /\ taken = IF request # None /\ InHand THEN answered + 1 ELSE answered
          BY <3>1, <4>1, <4>2 DEF IInv, Answers, Unsent
        <5>2. taken' = IF request # None /\ InHand THEN answered' + 1 ELSE answered'
          BY <5>1
        <5>3. taken' + strangers' + Unsent' + Cardinality(Knocks(eqq'["server"])) <= Strangers + 1
          <6>1. taken + strangers + Unsent + Cardinality(Knocks(eqq["server"])) <= Strangers + 1
            BY DEF IInv, Answers
          <6>2. /\ Cardinality(Knocks(eqq'["server"])) \in Nat
                /\ Cardinality(Knocks(eqq["server"])) = Cardinality(Knocks(eqq'["server"])) + 1
            BY <2>2, <4>2
          <6> QED
            BY <4>1, <5>1, <6>1, <6>2, StrangersNumber
        <5> QED
          BY <4>1, <5>1, <5>2, <5>3 DEF IInv, Answers
      <4>3. CASE ev \notin {"client", "stranger"}
        BY <2>2, <3>1, <4>1, <4>3 DEF IInv, Answers
      <4> QED
        BY <4>2, <4>3
    <3> QED
      BY <3>2, <3>3, <3>4, <3>5 DEF IInv
  <2> QED
    BY <2>3, <2>4
<1> QED
  BY <1>2, <1>3

(* wait_data ends with both flags up, gives up on the text, or goes round  *)
(* again.                                                                  *)
LEMMA BackKept ==
  ASSUME IInv, NEW s \in Side, Back(s)
  PROVE  IInv'
<1>1. poll[s] = "back" /\ UNCHANGED <<rx, requests, network>>
  BY DEF Back
<1> USE DEF session, requests, network, cm
<1>2. CASE Call(s) = "wait" /\ tx_done[s] /\ rx_done[s]
  <2>1. CASE Text(s) \notin {None, rx[s]}
    <3>1. Fail(s, "content") /\ UNCHANGED <<tx_done, rx_done>>
      BY <1>2, <2>1 DEF Back
    <3>2. /\ poll' = [poll EXCEPT ![s] = "out"] /\ pc' = pc
          /\ verdict' \in [Side -> {"none", "ok", "timeout", "setup", "event", "call",
                                    "busy", "completion", "content", "ended"}]
          /\ (InHand' <=> InHand)
          /\ ShortQueues' /\ Control' /\ Flags' /\ Journeys' /\ Receives'
      BY <1>1, <3>1, GivesUp DEF nic
    <3>3. Types'
      BY <1>1, <3>1, <3>2 DEF IInv, Types
    <3>4. Connected' /\ Answers'
      BY <1>1, <3>2, ConnectedFrame, AnswersFrame DEF IInv
    <3> QED
      BY <3>2, <3>3, <3>4 DEF IInv
  <2>2. CASE Text(s) \in {None, rx[s]}
    <3>1. Advance(s)
      BY <1>2, <2>2 DEF Back
    <3>2. /\ pc' \in [Side -> 1..9] /\ pc'["client"] \in 1..8
          /\ pc' = [pc EXCEPT ![s] = pc[s] + 1] /\ pc'[s] = pc[s] + 1
          /\ poll' = [poll EXCEPT ![s] = "head"] /\ verdict' = verdict
          /\ tx_done' \in [Side -> BOOLEAN] /\ rx_done' \in [Side -> BOOLEAN]
          /\ \A r \in Side \ {s} : pc'[r] = pc[r]
          /\ ShortQueues' /\ Control' /\ Flags' /\ Journeys' /\ Receives'
      BY <1>1, <1>2, <3>1, PhaseEnds DEF nic
    <3>3. Types'
      BY <1>1, <3>2 DEF IInv, Types
    <3>4. pc[s] >= 5 /\ pc[s] \in Nat
      BY <1>2, Phases DEF IInv, Side
    <3>5. Connected'
      <4>1. /\ pc'["client"] <= 2 <=> pc["client"] <= 2
            /\ pc'["client"] >= 4 => pc["client"] >= 4
            /\ pc'["server"] = 1 <=> pc["server"] = 1
            /\ pc'["server"] >= 4 <=> pc["server"] >= 4
        BY <3>2, <3>4 DEF Side
      <4> QED
        BY <1>1, <4>1, ConnectedFrame DEF IInv
    <3>6. Answers'
      <4>1. InHand' <=> InHand
        BY <1>1, <3>2, <3>4 DEF InHand, IInv, Types, Side
      <4> QED
        BY <1>1, <4>1, AnswersFrame DEF IInv
    <3> QED
      BY <3>2, <3>3, <3>5, <3>6 DEF IInv
  <2> QED
    BY <2>1, <2>2
<1>3. CASE ~(Call(s) = "wait" /\ tx_done[s] /\ rx_done[s])
  <2>1. At(s, "head") /\ UNCHANGED <<pc, tx_done, rx_done, verdict>>
    BY <1>3 DEF Back
  <2>2. /\ poll' = [poll EXCEPT ![s] = "head"] /\ (InHand' <=> InHand)
        /\ ShortQueues' /\ Control' /\ Flags' /\ Journeys' /\ Receives'
    BY <1>1, <2>1, GoesTo
  <2>3. Types'
    BY <1>1, <2>1, <2>2 DEF IInv, Types, nic
  <2>4. Connected' /\ Answers'
    BY <1>1, <2>1, <2>2, ConnectedFrame, AnswersFrame DEF IInv
  <2> QED
    BY <2>2, <2>3, <2>4 DEF IInv
<1> QED
  BY <1>2, <1>3

(* The RX CQ is read: the message in it has not been heard.                *)
LEMMA PollRxKept ==
  ASSUME IInv, NEW s \in Side, PollRx(s)
  PROVE  IInv'
<1> USE DEF session, requests, network, cm
<1>1. poll[s] = "rx" /\ UNCHANGED <<tx_done, requests>>
  BY DEF PollRx
<1>2. CASE rcq[s] = <<>>
  <2>1. PICK p \in {"back", "eq"} : At(s, p)
    BY <1>2 DEF PollRx
  <2>2. UNCHANGED <<pc, rx_done, rx, verdict, network>>
    BY <1>2 DEF PollRx
  <2>3. /\ poll' = [poll EXCEPT ![s] = p] /\ (InHand' <=> InHand)
        /\ ShortQueues' /\ Control' /\ Flags' /\ Journeys' /\ Receives'
    BY <1>1, <2>1, <2>2, GoesTo
  <2>4. Types'
    BY <1>1, <2>2, <2>3 DEF IInv, Types
  <2>5. Connected' /\ Answers'
    BY <1>1, <2>2, <2>3, ConnectedFrame, AnswersFrame DEF IInv
  <2> QED
    BY <2>3, <2>4, <2>5 DEF IInv
<1>3. CASE rcq[s] # <<>>
  <2> DEFINE m == Head(rcq[s])
  <2>1. ReadRx(s)
    BY <1>3 DEF PollRx
  <2>2. /\ ShortQueues'
        /\ m \in Message \cup {"err"} /\ rcq[s] = <<m>>
        /\ rcq' = [rcq EXCEPT ![s] = <<>>] /\ rq[s] = 0
        /\ UNCHANGED <<cm, gone, broken, rq, wire, txwr, tcq>>
    BY <1>3, <2>1, ReadRxOne DEF IInv
  <2>3. CASE m = "err"
    <3>1. Fail(s, "completion") /\ UNCHANGED <<rx_done, rx>>
      BY <1>3, <2>3 DEF PollRx
    <3>2. /\ poll' = [poll EXCEPT ![s] = "out"] /\ pc' = pc
          /\ verdict' \in [Side -> {"none", "ok", "timeout", "setup", "event", "call",
                                    "busy", "completion", "content", "ended"}]
          /\ (InHand' <=> InHand)
          /\ ShortQueues' /\ Control' /\ Flags' /\ Journeys' /\ Receives'
      BY <1>1, <2>2, <3>1, GivesUp
    <3>3. Types'
      BY <1>1, <2>2, <3>1, <3>2 DEF IInv, Types
    <3>4. Connected' /\ Answers'
      BY <1>1, <2>2, <3>2, ConnectedFrame, AnswersFrame DEF IInv
    <3> QED
      BY <3>2, <3>3, <3>4 DEF IInv
  <2>4. CASE m # "err"
    <3>1. /\ rx_done' = [rx_done EXCEPT ![s] = TRUE] /\ rx' = [rx EXCEPT ![s] = m]
          /\ UNCHANGED <<pc, verdict>>
      BY <1>3, <2>4 DEF PollRx
    <3>2. PICK p \in {"back", "eq"} : At(s, p)
      BY <1>3, <2>4 DEF PollRx
    <3>3. poll' = [poll EXCEPT ![s] = p] /\ p \in {"back", "eq"} /\ m \in Message
      BY <2>2, <2>4, <3>2 DEF At
    <3>4. m \in To(s) /\ Said(m) /\ ~Heard(m)
      BY <2>2, <3>3 DEF IInv, Journeys
    <3> HIDE DEF m
    <3>5. Types'
      BY <1>1, <2>2, <3>1, <3>3 DEF IInv, Types
    <3>6. Control' /\ (InHand' <=> InHand)
      BY <1>1, <2>2, <3>1, <3>3 DEF IInv, Control, Types, InHand
    <3>7. \A r \in Side : /\ rcq'[r] = IF r = s THEN <<>> ELSE rcq[r]
                          /\ rx_done'[r] <=> r = s \/ rx_done[r]
      BY <2>2, <3>1 DEF IInv, ShortQueues, Types
    <3>8. Flags'
      <4>1. ~Posting(s)
        BY <1>3 DEF IInv, Flags
      <4> QED
        BY <1>1, <2>2, <3>1, <3>7, <4>1 DEF IInv, Flags, Posting, Sending, Side
    <3>9. \A x \in Message : /\ Said(x)' <=> Said(x)
                             /\ Heard(x)' <=> Heard(x) \/ x = m
      <4>1. \A x \in Message : Said(x)' <=> Said(x)
        BY <3>1 DEF Said
      <4>2. CASE s = "client"
        <5>1. m = "world" /\ (rx_done'["server"] <=> rx_done["server"]) /\ rx_done'["client"]
          BY <3>4, <3>7, <4>2 DEF To, Side
        <5>2. \A x \in Message : Heard(x)' <=> Heard(x) \/ x = m
          BY <3>1, <5>1 DEF Heard
        <5> QED
          BY <4>1, <5>2
      <4>3. CASE s = "server"
        <5>1. m = "hello" => ~(pc["server"] >= 7)
          BY <3>4 DEF Heard, IInv, Types, Side
        <5>2. m = "ack" => pc["server"] >= 7 /\ pc["server"] >= 6
          BY <3>4, Talk DEF Said, IInv, Types, Side
        <5> QED
          BY <3>1, <3>4, <3>7, <4>1, <4>3, <5>1, <5>2 DEF Heard, To, Side
      <4> QED
        BY <4>1, <4>2, <4>3 DEF Side
    <3>10. Journeys'
      <4>1. /\ wire[s] # <<m>>
            /\ \A r \in Side \ {s} : m \notin To(r)
        BY <2>2, <3>3, <3>4 DEF IInv, Journeys, To, Side
      <4>2. \A r \in Side, x \in Message :
              /\ wire'[r] = <<x>> \/ rcq'[r] = <<x>> => x \in To(r) /\ Said(x)' /\ ~Heard(x)'
              /\ wire'[r] = <<x>> => rcq'[r] # <<x>>
        <5> SUFFICES ASSUME NEW r \in Side, NEW x \in Message, wire[r] = <<x>> \/ rcq'[r] = <<x>>
                     PROVE  /\ x \in To(r) /\ Said(x)' /\ ~Heard(x)'
                            /\ wire[r] = <<x>> => rcq'[r] # <<x>>
          BY <2>2
        <5>1. wire[r] = <<x>> \/ (r # s /\ rcq[r] = <<x>>)
          BY <3>7, Single
        <5>2. x \in To(r) /\ Said(x) /\ ~Heard(x)
          BY <5>1 DEF IInv, Journeys
        <5>3. x # m
          BY <4>1, <5>1, <5>2
        <5>4. wire[r] = <<x>> => rcq'[r] # <<x>>
          BY <3>7, Single DEF IInv, Journeys
        <5> QED
          BY <3>9, <5>2, <5>3, <5>4
      <4>3. \A x \in Message : Heard(x)' => Said(x)'
        BY <3>4, <3>9 DEF IInv, Journeys
      <4> QED
        BY <4>2, <4>3 DEF Journeys, To
    <3>11. Receives'
      BY <2>2, <3>1 DEF IInv, Receives, Live, Said
    <3>12. Connected' /\ Answers'
      BY <1>1, <2>2, <3>1, <3>6, ConnectedFrame, AnswersFrame DEF IInv
    <3> QED
      BY <2>2, <3>5, <3>6, <3>8, <3>10, <3>11, <3>12 DEF IInv
  <2> QED
    BY <2>3, <2>4
<1> QED
  BY <1>2, <1>3

-----------------------------------------------------------------------------
(* The submissions.                                                        *)

(* A receive is posted, while there is none.                               *)
LEMMA PostReceiveKept ==
  ASSUME IInv, NEW s \in Side, PostReceive(s)
  PROVE  IInv'
<1> USE DEF requests, cm
<1>1. /\ Call(s) = "post" /\ poll[s] = "head" /\ TakeReceive(s) /\ Advance(s)
      /\ UNCHANGED <<rx, requests>>
  BY DEF PostReceive
<1>2. /\ pc[s] \in IF s = "client" THEN {1} ELSE {2, 6}
      /\ Posting(s) /\ Call(s) # "end"
  BY <1>1, Phases DEF IInv, Posting
<1>3. ~rx_done[s] /\ rq[s] = 0 /\ rcq[s] = <<>>
  BY <1>2 DEF IInv, Flags
<1>4. /\ ShortQueues'
      /\ s \in broken => rq' = rq /\ rcq' = [rcq EXCEPT ![s] = <<"err">>]
      /\ s \notin broken => rq' = [rq EXCEPT ![s] = 1] /\ rcq' = rcq
      /\ UNCHANGED <<cm, gone, broken, wire, txwr, tcq>>
  BY <1>1, <1>3, TakeReceiveOne DEF IInv
<1>5. /\ pc' \in [Side -> 1..9] /\ pc'["client"] \in 1..8 /\ pc'[s] = pc[s] + 1
      /\ poll' = [poll EXCEPT ![s] = "head"] /\ verdict' = verdict
      /\ tx_done' \in [Side -> BOOLEAN] /\ rx_done' \in [Side -> BOOLEAN]
      /\ tx_done'[s] <=> tx_done[s] /\ ~Sending(s)'
      /\ rx_done'[s] <=> rx_done[s] /\ pc'[s] \notin IF s = "client" THEN {1} ELSE {2, 6}
      /\ \A r \in Side \ {s} : /\ pc'[r] = pc[r]
                               /\ tx_done'[r] <=> tx_done[r]
                               /\ rx_done'[r] <=> rx_done[r]
  <2>1. pc[s] + 1 \in (IF s = "client" THEN {4, 6} ELSE {7}) => tx_done[s]
    BY <1>2 DEF IInv, Flags, Side
  <2> QED
    BY <1>1, <1>2, <2>1, Advances DEF IInv
<1>6. Types'
  BY <1>1, <1>4, <1>5 DEF IInv, Types
<1>7. Control' /\ (InHand' <=> InHand)
  BY <1>1, <1>2, <1>4, <1>5 DEF IInv, Control, Types, InHand, Side
<1>8. \A r \in Side : /\ rcq'[r] = IF r = s /\ s \in broken THEN <<"err">> ELSE rcq[r]
                      /\ rq'[r] = IF r = s /\ s \notin broken THEN 1 ELSE rq[r]
                      /\ rx_done'[r] <=> rx_done[r]
  <2>1. rcq \in [Side -> One(Message \cup {"err"})] /\ rq \in [Side -> {0, 1}]
    BY DEF IInv, ShortQueues
  <2> QED
    BY <1>3, <1>4, <1>5, <2>1
<1>9. Flags'
  <2>1. CASE s = "client"
    BY <1>2, <1>3, <1>4, <1>5, <1>8, <2>1 DEF IInv, Flags, Posting, Sending, Side
  <2>2. CASE s = "server"
    <3>1. tx_done["server"]
      BY <1>2, <2>2 DEF IInv, Flags
    <3> QED
      BY <1>2, <1>3, <1>4, <1>5, <1>8, <2>2, <3>1 DEF IInv, Flags, Posting, Sending, Side
  <2> QED
    BY <2>1, <2>2 DEF Side
<1>10. \A m \in Message : (Said(m)' <=> Said(m)) /\ (Heard(m)' <=> Heard(m))
  <2>1. CASE s = "client"
    BY <1>2, <1>3, <1>5, <1>8, <2>1 DEF Said, Heard, Side
  <2>2. CASE s = "server"
    BY <1>2, <1>3, <1>5, <1>8, <2>2 DEF Said, Heard, Side
  <2> QED
    BY <2>1, <2>2 DEF Side
<1>11. Journeys'
  <2>1. \A r \in Side, m \in Message : /\ wire'[r] = <<m>> => wire[r] = <<m>>
                                       /\ rcq'[r] = <<m>> => rcq[r] = <<m>>
    BY <1>4, <1>8, Single DEF Message
  <2> QED
    BY <1>10, <2>1, JourneysFrame DEF IInv
<1>12. Receives'
  <2>1. Said("world")' = Said("world") /\ Said("hello")' = Said("hello") /\ Said("ack")' = Said("ack")
    BY <1>10 DEF Message, Said
  <2>2. \A r \in Side : Live(r)' => Live(r) /\ (r = s => rq'[r] = 1) /\ (r # s => rq'[r] = rq[r])
    BY <1>4, <1>8 DEF Live
  <2>3. CASE s = "client"
    BY <1>2, <1>4, <1>5, <2>1, <2>2, <2>3 DEF IInv, Receives, Side
  <2>4. CASE s = "server"
    BY <1>2, <1>4, <1>5, <2>1, <2>2, <2>4 DEF IInv, Receives, Side
  <2> QED
    BY <2>3, <2>4 DEF Side
<1>13. Connected'
  <2>1. /\ pc'["client"] <= 2 <=> pc["client"] <= 2
        /\ pc'["client"] >= 4 => pc["client"] >= 4
        /\ pc'["server"] = 1 <=> pc["server"] = 1
        /\ pc'["server"] >= 4 <=> pc["server"] >= 4
    BY <1>2, <1>5 DEF Side
  <2> QED
    BY <1>1, <1>4, <2>1, ConnectedFrame DEF IInv
<1>14. Answers'
  BY <1>1, <1>4, <1>7, AnswersFrame DEF IInv
<1> QED
  BY <1>4, <1>6, <1>7, <1>9, <1>11, <1>12, <1>13, <1>14 DEF IInv

(* The message a send phase says, which nobody has said, and the wire that *)
(* is free for it.                                                         *)
LEMMA ToSay ==
  ASSUME IInv, NEW s \in Side, Call(s) = "send"
  PROVE  /\ Text(s) \in Message /\ Text(s) \in To(Peer(s))
         /\ ~Said(Text(s)) /\ ~Heard(Text(s))
         /\ pc[s] \in IF s = "client" THEN {4, 6} ELSE {7}
         /\ ~tx_done[s] /\ txwr[s] = "none" /\ tcq[s] = <<>> /\ wire[Peer(s)] = <<>>
         /\ s = "server" => Text(s) = "world"
         /\ s = "client" => Text(s) = IF pc[s] = 4 THEN "hello" ELSE "ack"
<1>1. pc[s] \in IF s = "client" THEN {4, 6} ELSE {7}
  BY Phases DEF IInv, Sending
<1>2. /\ s = "server" => Text(s) = "world"
      /\ s = "client" => Text(s) = IF pc[s] = 4 THEN "hello" ELSE "ack"
  <2>1. CASE s = "server"
    <3>1. pc[s] = 7 /\ Types
      BY <1>1, <2>1 DEF IInv
    <3> QED
      BY <2>1, <3>1, Phases
  <2>2. CASE s = "client"
    BY <1>1, <2>2, Phases DEF IInv
  <2> QED
    BY <2>1, <2>2 DEF Side
<1>3. ~Said(Text(s)) /\ Text(s) \in Message /\ Text(s) \in To(Peer(s))
  <2>1. CASE s = "server"
    BY <1>1, <1>2, <2>1 DEF Said, Message, To, Peer
  <2>2. CASE s = "client"
    BY <1>1, <1>2, <2>2 DEF Said, Message, To, Peer
  <2> QED
    BY <2>1, <2>2 DEF Side
<1>4. ~Heard(Text(s))
  BY <1>3 DEF IInv, Journeys
<1>5. ~tx_done[s] /\ txwr[s] = "none" /\ tcq[s] = <<>>
  BY <1>1 DEF IInv, Flags, Sending
<1>6. \A m \in Message : wire[Peer(s)] # <<m>>
  <2> SUFFICES ASSUME NEW m \in Message, wire[Peer(s)] = <<m>> PROVE FALSE
    OBVIOUS
  <2>1. m \in To(Peer(s)) /\ Said(m) /\ ~Heard(m)
    <3>1. Peer(s) \in Side /\ Journeys
      BY PeerSide DEF IInv
    <3> QED
      BY <3>1 DEF Journeys
  <2>2. CASE s = "server"
    BY <1>2, <1>3, <2>1, <2>2 DEF To, Peer
  <2>3. CASE s = "client"
    <3>1. m \in {"hello", "ack"}
      BY <2>1, <2>3 DEF To, Peer
    <3>2. pc["client"] = 6 /\ m = "hello"
      BY <1>1, <2>1, <2>3, <3>1 DEF Said
    <3>3. Heard("world")
      BY <3>2 DEF IInv, Flags, Heard
    <3> QED
      BY <2>1, <3>2, <3>3, Talk
  <2> QED
    BY <2>2, <2>3 DEF Side
<1>7. wire[Peer(s)] = <<>>
  BY <1>6, PeerSide DEF IInv, ShortQueues, One
<1> QED
  BY <1>1, <1>2, <1>3, <1>4, <1>5, <1>7

(* A message is sent; it finds its receive posted.                         *)
LEMMA SendMessageKept ==
  ASSUME IInv, NEW s \in Side, SendMessage(s)
  PROVE  IInv'
<1> DEFINE m == Text(s)
           p == Peer(s)
<1> USE DEF requests, cm
<1>1. /\ Call(s) = "send" /\ poll[s] = "head" /\ TakeSend(s, m) /\ Advance(s)
      /\ UNCHANGED <<rx, requests>>
  BY DEF SendMessage
<1>2. /\ m \in Message /\ m \in To(p) /\ ~Said(m) /\ ~Heard(m)
      /\ pc[s] \in IF s = "client" THEN {4, 6} ELSE {7}
      /\ ~tx_done[s] /\ txwr[s] = "none" /\ tcq[s] = <<>> /\ wire[p] = <<>>
      /\ s = "server" => m = "world"
      /\ s = "client" => m = IF pc[s] = 4 THEN "hello" ELSE "ack"
  BY <1>1, ToSay
<1>3. p \in Side /\ p # s /\ (p = "client" <=> s = "server") /\ (p = "server" <=> s = "client")
  BY PeerSide DEF Side
<1> HIDE DEF m
<1>4. /\ ShortQueues'
      /\ s \in broken => /\ tcq' = [tcq EXCEPT ![s] = <<"err">>]
                         /\ wire' = wire /\ txwr' = txwr
      /\ s \notin broken => /\ wire' = [wire EXCEPT ![p] = <<m>>]
                            /\ txwr' = [txwr EXCEPT ![s] = "sent"] /\ tcq' = tcq
      /\ UNCHANGED <<cm, gone, broken, rq, rcq>>
  BY <1>1, <1>2, TakeSendOne DEF IInv
<1> HIDE DEF p
<1>5. /\ pc' \in [Side -> 1..9] /\ pc'["client"] \in 1..8 /\ pc'[s] = pc[s] + 1
      /\ poll' = [poll EXCEPT ![s] = "head"] /\ verdict' = verdict
      /\ tx_done' \in [Side -> BOOLEAN] /\ rx_done' \in [Side -> BOOLEAN]
      /\ tx_done'[s] <=> tx_done[s] /\ ~Sending(s)'
      /\ rx_done'[s] <=> rx_done[s] /\ pc'[s] \notin IF s = "client" THEN {1} ELSE {2, 6}
      /\ \A r \in Side \ {s} : /\ pc'[r] = pc[r]
                               /\ tx_done'[r] <=> tx_done[r]
                               /\ rx_done'[r] <=> rx_done[r]
  <2>1. ~(pc[s] + 1 \in IF s = "client" THEN {4, 6} ELSE {7})
    BY <1>2
  <2>2. Call(s) # "end"
    BY <1>1
  <2> QED
    BY <1>1, <2>1, <2>2, Advances DEF IInv
<1>6. /\ s = "client" => pc'["client"] = pc["client"] + 1 /\ pc'["server"] = pc["server"]
      /\ s = "server" => pc'["server"] = 8 /\ pc["server"] = 7 /\ pc'["client"] = pc["client"]
      /\ \A r \in Side : rx_done'[r] <=> rx_done[r]
      /\ ~tx_done'[s] /\ (tx_done'[p] <=> tx_done[p])
  BY <1>2, <1>3, <1>5 DEF Side
<1>7. Types'
  BY <1>1, <1>4, <1>5 DEF IInv, Types
<1>8. Control' /\ (InHand' <=> InHand)
  BY <1>1, <1>2, <1>4, <1>5 DEF IInv, Control, Types, InHand, Side
<1>9. Flags'
  <2>1. /\ txwr'[p] = txwr[p] /\ tcq'[p] = tcq[p]
    BY <1>3, <1>4 DEF IInv, ShortQueues
  <2>2. CASE s = "client"
    BY <1>2, <1>3, <1>4, <1>5, <1>6, <2>1, <2>2 DEF IInv, Flags, Posting, Sending, Side
  <2>3. CASE s = "server"
    BY <1>2, <1>3, <1>4, <1>5, <1>6, <2>1, <2>3 DEF IInv, Flags, Posting, Sending, Side
  <2> QED
    BY <2>2, <2>3 DEF Side
<1>10. \A x \in Message : /\ Said(x)' <=> Said(x) \/ x = m
                          /\ Heard(x)' <=> Heard(x)
  <2>1. CASE s = "client"
    BY <1>2, <1>6, <2>1 DEF Said, Heard, Side, Message
  <2>2. CASE s = "server"
    BY <1>2, <1>6, <2>2 DEF Said, Heard, Side, Message
  <2> QED
    BY <2>1, <2>2 DEF Side
<1>11. \A r \in Side : wire'[r] = wire[r] \/ (r = p /\ wire'[r] = <<m>>)
  BY <1>3, <1>4 DEF IInv, ShortQueues
<1>12. Journeys'
  <2>1. ASSUME NEW r \in Side, NEW x \in Message, wire'[r] = <<x>> \/ rcq'[r] = <<x>>
        PROVE  /\ x \in To(r) /\ Said(x)' /\ ~Heard(x)'
               /\ wire'[r] = <<x>> => rcq'[r] # <<x>>
    <3>1. CASE wire[r] = <<x>> \/ rcq[r] = <<x>>
      <4>1. x \in To(r) /\ Said(x) /\ ~Heard(x)
        BY <3>1 DEF IInv, Journeys
      <4>2. x # m
        BY <1>2, <4>1
      <4>3. wire'[r] = <<x>> => wire[r] = <<x>>
        BY <1>11, <4>2, Single
      <4> QED
        BY <1>4, <1>10, <4>1, <4>3 DEF IInv, Journeys
    <3>2. CASE wire[r] # <<x>> /\ rcq[r] # <<x>>
      <4>1. r = p /\ wire'[r] = <<m>> /\ x = m
        BY <1>4, <1>11, <2>1, <3>2, Single
      <4> QED
        BY <1>2, <1>4, <1>10, <3>2, <4>1
    <3> QED
      BY <3>1, <3>2
  <2>2. \A x \in Message : Heard(x)' => Said(x)'
    BY <1>10 DEF IInv, Journeys
  <2> QED
    BY <2>1, <2>2 DEF Journeys, To
<1>13. Receives'
  <2>1. /\ Said("hello")' <=> Said("hello") \/ m = "hello"
        /\ Said("world")' <=> Said("world") \/ m = "world"
        /\ Said("ack")' <=> Said("ack") \/ m = "ack"
    BY <1>10 DEF Message
  <2>2. /\ rq' = rq /\ \A r \in Side : Live(r)' <=> Live(r)
    BY <1>4 DEF Live
  <2>3. CASE s = "client"
    <3>1. wire'["client"] = wire["client"]
      BY <1>3, <1>11, <2>3 DEF Side
    <3>2. wire'["server"] = <<"hello">> => wire["server"] = <<"hello">> \/ m = "hello"
      BY <1>11, Single DEF Side
    <3>3. wire'["server"] = <<"ack">> => wire["server"] = <<"ack">> \/ m = "ack"
      BY <1>11, Single DEF Side
    <3>4. ~Said(m)
      BY <1>2
    <3> QED
      BY <1>2, <1>6, <2>1, <2>2, <2>3, <3>1, <3>2, <3>3, <3>4 DEF IInv, Receives, Side
  <2>4. CASE s = "server"
    <3>1. wire'["server"] = wire["server"] /\ m = "world" /\ ~Said("world")
      BY <1>2, <1>3, <1>11, <2>4 DEF Side
    <3> QED
      BY <1>6, <2>1, <2>2, <2>4, <3>1 DEF IInv, Receives, Side
  <2> QED
    BY <2>3, <2>4 DEF Side
<1>14. Connected'
  <2>1. /\ pc'["client"] <= 2 <=> pc["client"] <= 2
        /\ pc'["client"] >= 4 => pc["client"] >= 4
        /\ pc'["server"] = 1 <=> pc["server"] = 1
        /\ pc'["server"] >= 4 <=> pc["server"] >= 4
    BY <1>2, <1>6 DEF Side
  <2> QED
    BY <1>1, <1>4, <2>1, ConnectedFrame DEF IInv
<1>15. Answers'
  BY <1>1, <1>4, <1>8, AnswersFrame DEF IInv
<1> QED
  BY <1>4, <1>7, <1>8, <1>9, <1>12, <1>13, <1>14, <1>15 DEF IInv

-----------------------------------------------------------------------------
(* The end of a program, other clients, and the provider.                  *)

(* cleanup(): a request in hand is rejected, the endpoint closed.          *)
LEMMA CleanupKept ==
  ASSUME IInv, NEW s \in Side, Cleanup(s)
  PROVE  IInv'
<1>1. /\ poll[s] = "out" /\ CloseEndpoint(s) /\ At(s, "done")
      /\ UNCHANGED <<pc, session, request, strangers, taken, verdict>>
      /\ s = "server" /\ pc[s] <= 3 => Turn(request)
      /\ ~(s = "server" /\ pc[s] <= 3) => UNCHANGED <<link, answered>>
  BY DEF Cleanup
<1>2. /\ ShortQueues' /\ gone' = gone \cup {s}
      /\ rq' = [rq EXCEPT ![s] = 0] /\ txwr' = [txwr EXCEPT ![s] = "none"]
      /\ rcq' = [rcq EXCEPT ![s] = <<>>] /\ tcq' = [tcq EXCEPT ![s] = <<>>]
      /\ eqq' = [eqq EXCEPT ![s] = <<>>]
      /\ wire'[s] = <<>> /\ wire'[Peer(s)] \in {wire[Peer(s)], <<>>}
      /\ UNCHANGED <<est, told, broken>>
  BY <1>1, CloseEndpointOne DEF IInv
<1>3. poll' = [poll EXCEPT ![s] = "done"]
  BY <1>1 DEF At
<1> USE DEF session
<1>4. /\ \A r \in Side : rq'[r] = IF r = s THEN 0 ELSE rq[r]
      /\ \A r \in Side : txwr'[r] = IF r = s THEN "none" ELSE txwr[r]
      /\ \A r \in Side : rcq'[r] = IF r = s THEN <<>> ELSE rcq[r]
      /\ \A r \in Side : tcq'[r] = IF r = s THEN <<>> ELSE tcq[r]
      /\ \A r \in Side : wire'[r] \in {wire[r], <<>>} /\ (r = s => wire'[r] = <<>>)
  <2>1. \A r \in Side : wire'[r] \in {wire[r], <<>>} /\ (r = s => wire'[r] = <<>>)
    BY <1>2 DEF Side, Peer
  <2> QED
    BY <1>2, <2>1 DEF IInv, ShortQueues
<1>5. /\ eqq' \in [Side -> Seq(ServerEvent)] /\ eqq'["client"] \in Seq(ClientEvent)
      /\ eqq'[s] = <<>> /\ \A r \in Side \ {s} : eqq'[r] = eqq[r]
  BY <1>2 DEF IInv, Types
<1>6. Types'
  <2>1. gone' \subseteq Side /\ poll' \in [Side -> {"head", "tx", "rx", "eq", "back", "out", "done"}]
    BY <1>2, <1>3 DEF IInv, Types
  <2>2. link' \in {"none", "requested", "accepted", "rejected"}
    BY <1>1 DEF IInv, Types, Turn
  <2> QED
    BY <1>1, <1>2, <1>5, <2>1, <2>2 DEF IInv, Types
<1>7. Control'
  BY <1>1, <1>2, <1>3 DEF IInv, Control, Types
<1>8. Flags'
  BY <1>1, <1>4 DEF IInv, Flags, Posting, Sending
<1>9. \A m \in Message : (Said(m)' <=> Said(m)) /\ (Heard(m)' <=> Heard(m))
  BY <1>1 DEF Said, Heard
<1>10. Journeys'
  <2>1. \A r \in Side, m \in Message : /\ wire'[r] = <<m>> => wire[r] = <<m>>
                                       /\ rcq'[r] = <<m>> => rcq[r] = <<m>>
    BY <1>4, Single
  <2> QED
    BY <1>9, <2>1, JourneysFrame DEF IInv
<1>11. Receives'
  <2>1. \A r \in Side : /\ Live(r)' => Live(r) /\ rq'[r] = rq[r]
                        /\ wire'[r] = wire[r] \/ wire'[r] = <<>>
    BY <1>2, <1>4 DEF Live
  <2>2. wire'["server"] \in {<<"hello">>, <<"ack">>} => wire'["server"] = wire["server"]
    BY <2>1, Single DEF Side
  <2> QED
    BY <1>1, <2>1, <2>2 DEF IInv, Receives, Said, Side
<1>12. Connected'
  <2>1. /\ eqq'["client"] = eqq["client"] \/ eqq'["client"] = <<>>
        /\ eqq'["server"] = eqq["server"] \/ eqq'["server"] = <<>>
        /\ s = "server" => eqq'["server"] = <<>>
    BY <1>5 DEF Side
  <2>2. CASE s = "server" /\ pc[s] <= 3 /\ request = "client"
    <3>1. link' = "rejected" /\ link # "none" /\ link # "accepted"
      BY <1>1, <2>2 DEF Turn, IInv, Answers, Connected, Types, Side
    <3>2. eqq'["server"] = <<>>
      BY <2>1, <2>2
    <3> QED
      BY <1>1, <1>2, <2>1, <2>2, <3>1, <3>2 DEF IInv, Connected, Types, Side
  <2>3. CASE ~(s = "server" /\ pc[s] <= 3 /\ request = "client")
    <3>1. link' = link
      BY <1>1, <2>3 DEF Turn
    <3> QED
      BY <1>1, <1>2, <2>1, <3>1 DEF IInv, Connected
  <2> QED
    BY <2>2, <2>3
<1>13. Answers'
  <2>1. CASE s = "client"
    <3>1. /\ UNCHANGED <<link, answered, request, strangers, taken>>
          /\ (InHand' <=> InHand) /\ eqq'["server"] = eqq["server"]
      BY <1>1, <1>3, <1>5, <2>1 DEF InHand, IInv, Types, Side
    <3> QED
      BY <3>1 DEF IInv, Answers, Unsent
  <2>2. CASE s = "server"
    <3>1. ~InHand' /\ eqq'["server"] = <<>> /\ poll["server"] # "done"
      BY <1>1, <1>3, <1>5, <2>2 DEF InHand, IInv, Types
    <3>2. answered' = taken /\ taken \in Nat /\ strangers \in Nat
      BY <1>1, <2>2, <3>1 DEF IInv, Answers, InHand, Turn, None
    <3>5. Unsent' = Unsent /\ Unsent \in Nat
      BY <1>1 DEF IInv, Answers, Turn, Unsent
    <3>3. taken' + strangers' + Unsent' + Cardinality(Knocks(eqq'["server"])) <= Strangers + 1
      <4>1. Cardinality(Knocks(eqq'["server"])) = 0
        BY <3>1, FS_EmptySet DEF Knocks
      <4>2. Cardinality(Knocks(eqq["server"])) \in Nat
        BY KnockAdded DEF IInv, Types, Side, ServerEvent
      <4>3. taken + strangers + Unsent + Cardinality(Knocks(eqq["server"])) <= Strangers + 1
        BY DEF IInv, Answers
      <4> QED
        BY <1>1, <3>2, <3>5, <4>1, <4>2, <4>3, StrangersNumber
    <3>4. request = "client" => link' \in {"accepted", "rejected"}
      <4>1. CASE pc[s] <= 3
        BY <1>1, <2>2, <4>1 DEF Turn
      <4>2. CASE ~(pc[s] <= 3)
        BY <1>1, <2>2, <4>2 DEF IInv, Connected, Types, Side
      <4> QED
        BY <4>1, <4>2
    <3> QED
      BY <1>1, <3>1, <3>2, <3>3, <3>4 DEF IInv, Answers
  <2> QED
    BY <2>1, <2>2 DEF Side
<1> QED
  BY <1>2, <1>6, <1>7, <1>8, <1>10, <1>11, <1>12, <1>13 DEF IInv

(* Another client's request comes in.                                      *)
LEMMA KnockKept ==
  ASSUME IInv, Knock
  PROVE  IInv'
<1>1. /\ strangers > 0 /\ strangers' = strangers - 1
      /\ eqq' = [eqq EXCEPT !["server"] = Append(eqq["server"], "stranger")]
      /\ UNCHANGED <<pc, poll, session, request, taken, answered, verdict, link,
                     est, told, gone, broken, nic>>
  BY DEF Knock
<1> USE DEF session
<1>2. "server" \in Side /\ "client" \in Side /\ "stranger" \in ServerEvent
  BY DEF Side, ServerEvent
<1>3. /\ eqq' \in [Side -> Seq(ServerEvent)] /\ eqq'["client"] \in Seq(ClientEvent)
      /\ \A r \in Side \ {"server"} : eqq'[r] = eqq[r]
      /\ \A r \in Side : \A i \in DOMAIN eqq'[r] :
           \/ i \in DOMAIN eqq[r] /\ eqq'[r][i] = eqq[r][i]
           \/ r = "server" /\ i = Len(eqq["server"]) + 1 /\ eqq'[r][i] = "stranger"
      /\ Cardinality(Knocks(eqq["server"])) \in Nat
      /\ Cardinality(Knocks(eqq'["server"])) = Cardinality(Knocks(eqq["server"])) + 1
  BY <1>1, <1>2, EventAdded DEF IInv, Added
<1>4. ShortQueues' /\ Control' /\ Flags' /\ Journeys' /\ Receives' /\ (InHand' <=> InHand)
  BY <1>1, Still
<1>5. Types'
  BY <1>1, <1>3 DEF IInv, Types
<1>6. Connected'
  <2>1. \A i \in DOMAIN eqq'["server"] : eqq'["server"][i] = "client" =>
          i \in DOMAIN eqq["server"] /\ eqq["server"][i] = "client"
    BY <1>2, <1>3
  <2>2. eqq'["client"] = eqq["client"]
    BY <1>2, <1>3
  <2> QED
    BY <1>1, <2>1, <2>2 DEF IInv, Connected
<1>7. Answers'
  <2>1. /\ taken \in Nat /\ strangers \in Nat /\ Unsent \in Nat /\ Unsent' = Unsent
        /\ taken + strangers + Unsent + Cardinality(Knocks(eqq["server"])) <= Strangers + 1
    BY <1>1 DEF IInv, Answers, Unsent
  <2>2. strangers' \in 0..Strangers
    BY <1>1, StrangersNumber DEF IInv, Answers
  <2>3. taken' + strangers' + Unsent' + Cardinality(Knocks(eqq'["server"])) <= Strangers + 1
    BY <1>1, <1>3, <2>1, StrangersNumber
  <2> QED
    BY <1>1, <1>4, <2>2, <2>3 DEF IInv, Answers
<1> QED
  BY <1>4, <1>5, <1>6, <1>7 DEF IInv

(* The connection comes up or goes down.                                   *)
LEMMA CmKept ==
  ASSUME IInv, NEW s \in Side, Establish(s) \/ Disconnected(s), Quiet
  PROVE  IInv'
<1>1. PICK e \in ClientEvent : eqq' = [eqq EXCEPT ![s] = Append(eqq[s], e)]
  BY DEF Establish, Disconnected, ClientEvent
<1>2. /\ UNCHANGED <<pc, poll, tx_done, rx_done, rx, requests, verdict>>
      /\ UNCHANGED <<link, gone, broken, nic>>
  BY DEF Quiet, session, Establish, Disconnected
<1>3. /\ est' \subseteq Side /\ told' \subseteq Side /\ est \subseteq est'
      /\ est' # {} => link = "accepted"
  BY DEF Establish, Disconnected, IInv, Types, Connected
<1>4. /\ eqq' \in [Side -> Seq(ServerEvent)] /\ eqq'["client"] \in Seq(ClientEvent)
      /\ \A r \in Side \ {s} : eqq'[r] = eqq[r]
      /\ \A r \in Side : \A i \in DOMAIN eqq'[r] :
           \/ i \in DOMAIN eqq[r] /\ eqq'[r][i] = eqq[r][i]
           \/ r = s /\ i = Len(eqq[s]) + 1 /\ eqq'[r][i] = e
      /\ Cardinality(Knocks(eqq["server"])) \in Nat
      /\ Cardinality(Knocks(eqq'["server"])) = Cardinality(Knocks(eqq["server"])) + 0
  <2>1. e \in ServerEvent /\ e \notin {"client", "stranger"} /\ Types /\ (s = "client" => e \in ClientEvent)
    BY DEF ServerEvent, ClientEvent, IInv
  <2>2. Added(s, e)
    BY <1>1, <2>1, EventAdded
  <2> QED
    BY <2>1, <2>2 DEF Added
<1>5. ShortQueues' /\ Control' /\ Flags' /\ Journeys' /\ Receives' /\ (InHand' <=> InHand)
  BY <1>2, Still
<1>6. Types'
  BY <1>2, <1>3, <1>4 DEF IInv, Types, requests
<1>7. Connected'
  <2>1. \A i \in DOMAIN eqq'["server"] : eqq'["server"][i] = "client" =>
          i \in DOMAIN eqq["server"] /\ eqq["server"][i] = "client"
    BY <1>4 DEF ClientEvent, Side
  <2>2. \A i \in DOMAIN eqq'["client"] : eqq'["client"][i] = "connected" => "client" \in est'
    <3> SUFFICES ASSUME NEW i \in DOMAIN eqq'["client"], eqq'["client"][i] = "connected"
                 PROVE  "client" \in est'
      OBVIOUS
    <3>1. CASE i \in DOMAIN eqq["client"] /\ eqq'["client"][i] = eqq["client"][i]
      BY <1>3, <3>1 DEF IInv, Connected
    <3>2. CASE s = "client" /\ i = Len(eqq[s]) + 1 /\ eqq'["client"][i] = e
      <4>1. Establish(s)
        <5>1. eqq'[s][Len(eqq[s]) + 1] = "connected"
          BY <3>2
        <5>2. ASSUME Disconnected(s) PROVE FALSE
          <6>1. PICK x \in {"shutdown", "refused"} :
                  eqq' = [eqq EXCEPT ![s] = Append(eqq[s], x)]
            BY <5>2 DEF Disconnected
          <6>2. eqq'[s][Len(eqq[s]) + 1] = x
            BY <6>1 DEF IInv, Types
          <6> QED
            BY <5>1, <6>2
        <5> QED
          BY <5>2
      <4> QED
        BY <3>2, <4>1 DEF Establish
    <3> QED
      BY <1>4, <3>1, <3>2 DEF Side
  <2> QED
    BY <1>2, <1>3, <2>1, <2>2 DEF IInv, Connected, requests
<1>8. Answers'
  BY <1>2, <1>4, <1>5 DEF IInv, Answers, Unsent, requests
<1> QED
  BY <1>5, <1>6, <1>7, <1>8 DEF IInv

(* A message under way to s finds s where the scripts say.                 *)
LEMMA UnderWay ==
  ASSUME IInv, NEW s \in Side, NEW m \in Message, wire[s] = <<m>>
  PROVE  /\ m \in To(s) /\ Said(m) /\ ~Heard(m) /\ rcq[s] # <<m>>
         /\ m = "hello" => pc["server"] \in 4..5
         /\ m = "world" => pc["client"] \in 5..5
         /\ m = "ack" => pc["server"] \in 8..8
<1>1. m \in To(s) /\ Said(m) /\ ~Heard(m) /\ rcq[s] # <<m>>
  BY DEF IInv, Journeys
<1>2. /\ link = "accepted" => pc["server"] >= 4
      /\ "client" \in est => link = "accepted"
      /\ pc["client"] >= 4 => "client" \in est
      /\ pc["client"] >= 6 => rx_done["client"]
      /\ pc["server"] >= 9 => rx_done["server"]
      /\ pc["client"] \in 1..8 /\ pc["server"] \in 1..9
  BY DEF IInv, Connected, Flags, Types, Side
<1>3. m = "hello" => pc["server"] \in 4..5
  BY <1>1, <1>2 DEF Said, Heard
<1>4. m = "world" => pc["client"] \in 5..5
  <2>1. Said("world") => pc["client"] >= 5
    BY <1>2, Talk DEF Said
  <2> QED
    BY <1>1, <1>2, <2>1 DEF Heard
<1>5. m = "ack" => pc["server"] \in 8..8
  <2>1. Said("ack") => pc["server"] >= 8
    BY <1>2, Talk DEF Said
  <2> QED
    BY <1>1, <1>2, <2>1 DEF Heard
<1> QED
  BY <1>1, <1>3, <1>4, <1>5

(* A message is placed in the receive that waits for it.                   *)
LEMMA PlaceKept ==
  ASSUME IInv, NEW s \in Side, Place(s), Quiet
  PROVE  IInv'
<1> USE DEF Quiet, session, requests, cm
<1>1. /\ ShortQueues'
      /\ rq[s] = 1 /\ rcq[s] = <<>> /\ s \notin gone \cup broken
      /\ rq' = [rq EXCEPT ![s] = 0] /\ wire' = [wire EXCEPT ![s] = <<>>]
      /\ \E m \in Message : /\ wire[s] = <<m>>
                            /\ rcq' = [rcq EXCEPT ![s] = <<m>>]
      /\ \/ txwr' = txwr
         \/ txwr[Peer(s)] = "sent" /\ txwr' = [txwr EXCEPT ![Peer(s)] = "placed"]
      /\ UNCHANGED <<cm, gone, broken, tcq>>
  BY PlaceOne DEF IInv
<1>2. PICK m \in Message : wire[s] = <<m>> /\ rcq' = [rcq EXCEPT ![s] = <<m>>]
  BY <1>1
<1>3. /\ m \in To(s) /\ Said(m) /\ ~Heard(m)
      /\ m = "hello" => pc["server"] \in 4..5
      /\ m = "world" => pc["client"] \in 5..5
      /\ m = "ack" => pc["server"] \in 8..8
  BY <1>2, UnderWay
<1>4. /\ \A r \in Side : rq'[r] = IF r = s THEN 0 ELSE rq[r]
      /\ \A r \in Side : wire'[r] = IF r = s THEN <<>> ELSE wire[r]
      /\ \A r \in Side : rcq'[r] = IF r = s THEN <<m>> ELSE rcq[r]
      /\ \A r \in Side : txwr'[r] = txwr[r] \/ (txwr[r] = "sent" /\ txwr'[r] = "placed")
  BY <1>1, <1>2, PeerSide DEF IInv, ShortQueues
<1>5. Types' /\ Control'
  BY <1>1 DEF IInv, Types, Control
<1>6. Flags'
  <2>1. ~Posting(s) /\ ~rx_done[s]
    BY <1>1 DEF IInv, Flags
  <2>2. \A r \in Side : txwr[r] = "none" => txwr'[r] = "none"
    BY <1>4
  <2> QED
    BY <1>1, <1>4, <2>1, <2>2 DEF IInv, Flags, Posting, Sending
<1>7. \A x \in Message : (Said(x)' <=> Said(x)) /\ (Heard(x)' <=> Heard(x))
  BY DEF Said, Heard
<1>8. Journeys'
  <2>1. ASSUME NEW r \in Side, NEW x \in Message, wire'[r] = <<x>> \/ rcq'[r] = <<x>>
        PROVE  /\ x \in To(r) /\ Said(x)' /\ ~Heard(x)'
               /\ wire'[r] = <<x>> => rcq'[r] # <<x>>
    <3>1. CASE r = s
      <4>1. x = m /\ wire'[r] # <<x>>
        BY <1>4, <2>1, <3>1, Single
      <4> QED
        BY <1>3, <1>7, <3>1, <4>1
    <3>2. CASE r # s
      BY <1>4, <1>7, <2>1, <3>2 DEF IInv, Journeys
    <3> QED
      BY <3>1, <3>2
  <2>2. \A x \in Message : Heard(x)' => Said(x)'
    BY <1>7 DEF IInv, Journeys
  <2> QED
    BY <2>1, <2>2 DEF Journeys, To
<1>9. Receives'
  <2>1. /\ Said("hello")' <=> Said("hello")
        /\ Said("world")' <=> Said("world")
        /\ Said("ack")' <=> Said("ack")
        /\ \A r \in Side : Live(r)' <=> Live(r)
    BY <1>1, <1>7 DEF Message, Live
  <2>2. "client" \in Side /\ "server" \in Side /\ pc' = pc /\ Receives
    BY DEF IInv, Side
  <2>3. CASE s = "client"
    <3>1. /\ Said("world")
          /\ wire'["client"] = <<>> /\ wire'["server"] = wire["server"]
          /\ rq'["server"] = rq["server"]
      BY <1>3, <1>4, <2>2, <2>3 DEF To
    <3> QED
      BY <2>1, <2>2, <3>1 DEF Receives
  <2>4. CASE s = "server"
    <3>1. /\ wire'["client"] = wire["client"] /\ rq'["client"] = rq["client"]
          /\ wire'["server"] = <<>> /\ wire'["server"] \notin {<<"hello">>, <<"ack">>}
      BY <1>4, <2>2, <2>4, Single
    <3>2. \/ Said("hello") /\ pc["server"] \in 4..5
          \/ Said("ack") /\ pc["server"] \in 8..8
      BY <1>3, <2>4 DEF To
    <3> QED
      BY <2>1, <2>2, <3>1, <3>2 DEF Receives
  <2> QED
    BY <2>3, <2>4 DEF Side
<1>10. Connected' /\ Answers'
  <2>1. InHand' <=> InHand
    BY DEF InHand
  <2> QED
    BY <1>1, <2>1, ConnectedFrame, AnswersFrame DEF IInv
<1> QED
  BY <1>1, <1>5, <1>6, <1>8, <1>9, <1>10 DEF IInv

(* The provider completes a send.                                          *)
LEMMA AcknowledgeKept ==
  ASSUME IInv, NEW s \in Side, Acknowledge(s), Quiet
  PROVE  IInv'
<1> USE DEF Quiet, session, requests, cm
<1>1. /\ ShortQueues'
      /\ txwr[s] = "placed" /\ txwr' = [txwr EXCEPT ![s] = "none"]
      /\ tcq[s] = <<>> /\ tcq' = [tcq EXCEPT ![s] = <<"ok">>]
      /\ UNCHANGED <<cm, gone, broken, rq, wire, rcq>>
  BY AcknowledgeOne DEF IInv
<1>2. Types' /\ Control'
  BY <1>1 DEF IInv, Types, Control
<1>3. Flags'
  <2>1. ~Sending(s) /\ ~tx_done[s]
    BY <1>1 DEF IInv, Flags
  <2>2. \A r \in Side \ {s} : txwr'[r] = txwr[r] /\ tcq'[r] = tcq[r]
    BY <1>1 DEF IInv, ShortQueues
  <2> QED
    BY <1>1, <2>1, <2>2 DEF IInv, Flags, Posting, Sending
<1>4. \A x \in Message : (Said(x)' <=> Said(x)) /\ (Heard(x)' <=> Heard(x))
  BY DEF Said, Heard
<1>5. Journeys'
  BY <1>1, <1>4, JourneysFrame DEF IInv
<1>6. Receives'
  BY <1>1 DEF IInv, Receives, Said, Live
<1>7. Connected' /\ Answers'
  <2>1. InHand' <=> InHand
    BY DEF InHand
  <2> QED
    BY <1>1, <2>1, ConnectedFrame, AnswersFrame DEF IInv
<1> QED
  BY <1>1, <1>2, <1>3, <1>5, <1>6, <1>7 DEF IInv

(* An endpoint goes to error.                                              *)
LEMMA BreakKept ==
  ASSUME IInv, NEW s \in Side, Break(s), Quiet
  PROVE  IInv'
<1> USE DEF Quiet, session, requests, cm
<1>1. /\ ShortQueues'
      /\ s \in est /\ s \notin gone /\ broken' = broken \cup {s}
      /\ rq' = [rq EXCEPT ![s] = 0]
      /\ rcq' = [rcq EXCEPT ![s] = IF rq[s] = 1 THEN <<"err">> ELSE rcq[s]]
      /\ txwr' = [txwr EXCEPT ![s] = "none"]
      /\ tcq' = [tcq EXCEPT ![s] = IF txwr[s] = "none" THEN tcq[s] ELSE <<"err">>]
      /\ wire'[s] = <<>> /\ wire'[Peer(s)] \in {wire[Peer(s)], <<>>}
      /\ UNCHANGED <<cm, gone>>
  BY BreakOne DEF IInv
<1>2. Types' /\ Control'
  BY <1>1 DEF IInv, Types, Control
<1>3. /\ \A r \in Side : rq'[r] = IF r = s THEN 0 ELSE rq[r]
      /\ \A r \in Side : txwr'[r] = IF r = s THEN "none" ELSE txwr[r]
      /\ \A r \in Side : rcq'[r] = rcq[r] \/ (r = s /\ rq[s] = 1 /\ rcq'[r] = <<"err">>)
      /\ \A r \in Side : tcq'[r] = tcq[r] \/ (r = s /\ txwr[s] # "none")
      /\ \A r \in Side : wire'[r] \in {wire[r], <<>>}
  <2>1. \A r \in Side : wire'[r] \in {wire[r], <<>>}
    BY <1>1 DEF Side, Peer
  <2> QED
    BY <1>1, <2>1 DEF IInv, ShortQueues
<1>4. Flags'
  BY <1>1, <1>3 DEF IInv, Flags, Posting, Sending
<1>5. \A x \in Message : (Said(x)' <=> Said(x)) /\ (Heard(x)' <=> Heard(x))
  BY DEF Said, Heard
<1>6. Journeys'
  <2>1. \A r \in Side, x \in Message : /\ wire'[r] = <<x>> => wire[r] = <<x>>
                                       /\ rcq'[r] = <<x>> => rcq[r] = <<x>>
    <3>1. \A r \in Side, x \in Message : wire'[r] = <<x>> => wire[r] = <<x>>
      BY <1>3, Single
    <3>2. \A r \in Side, x \in Message : rcq'[r] = <<x>> => rcq[r] = <<x>>
      BY <1>3, Single DEF Message
    <3> QED
      BY <3>1, <3>2
  <2> QED
    BY <1>5, <2>1, JourneysFrame DEF IInv
<1>7. Receives'
  <2>1. \A r \in Side : /\ Live(r)' => Live(r) /\ rq'[r] = rq[r]
                        /\ wire'[r] = wire[r] \/ wire'[r] = <<>>
    BY <1>1, <1>3 DEF Live
  <2>2. wire'["server"] \in {<<"hello">>, <<"ack">>} => wire'["server"] = wire["server"]
    BY <2>1, Single DEF Side
  <2> QED
    BY <1>1, <2>1, <2>2 DEF IInv, Receives, Said, Side
<1>8. Connected' /\ Answers'
  <2>1. InHand' <=> InHand
    BY DEF InHand
  <2> QED
    BY <1>1, <2>1, ConnectedFrame, AnswersFrame DEF IInv
<1> QED
  BY <1>1, <1>2, <1>4, <1>6, <1>7, <1>8 DEF IInv

-----------------------------------------------------------------------------
(* The invariant.                                                          *)

(* The invariant holds at the start.                                       *)
LEMMA InitIInv == Init => IInv
<1> SUFFICES ASSUME Init PROVE IInv
  OBVIOUS
<1> USE DEF Init, NetworkInit, Side
<1>1. Types
  <2>1. <<>> \in Seq(ServerEvent) /\ <<>> \in Seq(ClientEvent)
    OBVIOUS
  <2> QED
    BY <2>1 DEF Types, None
<1>2. ShortQueues
  BY Entries DEF ShortQueues
<1>3. Control
  BY DEF Control
<1>4. Flags
  BY DEF Flags, Posting, Sending
<1>5. Connected
  BY DEF Connected
<1>6. Answers
  <2>1. Cardinality(Knocks(eqq["server"])) = 0
    BY FS_EmptySet DEF Knocks
  <2>2. strangers = Strangers /\ taken = 0 /\ answered = 0 /\ Unsent = 1
    BY DEF Unsent
  <2>3. taken + strangers + Unsent + Cardinality(Knocks(eqq["server"])) <= Strangers + 1
    BY <2>1, <2>2, StrangersNumber
  <2> QED
    BY <2>2, <2>3, StrangersNumber DEF Answers, None
<1>7. Journeys
  <2>1. \A m \in Message : ~Said(m) /\ ~Heard(m)
    BY DEF Said, Heard
  <2> QED
    BY <2>1, Single DEF Journeys
<1>8. Receives
  BY DEF Receives
<1> QED
  BY <1>1, <1>2, <1>3, <1>4, <1>5, <1>6, <1>7, <1>8 DEF IInv

(* Every step keeps the invariant.                                         *)
LEMMA StepKept == IInv /\ [Next]_vars => IInv'
<1> SUFFICES ASSUME IInv, [Next]_vars PROVE IInv'
  OBVIOUS
<1>1. CASE UNCHANGED vars
  <2> USE <1>1 DEF vars, session, requests, network, cm
  <2>1. ShortQueues' /\ Control' /\ Flags' /\ Journeys' /\ Receives' /\ (InHand' <=> InHand)
    BY Still
  <2>2. Types' /\ Connected' /\ Answers'
    BY <2>1, ConnectedFrame, AnswersFrame DEF IInv, Types
  <2> QED
    BY <2>1, <2>2 DEF IInv
<1>2. ASSUME NEW s \in Side, Step(s) PROVE IInv'
  <2>1. CASE WaitEvent(s) \/ Connect(s) \/ Accept(s)
    BY <2>1, WaitEventKept, ConnectKept, AcceptKept
  <2>2. CASE PostReceive(s) \/ SendMessage(s) \/ Round(s)
    BY <2>2, PostReceiveKept, SendMessageKept, RoundKept
  <2>3. CASE PollTx(s) \/ PollRx(s) \/ PollEq(s) \/ Back(s)
    BY <2>3, PollTxKept, PollRxKept, PollEqKept, BackKept
  <2>4. CASE SetupFails(s) \/ CallFails(s) \/ Passed(s) \/ Cleanup(s)
    BY <2>4, EndsKept, CleanupKept
  <2> QED
    BY <1>2, <2>1, <2>2, <2>3, <2>4 DEF Step
<1>3. ASSUME NEW s \in Side, Timeout(s) PROVE IInv'
  BY <1>3, EndsKept
<1>4. ASSUME NEW s \in Side, Deliver(s) PROVE IInv'
  <2>1. /\ Quiet
        /\ Establish(s) \/ Disconnected(s) \/ Place(s) \/ Acknowledge(s) \/ Break(s)
    BY <1>4 DEF Deliver
  <2> QED
    BY <2>1, CmKept, PlaceKept, AcknowledgeKept, BreakKept
<1> QED
  BY <1>1, <1>2, <1>3, <1>4, KnockKept DEF Next

(* The inductive invariant, for any number of other clients and any choice *)
(* of faults.                                                              *)
THEOREM Inductive == Spec => []IInv
<1>1. Init => IInv
  BY InitIInv
<1>2. IInv /\ [Next]_vars => IInv'
  BY StepKept
<1> QED
  BY <1>1, <1>2, PTL DEF Spec

-----------------------------------------------------------------------------
(* What the runs check of the two programs.                                *)

(* Every variable keeps its type; no more requests are read than were      *)
(* made, nor more answered than were read.                                 *)
THEOREM TypeCorrect == Spec => []TypeOK
<1>1. IInv => TypeOK
  <2> SUFFICES ASSUME IInv PROVE TypeOK
    OBVIOUS
  <2>1. NetworkTypeOK
    <3>1. /\ wire \in [Side -> Seq(Message)]
          /\ rcq \in [Side -> Seq(Message \cup {"err"})]
          /\ tcq \in [Side -> Seq({"ok", "err"})]
      BY OneSeq DEF IInv, ShortQueues
    <3> QED
      BY <3>1 DEF IInv, Types, ShortQueues, NetworkTypeOK
  <2>2. strangers \in 0..Strangers /\ taken \in 0..Strangers + 1 /\ answered \in 0..taken
    <3>1. Cardinality(Knocks(eqq["server"])) \in Nat
      BY KnockAdded DEF IInv, Types, Side, ServerEvent
    <3>2. /\ taken \in Nat /\ strangers \in Nat /\ answered \in Nat
          /\ taken + strangers + Unsent + Cardinality(Knocks(eqq["server"])) <= Strangers + 1
          /\ taken = answered + 1 \/ taken = answered
      BY StrangersNumber DEF IInv, Answers
    <3>3. Unsent \in Nat
      BY DEF Unsent
    <3>4. strangers \in 0..Strangers
      BY DEF IInv, Answers
    <3> QED
      BY <3>1, <3>2, <3>3, <3>4, StrangersNumber
  <2>3. ServerEvent = {"client", "stranger", "connected", "shutdown", "refused"}
    BY DEF ServerEvent, ClientEvent
  <2>4. eqq \in [Side -> Seq({"client", "stranger", "connected", "shutdown", "refused"})]
    BY <2>3 DEF IInv, Types
  <2> QED
    BY <2>1, <2>2, <2>4 DEF IInv, Types, Answers, TypeOK, Side
<1> QED
  BY <1>1, Inductive, PTL

(* A message never finds a live endpoint without its receive.              *)
THEOREM ReceiverReady == Spec => []NoReceiverNotReady
<1>1. IInv => NoReceiverNotReady
  <2> SUFFICES ASSUME IInv, NEW s \in Side, s \notin gone \cup broken
               PROVE  Len(wire[s]) <= rq[s]
    BY DEF NoReceiverNotReady
  <2>1. wire[s] \in One(Message) /\ rq[s] \in {0, 1}
    BY DEF IInv, ShortQueues
  <2>2. CASE wire[s] = <<>>
    BY <2>1, <2>2
  <2>3. ASSUME NEW m \in Message, wire[s] = <<m>> PROVE Len(wire[s]) <= rq[s]
    <3>1. /\ m \in To(s) /\ wire[s] # <<>>
          /\ m = "hello" => pc["server"] \in 4..5
          /\ m = "world" => pc["client"] \in 5..5
          /\ m = "ack" => pc["server"] \in 8..8
      BY <2>3, UnderWay, Single
    <3>2. rq[s] = 1
      <4>1. CASE s = "client"
        BY <3>1, <4>1 DEF IInv, Receives, Live, To
      <4>2. CASE s = "server"
        BY <2>3, <3>1, <4>2 DEF IInv, Receives, Live, To
      <4> QED
        BY <4>1, <4>2 DEF Side
    <3> QED
      BY <2>3, <3>2
  <2> QED
    BY <2>1, <2>2, <2>3 DEF One
<1> QED
  BY <1>1, Inductive, PTL

(* While a flag is up the NIC does not hold that buffer.                   *)
THEOREM FlagsAreTrue == Spec => []FlagsCoverProvider
<1>1. IInv => FlagsCoverProvider
  BY DEF IInv, Flags, FlagsCoverProvider
<1> QED
  BY <1>1, Inductive, PTL

(* Every request the server has read is answered once by the time it ends. *)
THEOREM RequestsAlwaysAnswered == Spec => []RequestsAnswered
<1>1. IInv => RequestsAnswered
  BY DEF IInv, Answers, InHand, RequestsAnswered
<1> QED
  BY <1>1, Inductive, PTL

-----------------------------------------------------------------------------
(* The refinement of Handshake.                                            *)

(* The lines of a script before line n that say or hear a message.         *)
Spoken(s, n) ==
  {k \in 1..(n - 1) : Script[s][k][1] \in {"send", "wait"} /\ Script[s][k][2] # None}

(* The mapping, side by side.                                              *)
Count(s) == Cardinality(Spoken(s, pc[s]))
Outcome(s) == IF verdict[s] \in {"none", "ok"} THEN verdict[s] ELSE "failed"

(* The sizes of small sets.                                                *)
LEMMA Sizes ==
  ASSUME NEW a \in Nat, NEW b \in Nat, NEW c \in Nat, a # b, b # c, a # c
  PROVE  /\ Cardinality({}) = 0 /\ Cardinality({a}) = 1
         /\ Cardinality({a, b}) = 2 /\ Cardinality({a, b, c}) = 3
<1>1. IsFiniteSet({a}) /\ Cardinality({a}) = 1 /\ Cardinality({}) = 0
  BY FS_Singleton, FS_EmptySet
<1>2. IsFiniteSet({a, b}) /\ Cardinality({a, b}) = 2
  <2>1. {a, b} = {a} \cup {b} /\ b \notin {a}
    OBVIOUS
  <2>2. Cardinality({a} \cup {b}) = 1 + 1
    BY <1>1, <2>1, FS_AddElement
  <2> QED
    BY <1>1, <2>1, <2>2, FS_AddElement
<1>3. Cardinality({a, b, c}) = 3
  <2>1. {a, b, c} = {a, b} \cup {c} /\ c \notin {a, b}
    OBVIOUS
  <2>2. Cardinality({a, b} \cup {c}) = 2 + 1
    BY <1>2, <2>1, FS_AddElement
  <2> QED
    BY <2>1, <2>2
<1> QED
  BY <1>1, <1>2, <1>3

(* How far each phase of the client is in the conversation.                *)
LEMMA ClientSpoke ==
  ASSUME NEW n \in 1..8
  PROVE  /\ n <= 4 => Cardinality(Spoken("client", n)) = 0
         /\ n = 5 => Cardinality(Spoken("client", n)) = 1
         /\ n = 6 => Cardinality(Spoken("client", n)) = 2
         /\ n >= 7 => Cardinality(Spoken("client", n)) = 3
<1>1. Spoken("client", n) = {k \in 1..(n - 1) : k \in {4, 5, 6}}
  <2>1. \A k \in 1..(n - 1) :
          Script["client"][k][1] \in {"send", "wait"} /\ Script["client"][k][2] # None
            <=> k \in {4, 5, 6}
    <3> SUFFICES ASSUME NEW k \in 1..(n - 1)
                 PROVE  Script["client"][k][1] \in {"send", "wait"}
                          /\ Script["client"][k][2] # None <=> k \in {4, 5, 6}
      OBVIOUS
    <3>1. k \in 1..8
      OBVIOUS
    <3> QED
      BY <3>1, ClientCalls DEF None
  <2> QED
    BY <2>1 DEF Spoken
<1>2. n <= 4 => Spoken("client", n) = {}
  BY <1>1
<1>3. n = 5 => Spoken("client", n) = {4}
  BY <1>1
<1>4. n = 6 => Spoken("client", n) = {4, 5}
  BY <1>1
<1>5. n >= 7 => Spoken("client", n) = {4, 5, 6}
  BY <1>1
<1>6. /\ Cardinality({}) = 0 /\ Cardinality({4}) = 1
      /\ Cardinality({4, 5}) = 2 /\ Cardinality({4, 5, 6}) = 3
  <2>1. /\ 4 \in Nat /\ 5 \in Nat /\ 6 \in Nat
        /\ 4 # 5 /\ 5 # 6 /\ 4 # 6
    OBVIOUS
  <2> QED
    BY <2>1, Sizes, Zenon
<1> QED
  BY <1>2, <1>3, <1>4, <1>5, <1>6

(* And of the server.                                                      *)
LEMMA ServerSpoke ==
  ASSUME NEW n \in 1..9
  PROVE  /\ n <= 5 => Cardinality(Spoken("server", n)) = 0
         /\ n \in {6, 7} => Cardinality(Spoken("server", n)) = 1
         /\ n = 8 => Cardinality(Spoken("server", n)) = 2
         /\ n = 9 => Cardinality(Spoken("server", n)) = 3
<1>1. Spoken("server", n) = {k \in 1..(n - 1) : k \in {5, 7, 8}}
  <2>1. \A k \in 1..(n - 1) :
          Script["server"][k][1] \in {"send", "wait"} /\ Script["server"][k][2] # None
            <=> k \in {5, 7, 8}
    <3> SUFFICES ASSUME NEW k \in 1..(n - 1)
                 PROVE  Script["server"][k][1] \in {"send", "wait"}
                          /\ Script["server"][k][2] # None <=> k \in {5, 7, 8}
      OBVIOUS
    <3>1. k \in 1..9
      OBVIOUS
    <3> QED
      BY <3>1, ServerCalls DEF None
  <2> QED
    BY <2>1 DEF Spoken
<1>2. n <= 5 => Spoken("server", n) = {}
  BY <1>1
<1>3. n \in {6, 7} => Spoken("server", n) = {5}
  BY <1>1
<1>4. n = 8 => Spoken("server", n) = {5, 7}
  BY <1>1
<1>5. n = 9 => Spoken("server", n) = {5, 7, 8}
  BY <1>1
<1>6. /\ Cardinality({}) = 0 /\ Cardinality({5}) = 1
      /\ Cardinality({5, 7}) = 2 /\ Cardinality({5, 7, 8}) = 3
  <2>1. /\ 5 \in Nat /\ 7 \in Nat /\ 8 \in Nat
        /\ 5 # 7 /\ 7 # 8 /\ 5 # 8
    OBVIOUS
  <2> QED
    BY <2>1, Sizes, Zenon
<1> QED
  BY <1>2, <1>3, <1>4, <1>5, <1>6

(* The mapping's values, before and after a step.                          *)
Counted ==
  /\ pc["client"] <= 4 => Count("client") = 0
  /\ pc["client"] = 5 => Count("client") = 1
  /\ pc["client"] = 6 => Count("client") = 2
  /\ pc["client"] >= 7 => Count("client") = 3
  /\ pc["server"] <= 5 => Count("server") = 0
  /\ pc["server"] \in {6, 7} => Count("server") = 1
  /\ pc["server"] = 8 => Count("server") = 2
  /\ pc["server"] = 9 => Count("server") = 3

(* They hold in every state.                                               *)
LEMMA Counts ==
  ASSUME Types, pc' \in [Side -> 1..9], pc'["client"] \in 1..8
  PROVE  Counted /\ Counted'
<1>1. /\ pc["client"] \in 1..8 /\ pc["server"] \in 1..9 /\ pc'["server"] \in 1..9
  BY DEF Types, Side
<1>2. Counted
  BY <1>1, ClientSpoke, ServerSpoke DEF Counted, Count
<1>3. Counted'
  BY <1>1, ClientSpoke, ServerSpoke DEF Counted, Count
<1> QED
  BY <1>2, <1>3

(* What each kind of step is in the conversation.                          *)
LEMMA IsStutter ==
  ASSUME \A s \in Side : Count(s)' = Count(s) /\ Outcome(s)' = Outcome(s)
  PROVE  UNCHANGED Conversation!vars
<1> DEFINE heard == [r \in Side |-> Count(r)]
           outcome == [r \in Side |-> Outcome(r)]
<1>1. heard' = heard /\ outcome' = outcome
  OBVIOUS
<1> QED
  BY <1>1 DEF Conversation!vars, Count, Spoken, Outcome

(* A step in which a side takes part in one more message.                  *)
LEMMA IsAdvance ==
  ASSUME NEW s \in Side, verdict[s] = "none", UNCHANGED verdict,
         Count(s) \in 0..2, Count(s)' = Count(s) + 1, Count(Peer(s))' = Count(Peer(s)),
         s = "client" => Count(s) # 1 \/ Count(s) < Count(Peer(s)),
         s = "server" => Count(s) = 1 \/ Count(s) < Count(Peer(s))
  PROVE  Conversation!Next
<1> DEFINE heard == [r \in Side |-> Count(r)]
           outcome == [r \in Side |-> Outcome(r)]
<1>1. /\ outcome[s] = "none" /\ heard[s] < 3 /\ outcome' = outcome
      /\ heard' = [heard EXCEPT ![s] = @ + 1]
      /\ heard[s] = Count(s) /\ heard[Peer(s)] = Count(Peer(s))
  <2>1. heard[s] = Count(s) /\ heard[Peer(s)] = Count(Peer(s)) /\ Peer(s) # s
    BY PeerSide
  <2>2. outcome[s] = "none" /\ outcome' = outcome
    BY DEF Outcome
  <2>3. \A r \in Side : Count(r)' = IF r = s THEN Count(s) + 1 ELSE Count(r)
    BY DEF Side, Peer
  <2>4. heard' = [heard EXCEPT ![s] = @ + 1]
    BY <2>1, <2>3
  <2> QED
    BY <2>1, <2>2, <2>4
<1>2. Conversation!Peer(s) = Peer(s)
  BY DEF Conversation!Peer, Peer
<1>3. Conversation!Speaker(heard[s] + 1) = s \/ heard[s] < heard[Conversation!Peer(s)]
  <2>1. Conversation!Speaker(heard[s] + 1) = IF Count(s) = 1 THEN "server" ELSE "client"
    <3>1. heard[s] = Count(s) /\ Count(s) \in 0..2
      BY <1>1
    <3> HIDE DEF heard
    <3> QED
      BY <3>1 DEF Conversation!Speaker
  <2> QED
    BY <1>1, <1>2, <2>1 DEF Side
<1>4. Conversation!Advance(s)
  BY <1>1, <1>3 DEF Conversation!Advance, Count, Spoken, Outcome
<1> QED
  BY <1>4 DEF Conversation!Next, Conversation!Side, Side

(* A step that ends a side's part.                                         *)
LEMMA IsConclude ==
  ASSUME NEW s \in Side, IInv, NEW v, v # "none", verdict[s] = "none",
         verdict' = [verdict EXCEPT ![s] = v], UNCHANGED pc,
         v = "ok" => Count(s) = 3
  PROVE  Conversation!Next
<1> DEFINE heard == [r \in Side |-> Count(r)]
           outcome == [r \in Side |-> Outcome(r)]
           w == IF v = "ok" THEN "ok" ELSE "failed"
<1>1. /\ outcome[s] = "none" /\ (w = "ok" => heard[s] = 3) /\ heard' = heard
      /\ outcome' = [outcome EXCEPT ![s] = w]
  <2>1. \A r \in Side : Count(r)' = Count(r)
    BY DEF Count
  <2>2. outcome' = [outcome EXCEPT ![s] = w]
    BY DEF Outcome, IInv, Types
  <2> QED
    BY <2>1, <2>2 DEF Outcome
<1>2. Conversation!Conclude(s, w)
  BY <1>1 DEF Conversation!Conclude, Count, Spoken, Outcome
<1> QED
  BY <1>2 DEF Conversation!Next, Conversation!Side, Side

(* A step that changes neither the phases nor the verdicts.                *)
LEMMA IsQuiet ==
  ASSUME UNCHANGED <<pc, verdict>>
  PROVE  UNCHANGED Conversation!vars
<1>1. \A s \in Side : Count(s)' = Count(s) /\ Outcome(s)' = Outcome(s)
  BY DEF Count, Outcome
<1> QED
  BY <1>1, IsStutter

(* A program goes to out.                                                  *)
LEMMA FailMaps ==
  ASSUME IInv, NEW s \in Side, poll[s] \notin {"out", "done"},
         NEW why, why \notin {"none", "ok"}, Fail(s, why)
  PROVE  Conversation!Next
<1>1. verdict[s] = "none" /\ verdict' = [verdict EXCEPT ![s] = why] /\ UNCHANGED pc
  BY DEF IInv, Control, Fail
<1> QED
  BY <1>1, IsConclude

(* A program enters its next phase: it has said or heard a message if that *)
(* is what the phase was for, and it hears only what the other has said.   *)
LEMMA AdvanceMaps ==
  ASSUME IInv, NEW s \in Side, poll[s] \notin {"out", "done"}, Advance(s),
         Call(s) # "end", Call(s) = "wait" => tx_done[s] /\ rx_done[s]
  PROVE  Conversation!Next \/ UNCHANGED Conversation!vars
<1>1. /\ Types
      /\ verdict[s] = "none"
      /\ pc[s] \in IF s = "client" THEN 1..7 ELSE 1..8
      /\ pc[s] \in {5, 8} /\ s = "server" => rx_done[s]
      /\ pc[s] = 5 /\ s = "client" => rx_done[s] /\ tx_done[s]
  <2>1. Types /\ verdict[s] = "none"
    BY DEF IInv, Control
  <2>2. CASE s = "client"
    <3>1. pc[s] # 8 /\ (pc[s] = 5 => rx_done[s] /\ tx_done[s])
      BY <2>1, <2>2, Phases
    <3> QED
      BY <2>1, <2>2, <3>1 DEF Types
  <2>3. CASE s = "server"
    <3>1. pc[s] # 9 /\ (pc[s] \in {5, 8} => rx_done[s])
      BY <2>1, <2>3, Phases
    <3> QED
      BY <2>1, <2>3, <3>1 DEF Types
  <2> QED
    BY <2>2, <2>3 DEF Side
<1>2. pc[s] + 1 \in (IF s = "client" THEN {4, 6} ELSE {7}) => tx_done[s]
  BY <1>1 DEF IInv, Flags, Side
<1>3. /\ pc' \in [Side -> 1..9] /\ pc'["client"] \in 1..8 /\ pc'[s] = pc[s] + 1
      /\ verdict' = verdict /\ \A r \in Side \ {s} : pc'[r] = pc[r]
  BY <1>1, <1>2, Advances
<1>4. Counted /\ Counted'
  BY <1>1, <1>3, Counts
<1>5. \A r \in Side : Outcome(r)' = Outcome(r)
  BY <1>3 DEF Outcome
<1>6. CASE s = "client"
  <2>1. /\ pc["client"] \in 1..7 /\ pc'["client"] = pc["client"] + 1
        /\ Count("server")' = Count("server")
    BY <1>1, <1>3, <1>6 DEF Count, Side
  <2>2. pc["client"] = 5 => pc["server"] >= 8
    BY <1>1, <1>6, Talk DEF Heard, Said
  <2>3. CASE pc["client"] \in {1, 2, 3, 7}
    <3>1. Count("client")' = Count("client")
      BY <1>4, <2>1, <2>3 DEF Counted
    <3> QED
      BY <1>5, <2>1, <3>1, IsStutter DEF Side
  <2>4. CASE pc["client"] \in {4, 5, 6}
    <3>1. /\ Count("client") \in 0..2 /\ Count("client")' = Count("client") + 1
          /\ Count("client") # 1 \/ Count("client") < Count("server")
      <4>1. pc["server"] \in 1..9
        BY <1>1 DEF Types, Side
      <4> QED
        BY <1>4, <2>1, <2>2, <2>4, <4>1 DEF Counted
    <3> QED
      BY <1>1, <1>3, <1>6, <2>1, <3>1, IsAdvance DEF Peer
  <2> QED
    BY <2>1, <2>3, <2>4
<1>7. CASE s = "server"
  <2>1. /\ pc["server"] \in 1..8 /\ pc'["server"] = pc["server"] + 1
        /\ Count("client")' = Count("client")
    BY <1>1, <1>3, <1>7 DEF Count, Side
  <2>2. /\ pc["server"] = 5 => pc["client"] >= 5
        /\ pc["server"] = 8 => pc["client"] >= 7
    BY <1>1, <1>7, Talk DEF Heard, Said
  <2>3. CASE pc["server"] \in {1, 2, 3, 4, 6}
    <3>1. Count("server")' = Count("server")
      BY <1>4, <2>1, <2>3 DEF Counted
    <3> QED
      BY <1>5, <2>1, <3>1, IsStutter DEF Side
  <2>4. CASE pc["server"] \in {5, 7, 8}
    <3>1. /\ Count("server") \in 0..2 /\ Count("server")' = Count("server") + 1
          /\ Count("server") = 1 \/ Count("server") < Count("client")
      <4>1. pc["client"] \in 1..8
        BY <1>1 DEF Types
      <4> QED
        BY <1>4, <2>1, <2>2, <2>4, <4>1 DEF Counted
    <3> QED
      BY <1>1, <1>3, <1>7, <2>1, <3>1, IsAdvance DEF Peer
  <2> QED
    BY <2>1, <2>3, <2>4
<1> QED
  BY <1>6, <1>7 DEF Side

(* The phases, step by step.                                               *)
LEMMA PhaseMaps ==
  ASSUME IInv, NEW s \in Side,
         \/ WaitEvent(s) \/ Connect(s) \/ Accept(s) \/ PostReceive(s)
         \/ SendMessage(s) \/ Back(s)
  PROVE  Conversation!Next \/ UNCHANGED Conversation!vars
<1>1. \/ UNCHANGED <<pc, verdict>>
      \/ \E why \in {"event", "content"} : Fail(s, why)
      \/ Advance(s) /\ Call(s) # "end" /\ (Call(s) = "wait" => tx_done[s] /\ rx_done[s])
  <2>1. CASE WaitEvent(s)
    BY <2>1 DEF WaitEvent
  <2>2. CASE Connect(s) \/ Accept(s) \/ PostReceive(s) \/ SendMessage(s)
    BY <2>2 DEF Connect, Accept, PostReceive, SendMessage
  <2>3. CASE Back(s)
    BY <2>3 DEF Back
  <2> QED
    BY <2>1, <2>2, <2>3
<1>2. poll[s] \notin {"out", "done"}
  BY DEF WaitEvent, Connect, Accept, PostReceive, SendMessage, Back
<1> QED
  BY <1>1, <1>2, IsQuiet, FailMaps, AdvanceMaps

(* progress(), and what else can only end the program.                     *)
LEMMA CallMaps ==
  ASSUME IInv, NEW s \in Side,
         PollTx(s) \/ PollRx(s) \/ PollEq(s) \/ SetupFails(s) \/ CallFails(s) \/ Timeout(s)
  PROVE  Conversation!Next \/ UNCHANGED Conversation!vars
<1>1. poll[s] \notin {"out", "done"}
  BY DEF PollTx, PollRx, PollEq, SetupFails, CallFails, Timeout
<1>2. \/ UNCHANGED <<pc, verdict>>
      \/ \E why \in {"completion", "ended", "setup", "call", "timeout"} : Fail(s, why)
  BY DEF PollTx, PollRx, PollEq, SetupFails, CallFails, Timeout
<1> QED
  BY <1>1, <1>2, IsQuiet, FailMaps

(* A program passes at the end of its script only.                         *)
LEMMA PassedMaps ==
  ASSUME IInv, NEW s \in Side, Passed(s)
  PROVE  Conversation!Next
<1>1. /\ Types
      /\ verdict[s] = "none" /\ verdict' = [verdict EXCEPT ![s] = "ok"] /\ UNCHANGED pc
      /\ pc[s] = IF s = "client" THEN 8 ELSE 9
  BY Phases DEF Passed, IInv, Control
<1>2. Counted
  BY <1>1, Counts DEF Types
<1>3. Count(s) = 3
  BY <1>1, <1>2 DEF Counted, Side
<1> QED
  BY <1>1, <1>3, IsConclude

(* The two programs hold the conversation of Handshake.                    *)
THEOREM Refinement == Spec => ImplementsHandshake
<1>1. Init => Conversation!Init
  <2> SUFFICES ASSUME Init PROVE Conversation!Init
    OBVIOUS
  <2> DEFINE heard == [r \in Side |-> Count(r)]
             outcome == [r \in Side |-> Outcome(r)]
  <2>1. \A r \in Side : pc[r] = 1 /\ verdict[r] = "none"
    BY DEF Init
  <2>2. \A r \in Side : Count(r) = 0
    BY <2>1, ClientSpoke, ServerSpoke DEF Count, Side
  <2>3. heard = [r \in Side |-> 0] /\ outcome = [r \in Side |-> "none"]
    BY <2>1, <2>2 DEF Outcome
  <2> QED
    BY <2>3 DEF Conversation!Init, Conversation!Side, Side, Count, Spoken, Outcome
<1>2. IInv /\ [Next]_vars => [Conversation!Next]_Conversation!vars
  <2> SUFFICES ASSUME IInv, [Next]_vars
               PROVE  Conversation!Next \/ UNCHANGED Conversation!vars
    OBVIOUS
  <2>1. CASE UNCHANGED vars
    BY <2>1, IsQuiet DEF vars
  <2>2. CASE Knock
    BY <2>2, IsQuiet DEF Knock
  <2>3. ASSUME NEW s \in Side, Deliver(s)
        PROVE  Conversation!Next \/ UNCHANGED Conversation!vars
    BY <2>3, IsQuiet DEF Deliver, Quiet
  <2>4. ASSUME NEW s \in Side, Step(s) \/ Timeout(s)
        PROVE  Conversation!Next \/ UNCHANGED Conversation!vars
    <3>1. CASE Round(s) \/ Cleanup(s)
      BY <3>1, IsQuiet DEF Round, Cleanup
    <3>2. CASE \/ WaitEvent(s) \/ Connect(s) \/ Accept(s) \/ PostReceive(s)
               \/ SendMessage(s) \/ Back(s)
      BY <3>2, PhaseMaps
    <3>3. CASE PollTx(s) \/ PollRx(s) \/ PollEq(s)
      BY <3>3, CallMaps
    <3>4. CASE SetupFails(s) \/ CallFails(s) \/ Timeout(s)
      BY <3>4, CallMaps
    <3>5. CASE Passed(s)
      BY <3>5, PassedMaps
    <3> QED
      BY <2>4, <3>1, <3>2, <3>3, <3>4, <3>5 DEF Step
  <2> QED
    BY <2>1, <2>2, <2>3, <2>4 DEF Next
<1> QED
  BY <1>1, <1>2, Inductive, PTL DEF Spec, Conversation!Spec, ImplementsHandshake

(* What Handshake promises, of the two programs: they are never more than  *)
(* one message apart, and one that passes knows that the other has taken   *)
(* part in all but the last.                                               *)
THEOREM StaysInStep == Spec => []Conversation!InStep
<1>1. IInv => Conversation!InStep
  <2> SUFFICES ASSUME IInv PROVE Conversation!InStep
    OBVIOUS
  <2> DEFINE heard == [r \in Side |-> Count(r)]
             outcome == [r \in Side |-> Outcome(r)]
  <2>1. pc["client"] \in 1..8 /\ pc["server"] \in 1..9
    BY DEF IInv, Types, Side
  <2>2. Counted
    BY <2>1, ClientSpoke, ServerSpoke DEF Counted, Count
  <2>3. /\ pc["client"] >= 6 => pc["server"] >= 8
        /\ pc["client"] <= 4 => pc["server"] <= 5
        /\ pc["server"] >= 9 => pc["client"] >= 7
    <3>1. /\ pc["client"] >= 6 => rx_done["client"]
          /\ pc["server"] >= 9 => rx_done["server"]
      BY DEF IInv, Flags
    <3> QED
      BY <2>1, <3>1, Talk DEF Heard, Said
  <2>4. /\ Count("client") \in 0..3 /\ Count("server") \in 0..3
        /\ Count("client") <= Count("server") + 1
        /\ Count("server") <= Count("client") + 1
    BY <2>1, <2>2, <2>3 DEF Counted
  <2>5. \A s \in Side : verdict[s] = "ok" => pc[s] = IF s = "client" THEN 8 ELSE 9
    BY DEF IInv, Control
  <2>6. /\ verdict["client"] = "ok" => Count("server") >= 2
        /\ verdict["server"] = "ok" => Count("client") >= 2
    BY <2>1, <2>2, <2>3, <2>5 DEF Counted, Side
  <2>7. /\ heard["client"] = Count("client") /\ heard["server"] = Count("server")
        /\ \A s \in Side : outcome[s] = "ok" => verdict[s] = "ok"
    BY DEF Side, Outcome
  <2>8. \A s \in Side : /\ heard[s] <= heard[Conversation!Peer(s)] + 1
                        /\ outcome[s] = "ok" => heard[Conversation!Peer(s)] >= 2
    <3> HIDE DEF heard, outcome
    <3> QED
      BY <2>4, <2>6, <2>7 DEF Conversation!Peer, Side
  <2> QED
    BY <2>8 DEF Conversation!InStep, Conversation!Side, Side, Count, Spoken, Outcome
<1> QED
  BY <1>1, Inductive, PTL
=============================================================================
