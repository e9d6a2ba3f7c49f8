---------------------------- MODULE ExchangeProofs ----------------------------
(***************************************************************************)
(* Proofs about Exchange, for every interleaving of the two programs with  *)
(* the provider and for any choice of faults: the type invariant, the      *)
(* safety properties, and that the exchange implements Handshake.          *)
(***************************************************************************)
EXTENDS Exchange, NetworkProofs

(* The types of all variables but the queues of the provider.              *)
Types ==
  /\ pc \in [Side -> {"wait", "init", "cm", "tx", "rx", "eq", "handle",
                      "repost", "send", "close", "done"}]
  /\ cli \in [connected : BOOLEAN, hello_posted : BOOLEAN,
              hello_completed : BOOLEAN, world_received : BOOLEAN,
              ack_posted : BOOLEAN, ack_completed : BOOLEAN,
              peer_closed : BOOLEAN]
  /\ srv \in [phase : {"Hello", "Reply", "Ack", "Done"}, connected : BOOLEAN,
              sent : BOOLEAN, peer_closed : BOOLEAN]
  /\ conn \in [Side -> [tx : BOOLEAN, rx : BOOLEAN]]
  /\ events \in [Side -> Seq(Event)]
  /\ verdict \in [Side -> {"none", "ok", "timeout", "setup", "transport", "protocol"}]
  /\ link \in {"none", "requested", "accepted", "rejected"}
  /\ est \subseteq Side /\ told \subseteq Side
  /\ gone \subseteq Side /\ broken \subseteq Side
  /\ eqq \in [Side -> Seq(CmEvent)]

(* An event that poll() has gathered and the exchange has not handled.     *)
Has(s, x) == \E i \in DOMAIN events[s] : events[s][i] = x
Once(s) == \A i, j \in DOMAIN events[s] : events[s][i] = events[s][j] => i = j

(* The endpoint receives messages.                                         *)
Live(s) == s \notin gone \cup broken

(* Who a message is for, whether it has been said, and heard.              *)
To(s) == IF s = "client" THEN {"world"} ELSE {"hello", "ack"}
Said(m) ==
  \/ m = "hello" /\ cli.hello_posted
  \/ m = "world" /\ srv.phase \in {"Ack", "Done"}
  \/ m = "ack" /\ cli.ack_posted
Heard(m) ==
  \/ m = "hello" /\ srv.phase # "Hello"
  \/ m = "world" /\ cli.world_received
  \/ m = "ack" /\ srv.phase = "Done"

(* What is known at each place of a program.                               *)
Control ==
  /\ pc["client"] \notin {"wait", "repost"}
  /\ \A s \in Side :
       /\ verdict[s] = "none" <=> pc[s] \notin {"close", "done"}
       /\ verdict[s] # "protocol"
       /\ s \in gone <=> pc[s] = "done"
  /\ pc["client"] = "send" => NextMessage # "none"
  /\ pc["server"] = "send" => srv.phase = "Reply" /\ conn["server"].rx
  /\ pc["server"] = "repost" => srv.phase = "Reply" /\ ~conn["server"].rx
  /\ verdict["client"] = "ok" => ClientComplete
  /\ verdict["server"] = "ok" => ServerComplete

(* What poll() has gathered so far.                                        *)
Gathered ==
  \A s \in Side :
    /\ pc[s] \notin {"rx", "eq", "handle"} => \A x \in Event : ~Has(s, x)
    /\ pc[s] = "rx" => \A x \in Event : Has(s, x) => x = "sent"
    /\ pc[s] = "eq" => \A x \in Event : Has(s, x) => x \in Message \cup {"sent"}
    /\ Once(s)

(* How far the connection is when a program is at a place.                 *)
Connected ==
  /\ broken \subseteq est
  /\ est # {} => link = "accepted"
  /\ pc["client"] \in {"init", "cm"} => link = "none"
  /\ pc["server"] = "wait" => link \in {"none", "requested"}
  /\ pc["server"] \in {"init", "cm"} => link = "requested"
  /\ cli.connected \/ Has("client", "connected") => "client" \in est
  /\ \A i \in DOMAIN eqq["client"] : eqq["client"][i] = "connected" => "client" \in est

(* The pending flags against the provider, and the events against them.    *)
Slots ==
  \A s \in Side :
    /\ ~conn[s].tx => txwr[s] = "none" /\ tcq[s] = <<>>
    /\ ~conn[s].rx => rq[s] = 0 /\ rcq[s] = <<>>
    /\ pc[s] \in {"wait", "init"} => ~conn[s].rx
    /\ conn[s].rx => \A m \in Message : ~Has(s, m)
    /\ conn[s].tx => ~Has(s, "sent")

(* A message is in one place between the step that says it and the step    *)
(* that hears it, and they follow each other.                              *)
Journeys ==
  /\ \A s \in Side, m \in Message :
       /\ wire[s] = <<m>> \/ rcq[s] = <<m>> \/ Has(s, m) =>
            m \in To(s) /\ Said(m) /\ ~Heard(m)
       /\ wire[s] = <<m>> => rcq[s] # <<m>> /\ ~Has(s, m)
  /\ \A m \in Message : Heard(m) => Said(m)
  /\ Said("world") => Heard("hello")
  /\ Said("ack") => Heard("world") /\ cli.hello_completed
  /\ Said("hello") => cli.connected

(* A busy send slot, or an unhandled completion, is that of a message      *)
(* whose completion the exchange still waits for.                          *)
Sends ==
  /\ cli.hello_completed => cli.hello_posted
  /\ cli.ack_completed => cli.ack_posted
  /\ verdict["client"] = "none" /\ (conn["client"].tx \/ Has("client", "sent")) =>
       \/ cli.hello_posted /\ ~cli.hello_completed
       \/ cli.ack_posted /\ ~cli.ack_completed
  /\ conn["server"].tx \/ Has("server", "sent") => srv.phase \in {"Ack", "Done"}

(* A message that is not heard yet, and may be under way, finds a receive. *)
Receives ==
  /\ Live("client") /\ pc["client"] # "init"
       /\ (cli.hello_posted \/ verdict["client"] = "none")
       /\ (~Said("world") \/ wire["client"] # <<>>) => rq["client"] = 1
  /\ Live("server") /\ (pc["server"] = "cm" \/ link = "accepted")
       /\ (~Said("hello") \/ wire["server"] = <<"hello">>) => rq["server"] = 1
  /\ Live("server") /\ srv.phase = "Reply" /\ conn["server"].rx => rq["server"] = 1
  /\ Live("server") /\ srv.phase = "Ack"
       /\ (~Said("ack") \/ wire["server"] = <<"ack">>) => rq["server"] = 1

(* A send that completes has reached the peer: for ack, the last one, the  *)
(* client's success depends on it.                                         *)
AckReaches ==
  cli.ack_posted /\ verdict["server"] = "none"
  /\ (txwr["client"] = "placed" \/ tcq["client"] = <<"ok">>
      \/ Has("client", "sent") \/ cli.ack_completed)
  => Heard("ack") \/ rcq["server"] = <<"ack">> \/ Has("server", "ack")

IInv ==
  /\ Types /\ ShortQueues /\ Control /\ Gathered /\ Connected
  /\ Slots /\ Journeys /\ Sends /\ Receives /\ AckReaches

-----------------------------------------------------------------------------
(* The vector of events.                                                   *)

(* An event is added.                                                      *)
LEMMA EventAdded ==
  ASSUME events \in [Side -> Seq(Event)], NEW s \in Side, NEW e \in Event,
         events' = [events EXCEPT ![s] = Append(@, e)],
         ~Has(s, e), \A r \in Side : Once(r)
  PROVE  /\ events' \in [Side -> Seq(Event)]
         /\ \A r \in Side : Once(r)'
         /\ \A r \in Side, x \in Event : Has(r, x)' <=> Has(r, x) \/ (r = s /\ x = e)
<1>1. events'[s] = Append(events[s], e) /\ \A r \in Side \ {s} : events'[r] = events[r]
  OBVIOUS
<1>2. /\ Append(events[s], e) \in Seq(Event)
      /\ DOMAIN events'[s] = 1..(Len(events[s]) + 1) /\ DOMAIN events[s] = 1..Len(events[s])
      /\ events'[s][Len(events[s]) + 1] = e
      /\ \A i \in DOMAIN events[s] : events'[s][i] = events[s][i]
      /\ Len(events[s]) \in Nat
  BY <1>1, AppendProperties
<1>3. events' \in [Side -> Seq(Event)]
  BY <1>2
<1>4. \A i \in DOMAIN events'[s] : i \in DOMAIN events[s] \/ i = Len(events[s]) + 1
  BY <1>2
<1>5. Once(s)'
  BY <1>2, <1>4 DEF Once, Has
<1>6. ASSUME NEW x \in Event PROVE Has(s, x)' <=> Has(s, x) \/ x = e
  <2>1. Has(s, x)' => Has(s, x) \/ x = e
    BY <1>2, <1>4 DEF Has
  <2>2. Has(s, x) => Has(s, x)'
    BY <1>2 DEF Has
  <2>3. x = e => Has(s, x)'
    BY <1>2 DEF Has
  <2> QED
    BY <2>1, <2>2, <2>3
<1>7. ASSUME NEW r \in Side, r # s, NEW x \in Event
      PROVE  Once(r)' /\ (Has(r, x)' <=> Has(r, x))
  BY <1>1, <1>7 DEF Once, Has
<1> QED
  BY <1>3, <1>5, <1>6, <1>7 DEF Event

(* The next event is handled.                                              *)
LEMMA EventHandled ==
  ASSUME events \in [Side -> Seq(Event)], NEW s \in Side, events[s] # <<>>,
         events' = [events EXCEPT ![s] = Tail(@)], \A r \in Side : Once(r)
  PROVE  /\ events' \in [Side -> Seq(Event)]
         /\ Head(events[s]) \in Event /\ Has(s, Head(events[s]))
         /\ \A r \in Side : Once(r)'
         /\ \A r \in Side, x \in Event :
              Has(r, x)' <=> Has(r, x) /\ ~(r = s /\ x = Head(events[s]))
<1>1. events'[s] = Tail(events[s]) /\ \A r \in Side \ {s} : events'[r] = events[r]
  OBVIOUS
<1>2. /\ Tail(events[s]) \in Seq(Event) /\ Head(events[s]) \in Event
      /\ 1 \in DOMAIN events[s] /\ Head(events[s]) = events[s][1]
      /\ \A i \in DOMAIN events'[s] : /\ i \in Nat /\ i + 1 \in DOMAIN events[s] /\ i + 1 # 1
                                      /\ events'[s][i] = events[s][i + 1]
      /\ \A i \in DOMAIN events[s] : /\ i \in Nat
                                     /\ i = 1 \/ /\ i - 1 \in DOMAIN events'[s]
                                                 /\ events'[s][i - 1] = events[s][i]
  BY <1>1, HeadTailProperties
<1>3. events' \in [Side -> Seq(Event)]
  BY <1>2
<1>4. Once(s)'
  <2> SUFFICES ASSUME NEW i \in DOMAIN events'[s], NEW j \in DOMAIN events'[s],
                      events'[s][i] = events'[s][j]
               PROVE  i = j
    BY DEF Once
  <2>1. i + 1 = j + 1
    BY <1>2 DEF Once
  <2> QED
    BY <1>2, <2>1
<1>5. ASSUME NEW x \in Event PROVE Has(s, x)' <=> Has(s, x) /\ x # Head(events[s])
  <2>1. Has(s, x)' => Has(s, x) /\ x # Head(events[s])
    BY <1>2 DEF Has, Once
  <2>2. ASSUME Has(s, x), x # Head(events[s]) PROVE Has(s, x)'
    <3>1. PICK i \in DOMAIN events[s] : events[s][i] = x
      BY <2>2 DEF Has
    <3>2. i - 1 \in DOMAIN events'[s] /\ events'[s][i - 1] = x
      BY <1>2, <2>2, <3>1
    <3> QED
      BY <3>2 DEF Has
  <2> QED
    BY <2>1, <2>2
<1>6. ASSUME NEW r \in Side, r # s, NEW x \in Event
      PROVE  Once(r)' /\ (Has(r, x)' <=> Has(r, x))
  BY <1>1, <1>6 DEF Once, Has
<1>7. Has(s, Head(events[s]))
  BY <1>2 DEF Has
<1> QED
  BY <1>2, <1>3, <1>4, <1>5, <1>6, <1>7 DEF Event

(* The vector is dropped.                                                  *)
LEMMA EventsDropped ==
  ASSUME events \in [Side -> Seq(Event)], NEW s \in Side,
         events' = [events EXCEPT ![s] = <<>>], \A r \in Side : Once(r)
  PROVE  /\ events' \in [Side -> Seq(Event)]
         /\ \A r \in Side : Once(r)'
         /\ \A r \in Side, x \in Event : Has(r, x)' <=> Has(r, x) /\ r # s
<1>1. events'[s] = <<>> /\ \A r \in Side \ {s} : events'[r] = events[r]
  OBVIOUS
<1>2. events' \in [Side -> Seq(Event)]
  OBVIOUS
<1> QED
  BY <1>1, <1>2 DEF Once, Has

(* The vector stays.                                                       *)
LEMMA EventsKept ==
  ASSUME UNCHANGED events
  PROVE  /\ \A r \in Side : Once(r)' <=> Once(r)
         /\ \A r \in Side, x \in Event : Has(r, x)' <=> Has(r, x)
BY DEF Once, Has

(* It is empty exactly when it has no event.                               *)
LEMMA EventsNone ==
  ASSUME events \in [Side -> Seq(Event)], NEW s \in Side
  PROVE  events[s] = <<>> <=> \A x \in Event : ~Has(s, x)
<1>1. CASE events[s] = <<>>
  BY <1>1 DEF Has
<1>2. CASE events[s] # <<>>
  <2>1. 1 \in DOMAIN events[s] /\ events[s][1] \in Event
    BY <1>2
  <2> QED
    BY <1>2, <2>1 DEF Has
<1> QED
  BY <1>1, <1>2

(* One pending flag is set or cleared.                                     *)
LEMMA SlotChange ==
  ASSUME conn \in [Side -> [tx : BOOLEAN, rx : BOOLEAN]], NEW s \in Side, NEW b \in BOOLEAN
  PROVE  /\ conn' = [conn EXCEPT ![s].rx = b] =>
              /\ conn' \in [Side -> [tx : BOOLEAN, rx : BOOLEAN]]
              /\ \A r \in Side : conn'[r].tx <=> conn[r].tx
              /\ \A r \in Side \ {s} : conn'[r].rx <=> conn[r].rx
              /\ conn'[s].rx <=> b
         /\ conn' = [conn EXCEPT ![s].tx = b] =>
              /\ conn' \in [Side -> [tx : BOOLEAN, rx : BOOLEAN]]
              /\ \A r \in Side : conn'[r].rx <=> conn[r].rx
              /\ \A r \in Side \ {s} : conn'[r].tx <=> conn[r].tx
              /\ conn'[s].tx <=> b
<1>1. /\ [conn EXCEPT ![s].rx = b] \in [Side -> [tx : BOOLEAN, rx : BOOLEAN]]
      /\ [conn EXCEPT ![s].tx = b] \in [Side -> [tx : BOOLEAN, rx : BOOLEAN]]
  OBVIOUS
<1>2. ASSUME conn' = [conn EXCEPT ![s].rx = b]
      PROVE  /\ \A r \in Side \ {s} : conn'[r] = conn[r]
             /\ conn'[s] = [conn[s] EXCEPT !.rx = b]
  BY <1>2
<1>3. ASSUME conn' = [conn EXCEPT ![s].tx = b]
      PROVE  /\ \A r \in Side \ {s} : conn'[r] = conn[r]
             /\ conn'[s] = [conn[s] EXCEPT !.tx = b]
  BY <1>3
<1>4. conn[s] \in [tx : BOOLEAN, rx : BOOLEAN]
  OBVIOUS
<1>5. /\ [conn[s] EXCEPT !.rx = b].rx <=> b
      /\ [conn[s] EXCEPT !.rx = b].tx <=> conn[s].tx
      /\ [conn[s] EXCEPT !.tx = b].tx <=> b
      /\ [conn[s] EXCEPT !.tx = b].rx <=> conn[s].rx
  BY <1>4
<1> QED
  BY <1>1, <1>2, <1>3, <1>5

-----------------------------------------------------------------------------
(* Steps that only move a program on.                                      *)

(* A program goes on to its next call and the rest of the state is as it   *)
(* was.                                                                    *)
LEMMA MovesOn ==
  ASSUME IInv, NEW s \in Side, NEW l \in {"init", "tx", "rx", "eq", "handle", "repost", "send"},
         pc' = [pc EXCEPT ![s] = l], pc[s] \notin {"close", "done"},
         UNCHANGED <<cli, srv, conn, events, verdict, network>>,
         s = "client" => pc[s] # "init" /\ l \notin {"init", "repost"},
         l = "init" => link = "requested" /\ pc[s] = "wait",
         l = "rx" => pc[s] = "tx", l = "eq" => pc[s] = "rx",
         l \in {"tx", "repost", "send"} => events[s] = <<>>,
         l = "send" /\ s = "client" => NextMessage # "none",
         l = "send" /\ s = "server" => srv.phase = "Reply" /\ conn[s].rx,
         l = "repost" => srv.phase = "Reply" /\ ~conn[s].rx
  PROVE  IInv'
<1> USE DEF Side, network, cm, nic
<1>1. \A r \in Side : pc'[r] = IF r = s THEN l ELSE pc[r]
  BY DEF IInv, Types
<1>2. Types' /\ ShortQueues'
  BY DEF IInv, Types, ShortQueues
<1>3. Control'
  BY <1>1 DEF IInv, Control, NextMessage, ClientComplete, ServerComplete
<1>4. Gathered'
  BY <1>1, EventsKept, EventsNone DEF IInv, Types, Gathered
<1>5. Connected'
  BY <1>1, EventsKept DEF IInv, Connected, Has
<1>6. Slots'
  BY <1>1, EventsKept DEF IInv, Slots, Has
<1>7. Journeys'
  BY <1>1 DEF IInv, Journeys, Said, Heard, To, Has
<1>8. Sends'
  BY <1>1 DEF IInv, Sends, Has
<1>9. Receives'
  BY <1>1 DEF IInv, Receives, Said, Live
<1>10. AckReaches'
  BY <1>1 DEF IInv, AckReaches, Heard, Has
<1> QED
  BY <1>2, <1>3, <1>4, <1>5, <1>6, <1>7, <1>8, <1>9, <1>10 DEF IInv

(* A program gives up, whatever it has just read.                          *)
LEMMA GivesUp ==
  ASSUME IInv, NEW s \in Side, NEW why \in {"timeout", "setup", "transport"},
         pc[s] \notin {"close", "done"}, Fail(s, why),
         ShortQueues',
         link' = link \/ (link' = "rejected" /\ pc[s] \in {"init", "cm"} /\ s = "server"),
         tcq' \in {tcq, [tcq EXCEPT ![s] = <<>>]},
         rcq' \in {rcq, [rcq EXCEPT ![s] = <<>>]},
         eqq' \in {eqq, [eqq EXCEPT ![s] = Tail(@)]}, eqq' # eqq => eqq[s] # <<>>,
         UNCHANGED <<cli, srv, conn, est, told, gone, broken, rq, wire, txwr>>
  PROVE  IInv'
<1> USE DEF Side
<1>1. /\ \A r \in Side : pc'[r] = IF r = s THEN "close" ELSE pc[r]
      /\ \A r \in Side : verdict'[r] = IF r = s THEN why ELSE verdict[r]
      /\ events' = [events EXCEPT ![s] = <<>>]
      /\ pc' = [pc EXCEPT ![s] = "close"] /\ verdict' = [verdict EXCEPT ![s] = why]
  <2>1. /\ events' = [events EXCEPT ![s] = <<>>]
        /\ pc' = [pc EXCEPT ![s] = "close"] /\ verdict' = [verdict EXCEPT ![s] = why]
    BY DEF Fail, Goto
  <2> QED
    BY <2>1 DEF IInv, Types
<1>2. /\ events' \in [Side -> Seq(Event)]
      /\ \A r \in Side : Once(r)'
      /\ \A r \in Side, x \in Event : Has(r, x)' <=> Has(r, x) /\ r # s
  BY <1>1, EventsDropped DEF IInv, Types, Gathered
<1>3. \A r \in Side : /\ rcq'[r] \in {rcq[r], <<>>} /\ tcq'[r] \in {tcq[r], <<>>}
                      /\ r # s => rcq'[r] = rcq[r] /\ tcq'[r] = tcq[r]
  BY DEF IInv, ShortQueues
<1>4. /\ eqq' \in [Side -> Seq(CmEvent)]
      /\ (\E i \in DOMAIN eqq'["client"] : eqq'["client"][i] = "connected")
           => \E i \in DOMAIN eqq["client"] : eqq["client"][i] = "connected"
  <2>1. CASE eqq' = eqq
    BY <2>1 DEF IInv, Types
  <2>2. CASE eqq' # eqq
    <3>1. eqq[s] \in Seq(CmEvent) /\ eqq[s] # <<>> /\ eqq' = [eqq EXCEPT ![s] = Tail(eqq[s])]
      BY <2>2 DEF IInv, Types
    <3>2. /\ Tail(eqq[s]) \in Seq(CmEvent)
          /\ \A i \in DOMAIN Tail(eqq[s]) : i + 1 \in DOMAIN eqq[s]
                                            /\ Tail(eqq[s])[i] = eqq[s][i + 1]
      BY <3>1, HeadTailProperties
    <3> QED
      BY <3>1, <3>2 DEF IInv, Types
  <2> QED
    BY <2>1, <2>2
<1>5. Types'
  <2>1. pc' \in [Side -> {"wait", "init", "cm", "tx", "rx", "eq", "handle",
                          "repost", "send", "close", "done"}]
    BY <1>1 DEF IInv, Types
  <2>2. verdict' \in [Side -> {"none", "ok", "timeout", "setup", "transport", "protocol"}]
    BY <1>1 DEF IInv, Types
  <2>3. link' \in {"none", "requested", "accepted", "rejected"}
    BY DEF IInv, Types
  <2> QED
    BY <1>2, <1>4, <2>1, <2>2, <2>3 DEF IInv, Types
<1>6. Control'
  BY <1>1 DEF IInv, Control, NextMessage, ClientComplete, ServerComplete
<1>7. Gathered'
  BY <1>1, <1>2 DEF IInv, Gathered
<1>8. Connected'
  BY <1>1, <1>2, <1>4 DEF IInv, Connected, Event, Message
<1>9. Slots'
  BY <1>1, <1>2, <1>3 DEF IInv, Slots, Event
<1>10. Journeys'
  <2>1. \A r \in Side, m \in Message :
          /\ wire'[r] = wire[r] /\ (rcq'[r] = <<m>> => rcq[r] = <<m>>)
          /\ Has(r, m)' => Has(r, m)
    BY <1>2, <1>3, Single DEF Event
  <2>2. \A m \in Message : (Said(m)' <=> Said(m)) /\ (Heard(m)' <=> Heard(m))
    BY DEF Said, Heard
  <2>3. \A r \in Side, m \in Message :
         /\ wire'[r] = <<m>> \/ rcq'[r] = <<m>> \/ Has(r, m)' =>
              m \in To(r) /\ Said(m)' /\ ~Heard(m)'
         /\ wire'[r] = <<m>> => rcq'[r] # <<m>> /\ ~Has(r, m)'
    BY <2>1, <2>2 DEF IInv, Journeys
  <2> QED
    BY <2>2, <2>3 DEF IInv, Journeys, Said, Heard, To
<1>11. Sends'
  BY <1>1, <1>2 DEF IInv, Sends, Event
<1>12. Receives'
  BY <1>1 DEF IInv, Connected, Control, Journeys, Receives, Said, Live
<1>13. AckReaches'
  BY <1>1, <1>2, <1>3, Single DEF IInv, AckReaches, Heard, Event, Message
<1> QED
  BY <1>5, <1>6, <1>7, <1>8, <1>9, <1>10, <1>11, <1>12, <1>13 DEF IInv

(* The server has found the client's request.                              *)
LEMMA WaitRequestKept == ASSUME IInv, WaitRequest PROVE IInv'
<1>1. /\ pc["server"] = "wait" /\ link = "requested"
      /\ pc' = [pc EXCEPT !["server"] = "init"]
      /\ UNCHANGED <<cli, srv, conn, events, verdict, network>>
  BY DEF WaitRequest, Goto
<1> QED
  BY <1>1, MovesOn DEF Side

(* EAGAIN: nothing is submitted and the loop goes round.                   *)
LEMMA AgainKept == ASSUME IInv, NEW s \in Side, Again(s) PROVE IInv'
<1>1. /\ pc[s] \in {"repost", "send"} /\ pc' = [pc EXCEPT ![s] = "tx"]
      /\ UNCHANGED <<cli, srv, conn, events, verdict, network>>
  BY DEF Again, Goto
<1>2. events[s] = <<>>
  BY <1>1, EventsNone DEF IInv, Types, Gathered
<1> QED
  BY <1>1, <1>2, MovesOn

(* The calls before the exchange, any poll or submission, the deadline.    *)
LEMMA FailuresKept ==
  ASSUME IInv, NEW s \in Side, SetupFails(s) \/ CallFails(s) \/ Timeout(s)
  PROVE  IInv'
<1>1. CASE SetupFails(s)
  <2>1. /\ pc[s] \in {"wait", "init", "cm"} /\ Fail(s, "setup")
        /\ link' = link \/ (link' = "rejected" /\ pc[s] \in {"init", "cm"} /\ s = "server")
        /\ UNCHANGED <<cli, srv, conn, est, told, eqq, gone, broken, nic>>
    BY <1>1 DEF SetupFails
  <2>2. ShortQueues'
    BY <2>1 DEF IInv, ShortQueues, nic
  <2> QED
    BY <2>1, <2>2, GivesUp DEF nic
<1>2. CASE CallFails(s)
  <2>1. /\ pc[s] \notin {"close", "done"} /\ Fail(s, "transport")
        /\ UNCHANGED <<cli, srv, conn, network>>
    BY <1>2 DEF CallFails
  <2>2. ShortQueues'
    BY <2>1 DEF IInv, ShortQueues, nic, network
  <2> QED
    BY <2>1, <2>2, GivesUp DEF network, cm, nic
<1>3. CASE Timeout(s)
  <2>1. /\ pc[s] \notin {"close", "done"} /\ Fail(s, "timeout")
        /\ UNCHANGED <<cli, srv, conn, network>>
    BY <1>3 DEF Timeout
  <2>2. ShortQueues'
    BY <2>1 DEF IInv, ShortQueues, nic, network
  <2> QED
    BY <2>1, <2>2, GivesUp DEF network, cm, nic
<1> QED
  BY <1>1, <1>2, <1>3

(* connect and accept.                                                     *)
LEMMA StartCmKept == ASSUME IInv, NEW s \in Side, StartCm(s) PROVE IInv'
<1> USE DEF Side
<1>1. /\ pc[s] = "cm" /\ pc' = [pc EXCEPT ![s] = "tx"]
      /\ link' = IF s = "server" THEN "accepted" ELSE "requested"
      /\ UNCHANGED <<cli, srv, conn, events, verdict, est, told, eqq, gone, broken>>
      /\ UNCHANGED <<rq, wire, txwr, rcq, tcq>>
  BY DEF StartCm, Goto, nic
<1>2. \A r \in Side : pc'[r] = IF r = s THEN "tx" ELSE pc[r]
  BY <1>1 DEF IInv, Types
<1>3. Types' /\ ShortQueues'
  BY <1>1, <1>2 DEF IInv, Types, ShortQueues
<1>4. Control'
  BY <1>1, <1>2 DEF IInv, Control, NextMessage, ClientComplete, ServerComplete
<1>5. Gathered'
  BY <1>1, <1>2, EventsKept DEF IInv, Gathered
<1>6. Connected'
  BY <1>1, <1>2, EventsKept DEF IInv, Connected, Event, Message
<1>7. Slots'
  BY <1>1, <1>2, EventsKept DEF IInv, Slots, Has
<1>8. Journeys'
  BY <1>1 DEF IInv, Journeys, Said, Heard, To, Has
<1>9. Sends'
  BY <1>1 DEF IInv, Sends, Has
<1>10. Receives'
  BY <1>1, <1>2 DEF IInv, Connected, Receives, Said, Live
<1>11. AckReaches'
  BY <1>1 DEF IInv, AckReaches, Heard, Has
<1> QED
  BY <1>3, <1>4, <1>5, <1>6, <1>7, <1>8, <1>9, <1>10, <1>11 DEF IInv

(* The receive posted before the connection is made.                       *)
LEMMA FirstReceiveKept == ASSUME IInv, NEW s \in Side, FirstReceive(s) PROVE IInv'
<1> USE DEF Side
<1>1. /\ pc[s] = "init" /\ pc' = [pc EXCEPT ![s] = "cm"]
      /\ conn' = [conn EXCEPT ![s].rx = TRUE] /\ TakeReceive(s)
      /\ UNCHANGED <<cli, srv, events, verdict>>
  BY DEF FirstReceive, SubmitReceive, Goto
<1>2. s \notin broken /\ rq[s] = 0 /\ rcq[s] = <<>>
  BY <1>1 DEF IInv, Connected, Slots
<1>3. /\ ShortQueues' /\ rq' = [rq EXCEPT ![s] = 1]
      /\ UNCHANGED <<link, est, told, eqq, gone, broken, wire, txwr, rcq, tcq>>
  BY <1>1, <1>2, TakeReceiveOne DEF IInv, cm
<1>4. \A r \in Side : /\ pc'[r] = IF r = s THEN "cm" ELSE pc[r]
                      /\ rq'[r] = IF r = s THEN 1 ELSE rq[r]
  BY <1>1, <1>3 DEF IInv, Types, ShortQueues
<1>14. /\ conn' \in [Side -> [tx : BOOLEAN, rx : BOOLEAN]]
       /\ \A r \in Side : /\ conn'[r].tx <=> conn[r].tx
                          /\ conn'[r].rx <=> r = s \/ conn[r].rx
  BY <1>1, SlotChange DEF IInv, Types
<1>5. Types'
  BY <1>1, <1>3, <1>14 DEF IInv, Types
<1>6. Control'
  BY <1>1, <1>3, <1>4, <1>14 DEF IInv, Control, NextMessage, ClientComplete, ServerComplete
<1>7. Gathered'
  BY <1>1, <1>4, <1>14, EventsKept DEF IInv, Gathered
<1>8. Connected'
  BY <1>1, <1>3, <1>4, <1>14, EventsKept DEF IInv, Connected, Event, Message
<1>9. Slots'
  BY <1>1, <1>3, <1>4, <1>14, EventsKept DEF IInv, Slots, Gathered, Has, Event
<1>10. Journeys'
  BY <1>1, <1>3 DEF IInv, Journeys, Said, Heard, To, Has
<1>11. Sends'
  BY <1>1, <1>4, <1>14 DEF IInv, Sends, Has
<1>12. Receives'
  BY <1>1, <1>3, <1>4, <1>14 DEF IInv, Connected, Receives, Said, Live
<1>13. AckReaches'
  BY <1>1, <1>3 DEF IInv, AckReaches, Heard, Has
<1> QED
  BY <1>3, <1>5, <1>6, <1>7, <1>8, <1>9, <1>10, <1>11, <1>12, <1>13 DEF IInv

(* The server's second receive is there before world goes out.             *)
LEMMA RepostKept == ASSUME IInv, NEW s \in Side, Repost(s) PROVE IInv'
<1> USE DEF Side
<1>1. /\ pc[s] = "repost" /\ pc' = [pc EXCEPT ![s] = "send"]
      /\ conn' = [conn EXCEPT ![s].rx = TRUE] /\ TakeReceive(s)
      /\ UNCHANGED <<cli, srv, events, verdict>>
  BY DEF Repost, SubmitReceive, Goto
<1>2. s = "server" /\ rq[s] = 0 /\ rcq[s] = <<>> /\ srv.phase = "Reply" /\ ~conn[s].rx
  BY <1>1 DEF IInv, Control, Slots
<1>3. /\ ShortQueues'
      /\ s \in broken => rq' = rq /\ rcq' = [rcq EXCEPT ![s] = <<"err">>]
      /\ s \notin broken => rq' = [rq EXCEPT ![s] = 1] /\ rcq' = rcq
      /\ UNCHANGED <<link, est, told, eqq, gone, broken, wire, txwr, tcq>>
  BY <1>1, <1>2, TakeReceiveOne DEF IInv, cm
<1>4. \A r \in Side : /\ pc'[r] = IF r = s THEN "send" ELSE pc[r]
                      /\ r # s => rq'[r] = rq[r] /\ rcq'[r] = rcq[r]
                      /\ rcq'[r] \in {rcq[r], <<"err">>}
                      /\ r = s /\ r \notin broken => rq'[r] = 1
  BY <1>1, <1>2, <1>3 DEF IInv, Types, ShortQueues
<1>14. /\ conn' \in [Side -> [tx : BOOLEAN, rx : BOOLEAN]]
       /\ \A r \in Side : /\ conn'[r].tx <=> conn[r].tx
                          /\ conn'[r].rx <=> r = s \/ conn[r].rx
  BY <1>1, SlotChange DEF IInv, Types
<1>5. Types'
  BY <1>1, <1>3, <1>14 DEF IInv, Types
<1>6. Control'
  BY <1>1, <1>2, <1>3, <1>4, <1>14 DEF IInv, Control, NextMessage, ClientComplete, ServerComplete
<1>7. Gathered'
  BY <1>1, <1>4, <1>14, EventsKept DEF IInv, Gathered
<1>8. Connected'
  BY <1>1, <1>3, <1>4, <1>14, EventsKept DEF IInv, Connected, Event, Message
<1>9. Slots'
  BY <1>1, <1>3, <1>4, <1>14, EventsKept DEF IInv, Slots, Gathered, Has, Event
<1>10. Journeys'
  <2>1. \A r \in Side, m \in Message : rcq'[r] = <<m>> => rcq[r] = <<m>>
    BY <1>4, Single DEF Message
  <2> QED
    BY <1>1, <1>3, <2>1 DEF IInv, Journeys, Said, Heard, To, Has
<1>11. Sends'
  BY <1>1, <1>4, <1>14 DEF IInv, Sends, Has
<1>12. Receives'
  BY <1>1, <1>2, <1>3, <1>4, <1>14 DEF IInv, Connected, Receives, Said, Live
<1>13. AckReaches'
  BY <1>1, <1>2, <1>3, <1>4, <1>14 DEF IInv, AckReaches, Journeys, Said, Heard, Has, Message
<1> QED
  BY <1>3, <1>5, <1>6, <1>7, <1>8, <1>9, <1>10, <1>11, <1>12, <1>13 DEF IInv

-----------------------------------------------------------------------------
(* The three reads of poll().                                              *)

(* A completion frees the send slot.                                       *)
LEMMA SentRead ==
  ASSUME IInv, NEW s \in Side, pc[s] = "tx", tcq[s] = <<"ok">>, conn[s].tx,
         ShortQueues', txwr[s] = "none", tcq' = [tcq EXCEPT ![s] = <<>>],
         pc' = [pc EXCEPT ![s] = "rx"], conn' = [conn EXCEPT ![s].tx = FALSE],
         events' = [events EXCEPT ![s] = Append(@, "sent")],
         UNCHANGED <<cli, srv, verdict, link, est, told, eqq, gone, broken,
                     rq, wire, txwr, rcq>>
  PROVE  IInv'
<1> USE DEF Side
<1>1. \A r \in Side : /\ pc'[r] = IF r = s THEN "rx" ELSE pc[r]
                      /\ tcq'[r] = IF r = s THEN <<>> ELSE tcq[r]
  BY DEF IInv, Types, ShortQueues
<1>2. "sent" \in Event /\ \A m \in Message : m \in Event /\ m # "sent"
  BY DEF Event, Message
<1>3. /\ events' \in [Side -> Seq(Event)]
      /\ \A r \in Side : Once(r)'
      /\ \A r \in Side, x \in Event : Has(r, x)' <=> Has(r, x) \/ (r = s /\ x = "sent")
  <2>1. ~Has(s, "sent")
    BY <1>2 DEF IInv, Slots
  <2>2. events \in [Side -> Seq(Event)] /\ \A r \in Side : Once(r)
    BY DEF IInv, Types, Gathered
  <2> QED
    BY <1>2, <2>1, <2>2, EventAdded
<1>4. /\ conn' \in [Side -> [tx : BOOLEAN, rx : BOOLEAN]]
      /\ \A r \in Side : /\ conn'[r].rx <=> conn[r].rx
                         /\ conn'[r].tx <=> conn[r].tx /\ r # s
  BY SlotChange DEF IInv, Types
<1>5. Types'
  BY <1>3, <1>4 DEF IInv, Types
<1>6. Control'
  BY <1>1, <1>4 DEF IInv, Control, NextMessage, ClientComplete, ServerComplete
<1>7. Gathered'
  BY <1>1, <1>3 DEF IInv, Gathered
<1>8. Connected'
  BY <1>1, <1>3 DEF IInv, Connected, Event, Message
<1>9. Slots'
  BY <1>1, <1>2, <1>3, <1>4 DEF IInv, Slots
<1>10. Journeys'
  <2>1. \A r \in Side, m \in Message : Has(r, m)' <=> Has(r, m)
    BY <1>2, <1>3
  <2> QED
    BY <2>1 DEF IInv, Journeys, Said, Heard, To
<1>11. Sends'
  BY <1>2, <1>3, <1>4 DEF IInv, Sends
<1>12. Receives'
  BY <1>1, <1>4 DEF IInv, Receives, Said, Live
<1>13. AckReaches'
  BY <1>1, <1>2, <1>3 DEF IInv, AckReaches, Heard, Message
<1> QED
  BY <1>5, <1>6, <1>7, <1>8, <1>9, <1>10, <1>11, <1>12, <1>13 DEF IInv

(* poll() reads the TX CQ.                                                 *)
LEMMA PollTxKept == ASSUME IInv, NEW s \in Side, PollTx(s) PROVE IInv'
<1>1. pc[s] = "tx" /\ UNCHANGED <<cli, srv>>
  BY DEF PollTx
<1>2. CASE tcq[s] = <<>>
  <2>1. pc' = [pc EXCEPT ![s] = "rx"] /\ UNCHANGED <<conn, events, verdict, network>>
    BY <1>2 DEF PollTx, Goto
  <2> QED
    BY <1>1, <2>1, MovesOn
<1>3. CASE tcq[s] # <<>>
  <2>1. /\ ShortQueues' /\ ReadTx(s)
        /\ Head(tcq[s]) \in {"ok", "err"} /\ tcq[s] = <<Head(tcq[s])>>
        /\ tcq' = [tcq EXCEPT ![s] = <<>>] /\ txwr[s] = "none"
        /\ UNCHANGED <<link, est, told, eqq, gone, broken, rq, wire, txwr, rcq>>
    BY <1>3, ReadTxOne DEF PollTx, IInv, cm
  <2>2. conn[s].tx
    BY <1>3 DEF IInv, Slots
  <2>3. CASE Head(tcq[s]) = "err"
    <3>1. Fail(s, "transport") /\ UNCHANGED conn
      BY <1>3, <2>3 DEF PollTx
    <3> QED
      BY <1>1, <2>1, <3>1, GivesUp
  <2>4. CASE Head(tcq[s]) = "ok"
    <3>1. /\ pc' = [pc EXCEPT ![s] = "rx"] /\ conn' = [conn EXCEPT ![s].tx = FALSE]
          /\ events' = [events EXCEPT ![s] = Append(@, "sent")] /\ UNCHANGED verdict
      BY <1>3, <2>2, <2>4 DEF PollTx, Goto
    <3> QED
      BY <1>1, <2>1, <2>2, <2>4, <3>1, SentRead
  <2> QED
    BY <2>1, <2>3, <2>4
<1> QED
  BY <1>2, <1>3

(* A message frees the receive slot.                                       *)
LEMMA MessageRead ==
  ASSUME IInv, NEW s \in Side, NEW e \in Message, pc[s] = "rx", rcq[s] = <<e>>,
         conn[s].rx, ShortQueues', rq[s] = 0, rcq' = [rcq EXCEPT ![s] = <<>>],
         pc' = [pc EXCEPT ![s] = "eq"], conn' = [conn EXCEPT ![s].rx = FALSE],
         events' = [events EXCEPT ![s] = Append(@, e)],
         UNCHANGED <<cli, srv, verdict, link, est, told, eqq, gone, broken,
                     rq, wire, txwr, tcq>>
  PROVE  IInv'
<1> USE DEF Side
<1>1. \A r \in Side : /\ pc'[r] = IF r = s THEN "eq" ELSE pc[r]
                      /\ rcq'[r] = IF r = s THEN <<>> ELSE rcq[r]
  BY DEF IInv, Types, ShortQueues
<1>2. "sent" \in Event /\ \A m \in Message : m \in Event /\ m # "sent"
  BY DEF Event, Message
<1>3. /\ events' \in [Side -> Seq(Event)]
      /\ \A r \in Side : Once(r)'
      /\ \A r \in Side, x \in Event : Has(r, x)' <=> Has(r, x) \/ (r = s /\ x = e)
  <2>1. ~Has(s, e)
    BY <1>2 DEF IInv, Slots
  <2>2. events \in [Side -> Seq(Event)] /\ \A r \in Side : Once(r)
    BY DEF IInv, Types, Gathered
  <2> QED
    BY <1>2, <2>1, <2>2, EventAdded
<1>4. /\ conn' \in [Side -> [tx : BOOLEAN, rx : BOOLEAN]]
      /\ \A r \in Side : /\ conn'[r].tx <=> conn[r].tx
                         /\ conn'[r].rx <=> conn[r].rx /\ r # s
  BY SlotChange DEF IInv, Types
<1>5. Types'
  BY <1>3, <1>4 DEF IInv, Types
<1>6. Control'
  BY <1>1, <1>4 DEF IInv, Control, NextMessage, ClientComplete, ServerComplete
<1>7. Gathered'
  BY <1>1, <1>2, <1>3 DEF IInv, Gathered
<1>8. Connected'
  BY <1>1, <1>3 DEF IInv, Connected, Event, Message
<1>9. Slots'
  BY <1>1, <1>2, <1>3, <1>4 DEF IInv, Slots
<1>10. Journeys'
  <2>1. \A r \in Side, m \in Message :
          /\ Has(r, m)' <=> Has(r, m) \/ (r = s /\ m = e)
          /\ rcq'[r] = <<m>> => r # s /\ rcq[r] = <<m>>
    BY <1>1, <1>2, <1>3, Single
  <2> QED
    BY <2>1 DEF IInv, Journeys, Said, Heard, To
<1>11. Sends'
  BY <1>2, <1>3, <1>4 DEF IInv, Sends
<1>12. Receives'
  BY <1>1, <1>4 DEF IInv, Receives, Said, Live
<1>13. AckReaches'
  BY <1>1, <1>2, <1>3, Single DEF IInv, AckReaches, Heard, Message
<1> QED
  BY <1>5, <1>6, <1>7, <1>8, <1>9, <1>10, <1>11, <1>12, <1>13 DEF IInv

(* poll() reads the RX CQ.                                                 *)
LEMMA PollRxKept == ASSUME IInv, NEW s \in Side, PollRx(s) PROVE IInv'
<1>1. pc[s] = "rx" /\ UNCHANGED <<cli, srv>>
  BY DEF PollRx
<1>2. CASE rcq[s] = <<>>
  <2>1. pc' = [pc EXCEPT ![s] = "eq"] /\ UNCHANGED <<conn, events, verdict, network>>
    BY <1>2 DEF PollRx, Goto
  <2> QED
    BY <1>1, <2>1, MovesOn
<1>3. CASE rcq[s] # <<>>
  <2>1. /\ ShortQueues' /\ ReadRx(s)
        /\ Head(rcq[s]) \in Message \cup {"err"} /\ rcq[s] = <<Head(rcq[s])>>
        /\ rcq' = [rcq EXCEPT ![s] = <<>>] /\ rq[s] = 0
        /\ UNCHANGED <<link, est, told, eqq, gone, broken, rq, wire, txwr, tcq>>
    BY <1>3, ReadRxOne DEF PollRx, IInv, cm
  <2>2. conn[s].rx
    BY <1>3 DEF IInv, Slots
  <2>3. CASE Head(rcq[s]) = "err"
    <3>1. Fail(s, "transport") /\ UNCHANGED conn
      BY <1>3, <2>3 DEF PollRx
    <3> QED
      BY <1>1, <2>1, <3>1, GivesUp
  <2>4. CASE Head(rcq[s]) # "err"
    <3>1. /\ pc' = [pc EXCEPT ![s] = "eq"] /\ conn' = [conn EXCEPT ![s].rx = FALSE]
          /\ events' = [events EXCEPT ![s] = Append(@, Head(rcq[s]))] /\ UNCHANGED verdict
      BY <1>3, <2>2, <2>4 DEF PollRx, Goto
    <3>2. Head(rcq[s]) \in Message
      BY <2>1, <2>4
    <3> QED
      BY <1>1, <2>1, <2>2, <3>1, <3>2, MessageRead
  <2> QED
    BY <2>3, <2>4
<1> QED
  BY <1>2, <1>3

(* What the connection has become.                                         *)
LEMMA CmRead ==
  ASSUME IInv, NEW s \in Side, NEW e \in {"connected", "shutdown"},
         pc[s] = "eq", eqq[s] # <<>>, Head(eqq[s]) = e,
         pc' = [pc EXCEPT ![s] = "handle"], eqq' = [eqq EXCEPT ![s] = Tail(@)],
         events' = [events EXCEPT ![s] = Append(@, e)],
         UNCHANGED <<cli, srv, conn, verdict, link, est, told, gone, broken,
                     rq, wire, txwr, rcq, tcq>>
  PROVE  IInv'
<1> USE DEF Side
<1>1. \A r \in Side : pc'[r] = IF r = s THEN "handle" ELSE pc[r]
  BY DEF IInv, Types
<1>2. /\ e \in Event /\ "sent" \in Event /\ e # "sent" /\ e \notin Message
      /\ \A m \in Message : m \in Event /\ m # e
  BY DEF Event, Message
<1>3. /\ events' \in [Side -> Seq(Event)]
      /\ \A r \in Side : Once(r)'
      /\ \A r \in Side, x \in Event : Has(r, x)' <=> Has(r, x) \/ (r = s /\ x = e)
  <2>1. ~Has(s, e)
    BY <1>2 DEF IInv, Gathered
  <2>2. events \in [Side -> Seq(Event)] /\ \A r \in Side : Once(r)
    BY DEF IInv, Types, Gathered
  <2>3. e \in Event
    BY <1>2
  <2> HIDE DEF Side
  <2> QED
    BY <2>1, <2>2, <2>3, EventAdded
<1>4. /\ eqq' \in [Side -> Seq(CmEvent)] /\ eqq[s][1] = e /\ 1 \in DOMAIN eqq[s]
      /\ \A r \in Side : \A i \in DOMAIN eqq'[r] :
           \E j \in DOMAIN eqq[r] : eqq'[r][i] = eqq[r][j]
  <2>1. eqq[s] \in Seq(CmEvent)
    BY DEF IInv, Types
  <2>2. /\ Tail(eqq[s]) \in Seq(CmEvent) /\ eqq[s][1] = e /\ 1 \in DOMAIN eqq[s]
        /\ \A i \in DOMAIN Tail(eqq[s]) : i + 1 \in DOMAIN eqq[s]
                                          /\ Tail(eqq[s])[i] = eqq[s][i + 1]
    BY <2>1, HeadTailProperties
  <2> QED
    BY <2>2 DEF IInv, Types
<1>5. Types'
  BY <1>3, <1>4 DEF IInv, Types
<1>6. ShortQueues'
  BY DEF IInv, ShortQueues
<1>7. Control'
  BY <1>1 DEF IInv, Control, NextMessage, ClientComplete, ServerComplete
<1>8. Gathered'
  BY <1>1, <1>3 DEF IInv, Gathered
<1>9. Connected'
  BY <1>1, <1>3, <1>4 DEF IInv, Connected, Event, Message
<1>10. Slots'
  <2>1. \A r \in Side : (\A m \in Message : Has(r, m)' <=> Has(r, m))
                         /\ (Has(r, "sent")' <=> Has(r, "sent"))
    BY <1>2, <1>3
  <2> QED
    BY <1>1, <2>1 DEF IInv, Slots
<1>11. Journeys'
  <2>1. \A r \in Side, m \in Message : Has(r, m)' <=> Has(r, m)
    BY <1>2, <1>3
  <2> QED
    BY <2>1 DEF IInv, Journeys, Said, Heard, To
<1>12. Sends'
  BY <1>2, <1>3 DEF IInv, Sends
<1>13. Receives'
  BY <1>1 DEF IInv, Receives, Said, Live
<1>14. AckReaches'
  BY <1>1, <1>2, <1>3 DEF IInv, AckReaches, Heard, Message
<1> QED
  BY <1>5, <1>6, <1>7, <1>8, <1>9, <1>10, <1>11, <1>12, <1>13, <1>14 DEF IInv

(* poll() reads the EQ.                                                    *)
LEMMA PollEqKept == ASSUME IInv, NEW s \in Side, PollEq(s) PROVE IInv'
<1>1. pc[s] = "eq" /\ UNCHANGED <<cli, srv, conn>>
  BY DEF PollEq
<1>2. CASE eqq[s] = <<>>
  <2>1. pc' = [pc EXCEPT ![s] = "handle"] /\ UNCHANGED <<events, verdict, network>>
    BY <1>2 DEF PollEq, Goto
  <2> QED
    BY <1>1, <2>1, MovesOn
<1>3. CASE eqq[s] # <<>>
  <2>1. /\ eqq' = [eqq EXCEPT ![s] = Tail(@)]
        /\ UNCHANGED <<link, est, told, gone, broken, rq, wire, txwr, rcq, tcq>>
    BY <1>3 DEF PollEq, ReadEq, nic
  <2>2. Head(eqq[s]) \in CmEvent
    BY <1>3, HeadTailProperties DEF IInv, Types
  <2>3. CASE Head(eqq[s]) = "refused"
    <3>1. Fail(s, "transport")
      BY <1>3, <2>3 DEF PollEq
    <3>2. ShortQueues'
      BY <2>1 DEF IInv, ShortQueues
    <3> QED
      BY <1>1, <1>3, <2>1, <3>1, <3>2, GivesUp
  <2>4. CASE Head(eqq[s]) # "refused"
    <3>1. /\ pc' = [pc EXCEPT ![s] = "handle"] /\ UNCHANGED verdict
          /\ events' = [events EXCEPT ![s] = Append(@, Head(eqq[s]))]
      BY <1>3, <2>4 DEF PollEq, Goto
    <3>2. Head(eqq[s]) \in {"connected", "shutdown"}
      BY <2>2, <2>4 DEF CmEvent
    <3> QED
      BY <1>1, <1>3, <2>1, <3>1, <3>2, CmRead
  <2> QED
    BY <2>3, <2>4
<1> QED
  BY <1>2, <1>3

-----------------------------------------------------------------------------
(* The events are handled.                                                 *)

(* No order of events puts the server at fault.                            *)
LEMMA ServerHandles ==
  ASSUME IInv, HandleEvent("server")
  PROVE  IInv'
<1> USE DEF Side
<1> DEFINE e == Head(events["server"])
<1>1. /\ pc["server"] = "handle" /\ events["server"] # <<>>
      /\ UNCHANGED <<cli, conn, network>>
  BY DEF HandleEvent, Fail
<1>2. /\ e \in Event /\ Has("server", e)
      /\ "sent" \in Event /\ \A m \in Message : m \in Event /\ m # "sent"
  BY <1>1, EventsKept, HeadTailProperties DEF IInv, Types, Has, Event, Message
<1>3. e \in Message => /\ e \in {"hello", "ack"} /\ Said(e) /\ ~Heard(e)
                       /\ ~conn["server"].rx
  BY <1>2 DEF IInv, Journeys, Slots, To
<1>4. ServerAccepts(e)
  <2>1. e = "hello" => srv.phase = "Hello"
    BY <1>3 DEF Heard, Message
  <2>2. e = "ack" => srv.phase = "Ack"
    BY <1>3 DEF Heard, Said, Message, IInv, Journeys
  <2> QED
    BY <1>3, <2>1, <2>2 DEF ServerAccepts
<1>5. /\ srv' = ServerOnEvent(e)
      /\ events' = [events EXCEPT !["server"] = Tail(@)] /\ UNCHANGED <<pc, verdict>>
  BY <1>4 DEF HandleEvent
<1>6. /\ events' \in [Side -> Seq(Event)]
      /\ \A r \in Side : Once(r)'
      /\ \A r \in Side, x \in Event : Has(r, x)' <=> Has(r, x) /\ ~(r = "server" /\ x = e)
  BY <1>1, <1>5, EventHandled DEF IInv, Types, Gathered
<1>7. /\ srv' \in [phase : {"Hello", "Reply", "Ack", "Done"}, connected : BOOLEAN,
                   sent : BOOLEAN, peer_closed : BOOLEAN]
      /\ e = "hello" => srv.phase = "Hello" /\ srv'.phase = "Reply"
      /\ e = "ack" => srv.phase = "Ack" /\ srv'.phase = "Done"
      /\ e \notin {"hello", "ack"} => srv'.phase = srv.phase
  BY <1>4, <1>5 DEF IInv, Types, ServerAccepts, ServerOnEvent, Message
<1>8. Types' /\ ShortQueues'
  BY <1>1, <1>5, <1>6, <1>7 DEF IInv, Types, ShortQueues, network, cm, nic
<1>9. Control'
  BY <1>1, <1>5 DEF IInv, Control, network, NextMessage, ClientComplete
<1>10. Gathered'
  BY <1>5, <1>6 DEF IInv, Gathered
<1>11. Connected'
  BY <1>1, <1>5, <1>6 DEF IInv, Connected, network, cm, Event
<1>12. Slots'
  BY <1>1, <1>2, <1>5, <1>6 DEF IInv, Slots, network, nic
<1>13. Journeys'
  <2>1. \A m \in Message : (Said(m)' <=> Said(m)) /\ (Heard(m)' <=> Heard(m) \/ m = e)
    BY <1>1, <1>3, <1>7 DEF Said, Heard, Message
  <2>2. \A r \in Side, m \in Message : Has(r, m)' <=> Has(r, m) /\ ~(r = "server" /\ m = e)
    BY <1>2, <1>6
  <2>3. e \in Message => rcq["server"] = <<>> /\ wire["server"] # <<e>>
    BY <1>2, <1>3 DEF IInv, Slots, Journeys
  <2>4. UNCHANGED <<wire, rcq>>
    BY <1>1 DEF network, nic
  <2>5. \A r \in Side, m \in Message :
          /\ wire[r] = <<m>> \/ rcq[r] = <<m>> \/ Has(r, m)' =>
               m \in To(r) /\ Said(m)' /\ ~Heard(m)'
          /\ wire[r] = <<m>> => rcq[r] # <<m>> /\ ~Has(r, m)'
    <3> SUFFICES ASSUME NEW r \in Side, NEW m \in Message
                 PROVE  /\ wire[r] = <<m>> \/ rcq[r] = <<m>> \/ Has(r, m)' =>
                             m \in To(r) /\ Said(m)' /\ ~Heard(m)'
                        /\ wire[r] = <<m>> => rcq[r] # <<m>> /\ ~Has(r, m)'
      OBVIOUS
    <3>1. /\ wire[r] = <<m>> \/ rcq[r] = <<m>> \/ Has(r, m) =>
               m \in To(r) /\ Said(m) /\ ~Heard(m)
          /\ wire[r] = <<m>> => rcq[r] # <<m>> /\ ~Has(r, m)
      BY DEF IInv, Journeys
    <3>2. m = e /\ m \in To(r) => r = "server"
      BY <1>3 DEF To
    <3>3. CASE m = e
      BY <2>2, <2>3, <3>1, <3>2, <3>3, Single
    <3>4. CASE m # e
      <4>1. (Said(m)' <=> Said(m)) /\ (Heard(m)' <=> Heard(m)) /\ (Has(r, m)' <=> Has(r, m))
        BY <2>1, <2>2, <3>4
      <4> QED
        BY <3>1, <4>1
    <3> QED
      BY <3>3, <3>4
  <2>6. /\ \A m \in Message : Heard(m) => Said(m)
        /\ e \in Message => Said(e)
        /\ Said("world") => Heard("hello")
        /\ Said("ack") => Heard("world") /\ cli.hello_completed
        /\ Said("hello") => cli.connected
    BY <1>3 DEF IInv, Journeys
  <2> QED
    BY <1>1, <2>1, <2>4, <2>5, <2>6 DEF Journeys, Message, To
<1>14. Sends'
  BY <1>1, <1>2, <1>5, <1>6, <1>7 DEF IInv, Sends
<1>15. Receives'
  BY <1>1, <1>3, <1>5, <1>7 DEF IInv, Receives, Said, Live, Message, network, cm, nic
<1>16. AckReaches'
  BY <1>1, <1>2, <1>5, <1>6, <1>7
     DEF IInv, AckReaches, Heard, Message, network, nic
<1> QED
  BY <1>8, <1>9, <1>10, <1>11, <1>12, <1>13, <1>14, <1>15, <1>16 DEF IInv

(* Nor the client.                                                         *)
LEMMA ClientHandles ==
  ASSUME IInv, HandleEvent("client")
  PROVE  IInv'
<1> USE DEF Side
<1> DEFINE e == Head(events["client"])
<1>1. /\ pc["client"] = "handle" /\ events["client"] # <<>>
      /\ UNCHANGED <<srv, conn, network>>
  BY DEF HandleEvent, Fail
<1>2. /\ e \in Event /\ Has("client", e)
      /\ "sent" \in Event /\ \A m \in Message : m \in Event /\ m # "sent"
  BY <1>1, EventsKept, HeadTailProperties DEF IInv, Types, Has, Event, Message
<1>3. e \in Message => /\ e = "world" /\ Said(e) /\ ~Heard(e) /\ cli.hello_posted
                       /\ ~conn["client"].rx
  BY <1>2 DEF IInv, Journeys, Slots, To, Said, Message
<1>4. e = "sent" => /\ ~conn["client"].tx
                    /\ \/ cli.hello_posted /\ ~cli.hello_completed
                       \/ cli.ack_posted /\ ~cli.ack_completed
  BY <1>1, <1>2 DEF IInv, Sends, Slots, Control
<1>5. ClientAccepts(e)
  BY <1>3, <1>4 DEF ClientAccepts, AckCompletes, HelloCompletes, Heard
<1>6. /\ cli' = ClientOnEvent(e)
      /\ events' = [events EXCEPT !["client"] = Tail(@)] /\ UNCHANGED <<pc, verdict>>
  BY <1>1, <1>5 DEF HandleEvent
<1>7. /\ events' \in [Side -> Seq(Event)]
      /\ \A r \in Side : Once(r)'
      /\ \A r \in Side, x \in Event : Has(r, x)' <=> Has(r, x) /\ ~(r = "client" /\ x = e)
  BY <1>1, <1>6, EventHandled DEF IInv, Types, Gathered
<1>8. /\ cli' \in [connected : BOOLEAN, hello_posted : BOOLEAN,
                   hello_completed : BOOLEAN, world_received : BOOLEAN,
                   ack_posted : BOOLEAN, ack_completed : BOOLEAN,
                   peer_closed : BOOLEAN]
      /\ cli'.connected <=> cli.connected \/ e = "connected"
      /\ cli'.world_received <=> cli.world_received \/ e = "world"
      /\ cli'.hello_posted <=> cli.hello_posted
      /\ cli'.ack_posted <=> cli.ack_posted
      /\ cli'.ack_completed <=> cli.ack_completed \/ (e = "sent" /\ cli.ack_posted)
      /\ e # "sent" => (cli'.hello_completed <=> cli.hello_completed)
      /\ cli.hello_completed => cli'.hello_completed
      /\ cli'.hello_completed => cli.hello_completed \/ cli.hello_posted
  <2>1. cli \in [connected : BOOLEAN, hello_posted : BOOLEAN,
                 hello_completed : BOOLEAN, world_received : BOOLEAN,
                 ack_posted : BOOLEAN, ack_completed : BOOLEAN,
                 peer_closed : BOOLEAN]
    BY DEF IInv, Types
  <2>2. /\ cli' \in [connected : BOOLEAN, hello_posted : BOOLEAN,
                     hello_completed : BOOLEAN, world_received : BOOLEAN,
                     ack_posted : BOOLEAN, ack_completed : BOOLEAN,
                     peer_closed : BOOLEAN]
        /\ cli'.connected <=> cli.connected \/ e = "connected"
        /\ cli'.world_received <=> cli.world_received \/ e = "world"
        /\ cli'.hello_posted <=> cli.hello_posted
        /\ cli'.ack_posted <=> cli.ack_posted
        /\ cli'.ack_completed <=> cli.ack_completed \/ AckCompletes(e)
        /\ cli'.hello_completed <=> cli.hello_completed \/ HelloCompletes(e)
    <3> DEFINE c == cli.connected \/ e = "connected"
               w == cli.world_received \/ e = "world"
               a == cli.ack_completed \/ AckCompletes(e)
               h == cli.hello_completed \/ HelloCompletes(e)
               p == cli.peer_closed \/ e = "shutdown"
    <3>1. c \in BOOLEAN /\ w \in BOOLEAN /\ a \in BOOLEAN /\ h \in BOOLEAN /\ p \in BOOLEAN
      OBVIOUS
    <3>2. cli' = [cli EXCEPT !.connected = c, !.world_received = w,
                             !.ack_completed = a, !.hello_completed = h,
                             !.peer_closed = p]
      BY <1>6 DEF ClientOnEvent
    <3> HIDE DEF c, w, a, h, p
    <3>3. /\ cli' \in [connected : BOOLEAN, hello_posted : BOOLEAN,
                       hello_completed : BOOLEAN, world_received : BOOLEAN,
                       ack_posted : BOOLEAN, ack_completed : BOOLEAN,
                       peer_closed : BOOLEAN]
          /\ cli'.connected = c /\ cli'.world_received = w
          /\ cli'.hello_posted = cli.hello_posted /\ cli'.ack_posted = cli.ack_posted
          /\ cli'.ack_completed = a /\ cli'.hello_completed = h
      <4>1. cli' = [connected |-> c, hello_posted |-> cli.hello_posted,
                    hello_completed |-> h, world_received |-> w,
                    ack_posted |-> cli.ack_posted, ack_completed |-> a,
                    peer_closed |-> p]
        BY <2>1, <3>2
      <4>2. /\ cli'.connected = c /\ cli'.world_received = w
            /\ cli'.ack_completed = a /\ cli'.hello_completed = h
            /\ cli'.peer_closed = p
            /\ cli'.hello_posted = cli.hello_posted /\ cli'.ack_posted = cli.ack_posted
        BY <2>1, <3>2
      <4>3. cli.hello_posted \in BOOLEAN /\ cli.ack_posted \in BOOLEAN
        BY <2>1
      <4>4. cli' \in [connected : BOOLEAN, hello_posted : BOOLEAN,
                      hello_completed : BOOLEAN, world_received : BOOLEAN,
                      ack_posted : BOOLEAN, ack_completed : BOOLEAN,
                      peer_closed : BOOLEAN]
        BY <3>1, <4>1, <4>3, Zenon
      <4> QED
        BY <4>2, <4>4, Zenon
    <3>4. cli'.connected <=> cli.connected \/ e = "connected"
      BY <3>3, Zenon DEF c
    <3>5. cli'.world_received <=> cli.world_received \/ e = "world"
      BY <3>3, Zenon DEF w
    <3>6. cli'.ack_completed <=> cli.ack_completed \/ AckCompletes(e)
      BY <3>3, Zenon DEF a
    <3>7. cli'.hello_completed <=> cli.hello_completed \/ HelloCompletes(e)
      BY <3>3, Zenon DEF h
    <3>8. /\ cli'.hello_posted <=> cli.hello_posted
          /\ cli'.ack_posted <=> cli.ack_posted
      BY <3>3, Zenon
    <3> QED
      BY <3>3, <3>4, <3>5, <3>6, <3>7, <3>8, Zenon
  <2> QED
    BY <2>1, <2>2 DEF AckCompletes, HelloCompletes
<1>9. Types' /\ ShortQueues'
  BY <1>1, <1>6, <1>7, <1>8 DEF IInv, Types, ShortQueues, network, cm, nic
<1>10. Control'
  BY <1>1, <1>6 DEF IInv, Control, network, ServerComplete
<1>11. Gathered'
  BY <1>6, <1>7 DEF IInv, Gathered
<1>12. Connected'
  BY <1>1, <1>2, <1>6, <1>7, <1>8 DEF IInv, Connected, network, cm, Event
<1>13. Slots'
  BY <1>1, <1>2, <1>6, <1>7 DEF IInv, Slots, network, nic
<1>14. Journeys'
  <2>1. \A m \in Message : (Said(m)' <=> Said(m)) /\ (Heard(m)' <=> Heard(m) \/ m = e)
    BY <1>1, <1>3, <1>8 DEF Said, Heard, Message
  <2>2. \A r \in Side, m \in Message : Has(r, m)' <=> Has(r, m) /\ ~(r = "client" /\ m = e)
    BY <1>2, <1>7
  <2>3. e \in Message => rcq["client"] = <<>> /\ wire["client"] # <<e>>
    BY <1>2, <1>3 DEF IInv, Slots, Journeys
  <2>4. UNCHANGED <<wire, rcq>>
    BY <1>1 DEF network, nic
  <2>5. \A r \in Side, m \in Message :
          /\ wire[r] = <<m>> \/ rcq[r] = <<m>> \/ Has(r, m)' =>
               m \in To(r) /\ Said(m)' /\ ~Heard(m)'
          /\ wire[r] = <<m>> => rcq[r] # <<m>> /\ ~Has(r, m)'
    <3> SUFFICES ASSUME NEW r \in Side, NEW m \in Message
                 PROVE  /\ wire[r] = <<m>> \/ rcq[r] = <<m>> \/ Has(r, m)' =>
                             m \in To(r) /\ Said(m)' /\ ~Heard(m)'
                        /\ wire[r] = <<m>> => rcq[r] # <<m>> /\ ~Has(r, m)'
      OBVIOUS
    <3>1. /\ wire[r] = <<m>> \/ rcq[r] = <<m>> \/ Has(r, m) =>
               m \in To(r) /\ Said(m) /\ ~Heard(m)
          /\ wire[r] = <<m>> => rcq[r] # <<m>> /\ ~Has(r, m)
      BY DEF IInv, Journeys
    <3>2. m = e /\ m \in To(r) => r = "client"
      BY <1>3 DEF To
    <3> QED
      BY <2>1, <2>2, <2>3, <3>1, <3>2, Single
  <2>6. /\ \A m \in Message : Heard(m) => Said(m)
        /\ e \in Message => Said(e)
        /\ Said("world") => Heard("hello")
        /\ Said("ack") => Heard("world") /\ cli.hello_completed
        /\ Said("hello") => cli.connected
    BY <1>3 DEF IInv, Journeys
  <2> QED
    BY <1>8, <2>1, <2>4, <2>5, <2>6 DEF Journeys, Message, To
<1>15. Sends'
  BY <1>1, <1>2, <1>4, <1>6, <1>7, <1>8 DEF IInv, Sends
<1>16. Receives'
  BY <1>1, <1>6, <1>8 DEF IInv, Receives, Said, Live, network, cm, nic
<1>17. AckReaches'
  BY <1>1, <1>2, <1>6, <1>7, <1>8
     DEF IInv, AckReaches, Heard, Message, network, nic
<1> QED
  BY <1>9, <1>10, <1>11, <1>12, <1>13, <1>14, <1>15, <1>16, <1>17 DEF IInv

(* The exchange is complete.                                               *)
LEMMA CompleteKept ==
  ASSUME IInv, NEW s \in Side, pc[s] = "handle", events[s] = <<>>,
         s = "client" => ClientComplete, s = "server" => ServerComplete,
         verdict' = [verdict EXCEPT ![s] = "ok"], pc' = [pc EXCEPT ![s] = "close"],
         UNCHANGED <<cli, srv, conn, events, network>>
  PROVE  IInv'
<1> USE DEF Side, network, cm, nic
<1>1. \A r \in Side : /\ pc'[r] = IF r = s THEN "close" ELSE pc[r]
                      /\ verdict'[r] = IF r = s THEN "ok" ELSE verdict[r]
  BY DEF IInv, Types
<1>2. Types' /\ ShortQueues'
  BY DEF IInv, Types, ShortQueues
<1>3. Control'
  BY <1>1 DEF IInv, Control, NextMessage, ClientComplete, ServerComplete
<1>4. Gathered'
  BY <1>1, EventsKept, EventsNone DEF IInv, Types, Gathered
<1>5. Connected'
  BY <1>1, EventsKept DEF IInv, Connected, Has
<1>6. Slots'
  BY <1>1, EventsKept DEF IInv, Slots, Has
<1>7. Journeys'
  BY <1>1 DEF IInv, Journeys, Said, Heard, To, Has
<1>8. Sends'
  BY <1>1 DEF IInv, Sends, Has
<1>9. Receives'
  BY <1>1 DEF IInv, Receives, Control, Said, Live
<1>10. AckReaches'
  BY <1>1 DEF IInv, AckReaches, Heard, Has
<1> QED
  BY <1>2, <1>3, <1>4, <1>5, <1>6, <1>7, <1>8, <1>9, <1>10 DEF IInv

(* All that poll() gathered is handled: the program ends, or goes on.      *)
LEMMA DecideKept == ASSUME IInv, NEW s \in Side, Decide(s) PROVE IInv'
<1>1. pc[s] = "handle" /\ events[s] = <<>> /\ UNCHANGED <<cli, srv, conn, events, network>>
  BY DEF Decide
<1>2. CASE IF s = "client" THEN ClientComplete ELSE ServerComplete
  <2>1. verdict' = [verdict EXCEPT ![s] = "ok"] /\ pc' = [pc EXCEPT ![s] = "close"]
    BY <1>2 DEF Decide, Goto
  <2> QED
    BY <1>1, <1>2, <2>1, CompleteKept
<1>3. CASE ~IF s = "client" THEN ClientComplete ELSE ServerComplete
  <2>1. pc' = [pc EXCEPT ![s] = NextStep(s)] /\ UNCHANGED verdict
    BY <1>3 DEF Decide, Goto
  <2>2. /\ NextStep(s) \in {"tx", "repost", "send"}
        /\ s = "client" => NextStep(s) # "repost"
        /\ NextStep(s) = "send" /\ s = "client" => NextMessage # "none"
        /\ NextStep(s) = "send" /\ s = "server" => srv.phase = "Reply" /\ conn[s].rx
        /\ NextStep(s) = "repost" => srv.phase = "Reply" /\ ~conn[s].rx
    BY DEF NextStep, ServerReplies, Side
  <2> QED
    BY <1>1, <2>1, <2>2, MovesOn
<1> QED
  BY <1>2, <1>3

-----------------------------------------------------------------------------
(* A message is sent, the connection is closed.                            *)

(* The message goes into a free slot, and nothing else is on its way.      *)
LEMMA SlotFree ==
  ASSUME IInv, NEW s \in Side, pc[s] = "send"
  PROVE  /\ ~conn[s].tx /\ txwr[s] = "none" /\ tcq[s] = <<>> /\ wire[Peer(s)] = <<>>
         /\ verdict[s] = "none" /\ \A x \in Event : ~Has(s, x)
         /\ s = "client" => NextMessage \in {"hello", "ack"}
<1>1. verdict[s] = "none" /\ \A x \in Event : ~Has(s, x)
  BY DEF IInv, Control, Gathered
<1>2. s = "client" => NextMessage \in {"hello", "ack"}
  BY DEF IInv, Control, NextMessage
<1>3. s = "server" => srv.phase = "Reply"
  BY DEF IInv, Control
<1>4. /\ \A m \in Message : Heard(m) => Said(m)
      /\ Said("world") => Heard("hello")
      /\ Said("ack") => Heard("world") /\ cli.hello_completed
      /\ {"hello", "world", "ack"} = Message
  BY DEF IInv, Journeys, Message
<1>5. ~conn[s].tx
  <2>1. CASE s = "server"
    BY <1>3, <2>1 DEF IInv, Sends
  <2>2. CASE s = "client"
    BY <1>1, <1>2, <1>4, <2>2 DEF IInv, Sends, NextMessage, Said
  <2> QED
    BY <2>1, <2>2 DEF Side
<1>6. wire[Peer(s)] = <<>>
  <2>1. wire[Peer(s)] \in One(Message)
    BY PeerSide DEF IInv, ShortQueues
  <2>2. ASSUME NEW m \in Message, wire[Peer(s)] = <<m>> PROVE FALSE
    <3>1. m \in To(Peer(s)) /\ Said(m) /\ ~Heard(m)
      BY <2>2, PeerSide DEF IInv, Journeys
    <3>2. CASE s = "server"
      BY <1>3, <3>1, <3>2 DEF To, Peer, Said
    <3>3. CASE s = "client"
      BY <1>2, <1>4, <3>1, <3>3 DEF To, Peer, Said, Heard, NextMessage
    <3> QED
      BY <3>2, <3>3 DEF Side
  <2> QED
    BY <2>1, <2>2 DEF One
<1> QED
  BY <1>1, <1>2, <1>5, <1>6 DEF IInv, Slots

(* Connection::send accepts the message whose turn it is.                  *)
LEMMA SendKept == ASSUME IInv, NEW s \in Side, Send(s) PROVE IInv'
<1> USE DEF Side
<1> DEFINE m == IF s = "server" THEN "world" ELSE NextMessage
<1>1. /\ ~conn[s].tx /\ txwr[s] = "none" /\ tcq[s] = <<>> /\ wire[Peer(s)] = <<>>
      /\ pc[s] = "send" /\ verdict[s] = "none" /\ \A x \in Event : ~Has(s, x)
      /\ m \in Message /\ m \in To(Peer(s)) /\ (s = "server" <=> m = "world")
      /\ Peer(s) \in Side
  BY SlotFree, PeerSide DEF Send, Message, To, Peer
<1>2. /\ conn' = [conn EXCEPT ![s].tx = TRUE] /\ pc' = [pc EXCEPT ![s] = "tx"]
      /\ srv' = IF m = "world" THEN [srv EXCEPT !.phase = "Ack"] ELSE srv
      /\ cli' = Posted(m) /\ TakeSend(s, m) /\ UNCHANGED <<events, verdict>>
  BY <1>1 DEF Send, Goto
<1> HIDE DEF m
<1>3. /\ ShortQueues'
      /\ UNCHANGED <<link, est, told, eqq, gone, broken, rq, rcq>>
      /\ s \in broken => /\ tcq' = [tcq EXCEPT ![s] = <<"err">>]
                         /\ wire' = wire /\ txwr' = txwr
      /\ s \notin broken => /\ wire' = [wire EXCEPT ![Peer(s)] = <<m>>]
                            /\ txwr' = [txwr EXCEPT ![s] = "sent"] /\ tcq' = tcq
  BY <1>1, <1>2, TakeSendOne DEF IInv, cm
<1>4. /\ \A r \in Side : pc'[r] = IF r = s THEN "tx" ELSE pc[r]
      /\ \A r \in Side \ {s} : tcq'[r] = tcq[r] /\ txwr'[r] = txwr[r]
      /\ txwr'[s] \in {"none", "sent"} /\ tcq'[s] \in {<<>>, <<"err">>}
      /\ \A r \in Side : wire'[r] = wire[r] \/ (r = Peer(s) /\ wire'[r] = <<m>>)
  <2>1. pc \in [Side -> {"wait", "init", "cm", "tx", "rx", "eq", "handle",
                         "repost", "send", "close", "done"}]
        /\ wire \in [Side -> One(Message)]
        /\ tcq \in [Side -> One({"ok", "err"})]
        /\ txwr \in [Side -> {"none", "sent", "placed"}]
    BY DEF IInv, Types, ShortQueues
  <2>2. /\ \A r \in Side : pc'[r] = IF r = s THEN "tx" ELSE pc[r]
        /\ \A r \in Side \ {s} : tcq'[r] = tcq[r] /\ txwr'[r] = txwr[r]
    BY <1>2, <1>3, <2>1
  <2>3. txwr'[s] \in {"none", "sent"} /\ tcq'[s] \in {<<>>, <<"err">>}
    BY <1>1, <1>3, <2>1
  <2>4. \A r \in Side : wire'[r] = wire[r] \/ (r = Peer(s) /\ wire'[r] = <<m>>)
    <3>1. ASSUME s \notin broken, NEW r \in Side
          PROVE  wire'[r] = IF r = Peer(s) THEN <<m>> ELSE wire[r]
      BY <1>1, <1>3, <2>1, <3>1
    <3> QED
      BY <1>3, <3>1
  <2> QED
    BY <2>2, <2>3, <2>4
<1>5. /\ conn' \in [Side -> [tx : BOOLEAN, rx : BOOLEAN]]
      /\ \A r \in Side : /\ conn'[r].rx <=> conn[r].rx
                         /\ conn'[r].tx <=> conn[r].tx \/ r = s
  BY <1>2, SlotChange DEF IInv, Types
<1>6. /\ cli' \in [connected : BOOLEAN, hello_posted : BOOLEAN,
                   hello_completed : BOOLEAN, world_received : BOOLEAN,
                   ack_posted : BOOLEAN, ack_completed : BOOLEAN,
                   peer_closed : BOOLEAN]
      /\ cli'.connected = cli.connected /\ cli'.peer_closed = cli.peer_closed
      /\ cli'.world_received = cli.world_received
      /\ cli'.hello_completed = cli.hello_completed
      /\ cli'.ack_completed = cli.ack_completed
      /\ cli'.hello_posted <=> cli.hello_posted \/ m = "hello"
      /\ cli'.ack_posted <=> cli.ack_posted \/ m = "ack"
  BY <1>2 DEF IInv, Types, Posted
<1>7. /\ srv' \in [phase : {"Hello", "Reply", "Ack", "Done"}, connected : BOOLEAN,
                   sent : BOOLEAN, peer_closed : BOOLEAN]
      /\ srv'.phase = IF m = "world" THEN "Ack" ELSE srv.phase
      /\ srv'.sent = srv.sent
      /\ s = "server" => srv.phase = "Reply" /\ conn["server"].rx
  BY <1>1, <1>2 DEF IInv, Types, Control
<1>8. s = "client" => /\ cli.connected
                      /\ \/ m = "hello" /\ ~cli.hello_posted
                         \/ /\ m = "ack" /\ ~cli.ack_posted /\ cli.hello_posted
                            /\ cli.hello_completed /\ cli.world_received
  <2> SUFFICES ASSUME s = "client"
               PROVE  /\ cli.connected
                      /\ \/ m = "hello" /\ ~cli.hello_posted
                         \/ /\ m = "ack" /\ ~cli.ack_posted /\ cli.hello_posted
                            /\ cli.hello_completed /\ cli.world_received
    OBVIOUS
  <2>1. m = NextMessage /\ m # "none"
    BY <1>1 DEF m, Message
  <2> QED
    BY <2>1 DEF NextMessage
<1>9. /\ \A x \in Message : /\ Said(x)' <=> Said(x) \/ x = m
                            /\ Heard(x)' <=> Heard(x)
                            /\ Heard(x) => Said(x)
      /\ ~Said(m) /\ ~Heard(m)
      /\ m = "world" => Heard("hello")
      /\ m = "ack" => Heard("world") /\ Said("world") /\ Heard("hello")
      /\ Said("world") => Heard("hello")
      /\ Said("ack") => Heard("world") /\ cli.hello_completed
      /\ Said("hello") => cli.connected
  <2>1. \A x \in Message : /\ Said(x)' <=> Said(x) \/ x = m
                           /\ Heard(x)' <=> Heard(x)
    BY <1>1, <1>6, <1>7 DEF Said, Heard, Message
  <2>2. /\ \A x \in Message : Heard(x) => Said(x)
        /\ Said("world") => Heard("hello")
        /\ Said("ack") => Heard("world") /\ cli.hello_completed
        /\ Said("hello") => cli.connected
    BY DEF IInv, Journeys
  <2>3. ~Said(m)
    BY <1>1, <1>7, <1>8 DEF Said
  <2>4. m = "world" => Heard("hello")
    BY <1>1, <1>7 DEF Heard
  <2>5. m = "ack" => Heard("world")
    BY <1>1, <1>8 DEF Heard
  <2> QED
    BY <1>1, <2>1, <2>2, <2>3, <2>4, <2>5 DEF Message
<1>10. \A r \in Side, x \in Message :
         /\ wire[r] = <<x>> \/ rcq[r] = <<x>> \/ Has(r, x) =>
              x \in To(r) /\ Said(x) /\ ~Heard(x)
         /\ wire[r] = <<x>> => rcq[r] # <<x>> /\ ~Has(r, x)
  BY DEF IInv, Journeys
<1>11. Types'
  BY <1>2, <1>3, <1>5, <1>6, <1>7 DEF IInv, Types
<1>12. Control'
  <2>1. \A r \in Side : /\ verdict[r] = "none" <=> pc'[r] \notin {"close", "done"}
                        /\ verdict[r] # "protocol"
                        /\ r \in gone <=> pc'[r] = "done"
    BY <1>1, <1>4 DEF IInv, Control
  <2>2. pc'["client"] = "send" => s = "server"
    BY <1>4
  <2>3. pc'["client"] = "send" => NextMessage' # "none"
    BY <1>1, <1>4, <1>6, <2>2 DEF IInv, Control, NextMessage
  <2>4. verdict["client"] = "ok" => ClientComplete'
    BY <1>6 DEF IInv, Control, ClientComplete
  <2>5. verdict["server"] = "ok" => ServerComplete'
    BY <1>1, <1>7 DEF IInv, Control, ServerComplete
  <2> QED
    BY <1>1, <1>2, <1>3, <1>4, <1>5, <1>7, <2>1, <2>3, <2>4, <2>5 DEF IInv, Control
<1>13. Gathered'
  BY <1>1, <1>2, <1>4, EventsKept DEF IInv, Gathered
<1>14. Connected'
  BY <1>2, <1>3, <1>4, <1>6 DEF IInv, Connected, Has
<1>15. Slots'
  <2>1. "sent" \in Event
    BY DEF Event
  <2> QED
    BY <1>1, <1>2, <1>3, <1>4, <1>5, <2>1 DEF IInv, Slots, Has
<1>16. Journeys'
  <2>1. \A r \in Side, x \in Message :
         /\ wire'[r] = <<x>> \/ rcq[r] = <<x>> \/ Has(r, x) =>
              x \in To(r) /\ Said(x)' /\ ~Heard(x)'
         /\ wire'[r] = <<x>> => rcq[r] # <<x>> /\ ~Has(r, x)
    BY <1>1, <1>4, <1>9, <1>10, Single
  <2>2. \A r \in Side, x \in Event : Has(r, x)' <=> Has(r, x)
    BY <1>2, EventsKept
  <2>3. Message \subseteq Event
    BY DEF Event
  <2>4. \A r \in Side, x \in Message :
         /\ wire'[r] = <<x>> \/ rcq'[r] = <<x>> \/ Has(r, x)' =>
              x \in To(r) /\ Said(x)' /\ ~Heard(x)'
         /\ wire'[r] = <<x>> => rcq'[r] # <<x>> /\ ~Has(r, x)'
    BY <1>3, <2>1, <2>2, <2>3
  <2>5. {"hello", "world", "ack"} = Message
    BY DEF Message
  <2>6. /\ \A x \in Message : Heard(x)' => Said(x)'
        /\ Said("world")' => Heard("hello")'
        /\ Said("ack")' => Heard("world")' /\ cli'.hello_completed
        /\ Said("hello")' => cli'.connected
    BY <1>1, <1>6, <1>8, <1>9, <2>5
  <2> QED
    BY <2>4, <2>6 DEF Journeys, To
<1>17. Sends'
  <2>1. s = "client" => \/ cli'.hello_posted /\ ~cli'.hello_completed
                        \/ cli'.ack_posted /\ ~cli'.ack_completed
    BY <1>6, <1>8 DEF IInv, Sends
  <2> QED
    BY <1>1, <1>2, <1>5, <1>6, <1>7, <2>1 DEF IInv, Sends, Has
<1>18. Receives'
  <2>1. /\ Said("world")' <=> srv'.phase \in {"Ack", "Done"}
        /\ Said("world") <=> srv.phase \in {"Ack", "Done"}
    BY DEF Said
  <2> QED
    BY <1>1, <1>2, <1>3, <1>4, <1>5, <1>6, <1>7, <1>8, <1>9, Single
       DEF IInv, Receives, Said, Live, Peer, Control, Message, Heard
<1>19. AckReaches'
  BY <1>1, <1>2, <1>3, <1>4, <1>6, <1>7, <1>8, <1>9, Single
     DEF IInv, AckReaches, Heard, Said, Has, Message, Sends
<1> QED
  BY <1>3, <1>11, <1>12, <1>13, <1>14, <1>15, <1>16, <1>17, <1>18, <1>19 DEF IInv

(* What may be lost with the endpoint was for a peer that finds it closed. *)
LEMMA CloseKept == ASSUME IInv, NEW s \in Side, Close(s) PROVE IInv'
<1> USE DEF Side
<1>1. /\ pc[s] = "close" /\ pc' = [pc EXCEPT ![s] = "done"] /\ CloseEndpoint(s)
      /\ conn' = [conn EXCEPT ![s] = [tx |-> FALSE, rx |-> FALSE]]
      /\ UNCHANGED <<cli, srv, events, verdict, link>>
  BY DEF Close, Goto
<1>2. /\ ShortQueues' /\ gone' = gone \cup {s}
      /\ rq' = [rq EXCEPT ![s] = 0] /\ txwr' = [txwr EXCEPT ![s] = "none"]
      /\ rcq' = [rcq EXCEPT ![s] = <<>>] /\ tcq' = [tcq EXCEPT ![s] = <<>>]
      /\ eqq' = [eqq EXCEPT ![s] = <<>>]
      /\ wire'[s] = <<>> /\ wire'[Peer(s)] \in {wire[Peer(s)], <<>>}
      /\ UNCHANGED <<est, told, broken>>
  BY <1>1, CloseEndpointOne DEF IInv
<1>3. /\ \A r \in Side : /\ pc'[r] = IF r = s THEN "done" ELSE pc[r]
                         /\ rq'[r] = IF r = s THEN 0 ELSE rq[r]
                         /\ txwr'[r] = IF r = s THEN "none" ELSE txwr[r]
                         /\ rcq'[r] = IF r = s THEN <<>> ELSE rcq[r]
                         /\ tcq'[r] = IF r = s THEN <<>> ELSE tcq[r]
                         /\ eqq'[r] = IF r = s THEN <<>> ELSE eqq[r]
      /\ \A r \in Side : wire'[r] \in {wire[r], <<>>}
  BY <1>1, <1>2, PeerSide DEF IInv, Types, ShortQueues, Peer
<1>4. /\ conn' \in [Side -> [tx : BOOLEAN, rx : BOOLEAN]]
      /\ \A r \in Side \ {s} : conn'[r] = conn[r]
      /\ ~conn'[s].tx /\ ~conn'[s].rx
  BY <1>1 DEF IInv, Types
<1>5. \A x \in Event : ~Has(s, x)
  BY <1>1 DEF IInv, Gathered
<1>6. Types'
  <2>1. pc' \in [Side -> {"wait", "init", "cm", "tx", "rx", "eq", "handle",
                          "repost", "send", "close", "done"}]
    BY <1>1 DEF IInv, Types
  <2>2. eqq' \in [Side -> Seq(CmEvent)]
    BY <1>2 DEF IInv, Types
  <2>3. gone' \subseteq Side
    BY <1>2 DEF IInv, Types
  <2>4. UNCHANGED <<cli, srv, events, verdict, link, est, told, broken>>
    BY <1>1, <1>2
  <2> QED
    BY <1>4, <2>1, <2>2, <2>3, <2>4 DEF IInv, Types
<1>7. Control'
  BY <1>1, <1>2, <1>3, <1>4 DEF IInv, Control, NextMessage, ClientComplete, ServerComplete
<1>8. Gathered'
  BY <1>1, <1>3, <1>5, EventsKept DEF IInv, Gathered
<1>9. Connected'
  BY <1>1, <1>2, <1>3 DEF IInv, Connected, Has
<1>10. Slots'
  BY <1>1, <1>3, <1>4, <1>5, EventsKept DEF IInv, Slots, Has, Event
<1>11. Journeys'
  <2>1. \A r \in Side, m \in Message : /\ rcq'[r] = <<m>> => rcq[r] = <<m>>
                                       /\ wire'[r] = <<m>> => wire[r] = <<m>>
    BY <1>3, Single
  <2> QED
    BY <1>1, <2>1 DEF IInv, Journeys, Said, Heard, To, Has
<1>12. Sends'
  BY <1>1, <1>4 DEF IInv, Sends, Control, Has
<1>13. Receives'
  BY <1>1, <1>2, <1>3, <1>4, Single DEF IInv, Receives, Said, Live
<1>14. AckReaches'
  <2>1. /\ UNCHANGED <<cli, srv, verdict, events>> /\ (Heard("ack")' <=> Heard("ack"))
        /\ \A r \in Side, x \in Event : Has(r, x)' <=> Has(r, x)
    BY <1>1 DEF Heard, Has
  <2>2. CASE s = "server"
    <3>1. verdict["server"] # "none"
      BY <1>1, <2>2 DEF IInv, Control
    <3> QED
      BY <2>1, <3>1 DEF AckReaches
  <2>3. CASE s = "client"
    <3>1. txwr'["client"] = "none" /\ tcq'["client"] = <<>> /\ rcq'["server"] = rcq["server"]
      BY <1>3, <2>3
    <3>2. "sent" \in Event /\ "ack" \in Event /\ ~Has("client", "sent")
      BY <1>5, <2>3 DEF Event, Message
    <3>3. <<>> # <<"ok">>
      BY Single
    <3> QED
      BY <2>1, <3>1, <3>2, <3>3 DEF IInv, AckReaches
  <2> QED
    BY <2>2, <2>3
<1> QED
  BY <1>2, <1>6, <1>7, <1>8, <1>9, <1>10, <1>11, <1>12, <1>13, <1>14 DEF IInv

-----------------------------------------------------------------------------
(* The provider's steps.                                                   *)

(* An EQ entry is added: the connection stands, or does not (any more).    *)
LEMMA CmKept ==
  ASSUME IInv, NEW s \in Side, (Establish(s) \/ Disconnected(s)), UNCHANGED program
  PROVE  IInv'
<1> USE DEF Side, program, nic
<1>1. CASE Establish(s)
  <2>1. /\ link = "accepted" /\ est' = est \cup {s}
        /\ eqq' = [eqq EXCEPT ![s] = Append(@, "connected")]
        /\ UNCHANGED <<link, told, gone, broken, rq, wire, txwr, rcq, tcq>>
    BY <1>1 DEF Establish
  <2>2. eqq' \in [Side -> Seq(CmEvent)]
    BY <2>1 DEF IInv, Types, CmEvent
  <2>3. \A i \in DOMAIN eqq'["client"] :
          eqq'["client"][i] = "connected" => "client" \in est'
    <3>1. CASE s = "client"
      BY <2>1, <3>1
    <3>2. CASE s = "server"
      <4>1. eqq'["client"] = eqq["client"]
        BY <2>1, <3>2 DEF IInv, Types
      <4> QED
        BY <2>1, <4>1 DEF IInv, Connected
    <3> QED
      BY <3>1, <3>2
  <2>4. Types' /\ ShortQueues'
    BY <2>1, <2>2 DEF IInv, Types, ShortQueues
  <2>5. Connected'
    BY <2>1, <2>3 DEF IInv, Connected, Has
  <2> QED
    BY <2>1, <2>4, <2>5
       DEF IInv, Control, Gathered, Slots, Journeys, Sends, Receives, AckReaches, Has, Once,
           Said, Heard, Live, To, NextMessage, ClientComplete, ServerComplete
<1>2. CASE Disconnected(s)
  <2>1. PICK e \in {"shutdown", "refused"} :
          /\ told' = told \cup {s} /\ eqq' = [eqq EXCEPT ![s] = Append(@, e)]
          /\ UNCHANGED <<link, est, gone, broken, rq, wire, txwr, rcq, tcq>>
    BY <1>2 DEF Disconnected
  <2>2. eqq' \in [Side -> Seq(CmEvent)]
    BY <2>1 DEF IInv, Types, CmEvent
  <2>3. \A i \in DOMAIN eqq'["client"] :
          eqq'["client"][i] = "connected" => "client" \in est
    <3>1. CASE s = "client"
      <4>1. eqq["client"] \in Seq(CmEvent) /\ e \in CmEvent
        BY DEF IInv, Types, CmEvent
      <4>2. eqq'["client"] = Append(eqq["client"], e)
        BY <2>1, <3>1 DEF IInv, Types
      <4>3. ASSUME NEW i \in DOMAIN eqq'["client"]
            PROVE  \/ i \in DOMAIN eqq["client"] /\ eqq'["client"][i] = eqq["client"][i]
                   \/ eqq'["client"][i] = e
        BY <4>1, <4>2, AppendProperties
      <4> QED
        BY <4>3 DEF IInv, Connected
    <3>2. CASE s = "server"
      <4>1. eqq'["client"] = eqq["client"]
        BY <2>1, <3>2 DEF IInv, Types
      <4> QED
        BY <2>1, <4>1 DEF IInv, Connected
    <3> QED
      BY <3>1, <3>2
  <2>4. Types' /\ ShortQueues'
    BY <2>1, <2>2 DEF IInv, Types, ShortQueues
  <2>5. Connected'
    BY <2>1, <2>3 DEF IInv, Connected, Has
  <2> QED
    BY <2>1, <2>4, <2>5
       DEF IInv, Control, Gathered, Slots, Journeys, Sends, Receives, AckReaches, Has, Once,
           Said, Heard, Live, To, NextMessage, ClientComplete, ServerComplete
<1> QED
  BY <1>1, <1>2

(* What follows of the unchanged program.                                  *)
LEMMA ProgramKept ==
  ASSUME IInv, UNCHANGED <<program, link, est, gone, eqq>>,
         told' = told, broken' \subseteq est
  PROVE  Types' /\ Control' /\ Gathered' /\ Connected' /\ Sends'
<1> USE DEF program
<1>1. Types'
  BY DEF IInv, Types
<1>2. Control'
  BY DEF IInv, Control, NextMessage, ClientComplete, ServerComplete
<1>3. Gathered' /\ Connected' /\ Sends'
  BY DEF IInv, Gathered, Connected, Sends, Has, Once
<1> QED
  BY <1>1, <1>2, <1>3

(* A message arrives: it is the one its receiver posted the receive for.   *)
LEMMA PlaceKept == ASSUME IInv, NEW s \in Side, Place(s), UNCHANGED program PROVE IInv'
<1> USE DEF Side
<1>1. /\ ShortQueues' /\ rq[s] = 1 /\ rcq[s] = <<>>
      /\ rq' = [rq EXCEPT ![s] = 0] /\ wire' = [wire EXCEPT ![s] = <<>>]
      /\ UNCHANGED <<link, est, told, eqq, gone, broken, tcq>>
      /\ \/ txwr' = txwr
         \/ txwr[Peer(s)] = "sent" /\ txwr' = [txwr EXCEPT ![Peer(s)] = "placed"]
  BY PlaceOne DEF IInv, cm
<1>2. PICK m \in Message : wire[s] = <<m>> /\ rcq' = [rcq EXCEPT ![s] = <<m>>]
  BY PlaceOne DEF IInv
<1>3. /\ \A r \in Side : /\ rq'[r] = IF r = s THEN 0 ELSE rq[r]
                         /\ wire'[r] = IF r = s THEN <<>> ELSE wire[r]
                         /\ rcq'[r] = IF r = s THEN <<m>> ELSE rcq[r]
                         /\ txwr'[r] = "none" <=> txwr[r] = "none"
                         /\ txwr'[r] # txwr[r] => r = Peer(s)
  BY <1>1, <1>2, PeerSide DEF IInv, ShortQueues
<1>4. m \in To(s) /\ Said(m) /\ ~Heard(m) /\ ~Has(s, m)
  BY <1>2 DEF IInv, Journeys
<1>5. /\ \A x \in Message : /\ Said(x)' <=> Said(x)
                            /\ Heard(x)' <=> Heard(x)
                            /\ Heard(x) => Said(x)
      /\ \A r \in Side, x \in Event : Has(r, x)' <=> Has(r, x)
  BY EventsKept DEF Said, Heard, program, IInv, Journeys
<1>6. Types' /\ Control' /\ Gathered' /\ Connected' /\ Sends'
  BY <1>1, ProgramKept DEF IInv, Connected
<1>7. Slots'
  BY <1>1, <1>3 DEF IInv, Slots, program, Has
<1>8. Journeys'
  <2>1. \A r \in Side, x \in Message :
         /\ wire'[r] = <<x>> => r # s /\ wire[r] = <<x>>
         /\ rcq'[r] = <<x>> => (r = s /\ x = m) \/ (r # s /\ rcq[r] = <<x>>)
    <3> SUFFICES ASSUME NEW r \in Side, NEW x \in Message
                 PROVE  /\ wire'[r] = <<x>> => r # s /\ wire[r] = <<x>>
                        /\ rcq'[r] = <<x>> => (r = s /\ x = m) \/ (r # s /\ rcq[r] = <<x>>)
      OBVIOUS
    <3>1. <<x>> # <<>> /\ (<<m>> = <<x>> => x = m)
      BY Single
    <3> QED
      BY <1>3, <3>1
  <2>2. Message \subseteq Event
    BY DEF Event
  <2>3. \A r \in Side, x \in Message :
         /\ wire'[r] = <<x>> \/ rcq'[r] = <<x>> \/ Has(r, x) =>
              x \in To(r) /\ Said(x) /\ ~Heard(x)
         /\ wire'[r] = <<x>> => rcq'[r] # <<x>> /\ ~Has(r, x)
    BY <1>4, <2>1 DEF IInv, Journeys
  <2>4. \A r \in Side, x \in Message :
         /\ wire'[r] = <<x>> \/ rcq'[r] = <<x>> \/ Has(r, x)' =>
              x \in To(r) /\ Said(x)' /\ ~Heard(x)'
         /\ wire'[r] = <<x>> => rcq'[r] # <<x>> /\ ~Has(r, x)'
    BY <1>5, <2>2, <2>3
  <2> QED
    BY <1>5, <2>4 DEF IInv, Journeys, program, Message, To
<1>9. Receives'
  <2>1. s = "client" => Said("world")
    BY <1>4 DEF To
  <2>2. s = "server" => m \in {"hello", "ack"} /\ srv.phase # "Reply" /\ Said("hello")
    BY <1>4 DEF To, IInv, Journeys, Said, Heard, Message
  <2>3. s = "server" /\ srv.phase = "Ack" => Said("ack")
    BY <1>4, <2>2 DEF Heard
  <2>4. /\ Said("world")' <=> Said("world")
        /\ Said("hello")' <=> Said("hello")
        /\ Said("ack")' <=> Said("ack")
    BY <1>5 DEF Message
  <2>5. \A x : <<x>> # <<>>
    BY Single
  <2>6. CASE s = "client"
    <3>1. wire'["client"] = <<>> /\ wire'["server"] = wire["server"] /\ rq'["server"] = rq["server"]
      BY <1>3, <2>6
    <3> QED
      BY <1>1, <2>1, <2>4, <2>6, <3>1 DEF IInv, Receives, Live, program
  <2>7. CASE s = "server"
    <3>1. wire'["server"] = <<>> /\ wire'["client"] = wire["client"] /\ rq'["client"] = rq["client"]
      BY <1>3, <2>7
    <3>2. <<"hello">> # <<>> /\ <<"ack">> # <<>>
      BY <2>5
    <3> QED
      BY <1>1, <2>2, <2>3, <2>4, <2>7, <3>1, <3>2 DEF IInv, Receives, Live, program
  <2> QED
    BY <2>6, <2>7
<1>10. AckReaches'
  <2>1. s = "server" /\ cli.ack_posted => m = "ack"
    BY <1>4 DEF To, IInv, Journeys, Said, Heard, Message
  <2>2. rq["server"] = 1 => rcq["server"] = <<>> /\ \A x : <<x>> # <<>>
    BY Single DEF IInv, ShortQueues
  <2>3. CASE s = "server"
    <3>1. cli.ack_posted => rcq'["server"] = <<"ack">>
      BY <1>3, <2>1, <2>3
    <3> QED
      BY <3>1 DEF AckReaches, program
  <2>4. CASE s = "client"
    <3>1. txwr'["client"] = txwr["client"] /\ rcq'["server"] = rcq["server"] /\ tcq' = tcq
      BY <1>1, <1>3, <2>4 DEF Peer
    <3> QED
      BY <3>1 DEF IInv, AckReaches, Heard, program, Has
  <2> QED
    BY <2>3, <2>4
<1> QED
  BY <1>1, <1>6, <1>7, <1>8, <1>9, <1>10 DEF IInv

(* The provider completes a send.                                          *)
LEMMA AcknowledgeKept ==
  ASSUME IInv, NEW s \in Side, Acknowledge(s), UNCHANGED program
  PROVE  IInv'
<1> USE DEF Side
<1>1. /\ ShortQueues' /\ txwr[s] = "placed"
      /\ txwr' = [txwr EXCEPT ![s] = "none"] /\ tcq' = [tcq EXCEPT ![s] = <<"ok">>]
      /\ UNCHANGED <<link, est, told, eqq, gone, broken, rq, wire, rcq>>
  BY AcknowledgeOne DEF IInv, cm
<1>2. \A r \in Side : /\ txwr'[r] = IF r = s THEN "none" ELSE txwr[r]
                      /\ tcq'[r] = IF r = s THEN <<"ok">> ELSE tcq[r]
  BY <1>1 DEF IInv, ShortQueues
<1>3. Types' /\ Control' /\ Gathered' /\ Connected' /\ Sends'
  BY <1>1, ProgramKept DEF IInv, Connected
<1>4. Slots'
  BY <1>1, <1>2 DEF IInv, Slots, program, Has
<1>5. Journeys'
  BY <1>1 DEF IInv, Journeys, Said, Heard, To, Has, program
<1>6. Receives'
  BY <1>1 DEF IInv, Receives, Said, Live, program
<1>7. AckReaches'
  BY <1>1, <1>2 DEF IInv, AckReaches, Heard, Has, program
<1> QED
  BY <1>1, <1>3, <1>4, <1>5, <1>6, <1>7 DEF IInv

(* An endpoint goes to error.                                              *)
LEMMA BreakKept == ASSUME IInv, NEW s \in Side, Break(s), UNCHANGED program PROVE IInv'
<1> USE DEF Side
<1>1. /\ ShortQueues' /\ s \in est /\ s \notin gone /\ broken' = broken \cup {s}
      /\ rq' = [rq EXCEPT ![s] = 0] /\ txwr' = [txwr EXCEPT ![s] = "none"]
      /\ rcq' = [rcq EXCEPT ![s] = IF rq[s] = 1 THEN <<"err">> ELSE rcq[s]]
      /\ tcq' = [tcq EXCEPT ![s] = IF txwr[s] = "none" THEN tcq[s] ELSE <<"err">>]
      /\ wire'[s] = <<>> /\ wire'[Peer(s)] \in {wire[Peer(s)], <<>>}
      /\ UNCHANGED <<link, est, told, eqq, gone>>
  BY BreakOne DEF IInv, cm
<1>2. \A r \in Side : /\ rq'[r] = IF r = s THEN 0 ELSE rq[r]
                      /\ txwr'[r] = IF r = s THEN "none" ELSE txwr[r]
                      /\ rcq'[r] = IF r = s /\ rq[s] = 1 THEN <<"err">> ELSE rcq[r]
                      /\ tcq'[r] = IF r = s /\ txwr[s] # "none" THEN <<"err">> ELSE tcq[r]
                      /\ wire'[r] \in {wire[r], <<>>}
  BY <1>1, PeerSide DEF IInv, ShortQueues, Peer
<1>3. Types' /\ Control' /\ Gathered' /\ Connected' /\ Sends'
  <2>1. broken' \subseteq est
    BY <1>1 DEF IInv, Connected
  <2> QED
    BY <1>1, <2>1, ProgramKept
<1>4. Slots'
  <2>1. \A r \in Side : /\ txwr[r] \in {"none", "sent", "placed"} /\ rq[r] \in {0, 1}
                        /\ rq[r] = 1 => conn[r].rx
                        /\ txwr[r] # "none" => conn[r].tx
    BY DEF IInv, ShortQueues, Slots
  <2> QED
    BY <1>1, <1>2, <2>1 DEF IInv, Slots, program, Has
<1>5. Journeys'
  <2>1. \A r \in Side, m \in Message : /\ rcq'[r] = <<m>> => rcq[r] = <<m>>
                                       /\ wire'[r] = <<m>> => wire[r] = <<m>>
    BY <1>2, Single DEF Message
  <2> QED
    BY <2>1 DEF IInv, Journeys, Said, Heard, To, Has, program
<1>6. Receives'
  BY <1>1, <1>2, Single DEF IInv, Receives, Said, Live, program
<1>7. AckReaches'
  <2>1. rq["server"] = 1 => rcq["server"] # <<"ack">>
    BY Single DEF IInv, ShortQueues
  <2>2. /\ tcq'["client"] = <<"ok">> => tcq["client"] = <<"ok">>
        /\ txwr'["client"] = "placed" => txwr["client"] = "placed"
        /\ rcq["server"] = <<"ack">> => rcq'["server"] = <<"ack">>
    BY <1>2, <2>1, Single
  <2> QED
    BY <2>2 DEF IInv, AckReaches, Heard, Has, program
<1> QED
  BY <1>1, <1>3, <1>4, <1>5, <1>6, <1>7 DEF IInv

-----------------------------------------------------------------------------
(* The invariant.                                                          *)

(* The invariant holds at the start.                                       *)
LEMMA InitIInv == Init => IInv
<1> SUFFICES ASSUME Init PROVE IInv
  OBVIOUS
<1> USE DEF Init, NetworkInit, Side
<1>1. \A s \in Side : \A x : ~Has(s, x)
  BY DEF Has
<1>2. Types
  BY DEF Types, ClientExchange, ServerExchange
<1>3. ShortQueues
  BY Entries DEF ShortQueues
<1>4. /\ ~cli.connected /\ ~cli.hello_posted /\ ~cli.hello_completed
      /\ ~cli.world_received /\ ~cli.ack_posted /\ ~cli.ack_completed
      /\ srv.phase = "Hello"
  BY DEF ClientExchange, ServerExchange
<1>5. \A m \in Message : ~Said(m) /\ ~Heard(m)
  BY <1>4 DEF Said, Heard, Message
<1>6. Control
  BY DEF Control
<1>7. Gathered
  BY <1>1 DEF Gathered, Once
<1>8. Connected
  BY <1>1, <1>4 DEF Connected
<1>9. Slots
  BY <1>1 DEF Slots
<1>10. Journeys
  BY <1>1, <1>5, Single DEF Journeys, Message
<1>11. Sends
  BY <1>1, <1>4 DEF Sends
<1>12. Receives
  BY <1>4 DEF Receives
<1>13. AckReaches
  BY <1>4 DEF AckReaches
<1> QED
  BY <1>2, <1>3, <1>6, <1>7, <1>8, <1>9, <1>10, <1>11, <1>12, <1>13 DEF IInv

(* Every step keeps the invariant.                                         *)
LEMMA StepKept == IInv /\ [Next]_vars => IInv'
<1> SUFFICES ASSUME IInv, [Next]_vars PROVE IInv'
  OBVIOUS
<1>1. CASE UNCHANGED vars
  <2>1. UNCHANGED program /\ UNCHANGED network
    BY <1>1 DEF vars
  <2>2. Types' /\ Control' /\ Gathered' /\ Connected' /\ Sends'
    BY <2>1, ProgramKept DEF IInv, Connected, network, cm
  <2>3. ShortQueues' /\ Slots' /\ Journeys' /\ Receives' /\ AckReaches'
    <3> USE <2>1 DEF IInv, program, network, cm, nic
    <3>1. ShortQueues'
      BY DEF ShortQueues
    <3>2. Slots'
      BY DEF Slots, Has
    <3>3. Journeys'
      BY DEF Journeys, Said, Heard, To, Has
    <3>4. Receives' /\ AckReaches'
      BY DEF Receives, AckReaches, Said, Heard, Live, Has
    <3> QED
      BY <3>1, <3>2, <3>3, <3>4
  <2> QED
    BY <2>2, <2>3 DEF IInv
<1>2. ASSUME NEW s \in Side, Step(s) PROVE IInv'
  <2>1. CASE s = "server" /\ WaitRequest
    BY <2>1, WaitRequestKept
  <2>2. CASE FirstReceive(s) \/ StartCm(s) \/ SetupFails(s)
    BY <2>2, FirstReceiveKept, StartCmKept, FailuresKept
  <2>3. CASE PollTx(s) \/ PollRx(s) \/ PollEq(s)
    BY <2>3, PollTxKept, PollRxKept, PollEqKept
  <2>4. CASE HandleEvent(s)
    BY <2>4, ServerHandles, ClientHandles DEF Side
  <2>5. CASE Decide(s) \/ Repost(s) \/ Send(s)
    BY <2>5, DecideKept, RepostKept, SendKept
  <2>6. CASE Again(s) \/ CallFails(s) \/ Close(s)
    BY <2>6, AgainKept, FailuresKept, CloseKept
  <2> QED
    BY <1>2, <2>1, <2>2, <2>3, <2>4, <2>5, <2>6 DEF Step
<1>3. ASSUME NEW s \in Side, Timeout(s) PROVE IInv'
  BY <1>3, FailuresKept
<1>4. ASSUME NEW s \in Side, Deliver(s) PROVE IInv'
  <2>1. /\ UNCHANGED program
        /\ Establish(s) \/ Disconnected(s) \/ Place(s) \/ Acknowledge(s) \/ Break(s)
    BY <1>4 DEF Deliver
  <2> QED
    BY <2>1, CmKept, PlaceKept, AcknowledgeKept, BreakKept
<1> QED
  BY <1>1, <1>2, <1>3, <1>4 DEF Next

(* The inductive invariant, for every choice of faults.                    *)
THEOREM Inductive == Spec => []IInv
<1>1. Init => IInv
  BY InitIInv
<1>2. IInv /\ [Next]_vars => IInv'
  BY StepKept
<1> QED
  BY <1>1, <1>2, PTL DEF Spec

-----------------------------------------------------------------------------
(* What the runs check of the exchange.                                    *)

(* Every variable keeps its type, and poll() hands over all it gathered.   *)
THEOREM TypeCorrect == Spec => []TypeOK
<1>1. IInv => TypeOK
  <2> SUFFICES ASSUME IInv PROVE TypeOK
    OBVIOUS
  <2>1. NetworkTypeOK
    <3>1. /\ wire \in [Side -> Seq(Message)]
          /\ rcq \in [Side -> Seq(Message \cup {"err"})]
          /\ tcq \in [Side -> Seq({"ok", "err"})]
      BY OneSeq DEF IInv, ShortQueues
    <3> QED
      BY <3>1 DEF IInv, Types, ShortQueues, NetworkTypeOK
  <2>2. \A s \in Side : events[s] # <<>> => pc[s] \in {"rx", "eq", "handle"}
    BY EventsNone DEF IInv, Types, Gathered
  <2> QED
    BY <2>1, <2>2 DEF IInv, Types, TypeOK
<1> QED
  BY <1>1, Inductive, PTL

(* A message never reaches a live endpoint that has no receive posted.     *)
THEOREM ReceiverReady == Spec => []NoReceiverNotReady
<1>1. IInv => NoReceiverNotReady
  <2> SUFFICES ASSUME IInv, NEW s \in Side, s \notin gone \cup broken
               PROVE  Len(wire[s]) <= rq[s]
    BY DEF NoReceiverNotReady
  <2>1. wire[s] \in One(Message) /\ rq[s] \in {0, 1}
    BY DEF IInv, ShortQueues
  <2>2. CASE wire[s] = <<>>
    BY <2>1, <2>2
  <2>3. ASSUME NEW m \in Message, wire[s] = <<m>> PROVE Len(wire[s]) <= rq[s]
    <3>1. m \in To(s) /\ Said(m) /\ ~Heard(m) /\ wire[s] # <<>>
      BY <2>3, Single DEF IInv, Journeys
    <3>2. /\ \A x \in Message : Heard(x) => Said(x)
          /\ Said("world") => Heard("hello")
          /\ Said("ack") => Heard("world") /\ cli.hello_completed
          /\ Said("hello") => cli.connected
          /\ {"hello", "world", "ack"} = Message
      BY DEF IInv, Journeys, Message
    <3>3. Said("hello") /\ cli.hello_posted
      BY <3>1, <3>2 DEF Said
    <3>4. link = "accepted" /\ pc["client"] # "init"
      BY <3>2, <3>3 DEF IInv, Connected
    <3>5. rq[s] = 1
      <4>1. CASE s = "client"
        BY <3>1, <3>3, <3>4, <4>1 DEF IInv, Receives, Live
      <4>2. CASE s = "server" /\ m = "hello"
        BY <2>3, <3>4, <4>2 DEF IInv, Receives, Live
      <4>3. CASE s = "server" /\ m = "ack"
        <5>1. srv.phase = "Ack"
          BY <3>1, <3>2, <4>3 DEF Said, Heard
        <5> QED
          BY <2>3, <4>3, <5>1 DEF IInv, Receives, Live
      <4> QED
        BY <3>1, <4>1, <4>2, <4>3 DEF Side, To
    <3> QED
      BY <2>3, <3>5
  <2> QED
    BY <2>1, <2>2, <2>3 DEF One
<1> QED
  BY <1>1, Inductive, PTL

(* Neither program ever finds the other at fault: the protocol errors of   *)
(* on_event and of the payload check are not reached.                      *)
THEOREM NeitherAtFault == Spec => []NoProtocolError
<1>1. IInv => NoProtocolError
  BY DEF IInv, Control, NoProtocolError
<1> QED
  BY <1>1, Inductive, PTL

(* A send or receive that is not pending is in no queue of the provider.   *)
THEOREM FlagsAreTrue == Spec => []SlotsCoverProvider
<1>1. IInv => SlotsCoverProvider
  BY DEF IInv, Slots, SlotsCoverProvider
<1> QED
  BY <1>1, Inductive, PTL

(* A client that exits well has had its ack delivered, whatever the server *)
(* does next, as long as it has not failed.                                *)
THEOREM AckDelivered == Spec => []ClientOkMeansDelivered
<1>1. IInv => ClientOkMeansDelivered
  <2> SUFFICES ASSUME IInv, verdict["client"] = "ok"
               PROVE  /\ srv.phase \in {"Ack", "Done"}
                      /\ srv.phase = "Ack" /\ verdict["server"] = "none" =>
                           \/ \E i \in DOMAIN rcq["server"] : rcq["server"][i] = "ack"
                           \/ Has("server", "ack")
    BY DEF ClientOkMeansDelivered, Has
  <2>1. cli.world_received /\ cli.ack_completed /\ cli.ack_posted
    BY DEF IInv, Control, ClientComplete, Sends
  <2>2. srv.phase \in {"Ack", "Done"}
    BY <2>1 DEF IInv, Journeys, Said, Heard, Message
  <2>3. ASSUME srv.phase = "Ack", verdict["server"] = "none"
        PROVE  \/ \E i \in DOMAIN rcq["server"] : rcq["server"][i] = "ack"
               \/ Has("server", "ack")
    <3>1. rcq["server"] = <<"ack">> \/ Has("server", "ack")
      BY <2>1, <2>3 DEF IInv, AckReaches, Heard
    <3>2. rcq["server"] = <<"ack">> => 1 \in DOMAIN rcq["server"] /\ rcq["server"][1] = "ack"
      OBVIOUS
    <3> QED
      BY <3>1, <3>2
  <2> QED
    BY <2>2, <2>3
<1> QED
  BY <1>1, Inductive, PTL

-----------------------------------------------------------------------------
(* The refinement of Handshake.                                            *)

(* The mapping, side by side.                                              *)
Count(s) ==
  IF s = "server"
  THEN CASE srv.phase = "Hello" -> 0 [] srv.phase = "Reply" -> 1
         [] srv.phase = "Ack" -> 2   [] srv.phase = "Done" -> 3
  ELSE IF ~cli.hello_posted THEN 0 ELSE IF ~cli.world_received THEN 1
       ELSE IF ~cli.ack_posted THEN 2 ELSE 3

Outcome(s) == IF verdict[s] \in {"none", "ok"} THEN verdict[s] ELSE "failed"

(* Its values.                                                             *)
Counted ==
  /\ srv.phase = "Hello" => Count("server") = 0
  /\ srv.phase = "Reply" => Count("server") = 1
  /\ srv.phase = "Ack" => Count("server") = 2
  /\ srv.phase = "Done" => Count("server") = 3
  /\ ~cli.hello_posted => Count("client") = 0
  /\ cli.hello_posted /\ ~cli.world_received => Count("client") = 1
  /\ cli.hello_posted /\ cli.world_received /\ ~cli.ack_posted => Count("client") = 2
  /\ cli.hello_posted /\ cli.world_received /\ cli.ack_posted => Count("client") = 3

(* They hold in every state.                                               *)
LEMMA Counts == Counted /\ Counted'
<1>1. Counted
  BY DEF Counted, Count
<1>2. Counted'
  BY DEF Counted, Count
<1> QED
  BY <1>1, <1>2

(* The messages are said and heard in their order.                         *)
LEMMA Talk ==
  ASSUME IInv
  PROVE  /\ cli.world_received => cli.hello_posted /\ srv.phase \in {"Ack", "Done"}
         /\ cli.ack_posted => cli.hello_posted /\ cli.world_received
         /\ srv.phase # "Hello" => cli.hello_posted
         /\ srv.phase = "Done" => cli.ack_posted
BY DEF IInv, Journeys, Said, Heard, Message

(* What each kind of step is in the conversation.                          *)
LEMMA IsStutter ==
  ASSUME \A s \in Side : Count(s)' = Count(s) /\ Outcome(s)' = Outcome(s)
  PROVE  UNCHANGED Conversation!vars
<1> DEFINE heard == [r \in Side |-> Count(r)]
           outcome == [r \in Side |-> Outcome(r)]
<1>1. heard' = heard /\ outcome' = outcome
  OBVIOUS
<1> QED
  BY <1>1 DEF Conversation!vars, Count, Outcome

(* A step in which a side takes part in one more message.                  *)
LEMMA IsAdvance ==
  ASSUME NEW s \in Side, verdict[s] = "none", UNCHANGED verdict,
         Count(s) \in 0..2, Count(s)' = Count(s) + 1, Count(Peer(s))' = Count(Peer(s)),
         s = "client" => Count(s) # 1 \/ Count(s) < Count(Peer(s)),
         s = "server" => Count(s) = 1 \/ Count(s) < Count(Peer(s))
  PROVE  Conversation!Next
<1> DEFINE heard == [r \in Side |-> Count(r)]
           outcome == [r \in Side |-> Outcome(r)]
<1>1. /\ outcome[s] = "none" /\ heard[s] < 3 /\ outcome' = outcome
      /\ heard' = [heard EXCEPT ![s] = @ + 1]
      /\ heard[s] = Count(s) /\ heard[Peer(s)] = Count(Peer(s))
  <2>1. heard[s] = Count(s) /\ heard[Peer(s)] = Count(Peer(s)) /\ Peer(s) # s
    BY PeerSide
  <2>2. outcome[s] = "none" /\ outcome' = outcome
    BY DEF Outcome
  <2>3. \A r \in Side : Count(r)' = IF r = s THEN Count(s) + 1 ELSE Count(r)
    BY DEF Side, Peer
  <2>4. heard' = [heard EXCEPT ![s] = @ + 1]
    BY <2>1, <2>3
  <2> QED
    BY <2>1, <2>2, <2>4
<1>2. Conversation!Peer(s) = Peer(s)
  BY DEF Conversation!Peer, Peer
<1>3. Conversation!Speaker(heard[s] + 1) = s \/ heard[s] < heard[Conversation!Peer(s)]
  <2>1. Conversation!Speaker(heard[s] + 1) = IF Count(s) = 1 THEN "server" ELSE "client"
    BY <1>1 DEF Conversation!Speaker
  <2> QED
    BY <1>1, <1>2, <2>1 DEF Side
<1>4. Conversation!Advance(s)
  BY <1>1, <1>3 DEF Conversation!Advance, Count, Outcome
<1> QED
  BY <1>4 DEF Conversation!Next, Conversation!Side, Side

(* A step that ends a side's part.                                         *)
LEMMA IsConclude ==
  ASSUME NEW s \in Side, verdict \in [Side -> {"none", "ok", "timeout", "setup",
                                              "transport", "protocol"}],
         NEW v, v # "none", verdict[s] = "none", verdict' = [verdict EXCEPT ![s] = v],
         \A r \in Side : Count(r)' = Count(r), v = "ok" => Count(s) = 3
  PROVE  Conversation!Next
<1> DEFINE heard == [r \in Side |-> Count(r)]
           outcome == [r \in Side |-> Outcome(r)]
           w == IF v = "ok" THEN "ok" ELSE "failed"
<1>1. /\ outcome[s] = "none" /\ (w = "ok" => heard[s] = 3) /\ heard' = heard
      /\ outcome' = [outcome EXCEPT ![s] = w]
  BY DEF Outcome
<1>2. Conversation!Conclude(s, w)
  BY <1>1 DEF Conversation!Conclude, Count, Outcome
<1> QED
  BY <1>2 DEF Conversation!Next, Conversation!Side, Side

(* A step that leaves both exchanges alone, and one that ends one of them. *)
LEMMA IsQuiet ==
  ASSUME UNCHANGED <<cli, srv, verdict>>
  PROVE  UNCHANGED Conversation!vars
<1>1. \A s \in Side : Count(s)' = Count(s) /\ Outcome(s)' = Outcome(s)
  BY DEF Count, Outcome
<1> QED
  BY <1>1, IsStutter

(* A program ends, and well only when its exchange is complete.            *)
LEMMA IsEnd ==
  ASSUME IInv, NEW s \in Side, pc[s] \notin {"close", "done"}, NEW why,
         why \in {"ok", "timeout", "setup", "transport", "protocol"},
         verdict' = [verdict EXCEPT ![s] = why], UNCHANGED <<cli, srv>>,
         why = "ok" => IF s = "client" THEN ClientComplete ELSE ServerComplete
  PROVE  Conversation!Next
<1>1. verdict[s] = "none"
  BY DEF IInv, Control
<1>2. \A r \in Side : Count(r)' = Count(r)
  BY DEF Count
<1>3. why = "ok" => Count(s) = 3
  <2>1. CASE s = "client"
    <3>1. ClientComplete => cli.world_received /\ cli.ack_posted /\ cli.hello_posted
      BY Talk DEF ClientComplete, IInv, Sends
    <3> QED
      BY <2>1, <3>1, Counts DEF Counted
  <2>2. CASE s = "server"
    BY <2>2, Counts DEF Counted, ServerComplete
  <2> QED
    BY <2>1, <2>2 DEF Side
<1>4. verdict \in [Side -> {"none", "ok", "timeout", "setup", "transport", "protocol"}]
  BY DEF IInv, Types
<1> QED
  BY <1>1, <1>2, <1>3, <1>4, IsConclude

(* poll(), and what else can only fail.                                    *)
LEMMA CallMaps ==
  ASSUME IInv, NEW s \in Side,
         PollTx(s) \/ PollRx(s) \/ PollEq(s) \/ SetupFails(s) \/ CallFails(s) \/ Timeout(s)
  PROVE  Conversation!Next \/ UNCHANGED Conversation!vars
<1>1. pc[s] \notin {"close", "done"} /\ UNCHANGED <<cli, srv>>
  BY DEF PollTx, PollRx, PollEq, SetupFails, CallFails, Timeout
<1>2. \/ UNCHANGED verdict
      \/ \E why \in {"timeout", "setup", "transport", "protocol"} : Fail(s, why)
  BY DEF PollTx, PollRx, PollEq, SetupFails, CallFails, Timeout
<1>3. CASE UNCHANGED verdict
  BY <1>1, <1>3, IsQuiet
<1>4. ASSUME NEW why \in {"timeout", "setup", "transport", "protocol"}, Fail(s, why)
      PROVE  Conversation!Next
  <2>1. verdict' = [verdict EXCEPT ![s] = why] /\ why # "ok"
    BY <1>4 DEF Fail
  <2> QED
    BY <1>1, <2>1, IsEnd
<1> QED
  BY <1>2, <1>3, <1>4

(* A program ends well only when its exchange is complete.                 *)
LEMMA DecideMaps ==
  ASSUME IInv, NEW s \in Side, Decide(s)
  PROVE  Conversation!Next \/ UNCHANGED Conversation!vars
<1>1. pc[s] = "handle" /\ UNCHANGED <<cli, srv>>
  BY DEF Decide
<1>2. CASE IF s = "client" THEN ClientComplete ELSE ServerComplete
  <2>1. verdict' = [verdict EXCEPT ![s] = "ok"]
    BY <1>2 DEF Decide
  <2> QED
    BY <1>1, <1>2, <2>1, IsEnd
<1>3. CASE ~IF s = "client" THEN ClientComplete ELSE ServerComplete
  <2>1. UNCHANGED verdict
    BY <1>3 DEF Decide
  <2> QED
    BY <1>1, <2>1, IsQuiet
<1> QED
  BY <1>2, <1>3

(* A side hears a message that the other has said.                         *)
LEMMA ServerHears ==
  ASSUME IInv, HandleEvent("server")
  PROVE  Conversation!Next \/ UNCHANGED Conversation!vars
<1> DEFINE e == Head(events["server"])
<1>1. pc["server"] = "handle" /\ events["server"] # <<>> /\ UNCHANGED cli
  BY DEF HandleEvent, Fail, Side
<1>2. CASE Fail("server", "protocol") /\ UNCHANGED srv
  <2>1. verdict' = [verdict EXCEPT !["server"] = "protocol"] /\ "server" \in Side
    BY <1>2 DEF Fail, Side
  <2> QED
    BY <1>1, <1>2, <2>1, IsEnd
<1>3. CASE ServerAccepts(e) /\ srv' = ServerOnEvent(e) /\ UNCHANGED verdict
  <2>1. /\ e = "hello" => srv.phase = "Hello" /\ srv'.phase = "Reply"
        /\ e = "ack" => srv.phase = "Ack" /\ srv'.phase = "Done"
        /\ e \notin {"hello", "ack"} => srv'.phase = srv.phase
        /\ srv.phase \in {"Hello", "Reply", "Ack", "Done"}
    BY <1>3 DEF IInv, Types, ServerAccepts, ServerOnEvent, Message
  <2>2. Has("server", e)
    BY <1>1, HeadTailProperties DEF IInv, Types, Has, Side
  <2>3. e \in {"hello", "ack"} => Said(e)
    BY <2>2 DEF IInv, Journeys, Message, Side
  <2>4. Count("client")' = Count("client")
    BY <1>1 DEF Count
  <2>5. CASE e = "hello"
    <3>1. Count("server") = 0 /\ Count("server")' = 1 /\ Count("client") > 0
      BY <2>1, <2>3, <2>5, Counts DEF Counted, Said
    <3> QED
      BY <1>1, <1>3, <2>4, <3>1, IsAdvance DEF IInv, Control, Side, Peer
  <2>6. CASE e = "ack"
    <3>1. Count("server") = 2 /\ Count("server")' = 3 /\ Count("client") = 3
      BY <2>1, <2>3, <2>6, Talk, Counts DEF Counted, Said
    <3> QED
      BY <1>1, <1>3, <2>4, <3>1, IsAdvance DEF IInv, Control, Side, Peer
  <2>7. CASE e \notin {"hello", "ack"}
    <3>1. Count("server")' = Count("server")
      BY <2>1, <2>7, Counts DEF Counted
    <3> QED
      BY <1>3, <2>4, <3>1, IsStutter DEF Outcome, Side
  <2> QED
    BY <2>5, <2>6, <2>7
<1> QED
  BY <1>2, <1>3 DEF HandleEvent

(* The client hears world after the server has said it.                    *)
LEMMA ClientHears ==
  ASSUME IInv, HandleEvent("client")
  PROVE  Conversation!Next \/ UNCHANGED Conversation!vars
<1> DEFINE e == Head(events["client"])
<1>1. pc["client"] = "handle" /\ events["client"] # <<>> /\ UNCHANGED srv
  BY DEF HandleEvent, Fail, Side
<1>2. CASE Fail("client", "protocol") /\ UNCHANGED cli
  <2>1. verdict' = [verdict EXCEPT !["client"] = "protocol"] /\ "client" \in Side
    BY <1>2 DEF Fail, Side
  <2> QED
    BY <1>1, <1>2, <2>1, IsEnd
<1>3. CASE ClientAccepts(e) /\ cli' = ClientOnEvent(e) /\ UNCHANGED verdict
  <2>1. /\ cli'.world_received <=> cli.world_received \/ e = "world"
        /\ cli'.hello_posted <=> cli.hello_posted
        /\ cli'.ack_posted <=> cli.ack_posted
        /\ e = "world" => cli.hello_posted /\ ~cli.world_received
    BY <1>3 DEF IInv, Types, ClientAccepts, ClientOnEvent, Message
  <2>2. Has("client", e)
    BY <1>1, HeadTailProperties DEF IInv, Types, Has, Side
  <2>3. e = "world" => Said(e)
    BY <2>2 DEF IInv, Journeys, Message, Side
  <2>4. Count("server")' = Count("server")
    BY <1>1 DEF Count
  <2>5. CASE e = "world"
    <3>1. Count("client") = 1 /\ Count("client")' = 2 /\ Count("server") > 1
      BY <2>1, <2>3, <2>5, Talk, Counts DEF Counted, Said
    <3> QED
      BY <1>1, <1>3, <2>4, <3>1, IsAdvance DEF IInv, Control, Side, Peer
  <2>6. CASE e # "world"
    <3>1. Count("client")' = Count("client")
      BY <2>1, <2>6, Counts DEF Counted
    <3> QED
      BY <1>3, <2>4, <3>1, IsStutter DEF Outcome, Side
  <2> QED
    BY <2>5, <2>6
<1> QED
  BY <1>2, <1>3 DEF HandleEvent

(* And says its own when it is its turn.                                   *)
LEMMA SendMaps ==
  ASSUME IInv, NEW s \in Side, Send(s)
  PROVE  Conversation!Next \/ UNCHANGED Conversation!vars
<1>1. ~conn[s].tx /\ verdict[s] = "none" /\ pc[s] = "send" /\ UNCHANGED verdict
  BY SlotFree DEF Send
<1>2. CASE s = "server"
  <2>1. srv' = [srv EXCEPT !.phase = "Ack"] /\ cli' = Posted("world")
    BY <1>1, <1>2 DEF Send
  <2>2. srv.phase = "Reply" /\ srv'.phase = "Ack"
    BY <1>1, <1>2, <2>1 DEF IInv, Types, Control
  <2>3. /\ cli'.world_received = cli.world_received
        /\ cli'.hello_posted <=> cli.hello_posted
        /\ cli'.ack_posted <=> cli.ack_posted
    BY <2>1 DEF IInv, Types, Posted
  <2>4. Count("client")' = Count("client")
    BY <2>3, Counts DEF Counted
  <2>5. Count("server") = 1 /\ Count("server")' = 2
    BY <2>2, Counts DEF Counted
  <2> QED
    BY <1>1, <1>2, <2>4, <2>5, IsAdvance DEF Peer
<1>3. CASE s = "client"
  <2>1. NextMessage \in {"hello", "ack"} /\ srv' = srv /\ cli' = Posted(NextMessage)
    BY <1>1, <1>3, SlotFree DEF Send
  <2>2. /\ NextMessage = "hello" => ~cli.hello_posted
        /\ NextMessage = "ack" => cli.hello_posted /\ cli.world_received /\ ~cli.ack_posted
    BY DEF NextMessage
  <2>3. /\ cli'.world_received = cli.world_received
        /\ cli'.hello_posted <=> cli.hello_posted \/ NextMessage = "hello"
        /\ cli'.ack_posted <=> cli.ack_posted \/ NextMessage = "ack"
    BY <2>1 DEF IInv, Types, Posted
  <2>4. Count("server")' = Count("server")
    BY <2>1 DEF Count
  <2>5. \/ Count("client") = 0 /\ Count("client")' = 1
        \/ Count("client") = 2 /\ Count("client")' = 3
    BY <2>1, <2>2, <2>3, Talk, Counts DEF Counted
  <2> QED
    BY <1>1, <1>3, <2>4, <2>5, IsAdvance DEF Peer
<1> QED
  BY <1>2, <1>3 DEF Side

(* The exchange is a conversation of Handshake.                            *)
THEOREM Refinement == Spec => ImplementsHandshake
<1>1. Init => Conversation!Init
  <2> SUFFICES ASSUME Init PROVE Conversation!Init
    OBVIOUS
  <2> DEFINE heard == [r \in Side |-> Count(r)]
             outcome == [r \in Side |-> Outcome(r)]
  <2>1. srv.phase = "Hello" /\ ~cli.hello_posted /\ verdict = [r \in Side |-> "none"]
    BY DEF Init, ClientExchange, ServerExchange
  <2>2. heard = [r \in Side |-> 0] /\ outcome = [r \in Side |-> "none"]
    BY <2>1, Counts DEF Counted, Outcome, Side
  <2> QED
    BY <2>2 DEF Conversation!Init, Conversation!Side, Side, Count, Outcome
<1>2. IInv /\ [Next]_vars => [Conversation!Next]_Conversation!vars
  <2> SUFFICES ASSUME IInv, [Next]_vars
               PROVE  Conversation!Next \/ UNCHANGED Conversation!vars
    OBVIOUS
  <2>1. CASE UNCHANGED vars
    BY <2>1, IsQuiet DEF vars, program
  <2>2. ASSUME NEW s \in Side, Deliver(s)
        PROVE  Conversation!Next \/ UNCHANGED Conversation!vars
    BY <2>2, IsQuiet DEF Deliver, program
  <2>3. ASSUME NEW s \in Side, Step(s) \/ Timeout(s)
        PROVE  Conversation!Next \/ UNCHANGED Conversation!vars
    <3>1. CASE (s = "server" /\ WaitRequest) \/ FirstReceive(s) \/ StartCm(s)
      BY <3>1, IsQuiet DEF WaitRequest, FirstReceive, StartCm
    <3>2. CASE Repost(s) \/ Again(s) \/ Close(s)
      BY <3>2, IsQuiet DEF Repost, Again, Close
    <3>3. CASE PollTx(s) \/ PollRx(s) \/ PollEq(s)
      BY <3>3, CallMaps
    <3>4. CASE SetupFails(s) \/ CallFails(s) \/ Timeout(s)
      BY <3>4, CallMaps
    <3>5. CASE HandleEvent(s)
      BY <3>5, ServerHears, ClientHears DEF Side
    <3>6. CASE Decide(s) \/ Send(s)
      BY <3>6, DecideMaps, SendMaps
    <3> QED
      BY <2>3, <3>1, <3>2, <3>3, <3>4, <3>5, <3>6 DEF Step
  <2> QED
    BY <2>1, <2>2, <2>3 DEF Next
<1> QED
  BY <1>1, <1>2, Inductive, PTL DEF Spec, Conversation!Spec, ImplementsHandshake

(* What Handshake promises, of the two programs: they are never more than  *)
(* one message apart, and one that exits well knows that the other has     *)
(* taken part in all but the last.                                         *)
THEOREM StaysInStep == Spec => []Conversation!InStep
<1>1. IInv => Conversation!InStep
  <2> SUFFICES ASSUME IInv PROVE Conversation!InStep
    OBVIOUS
  <2> DEFINE heard == [r \in Side |-> Count(r)]
             outcome == [r \in Side |-> Outcome(r)]
  <2>1. srv.phase \in {"Hello", "Reply", "Ack", "Done"}
    BY DEF IInv, Types
  <2>2. Counted
    BY Counts
  <2>3. /\ Count("client") \in 0..3 /\ Count("server") \in 0..3
        /\ Count("client") <= Count("server") + 1
        /\ Count("server") <= Count("client") + 1
    BY <2>1, <2>2, Talk DEF Counted
  <2>4. verdict["client"] = "ok" => Count("server") >= 2
    <3>1. verdict["client"] = "ok" => cli.world_received
      BY DEF IInv, Control, ClientComplete
    <3> QED
      BY <2>1, <2>2, <3>1, Talk DEF Counted
  <2>5. verdict["server"] = "ok" => Count("client") >= 2
    <3>1. verdict["server"] = "ok" => srv.phase = "Done"
      BY DEF IInv, Control, ServerComplete
    <3> QED
      BY <2>1, <2>2, <3>1, Talk DEF Counted
  <2>6. /\ heard["client"] = Count("client") /\ heard["server"] = Count("server")
        /\ \A s \in Side : outcome[s] = "ok" => verdict[s] = "ok"
    BY DEF Side, Outcome
  <2>7. \A s \in Side : /\ heard[s] <= heard[Conversation!Peer(s)] + 1
                        /\ outcome[s] = "ok" => heard[Conversation!Peer(s)] >= 2
    <3> HIDE DEF heard, outcome
    <3> QED
      BY <2>3, <2>4, <2>5, <2>6 DEF Conversation!Peer, Side
  <2> QED
    BY <2>7 DEF Conversation!InStep, Conversation!Side, Side, Count, Outcome
<1> QED
  BY <1>1, Inductive, PTL
=============================================================================
