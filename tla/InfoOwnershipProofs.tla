------------------------- MODULE InfoOwnershipProofs -------------------------
(***************************************************************************)
(* Proofs about InfoOwnership, for any number of cells, any result lists   *)
(* and any number of events: who owns each cell while a call is under way, *)
(* and from it that nothing leaks, that a query gives what was asked for,  *)
(* and that no connection request is lost.                                 *)
(***************************************************************************)
EXTENDS InfoOwnership, SequenceTheorems, TLAPS

(* Which local variables of a call are set at which place.                 *)
LocalsSet ==
  /\ call.hints = Null <=> call.at \in {"idle", "hints", "read"}
  /\ call.at \in {"idle", "hints", "query", "read"} => call.results = Null
  /\ call.at \in {"scan", "wrap", "copy"} => call.results # Null
  /\ call.at \in {"idle", "hints", "query", "scan", "wrap"} => call.wrapper = Null
  /\ call.at \in {"copy", "read"} => call.wrapper # Null

(* A wrapper belongs to the caller or to the call in progress.             *)
WrappersOwned ==
  /\ used = held \cup ({call.wrapper} \ {Null})
  /\ call.wrapper \notin held
  /\ call.wrapper # Null => raw[call.wrapper] = Null

(* A native cell belongs to a local variable, to a shim_info of the caller *)
(* or to an event, and its kind tells which.                               *)
Taken(n) ==
  \/ \E w \in held : raw[w] = n
  \/ \E i \in DOMAIN queue : queue[i].info = n

CellsOwned ==
  /\ \A n \in Natives : kind[n] = "hints" <=> n = call.hints
  /\ \A n \in Natives : kind[n] = "list" <=> n = call.results
  /\ \A n \in Natives : kind[n] \in {"copy", "request"} <=> Taken(n)
  /\ \A w \in held : raw[w] \in Natives

(* No two owners share a cell.                                             *)
Apart ==
  /\ \A v, w \in held : raw[v] = raw[w] => v = w
  /\ \A w \in held, i \in DOMAIN queue : queue[i].info # raw[w]
  /\ \A i, j \in DOMAIN queue :
       queue[i].info = queue[j].info /\ queue[i].info # Null => i = j

(* Only a request names one that is pending, and in the EQ only a CONNREQ. *)
Pending ==
  /\ \A n \in Natives : handle[n] => kind[n] = "request"
  /\ \A i \in DOMAIN queue :
       queue[i].info # Null /\ handle[queue[i].info] => queue[i].type = "connreq"

(* What was given out is the caller's, and a call gives out nothing before *)
(* its end.                                                                *)
GivenOut ==
  /\ out # Null => ret = "ok" /\ out \in held
  /\ call.at \notin {"idle", "cleanup"} => out = Null

(* From the selection on, the entry at hand is one that was asked for.     *)
Asked ==
  /\ call.at \in {"wrap", "copy"} =>
       /\ call.next \in 1..Len(about[call.results])
       /\ Suitable(about[call.results][call.next])
  /\ call.at = "cleanup" /\ out # Null =>
       Len(about[raw[out]]) = 1 /\ Suitable(about[raw[out]][1])

IInv ==
  TypeOK /\ LocalsSet /\ WrappersOwned /\ CellsOwned /\ Apart /\ Pending
  /\ GivenOut /\ Asked

-----------------------------------------------------------------------------
(* Sequences as queues.                                                    *)

(* What an entry appended to a queue changes.                              *)
LEMMA AppendEntry ==
  ASSUME NEW S, NEW q \in Seq(S), NEW e \in S
  PROVE  /\ Append(q, e) \in Seq(S)
         /\ Len(q) + 1 \in DOMAIN Append(q, e) /\ Len(q) + 1 \notin DOMAIN q
         /\ Append(q, e)[Len(q) + 1] = e
         /\ \A i \in DOMAIN q : i \in DOMAIN Append(q, e) /\ Append(q, e)[i] = q[i]
         /\ \A i \in DOMAIN Append(q, e) :
              (i \in DOMAIN q /\ Append(q, e)[i] = q[i])
              \/ (i = Len(q) + 1 /\ Append(q, e)[i] = e)
<1> QED
  BY AppendProperties

(* What reading its head changes.                                          *)
LEMMA TailEntries ==
  ASSUME NEW S, NEW q \in Seq(S), q # <<>>
  PROVE  /\ Tail(q) \in Seq(S) /\ Head(q) \in S
         /\ 1 \in DOMAIN q /\ Head(q) = q[1]
         /\ \A i \in DOMAIN Tail(q) :
              i \in Nat /\ i + 1 \in DOMAIN q /\ i + 1 # 1 /\ Tail(q)[i] = q[i + 1]
         /\ \A i \in DOMAIN q :
              i = 1 \/ (i - 1 \in DOMAIN Tail(q) /\ Tail(q)[i - 1] = q[i])
<1> QED
  BY HeadTailProperties

-----------------------------------------------------------------------------
(* The empty sequence, as a list of results and as the EQ.                 *)
LEMMA EmptySequence ==
  <<>> \in Seq(Candidate) /\ <<>> \in Seq(Events) /\ DOMAIN <<>> = {}
OBVIOUS

(* What the events of the EQ can carry.                                    *)
LEMMA EntryInfo ==
  ASSUME TypeOK, NEW i \in DOMAIN queue
  PROVE  queue[i] \in Events /\ queue[i].info \in Natives \cup {Null}
<1>1. queue[i] \in Events
  BY DEF TypeOK
<1> QED
  BY <1>1 DEF Events

(* A free cell has no owner.                                               *)
LEMMA FreeIsUntaken ==
  ASSUME IInv, NEW n \in Natives, kind[n] = "free"
  PROVE  n # call.hints /\ n # call.results /\ ~Taken(n)
BY DEF IInv, CellsOwned

(* At first nothing is allocated.                                          *)
LEMMA InitOwned == Init => IInv
<1> SUFFICES ASSUME Init PROVE IInv
  OBVIOUS
<1>1. TypeOK
  BY EmptySequence, MaxEventsNumber DEF Init, TypeOK, Calls, Idle
<1>2. LocalsSet /\ WrappersOwned
  BY DEF Init, LocalsSet, WrappersOwned, Idle
<1>3. CellsOwned /\ Apart /\ Pending
  BY EmptySequence, NullIsNoCell DEF Init, CellsOwned, Taken, Apart, Pending, Idle
<1>4. GivenOut /\ Asked
  BY DEF Init, GivenOut, Asked, Idle
<1> QED
  BY <1>1, <1>2, <1>3, <1>4 DEF IInv

-----------------------------------------------------------------------------
(* Steps of a query.                                                       *)

(* A query begins with nothing of its own.                                 *)
LEMMA InfoOpenOwned ==
  ASSUME IInv, NEW domain \in Domains \cup {Null}, NEW is_source \in BOOLEAN,
         InfoOpen(domain, is_source)
  PROVE  IInv'
<1> USE DEF InfoOpen, cells, heap, eq, Idle
<1>1. TypeOK'
  BY DEF IInv, TypeOK, Calls
<1>2. LocalsSet' /\ WrappersOwned'
  BY DEF IInv, TypeOK, LocalsSet, WrappersOwned
<1>3. CellsOwned' /\ Apart' /\ Pending'
  BY DEF IInv, CellsOwned, Taken, Apart, Pending
<1>4. GivenOut' /\ Asked'
  BY DEF IInv, GivenOut, Asked
<1> QED
  BY <1>1, <1>2, <1>3, <1>4 DEF IInv

(* Going to the cleanup gives nothing away.                                *)
LEMMA ErrorOwned ==
  ASSUME IInv, Error, call.at \in {"query", "scan", "wrap", "copy"}
  PROVE  IInv'
<1> USE DEF Error, At, cells, heap, eq
<1>1. TypeOK'
  BY DEF IInv, TypeOK, Calls
<1>2. LocalsSet' /\ WrappersOwned'
  BY DEF IInv, TypeOK, Calls, LocalsSet, WrappersOwned
<1>3. CellsOwned' /\ Apart' /\ Pending'
  BY DEF IInv, TypeOK, Calls, CellsOwned, Taken, Apart, Pending
<1>4. GivenOut' /\ Asked'
  BY DEF IInv, TypeOK, Calls, GivenOut, Asked
<1> QED
  BY <1>1, <1>2, <1>3, <1>4 DEF IInv

(* The hints are the call's, or the call ends with nothing.                *)
LEMMA AllocHintsOwned ==
  ASSUME IInv, AllocHints
  PROVE  IInv'
<1> USE DEF heap, eq
<1>1. ASSUME call.at = "hints", Return("error", Null),
             UNCHANGED <<cells, heap, held, eq>>
      PROVE  IInv'
  <2> USE <1>1 DEF Return, Idle, cells
  <2>1. TypeOK'
    BY DEF IInv, TypeOK, Calls
  <2>2. LocalsSet' /\ WrappersOwned'
    BY DEF IInv, TypeOK, Calls, LocalsSet, WrappersOwned
  <2>3. CellsOwned' /\ Apart' /\ Pending'
    BY DEF IInv, TypeOK, Calls, LocalsSet, CellsOwned, Taken, Apart, Pending
  <2>4. GivenOut' /\ Asked'
    BY DEF IInv, GivenOut, Asked
  <2> QED
    BY <2>1, <2>2, <2>3, <2>4 DEF IInv
<1>2. ASSUME NEW n \in Natives, NewNative(n, "hints", <<>>, FALSE),
             call' = [call EXCEPT !.at = "query", !.hints = n],
             call.at = "hints", UNCHANGED <<out, ret, heap, held, eq>>
      PROVE  IInv'
  <2> USE <1>2, NullIsNoCell DEF NewNative
  <2>1. TypeOK'
    BY EmptySequence DEF IInv, TypeOK, Calls
  <2>2. LocalsSet' /\ WrappersOwned'
    BY DEF IInv, TypeOK, Calls, LocalsSet, WrappersOwned
  <2>3. CellsOwned'
    <3>1. \A m \in Natives : Taken(m)' <=> Taken(m)
      BY DEF Taken
    <3>2. \A m \in Natives : kind'[m] = IF m = n THEN "hints" ELSE kind[m]
      BY DEF IInv, TypeOK
    <3>3. call'.hints = n /\ call'.results = call.results /\ call.hints = Null
      BY DEF IInv, TypeOK, Calls, LocalsSet
    <3> QED
      BY <3>1, <3>2, <3>3, FreeIsUntaken DEF IInv, CellsOwned
  <2>4. Apart' /\ Pending'
    <3>1. \A m \in Natives : handle'[m] => m # n /\ handle[m]
      BY DEF IInv, TypeOK
    <3>2. \A m \in Natives : kind'[m] = IF m = n THEN "hints" ELSE kind[m]
      BY DEF IInv, TypeOK
    <3> QED
      BY <3>1, <3>2, EntryInfo DEF IInv, Apart, Pending
  <2>5. GivenOut' /\ Asked'
    BY DEF IInv, TypeOK, Calls, GivenOut, Asked
  <2> QED
    BY <2>1, <2>2, <2>3, <2>4, <2>5 DEF IInv
<1> QED
  BY <1>1, <1>2 DEF AllocHints

(* The result list is the call's.                                          *)
LEMMA QueryOwned ==
  ASSUME IInv, Query
  PROVE  IInv'
<1>1. CASE Error
  BY <1>1, ErrorOwned DEF Query
<1>2. ASSUME NEW n \in Natives, NEW list \in Lists, NewNative(n, "list", list, FALSE),
             call.at = "query", call' = [call EXCEPT !.at = "scan", !.results = n],
             UNCHANGED <<heap, held, out, ret, eq>>
      PROVE  IInv'
  <2> USE <1>2, NullIsNoCell DEF NewNative, heap, eq
  <2>1. TypeOK'
    BY ListsKnown DEF IInv, TypeOK, Calls
  <2>2. LocalsSet' /\ WrappersOwned'
    BY DEF IInv, TypeOK, Calls, LocalsSet, WrappersOwned
  <2>3. CellsOwned'
    <3>1. \A m \in Natives : Taken(m)' <=> Taken(m)
      BY DEF Taken
    <3>2. \A m \in Natives : kind'[m] = IF m = n THEN "list" ELSE kind[m]
      BY DEF IInv, TypeOK
    <3>3. call'.hints = call.hints /\ call'.results = n
      BY DEF IInv, TypeOK, Calls
    <3> QED
      BY <3>1, <3>2, <3>3, FreeIsUntaken DEF IInv, LocalsSet, CellsOwned
  <2>4. Apart' /\ Pending'
    <3>1. \A m \in Natives : handle'[m] => m # n /\ handle[m]
      BY DEF IInv, TypeOK
    <3>2. \A m \in Natives : kind'[m] = IF m = n THEN "list" ELSE kind[m]
      BY DEF IInv, TypeOK
    <3> QED
      BY <3>1, <3>2, EntryInfo DEF IInv, Apart, Pending
  <2>5. GivenOut' /\ Asked'
    BY DEF IInv, TypeOK, Calls, GivenOut, Asked
  <2> QED
    BY <2>1, <2>2, <2>3, <2>4, <2>5 DEF IInv
<1> QED
  BY <1>1, <1>2 DEF Query

(* An entry is selected only if it was asked for.                          *)
LEMMA ScanOwned ==
  ASSUME IInv, Scan
  PROVE  IInv'
<1> DEFINE results == about[call.results]
<1>1. CASE call.next > Len(results)
  BY <1>1, ErrorOwned DEF Scan
<1>2. CASE ~(call.next > Len(results))
  <2> DEFINE fits == Suitable(results[call.next])
  <2>1. /\ call.at = "scan" /\ call' \in Calls
        /\ call'.domain = call.domain /\ call'.is_source = call.is_source
        /\ call'.hints = call.hints /\ call'.results = call.results
        /\ call'.wrapper = call.wrapper
        /\ fits => call'.at = "wrap" /\ call'.next = call.next
        /\ ~fits => call'.at = "scan"
        /\ UNCHANGED <<cells, heap, held, out, ret, eq>>
    <3>1. call.next + 1 \in Nat \ {0} /\ call \in Calls
      BY DEF IInv, TypeOK, Calls
    <3>2. CASE fits
      <4>1. /\ call.at = "scan" /\ call' = [call EXCEPT !.at = "wrap"]
            /\ UNCHANGED <<cells, heap, held, out, ret, eq>>
        BY <1>2, <3>2 DEF Scan
      <4> QED
        BY <3>1, <3>2, <4>1 DEF Calls
    <3>3. CASE ~fits
      <4>1. /\ call.at = "scan" /\ call' = [call EXCEPT !.next = call.next + 1]
            /\ UNCHANGED <<cells, heap, held, out, ret, eq>>
        BY <1>2, <3>3 DEF Scan
      <4> QED
        BY <3>1, <3>3, <4>1 DEF Calls
    <3> QED
      BY <3>2, <3>3
  <2> HIDE DEF fits
  <2> USE <2>1 DEF cells, heap, eq
  <2>2. TypeOK'
    BY DEF IInv, TypeOK
  <2>3. LocalsSet' /\ WrappersOwned'
    BY DEF IInv, LocalsSet, WrappersOwned
  <2>4. CellsOwned' /\ Apart' /\ Pending'
    BY DEF IInv, TypeOK, CellsOwned, Taken, Apart, Pending
  <2>5. GivenOut' /\ Asked'
    <3>1. GivenOut' /\ call'.at # "cleanup" /\ call'.at # "copy"
      BY DEF IInv, GivenOut
    <3>2. ASSUME call'.at = "wrap"
          PROVE  call.next \in 1..Len(results) /\ fits
      <4>1. Len(results) \in Nat /\ call.next \in Nat \ {0}
        BY DEF IInv, TypeOK, Calls, LocalsSet
      <4> QED
        BY <1>2, <3>2, <4>1
    <3>3. fits => Suitable(results[call.next])'
      BY DEF fits, Suitable
    <3> QED
      BY <3>1, <3>2, <3>3 DEF Asked
  <2> QED
    BY <2>2, <2>3, <2>4, <2>5 DEF IInv
<1> QED
  BY <1>1, <1>2

(* A fresh wrapper is the call's.                                          *)
LEMMA WrapOwned ==
  ASSUME IInv, Wrap
  PROVE  IInv'
<1>1. CASE Error
  BY <1>1, ErrorOwned DEF Wrap
<1>2. ASSUME NEW w \in Wrappers, NewWrapper(w),
             call.at = "wrap", call' = [call EXCEPT !.at = "copy", !.wrapper = w],
             UNCHANGED <<cells, held, out, ret, eq>>
      PROVE  IInv'
  <2> USE <1>2, NullIsNoCell DEF NewWrapper, cells, eq
  <2>1. TypeOK'
    BY DEF IInv, TypeOK, Calls
  <2>2. LocalsSet' /\ WrappersOwned'
    BY DEF IInv, TypeOK, Calls, LocalsSet, WrappersOwned
  <2>3. CellsOwned'
    <3>1. \A m \in Natives : Taken(m)' <=> Taken(m)
      BY DEF IInv, TypeOK, WrappersOwned, Taken
    <3>2. call'.hints = call.hints /\ call'.results = call.results
      BY DEF IInv, TypeOK, Calls
    <3> QED
      BY <3>1, <3>2 DEF IInv, TypeOK, WrappersOwned, CellsOwned
  <2>4. Apart' /\ Pending'
    BY EntryInfo DEF IInv, TypeOK, WrappersOwned, Apart, Pending
  <2>5. GivenOut' /\ Asked'
    BY DEF IInv, TypeOK, Calls, GivenOut, Asked, Suitable
  <2> QED
    BY <2>1, <2>2, <2>3, <2>4, <2>5 DEF IInv
<1> QED
  BY <1>1, <1>2 DEF Wrap

(* The one step that gives a configuration to the caller.                  *)
LEMMA CopyOwned ==
  ASSUME IInv, Copy
  PROVE  IInv'
<1>1. CASE Error
  BY <1>1, ErrorOwned DEF Copy
<1>2. ASSUME NEW n \in Natives,
             NewNative(n, "copy", <<about[call.results][call.next]>>, FALSE),
             call.at = "copy", raw' = [raw EXCEPT ![call.wrapper] = n],
             out' = call.wrapper, ret' = "ok", held' = held \cup {call.wrapper},
             call' = [call EXCEPT !.at = "cleanup", !.wrapper = Null],
             UNCHANGED <<used, eq>>
      PROVE  IInv'
  <2> DEFINE p == about[call.results][call.next]
  <2> USE <1>2, NullIsNoCell DEF NewNative, eq
  <2>1. p \in Candidate /\ Suitable(p)
    <3>1. about[call.results] \in Seq(Candidate)
      BY DEF IInv, TypeOK, Calls, LocalsSet
    <3> QED
      BY <3>1 DEF IInv, Asked
  <2> HIDE DEF p
  <2>2. /\ call' \in Calls /\ call'.at = "cleanup" /\ call'.wrapper = Null
        /\ call'.hints = call.hints /\ call'.results = call.results
        /\ call'.domain = call.domain /\ call'.is_source = call.is_source
    BY DEF IInv, TypeOK, Calls
  <2>3. call.wrapper \in Wrappers /\ call.wrapper \notin held /\ call.hints # Null
    BY DEF IInv, TypeOK, Calls, LocalsSet, WrappersOwned
  <2>4. \A w \in held : raw'[w] = raw[w] /\ raw[w] \in Natives
    BY <2>3 DEF IInv, TypeOK, CellsOwned
  <2>5. raw'[call.wrapper] = n
    BY <2>3 DEF IInv, TypeOK
  <2>6. TypeOK'
    <3>1. <<p>> \in Seq(Candidate)
      BY <2>1
    <3> QED
      BY <2>2, <2>3, <3>1 DEF IInv, TypeOK, WrappersOwned, p
  <2>7. LocalsSet' /\ WrappersOwned'
    BY <2>2, <2>3 DEF IInv, TypeOK, LocalsSet, WrappersOwned
  <2>8. CellsOwned'
    <3>1. \A m \in Natives : Taken(m)' <=> Taken(m) \/ m = n
      BY <2>3, <2>4, <2>5 DEF Taken
    <3>2. \A m \in Natives : kind'[m] = IF m = n THEN "copy" ELSE kind[m]
      BY DEF IInv, TypeOK
    <3>3. \A w \in held' : raw'[w] \in Natives
      BY <2>4, <2>5
    <3> QED
      BY <2>2, <3>1, <3>2, <3>3, FreeIsUntaken DEF IInv, CellsOwned
  <2>9. Apart' /\ Pending'
    <3>1. \A m \in Natives : handle'[m] => m # n /\ handle[m]
      BY DEF IInv, TypeOK
    <3>2. \A m \in Natives : kind'[m] = IF m = n THEN "copy" ELSE kind[m]
      BY DEF IInv, TypeOK
    <3>3. (\A w \in held : raw[w] # n) /\ (\A i \in DOMAIN queue : queue[i].info # n)
      BY FreeIsUntaken DEF Taken
    <3>4. Pending'
      BY <3>1, <3>2, EntryInfo DEF IInv, Pending
    <3>5. Apart'
      BY <2>4, <2>5, <3>3 DEF IInv, Apart
    <3> QED
      BY <3>4, <3>5
  <2>10. GivenOut'
    BY <2>2 DEF GivenOut
  <2>11. Asked'
    <3>1. about'[n] = <<p>>
      BY DEF IInv, TypeOK, p
    <3>2. Len(<<p>>) = 1 /\ <<p>>[1] = p
      OBVIOUS
    <3> QED
      BY <2>1, <2>2, <2>5, <3>1, <3>2 DEF Asked, Suitable
  <2> QED
    BY <2>6, <2>7, <2>8, <2>9, <2>10, <2>11 DEF IInv
<1> QED
  BY <1>1, <1>2 DEF Copy

(* The cleanup undoes what the call still owns.                            *)
LEMMA CleanupOwned ==
  ASSUME IInv, Cleanup
  PROVE  IInv'
<1> USE NullIsNoCell DEF eq
<1>1. /\ call.at = "cleanup" /\ call' = Idle
      /\ used' = used \ {call.wrapper}
      /\ UNCHANGED <<raw, held, out, ret, queue, events>>
  BY DEF Cleanup
<1>2. \A m \in Natives : Taken(m)' <=> Taken(m)
  BY <1>1 DEF Taken
<1>3. \A m \in Natives :
        /\ kind'[m] = IF m \in {call.hints, call.results} THEN "free" ELSE kind[m]
        /\ Taken(m) => about'[m] = about[m]
        /\ handle'[m] => handle[m]
        /\ handle'[m] <=> handle[m] /\ m \notin {call.hints, call.results}
  <2>1. \A m \in Natives : m \notin {raw[w] : w \in used \cap {call.wrapper}}
    BY DEF IInv, WrappersOwned
  <2>2. \A m \in Natives : Taken(m) => m \notin {call.hints, call.results}
    BY DEF IInv, CellsOwned
  <2> QED
    BY <2>1, <2>2 DEF Cleanup, FreeNatives
<1>4. TypeOK'
  <2>1. Idle \in Calls
    BY DEF Idle, Calls
  <2>2. /\ kind' \in [Natives -> {"free", "hints", "list", "copy", "request"}]
        /\ about' \in [Natives -> Seq(Candidate)]
        /\ handle' \in [Natives -> BOOLEAN]
    BY EmptySequence DEF Cleanup, FreeNatives, IInv, TypeOK
  <2>3. held' \subseteq used'
    BY <1>1 DEF IInv, TypeOK, WrappersOwned
  <2> QED
    BY <1>1, <2>1, <2>2, <2>3 DEF IInv, TypeOK
<1>5. LocalsSet' /\ WrappersOwned'
  BY <1>1 DEF Idle, IInv, TypeOK, Calls, LocalsSet, WrappersOwned
<1>6. CellsOwned'
  BY <1>1, <1>2, <1>3 DEF Idle, IInv, TypeOK, CellsOwned
<1>7. Apart' /\ Pending'
  BY <1>1, <1>3, EntryInfo DEF IInv, CellsOwned, Apart, Pending
<1>8. GivenOut' /\ Asked'
  BY <1>1 DEF Idle, IInv, GivenOut, Asked
<1> QED
  BY <1>4, <1>5, <1>6, <1>7, <1>8 DEF IInv

-----------------------------------------------------------------------------
(* Steps of a poll of the EQ.                                              *)

(* A poll owns a wrapper before it reads.                                  *)
LEMMA EqPollOwned ==
  ASSUME IInv, EqPoll
  PROVE  IInv'
<1> USE NullIsNoCell DEF cells, heap, eq
<1>1. ASSUME call = Idle, out' = Null, ret' = "error",
             UNCHANGED <<call, heap, cells, held, eq>>
      PROVE  IInv'
  <2> USE <1>1 DEF Idle
  <2>1. TypeOK'
    BY DEF IInv, TypeOK
  <2>2. LocalsSet' /\ WrappersOwned'
    BY DEF IInv, LocalsSet, WrappersOwned
  <2>3. CellsOwned' /\ Apart' /\ Pending'
    BY DEF IInv, CellsOwned, Taken, Apart, Pending
  <2>4. GivenOut' /\ Asked'
    BY DEF IInv, GivenOut, Asked
  <2> QED
    BY <2>1, <2>2, <2>3, <2>4 DEF IInv
<1>2. ASSUME NEW w \in Wrappers, NewWrapper(w), call = Idle, out' = Null,
             call' = [Idle EXCEPT !.at = "read", !.wrapper = w],
             UNCHANGED <<ret, cells, held, eq>>
      PROVE  IInv'
  <2> USE <1>2 DEF NewWrapper
  <2>1. /\ call' \in Calls /\ call'.at = "read" /\ call'.wrapper = w
        /\ call'.hints = Null /\ call'.results = Null
        /\ call.hints = Null /\ call.results = Null /\ call.wrapper = Null
    <3>1. Idle \in Calls
      BY DEF Idle, Calls
    <3>2. call' \in Calls /\ call'.at = "read" /\ call'.wrapper = w
      BY <3>1 DEF Calls
    <3> QED
      BY <3>2 DEF Idle
  <2>2. TypeOK'
    BY <2>1 DEF IInv, TypeOK
  <2>3. LocalsSet' /\ WrappersOwned'
    BY <2>1 DEF IInv, TypeOK, LocalsSet, WrappersOwned
  <2>4. CellsOwned'
    <3>1. \A m \in Natives : Taken(m)' <=> Taken(m)
      BY DEF IInv, TypeOK, WrappersOwned, Taken
    <3> QED
      BY <2>1, <3>1 DEF IInv, TypeOK, WrappersOwned, CellsOwned
  <2>5. Apart' /\ Pending'
    BY EntryInfo DEF IInv, TypeOK, WrappersOwned, Apart, Pending
  <2>6. GivenOut' /\ Asked'
    BY <2>1 DEF IInv, GivenOut, Asked
  <2> QED
    BY <2>2, <2>3, <2>4, <2>5, <2>6 DEF IInv
<1> QED
  BY <1>1, <1>2 DEF EqPoll

(* A poll that reads nothing frees its wrapper.                            *)
LEMMA EqReadNothingOwned ==
  ASSUME IInv, EqReadNothing
  PROVE  IInv'
<1> USE DEF cells, eq
<1>1. /\ call.at = "read" /\ call' = Idle /\ out' = Null
      /\ used' = used \ {call.wrapper} /\ ret' \in {"none", "error"}
      /\ UNCHANGED <<kind, about, handle, raw, held, queue, events>>
  BY DEF EqReadNothing, Return
<1>2. TypeOK'
  <2>1. Idle \in Calls
    BY DEF Idle, Calls
  <2>2. held' \subseteq used'
    BY <1>1 DEF IInv, TypeOK, WrappersOwned
  <2> QED
    BY <1>1, <2>1, <2>2 DEF IInv, TypeOK
<1>3. LocalsSet' /\ WrappersOwned'
  <2>1. LocalsSet'
    BY <1>1 DEF Idle, LocalsSet
  <2>2. WrappersOwned'
    BY <1>1, NullIsNoCell DEF Idle, IInv, TypeOK, WrappersOwned
  <2> QED
    BY <2>1, <2>2
<1>4. CellsOwned' /\ Apart' /\ Pending'
  BY <1>1 DEF Idle, IInv, LocalsSet, CellsOwned, Taken, Apart, Pending
<1>5. GivenOut' /\ Asked'
  BY <1>1 DEF Idle, GivenOut, Asked
<1> QED
  BY <1>2, <1>3, <1>4, <1>5 DEF IInv

(* The one step that gives a connection request to the caller.             *)
LEMMA EqReadOwned ==
  ASSUME IInv, EqRead
  PROVE  IInv'
<1> DEFINE ev == Head(queue)
<1> USE NullIsNoCell
<1>1. /\ call.at = "read" /\ queue # <<>> /\ queue' = Tail(queue)
      /\ call' = Idle /\ events' = events
  BY DEF EqRead, Return
<1>2. /\ ev \in Events /\ ev.info \in Natives \cup {Null}
      /\ 1 \in DOMAIN queue /\ ev = queue[1] /\ queue' \in Seq(Events)
      /\ \A i \in DOMAIN queue' :
           i \in Nat /\ i + 1 \in DOMAIN queue /\ i + 1 # 1 /\ queue'[i] = queue[i + 1]
      /\ \A i \in DOMAIN queue :
           i = 1 \/ (i - 1 \in DOMAIN queue' /\ queue'[i - 1] = queue[i])
  <2>1. queue \in Seq(Events)
    BY DEF IInv, TypeOK
  <2>2. ev \in Events /\ 1 \in DOMAIN queue /\ ev = queue[1]
    BY <1>1, <2>1, TailEntries
  <2> QED
    BY <1>1, <2>1, <2>2, TailEntries DEF Events
<1>3. /\ call.wrapper \in Wrappers /\ call.wrapper \notin held
      /\ call.wrapper \in used /\ Idle \in Calls
  BY <1>1 DEF IInv, TypeOK, Calls, Idle, LocalsSet, WrappersOwned
<1> HIDE DEF ev
<1>4. ASSUME ev.type = "connreq", ev.info # Null,
             raw' = [raw EXCEPT ![call.wrapper] = ev.info],
             held' = held \cup {call.wrapper},
             out' = call.wrapper, ret' = "ok", UNCHANGED <<cells, used>>
      PROVE  IInv'
  <2> USE <1>4 DEF cells
  <2>1. /\ raw'[call.wrapper] = ev.info
        /\ \A w \in held : raw'[w] = raw[w] /\ raw[w] \in Natives
    BY <1>3 DEF IInv, TypeOK, CellsOwned
  <2>2. (\A w \in held : raw[w] # ev.info)
        /\ (\A i \in DOMAIN queue : i # 1 => queue[i].info # ev.info)
    BY <1>2 DEF IInv, Apart
  <2>3. TypeOK'
    BY <1>1, <1>2, <1>3 DEF IInv, TypeOK
  <2>4. LocalsSet'
    BY <1>1 DEF Idle, LocalsSet
  <2>5. WrappersOwned'
    BY <1>1, <1>3 DEF Idle, IInv, TypeOK, WrappersOwned
  <2>6. CellsOwned'
    <3>1. ASSUME NEW m \in Natives PROVE Taken(m)' <=> Taken(m)
      <4>1. (\E w \in held' : raw'[w] = m) <=> (\E w \in held : raw[w] = m) \/ m = ev.info
        BY <2>1
      <4>2. (\E i \in DOMAIN queue : queue[i].info = m)
              <=> (\E i \in DOMAIN queue' : queue'[i].info = m) \/ m = ev.info
        BY <1>2
      <4> QED
        BY <4>1, <4>2 DEF Taken
    <3> QED
      BY <1>1, <1>2, <2>1, <3>1 DEF Idle, IInv, LocalsSet, CellsOwned
  <2>7. Apart'
    BY <1>2, <2>1, <2>2 DEF IInv, Apart
  <2>8. Pending'
    BY <1>2 DEF IInv, Pending
  <2>9. GivenOut' /\ Asked'
    BY <1>1 DEF Idle, GivenOut, Asked
  <2> QED
    BY <2>3, <2>4, <2>5, <2>6, <2>7, <2>8, <2>9 DEF IInv
<1>5. ASSUME FreeNatives({ev.info}), used' = used \ {call.wrapper}, out' = Null,
             ret' \in {"ok", "error"}, UNCHANGED <<raw, held>>
      PROVE  IInv'
  <2> USE <1>5
  <2>1. (\A w \in held : raw[w] \in Natives /\ raw[w] # ev.info)
        /\ (\A i \in DOMAIN queue : i # 1 /\ queue[i].info # Null => queue[i].info # ev.info)
    BY <1>2 DEF IInv, Apart, CellsOwned
  <2>2. \A m \in Natives :
          /\ kind'[m] = IF m = ev.info THEN "free" ELSE kind[m]
          /\ handle'[m] => handle[m] /\ m # ev.info
    BY DEF FreeNatives
  <2>3. TypeOK'
    <3>1. /\ kind' \in [Natives -> {"free", "hints", "list", "copy", "request"}]
          /\ about' \in [Natives -> Seq(Candidate)]
          /\ handle' \in [Natives -> BOOLEAN]
      BY EmptySequence DEF FreeNatives, IInv, TypeOK
    <3>2. held' \subseteq used'
      BY <1>3 DEF IInv, TypeOK
    <3> QED
      BY <1>1, <1>2, <1>3, <3>1, <3>2 DEF IInv, TypeOK
  <2>4. LocalsSet'
    BY <1>1 DEF Idle, LocalsSet
  <2>5. WrappersOwned'
    BY <1>1, <1>3 DEF Idle, IInv, TypeOK, WrappersOwned
  <2>6. CellsOwned'
    <3>1. ASSUME NEW m \in Natives PROVE Taken(m)' <=> Taken(m) /\ m # ev.info
      <4>1. (\E i \in DOMAIN queue' : queue'[i].info = m)
              <=> (\E i \in DOMAIN queue : queue[i].info = m) /\ m # ev.info
        <5>1. ASSUME NEW i \in DOMAIN queue', queue'[i].info = m
              PROVE  i + 1 \in DOMAIN queue /\ queue[i + 1].info = m /\ m # ev.info
          <6>1. i + 1 \in DOMAIN queue /\ i + 1 # 1 /\ queue[i + 1].info = m
            BY <1>2, <5>1
          <6> QED
            BY <2>1, <6>1
        <5>2. ASSUME NEW i \in DOMAIN queue, queue[i].info = m, m # ev.info
              PROVE  i - 1 \in DOMAIN queue' /\ queue'[i - 1].info = m
          BY <1>2, <5>2
        <5> QED
          BY <5>1, <5>2
      <4> QED
        BY <2>1, <4>1 DEF Taken
    <3> QED
      BY <1>1, <2>1, <2>2, <3>1 DEF Idle, IInv, LocalsSet, CellsOwned
  <2>7. Apart'
    BY <1>2, <2>1 DEF IInv, Apart
  <2>8. Pending'
    <3>1. ASSUME NEW i \in DOMAIN queue', queue'[i].info # Null, handle'[queue'[i].info]
          PROVE  queue'[i].type = "connreq"
      <4>1. i + 1 \in DOMAIN queue /\ queue'[i] = queue[i + 1]
        BY <1>2
      <4>2. queue[i + 1].info \in Natives
        BY <3>1, <4>1, EntryInfo DEF IInv
      <4> QED
        BY <2>2, <3>1, <4>1, <4>2 DEF IInv, Pending
    <3>2. \A m \in Natives : handle'[m] => kind'[m] = "request"
      BY <2>2 DEF IInv, Pending
    <3> QED
      BY <3>1, <3>2 DEF Pending
  <2>9. GivenOut' /\ Asked'
    BY <1>1 DEF Idle, GivenOut, Asked
  <2> QED
    BY <2>3, <2>4, <2>5, <2>6, <2>7, <2>8, <2>9 DEF IInv
<1> QED
  BY <1>4, <1>5 DEF EqRead, Return, ev

-----------------------------------------------------------------------------
(* Steps of the caller with a shim_info, and of the provider.              *)

(* A reject only forgets the handle of the request.                        *)
LEMMA RejectOwned ==
  ASSUME IInv, NEW w \in Wrappers, Reject(w)
  PROVE  IInv'
<1> USE DEF heap, eq
<1>1. /\ call = Idle /\ out' = Null /\ ret' \in {ret, "ok", "error"}
      /\ handle' \in [Natives -> BOOLEAN]
      /\ \A m \in Natives : handle'[m] => handle[m]
      /\ UNCHANGED <<kind, about, heap, held, call, eq>>
  <2>1. CASE ~handle[raw[w]]
    BY <2>1 DEF Reject, cells, IInv, TypeOK
  <2>2. CASE handle[raw[w]]
    BY <2>2 DEF Reject, IInv, TypeOK
  <2> QED
    BY <2>1, <2>2
<1>2. TypeOK'
  BY <1>1 DEF IInv, TypeOK
<1>3. LocalsSet' /\ WrappersOwned'
  BY <1>1 DEF IInv, LocalsSet, WrappersOwned
<1>4. CellsOwned' /\ Apart'
  BY <1>1 DEF IInv, CellsOwned, Taken, Apart
<1>5. Pending'
  BY <1>1, EntryInfo DEF IInv, Pending
<1>6. GivenOut' /\ Asked'
  BY <1>1 DEF Idle, GivenOut, Asked
<1> QED
  BY <1>2, <1>3, <1>4, <1>5, <1>6 DEF IInv

(* A shim_info goes with the cell only it owns.                            *)
LEMMA InfoFreeOwned ==
  ASSUME IInv, NEW w \in Wrappers, InfoFree(w)
  PROVE  IInv'
<1> USE NullIsNoCell
<1>1. /\ call = Idle /\ call' = call /\ w \in held /\ out' = Null
      /\ used' = used \ {w} /\ held' = held \ {w}
      /\ UNCHANGED <<raw, ret, queue, events>>
  BY DEF InfoFree, eq
<1>2. /\ \A v \in held : raw[v] \in Natives /\ (raw[v] = raw[w] => v = w)
      /\ \A i \in DOMAIN queue : queue[i].info # raw[w]
      /\ raw[w] \in Natives
  BY <1>1 DEF IInv, Apart, CellsOwned
<1>3. \A m \in Natives :
        /\ kind'[m] = IF m = raw[w] THEN "free" ELSE kind[m]
        /\ handle'[m] => handle[m] /\ m # raw[w]
  BY DEF InfoFree, FreeNatives
<1>4. TypeOK'
  <2>1. /\ kind' \in [Natives -> {"free", "hints", "list", "copy", "request"}]
        /\ about' \in [Natives -> Seq(Candidate)]
        /\ handle' \in [Natives -> BOOLEAN]
    BY EmptySequence DEF InfoFree, FreeNatives, IInv, TypeOK
  <2> QED
    BY <1>1, <2>1 DEF IInv, TypeOK
<1>5. LocalsSet' /\ WrappersOwned'
  BY <1>1 DEF Idle, IInv, TypeOK, LocalsSet, WrappersOwned
<1>6. CellsOwned'
  <2>1. \A m \in Natives : Taken(m)' <=> Taken(m) /\ m # raw[w]
    BY <1>1, <1>2 DEF Taken
  <2> QED
    BY <1>1, <1>2, <1>3, <2>1 DEF Idle, IInv, CellsOwned
<1>7. Apart'
  BY <1>1 DEF IInv, Apart
<1>8. Pending'
  BY <1>1, <1>2, <1>3, EntryInfo DEF IInv, Pending
<1>9. GivenOut' /\ Asked'
  BY <1>1 DEF Idle, GivenOut, Asked
<1> QED
  BY <1>4, <1>5, <1>6, <1>7, <1>8, <1>9 DEF IInv

(* An event that arrives owns the cell it carries.                         *)
LEMMA ArriveOwned ==
  ASSUME IInv, NEW type \in EventType, Arrive(type)
  PROVE  IInv'
<1> USE NullIsNoCell
<1>1. /\ events' \in 0..MaxEvents
      /\ UNCHANGED <<used, raw, held, call, out, ret>>
  BY MaxEventsNumber DEF Arrive, heap, IInv, TypeOK
<1>2. ASSUME NEW e \in Events, queue' = Append(queue, e)
      PROVE  /\ queue' \in Seq(Events)
             /\ Len(queue) + 1 \in DOMAIN queue' /\ Len(queue) + 1 \notin DOMAIN queue
             /\ queue'[Len(queue) + 1] = e
             /\ \A i \in DOMAIN queue : i \in DOMAIN queue' /\ queue'[i] = queue[i]
             /\ \A i \in DOMAIN queue' :
                  (i \in DOMAIN queue /\ queue'[i] = queue[i])
                  \/ (i = Len(queue) + 1 /\ queue'[i] = e)
  BY <1>2, AppendEntry DEF IInv, TypeOK
<1>3. ASSUME queue' = Append(queue, [type |-> type, info |-> Null]), UNCHANGED cells
      PROVE  IInv'
  <2> DEFINE e == [type |-> type, info |-> Null]
  <2>1. e \in Events /\ e.info = Null
    BY DEF Events
  <2> HIDE DEF e
  <2>2. queue' = Append(queue, e)
    BY <1>3 DEF e
  <2> USE <1>1, <1>3 DEF cells
  <2>3. TypeOK'
    BY <1>2, <2>1, <2>2 DEF IInv, TypeOK
  <2>4. LocalsSet' /\ WrappersOwned'
    BY DEF IInv, LocalsSet, WrappersOwned
  <2>5. CellsOwned'
    <3>1. \A m \in Natives : Taken(m)' <=> Taken(m)
      BY <1>2, <2>1, <2>2 DEF Taken
    <3> QED
      BY <3>1 DEF IInv, CellsOwned
  <2>6. Apart'
    BY <1>2, <2>1, <2>2 DEF IInv, Apart, CellsOwned
  <2>7. Pending'
    BY <1>2, <2>1, <2>2 DEF IInv, Pending
  <2>8. GivenOut' /\ Asked'
    BY DEF IInv, GivenOut, Asked, Suitable
  <2> QED
    BY <2>3, <2>4, <2>5, <2>6, <2>7, <2>8 DEF IInv
<1>4. ASSUME NEW n \in Natives, NewNative(n, "request", <<>>, type = "connreq"),
             queue' = Append(queue, [type |-> type, info |-> n])
      PROVE  IInv'
  <2> DEFINE e == [type |-> type, info |-> n]
  <2>1. e \in Events /\ e.info = n /\ e.type = type
    BY DEF Events
  <2> HIDE DEF e
  <2>2. queue' = Append(queue, e)
    BY <1>4 DEF e
  <2>3. ~Taken(n) /\ n # call.hints /\ n # call.results /\ kind[n] = "free"
    BY <1>4, FreeIsUntaken DEF NewNative
  <2>4. \A m \in Natives :
          /\ kind'[m] = IF m = n THEN "request" ELSE kind[m]
          /\ m # n => about'[m] = about[m] /\ handle'[m] = handle[m]
          /\ handle'[n] <=> type = "connreq"
    BY <1>4 DEF NewNative, IInv, TypeOK
  <2> USE <1>1
  <2>5. TypeOK'
    BY <1>2, <1>4, <2>1, <2>2, EmptySequence DEF NewNative, IInv, TypeOK
  <2>6. LocalsSet' /\ WrappersOwned'
    BY DEF IInv, LocalsSet, WrappersOwned
  <2>7. CellsOwned'
    <3>1. \A m \in Natives : Taken(m)' <=> Taken(m) \/ m = n
      BY <1>2, <2>1, <2>2 DEF Taken
    <3> QED
      BY <2>3, <2>4, <3>1 DEF IInv, CellsOwned
  <2>8. Apart'
    BY <1>2, <2>1, <2>2, <2>3 DEF IInv, Apart, Taken
  <2>9. Pending'
    BY <1>2, <2>1, <2>2, <2>3, <2>4, EntryInfo DEF IInv, Pending, Taken
  <2>10. GivenOut'
    BY DEF IInv, GivenOut
  <2>11. Asked'
    <3>1. call.at \in {"wrap", "copy"} => about'[call.results] = about[call.results]
      BY <2>3, <2>4 DEF IInv, TypeOK, Calls, LocalsSet
    <3>2. out # Null => about'[raw[out]] = about[raw[out]]
      BY <2>3, <2>4 DEF IInv, CellsOwned, GivenOut, Taken
    <3> QED
      BY <3>1, <3>2 DEF IInv, Asked, Suitable
  <2> QED
    BY <2>5, <2>6, <2>7, <2>8, <2>9, <2>10, <2>11 DEF IInv
<1> QED
  BY <1>3, <1>4 DEF Arrive

-----------------------------------------------------------------------------
(* The ownership of all cells is kept by every step of every call, of the  *)
(* caller and of the provider.                                             *)
THEOREM Inductive == Spec => []IInv
<1>1. ASSUME IInv, [Next]_vars PROVE IInv'
  <2> USE <1>1
  <2>1. CASE \E domain \in Domains \cup {Null}, is_source \in BOOLEAN :
                InfoOpen(domain, is_source)
    BY <2>1, InfoOpenOwned
  <2>2. CASE AllocHints
    BY <2>2, AllocHintsOwned
  <2>3. CASE Query
    BY <2>3, QueryOwned
  <2>4. CASE Scan
    BY <2>4, ScanOwned
  <2>5. CASE Wrap
    BY <2>5, WrapOwned
  <2>6. CASE Copy
    BY <2>6, CopyOwned
  <2>7. CASE Cleanup
    BY <2>7, CleanupOwned
  <2>8. CASE EqPoll
    BY <2>8, EqPollOwned
  <2>9. CASE EqReadNothing
    BY <2>9, EqReadNothingOwned
  <2>10. CASE EqRead
    BY <2>10, EqReadOwned
  <2>11. CASE \E w \in Wrappers : Reject(w)
    BY <2>11, RejectOwned
  <2>12. CASE \E w \in Wrappers : InfoFree(w)
    BY <2>12, InfoFreeOwned
  <2>13. CASE \E type \in EventType : Arrive(type)
    BY <2>13, ArriveOwned
  <2>14. CASE UNCHANGED vars
    <3> USE <2>14 DEF vars, cells, heap, eq
    <3>1. TypeOK' /\ LocalsSet' /\ WrappersOwned'
      BY DEF IInv, TypeOK, LocalsSet, WrappersOwned
    <3>2. CellsOwned' /\ Apart' /\ Pending'
      BY DEF IInv, CellsOwned, Taken, Apart, Pending
    <3>3. GivenOut' /\ Asked'
      BY DEF IInv, GivenOut, Asked, Suitable
    <3> QED
      BY <3>1, <3>2, <3>3 DEF IInv
  <2> QED
    BY <2>1, <2>2, <2>3, <2>4, <2>5, <2>6, <2>7, <2>8, <2>9, <2>10, <2>11,
       <2>12, <2>13, <2>14 DEF Next
<1> QED
  BY <1>1, InitOwned, PTL DEF Spec

(* Every variable keeps its type, the local variables of the calls and the *)
(* events of the EQ included.                                              *)
THEOREM TypeCorrect == Spec => []TypeOK
<1>1. IInv => TypeOK
  BY DEF IInv
<1> QED
  BY <1>1, Inductive, PTL

(* Everything allocated has exactly one owner: no failure of an allocation *)
(* or of the provider, at whichever step of a call, leaks a cell or frees  *)
(* one that somebody else still owns.                                      *)
THEOREM OneOwnerAlways == Spec => []OneOwner
<1>1. ASSUME IInv PROVE OneOwner
  <2> USE <1>1
  <2>1. ASSUME call = Idle
        PROVE  used = held /\ {n \in Natives : kind[n] # "free"} = Owned \ {Null}
    <3>1. call.hints = Null /\ call.results = Null /\ call.wrapper = Null
      BY <2>1 DEF Idle
    <3>2. \A n \in Natives : kind[n] # "free" <=> Taken(n)
      BY <3>1, NullIsNoCell DEF IInv, TypeOK, CellsOwned
    <3>3. Owned \subseteq Natives \cup {Null}
      BY EntryInfo DEF Owned, IInv, CellsOwned
    <3>4. \A n \in Natives : Taken(n) <=> n \in Owned
      BY DEF Taken, Owned
    <3> QED
      BY <3>1, <3>2, <3>3, <3>4, NullIsNoCell DEF IInv, WrappersOwned
  <2>2. out # Null => ret = "ok" /\ out \in held
    BY DEF IInv, GivenOut
  <2>3. \A w \in held : w \in used /\ kind[raw[w]] \in {"copy", "request"}
    BY DEF IInv, TypeOK, CellsOwned, Taken
  <2> QED
    BY <2>1, <2>2, <2>3 DEF OneOwner, IInv, Apart
<1> QED
  BY <1>1, Inductive, PTL

(* Whatever the provider lists, a query that succeeds gives a verbs        *)
(* message configuration for the domain and the direction asked for.       *)
THEOREM AskedForAlways == Spec => []AskedFor
<1>1. ASSUME IInv PROVE AskedFor
  BY <1>1 DEF IInv, Asked, AskedFor, Suitable
<1> QED
  BY <1>1, Inductive, PTL

(* No step drops the handle of a pending request except a reject or a free *)
(* of the shim_info that holds it.                                         *)
THEOREM RequestsAlwaysDelivered == Spec => RequestsDelivered
<1> DEFINE Delivered ==
      \A n \in Natives : handle[n] /\ ~handle'[n] => \E w \in held : raw[w] = n
<1>1. ASSUME IInv, [Next]_vars, NEW n \in Natives, handle[n], ~handle'[n]
      PROVE  \E w \in held : raw[w] = n
  <2> USE <1>1, NullIsNoCell
  <2>1. kind[n] = "request"
    BY DEF IInv, Pending
  <2>2. CASE UNCHANGED handle
    BY <2>2
  <2>3. ASSUME NEW m \in Natives, kind[m] = "free", NEW b,
               handle' = [handle EXCEPT ![m] = b]
        PROVE  FALSE
    BY <2>1, <2>3 DEF IInv, TypeOK
  <2>4. ~AllocHints /\ ~Query /\ ~Copy /\ \A type \in EventType : ~Arrive(type)
    <3>1. ~AllocHints /\ ~Query
      BY <2>3, <2>2 DEF AllocHints, Query, NewNative, Error, cells
    <3>2. ~Copy
      BY <2>3, <2>2 DEF Copy, NewNative, Error, cells
    <3>3. \A type \in EventType : ~Arrive(type)
      BY <2>3, <2>2 DEF Arrive, NewNative, cells
    <3> QED
      BY <3>1, <3>2, <3>3
  <2>5. ~Cleanup
    <3>1. n \notin {call.results, call.hints} \cup {raw[w] : w \in used \cap {call.wrapper}}
      BY <2>1 DEF IInv, CellsOwned, WrappersOwned
    <3> QED
      BY <3>1 DEF Cleanup, FreeNatives
  <2>6. ~EqRead
    <3>1. ASSUME EqRead PROVE FALSE
      <4>1. queue \in Seq(Events) /\ queue # <<>>
        BY <3>1 DEF EqRead, IInv, TypeOK
      <4>2. 1 \in DOMAIN queue /\ Head(queue) = queue[1]
        BY <4>1, TailEntries
      <4>3. FreeNatives({Head(queue).info}) /\ n = Head(queue).info
        BY <3>1, <2>2 DEF EqRead, FreeNatives, cells
      <4>4. Head(queue).type = "connreq"
        BY <4>2, <4>3 DEF IInv, Pending
      <4> QED
        BY <3>1, <4>3, <4>4 DEF EqRead, cells
    <3> QED
      BY <3>1
  <2>7. ASSUME NEW w \in Wrappers, Reject(w) PROVE n = raw[w] /\ w \in held
    BY <2>7 DEF Reject, cells, IInv, TypeOK
  <2>8. ASSUME NEW w \in Wrappers, InfoFree(w) PROVE n = raw[w] /\ w \in held
    BY <2>8 DEF InfoFree, FreeNatives
  <2>9. handle' = handle \/ \E w \in Wrappers : Reject(w) \/ InfoFree(w)
    BY <2>4, <2>5, <2>6
    DEF Next, vars, cells, InfoOpen, Scan, Wrap, Error, EqPoll, EqReadNothing
  <2> QED
    BY <2>2, <2>7, <2>8, <2>9
<1>2. IInv /\ [Next]_vars => [Delivered]_vars
  BY <1>1
<1> QED
  BY <1>2, Inductive, PTL DEF Spec, RequestsDelivered
=============================================================================
