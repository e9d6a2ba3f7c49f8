---------------------------- MODULE InfoOwnership ----------------------------
(***************************************************************************)
(* Who owns the descriptions of configurations and of connection requests: *)
(* shim_info_open, shim_info_free, shim_eq_poll and shim_reject of         *)
(* naive/fabric_shim.c, called in any order by one caller that frees each  *)
(* shim_info once.  Every allocation may fail.  A struct fi_info of        *)
(* libfabric, a list of them included, is one native cell; a shim_info is  *)
(* one wrapper.                                                            *)
(***************************************************************************)
EXTENDS Integers, Sequences

CONSTANTS
  Natives,     \* the heap cells for native infos
  Wrappers,    \* the heap cells for shim_info
  Lists,       \* the result lists fi_getinfo may give
  MaxEvents,   \* bound on the events of the EQ
  Null

Domains == {"near", "far"}
(* What the filter looks at in a candidate.                                *)
Candidate == [complete : BOOLEAN, verbs : BOOLEAN, msg : BOOLEAN,
              domain : Domains \cup {Null}, src : BOOLEAN, dest : BOOLEAN]
ASSUME ListsKnown == Lists \subseteq Seq(Candidate)
ASSUME MaxEventsNumber == MaxEvents \in Nat
ASSUME NullIsNoCell == Null \notin Natives \cup Wrappers \cup Domains

VARIABLES
  kind,      \* of each native cell: "free", "hints", "list", "copy", "request"
  about,     \* the candidates in a list, the one in a copy
  handle,    \* of a native cell: whether it names a pending request
  used,      \* the wrappers that are allocated
  raw,       \* of each wrapper
  held,      \* the shim_infos of the caller
  call,      \* the call in progress and its local variables
  out, ret,  \* what the last call gave back
  queue,     \* the events of the EQ
  events     \* how many events there have been

cells == <<kind, about, handle>>
heap == <<used, raw>>
eq == <<queue, events>>
vars == <<cells, heap, held, call, out, ret, eq>>

EventType == {"connreq", "connected", "shutdown", "failed", "other"}

Idle == [at |-> "idle", domain |-> Null, is_source |-> FALSE, hints |-> Null,
         results |-> Null, next |-> 1, wrapper |-> Null]

Init ==
  /\ kind = [n \in Natives |-> "free"]
  /\ about = [n \in Natives |-> <<>>]
  /\ handle = [n \in Natives |-> FALSE]
  /\ used = {} /\ raw = [w \in Wrappers |-> Null] /\ held = {}
  /\ call = Idle /\ out = Null /\ ret = "ok"
  /\ queue = <<>> /\ events = 0

-----------------------------------------------------------------------------
(* The allocators.                                                         *)

NewNative(n, k, content, pending) ==
  /\ kind[n] = "free"
  /\ kind' = [kind EXCEPT ![n] = k]
  /\ about' = [about EXCEPT ![n] = content]
  /\ handle' = [handle EXCEPT ![n] = pending]

FreeNatives(N) ==
  /\ kind' = [n \in Natives |-> IF n \in N THEN "free" ELSE kind[n]]
  /\ about' = [n \in Natives |-> IF n \in N THEN <<>> ELSE about[n]]
  /\ handle' = [n \in Natives |-> handle[n] /\ n \notin N]

NewWrapper(w) ==
  /\ w \notin used
  /\ used' = used \cup {w}
  /\ raw' = [raw EXCEPT ![w] = Null]

-----------------------------------------------------------------------------
(* shim_info_open.                                                         *)

At(l) == call' = [call EXCEPT !.at = l]

Return(result, info) ==
  /\ call' = Idle
  /\ ret' = result
  /\ out' = info

(* goto cleanup with an error.                                             *)
Error == At("cleanup") /\ UNCHANGED <<cells, heap, held, out, ret, eq>>

(* *out is cleared before anything can fail.                               *)
InfoOpen(domain, is_source) ==
  /\ call = Idle
  /\ call' = [Idle EXCEPT !.at = "hints", !.domain = domain, !.is_source = is_source]
  /\ out' = Null /\ ret' = "error"
  /\ UNCHANGED <<cells, heap, held, eq>>

(* A bad argument and a failing fi_allocinfo both return at once.          *)
AllocHints ==
  /\ call.at = "hints"
  /\ \/ Return("error", Null) /\ UNCHANGED cells
     \/ \E n \in Natives :
          /\ NewNative(n, "hints", <<>>, FALSE)
          /\ call' = [call EXCEPT !.at = "query", !.hints = n]
          /\ UNCHANGED <<out, ret>>
  /\ UNCHANGED <<heap, held, eq>>

(* The names are copied into the hints, and the provider is asked: each    *)
(* can fail, with no result list yet.                                      *)
Query ==
  /\ call.at = "query"
  /\ \/ Error
     \/ \E n \in Natives, list \in Lists :
          /\ NewNative(n, "list", list, FALSE)
          /\ call' = [call EXCEPT !.at = "scan", !.results = n]
          /\ UNCHANGED <<heap, held, out, ret, eq>>

SuitableAnyDomain(p) ==  \* mutant: the domain name is not compared
  /\ p.complete /\ p.verbs /\ p.msg
  /\ IF call.is_source THEN p.src ELSE p.dest

(* The filter of the loop over the results.                                *)
Suitable(p) ==
  /\ p.complete /\ p.verbs /\ p.msg
  /\ call.domain # Null => p.domain = call.domain
  /\ IF call.is_source THEN p.src ELSE p.dest

Scan ==
  /\ call.at = "scan"
  /\ IF call.next > Len(about[call.results]) THEN Error
     ELSE /\ call' = IF Suitable(about[call.results][call.next])
                     THEN [call EXCEPT !.at = "wrap"]
                     ELSE [call EXCEPT !.next = @ + 1]
          /\ UNCHANGED <<cells, heap, held, out, ret, eq>>

Wrap ==
  /\ call.at = "wrap"
  /\ \/ Error
     \/ \E w \in Wrappers :
          /\ NewWrapper(w)
          /\ call' = [call EXCEPT !.at = "copy", !.wrapper = w]
          /\ UNCHANGED <<cells, held, out, ret, eq>>

(* The selected entry is copied, and the wrapper is the caller's.          *)
Copy ==
  /\ call.at = "copy"
  /\ \/ Error
     \/ \E n \in Natives :
          /\ NewNative(n, "copy", <<about[call.results][call.next]>>, FALSE)
          /\ raw' = [raw EXCEPT ![call.wrapper] = n]
          /\ out' = call.wrapper /\ ret' = "ok"
          /\ held' = held \cup {call.wrapper}
          /\ call' = [call EXCEPT !.at = "cleanup", !.wrapper = Null]
          /\ UNCHANGED <<used, eq>>

CleanupKeepsWrapper ==   \* mutant: a wrapper without a copy is not freed
  /\ call.at = "cleanup"
  /\ FreeNatives({call.results, call.hints})
  /\ call' = Idle
  /\ UNCHANGED <<heap, held, out, ret, eq>>

(* The list and the hints go whatever happened; the wrapper with what it   *)
(* holds, if it has not become the caller's.                               *)
Cleanup ==
  /\ call.at = "cleanup"
  /\ FreeNatives({call.results, call.hints}
                   \cup {raw[w] : w \in used \cap {call.wrapper}})
  /\ used' = used \ {call.wrapper}
  /\ call' = Idle
  /\ UNCHANGED <<raw, held, out, ret, eq>>

-----------------------------------------------------------------------------
(* shim_eq_poll: the wrapper is allocated before an event is consumed.     *)

EqPollReadsFirst ==      \* mutant: a request is consumed without a wrapper
  /\ call = Idle
  /\ out' = Null
  /\ \/ /\ queue # <<>> /\ queue' = Tail(queue)
        /\ FreeNatives({Head(queue).info})
        /\ ret' = "error" /\ UNCHANGED <<call, heap, events>>
     \/ \E w \in Wrappers :
          /\ NewWrapper(w)
          /\ call' = [Idle EXCEPT !.at = "read", !.wrapper = w]
          /\ UNCHANGED <<cells, ret, eq>>
  /\ UNCHANGED held

EqPoll ==
  /\ call = Idle
  /\ out' = Null
  /\ \/ ret' = "error" /\ UNCHANGED <<call, heap>>
     \/ \E w \in Wrappers :
          /\ NewWrapper(w)
          /\ call' = [Idle EXCEPT !.at = "read", !.wrapper = w]
          /\ UNCHANGED ret
  /\ UNCHANGED <<cells, held, eq>>

(* Nothing to read, or an error the provider cannot describe.              *)
EqReadNothing ==
  /\ call.at = "read"
  /\ used' = used \ {call.wrapper}
  /\ \E r \in {"none", "error"} : Return(r, Null)
  /\ UNCHANGED <<cells, raw, held, eq>>

(* A CONNREQ takes the wrapper with it; what any other event may carry is  *)
(* freed with the wrapper.                                                 *)
EqRead ==
  LET ev == Head(queue)
  IN /\ call.at = "read" /\ queue # <<>>
     /\ queue' = Tail(queue)
     /\ IF ev.type = "connreq" /\ ev.info # Null
        THEN /\ raw' = [raw EXCEPT ![call.wrapper] = ev.info]
             /\ held' = held \cup {call.wrapper}
             /\ Return("ok", call.wrapper)
             /\ UNCHANGED <<cells, used>>
        ELSE /\ FreeNatives({ev.info})
             /\ used' = used \ {call.wrapper}
             /\ Return(IF ev.type \in {"connected", "shutdown", "failed"}
                       THEN "ok" ELSE "error", Null)
             /\ UNCHANGED <<raw, held>>
     /\ UNCHANGED events

-----------------------------------------------------------------------------
(* shim_reject: fi_reject frees the request even when it fails.            *)
Reject(w) ==
  /\ call = Idle /\ w \in held
  /\ out' = Null
  /\ IF ~handle[raw[w]] THEN ret' = "error" /\ UNCHANGED cells
     ELSE /\ handle' = [handle EXCEPT ![raw[w]] = FALSE]
          /\ ret' \in {"ok", "error"}
          /\ UNCHANGED <<kind, about>>
  /\ UNCHANGED <<heap, held, call, eq>>

(* shim_info_free.                                                         *)
InfoFree(w) ==
  /\ call = Idle /\ w \in held
  /\ FreeNatives({raw[w]})
  /\ used' = used \ {w} /\ held' = held \ {w}
  /\ out' = Null
  /\ UNCHANGED <<raw, call, ret, eq>>

(* An event arrives.  One that is no CONNREQ may carry an info too, and a  *)
(* CONNREQ may lack it; an error entry has none.  One too short to hold an *)
(* entry is an "other" without info: both are dropped with an error.       *)
Arrive(type) ==
  /\ events < MaxEvents /\ events' = events + 1
  /\ \/ queue' = Append(queue, [type |-> type, info |-> Null]) /\ UNCHANGED cells
     \/ \E n \in Natives :
          /\ type # "failed"
          /\ NewNative(n, "request", <<>>, type = "connreq")
          /\ queue' = Append(queue, [type |-> type, info |-> n])
  /\ UNCHANGED <<heap, held, call, out, ret>>

Next ==
  \/ \E domain \in Domains \cup {Null}, is_source \in BOOLEAN :
        InfoOpen(domain, is_source)
  \/ AllocHints \/ Query \/ Scan \/ Wrap \/ Copy \/ Cleanup
  \/ EqPoll \/ EqReadNothing \/ EqRead
  \/ \E w \in Wrappers : Reject(w) \/ InfoFree(w)
  \/ \E type \in EventType : Arrive(type)

Spec == Init /\ [][Next]_vars

-----------------------------------------------------------------------------
(* Properties.                                                             *)

Events == [type : EventType, info : Natives \cup {Null}]
Calls ==
  [at : {"idle", "hints", "query", "scan", "wrap", "copy", "cleanup", "read"},
   domain : Domains \cup {Null}, is_source : BOOLEAN,
   hints : Natives \cup {Null}, results : Natives \cup {Null},
   next : Nat \ {0}, wrapper : Wrappers \cup {Null}]

TypeOK ==
  /\ kind \in [Natives -> {"free", "hints", "list", "copy", "request"}]
  /\ about \in [Natives -> Seq(Candidate)]
  /\ handle \in [Natives -> BOOLEAN]
  /\ used \subseteq Wrappers /\ held \subseteq used
  /\ raw \in [Wrappers -> Natives \cup {Null}]
  /\ call \in Calls
  /\ out \in Wrappers \cup {Null} /\ ret \in {"ok", "error", "none"}
  /\ queue \in Seq(Events) /\ events \in 0..MaxEvents

(* Everything that is allocated has exactly one owner, whichever call has  *)
(* failed and wherever: the caller, or an event of the EQ, or the call in  *)
(* progress.  Nothing leaks, and nothing is freed under another owner.     *)
Owned == {raw[w] : w \in held} \cup {queue[i].info : i \in DOMAIN queue}
OneOwner ==
  /\ call = Idle => /\ used = held
                    /\ {n \in Natives : kind[n] # "free"} = Owned \ {Null}
  /\ out # Null => ret = "ok" /\ out \in held
  /\ \A w \in held : w \in used /\ kind[raw[w]] \in {"copy", "request"}
  /\ \A v, w \in held : raw[v] = raw[w] => v = w
  /\ \A w \in held, i \in DOMAIN queue : queue[i].info # raw[w]

(* What a query gives is what was asked for.                               *)
AskedFor ==
  call.at = "cleanup" /\ out # Null =>
    LET p == about[raw[out]][1]
    IN /\ p.verbs /\ p.msg
       /\ call.domain \in {Null, p.domain}
       /\ IF call.is_source THEN p.src ELSE p.dest

(* A request read from the EQ is never lost: an event that carries one is  *)
(* consumed only into a shim_info.                                         *)
RequestsDelivered ==
  [][\A n \in Natives : handle[n] /\ ~handle'[n] =>
        \E w \in held : raw[w] = n]_vars
=============================================================================
