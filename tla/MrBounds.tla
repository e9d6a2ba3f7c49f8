------------------------------ MODULE MrBounds ------------------------------
(***************************************************************************)
(* The buffer check of post_message in naive/fabric_shim.c.  It compares   *)
(* addresses in unsigned arithmetic, which wraps around, and must let the  *)
(* provider touch exactly what lies inside the registered memory.          *)
(*                                                                         *)
(* One MR, registered anew at another place when it is not in use, and the *)
(* buffer of the operation in flight on it.                                *)
(***************************************************************************)
EXTENDS Integers

CONSTANT AddressSpace    \* the number of addresses; 2^64 on the real machine

ASSUME AddressSpacePositive == AddressSpace \in Nat \ {0}

Word == 0..(AddressSpace - 1)

(* Subtraction of uintptr_t and size_t, which wraps around.                *)
Minus(a, b) == IF a >= b THEN a - b ELSE a - b + AddressSpace

VARIABLES
  buffer, capacity,    \* the registered memory
  max_msg,             \* the largest message of the endpoint
  busy,                \* whether an operation is in flight
  address, len         \* its buffer

mr == <<buffer, capacity>>
vars == <<buffer, capacity, max_msg, busy, address, len>>

(* Caller-owned memory: not null, not empty, and inside the address space. *)
Memory(b, c) ==
  /\ b \in Word \ {0} /\ c \in Word \ {0}
  /\ b + c <= AddressSpace

Init ==
  /\ Memory(buffer, capacity)
  /\ max_msg \in Word
  /\ busy = FALSE
  /\ address = 0 /\ len = 0

(* shim_mr_close and shim_mr_register: the MR moves.                       *)
Register(b, c) ==
  /\ ~busy
  /\ Memory(b, c)
  /\ buffer' = b /\ capacity' = c
  /\ UNCHANGED <<max_msg, busy, address, len>>

InRangeBySum(a, n) ==       \* mutant: compares end addresses
  /\ a >= buffer
  /\ (a + n) % AddressSpace <= (buffer + capacity) % AddressSpace
  /\ n <= max_msg

InRangeStrictly(a, n) ==    \* mutant: refuses the last byte
  /\ a >= buffer
  /\ Minus(a, buffer) <= capacity
  /\ n < Minus(capacity, Minus(a, buffer))
  /\ n <= max_msg

(* The condition of post_message.                                          *)
InRange(a, n) ==
  /\ a >= buffer
  /\ Minus(a, buffer) <= capacity
  /\ n <= Minus(capacity, Minus(a, buffer))
  /\ n <= max_msg

(* A post that passes the check and that the provider accepts.             *)
Post(a, n) ==
  /\ ~busy
  /\ InRange(a, n)
  /\ busy' = TRUE /\ address' = a /\ len' = n
  /\ UNCHANGED <<mr, max_msg>>

Complete ==
  /\ busy
  /\ busy' = FALSE /\ address' = 0 /\ len' = 0
  /\ UNCHANGED <<mr, max_msg>>

Next ==
  \/ \E b, c \in Word : Register(b, c)
  \/ \E a \in Word \ {0}, n \in Word : Post(a, n)
  \/ Complete

Spec == Init /\ [][Next]_vars

-----------------------------------------------------------------------------
(* Properties.                                                             *)

(* Types; in particular the registered memory never wraps around.          *)
TypeOK ==
  /\ Memory(buffer, capacity)
  /\ max_msg \in Word
  /\ busy \in BOOLEAN
  /\ address \in Word /\ len \in Word

(* Every byte the provider may touch is a byte of the registered memory,   *)
(* counted without wrapping around the end of the address space.           *)
HeldInside ==
  busy => \A i \in 0..(len - 1) : address + i \in buffer..(buffer + capacity - 1)

(* And nothing else is refused: a message no longer than max_msg that fits *)
(* into the registered memory passes, the whole of it and an empty one at  *)
(* its end included.                                                       *)
FittingAccepted ==
  \A a, n \in Word :
    buffer <= a /\ a + n <= buffer + capacity /\ n <= max_msg => InRange(a, n)
=============================================================================
