--------------------------- MODULE MrBoundsProofs ---------------------------
(***************************************************************************)
(* The buffer check of MrBounds admits exactly the buffers inside the      *)
(* registered memory, for every size of the address space.                 *)
(***************************************************************************)
EXTENDS MrBounds, TLAPS

Fits(a, n) == buffer <= a /\ a + n <= buffer + capacity /\ n <= max_msg

(* The check of post_message, done with wrapping subtraction, decides      *)
(* containment in the registered memory as arithmetic on integers does.    *)
LEMMA InRangeIsFits ==
  ASSUME TypeOK, NEW a \in Word, NEW n \in Word
  PROVE  InRange(a, n) <=> Fits(a, n)
<1>. USE AddressSpacePositive DEF TypeOK, Memory, Word
<1>1. CASE a < buffer
  BY <1>1 DEF InRange, Fits
<1>2. CASE a >= buffer
  <2>1. Minus(a, buffer) = a - buffer
    BY <1>2 DEF Minus
  <2>2. CASE a - buffer > capacity
    BY <1>2, <2>1, <2>2 DEF InRange, Fits
  <2>3. CASE a - buffer <= capacity
    <3>1. Minus(capacity, a - buffer) = capacity - (a - buffer)
      BY <1>2, <2>3 DEF Minus
    <3>. QED  BY <1>2, <2>1, <2>3, <3>1 DEF InRange, Fits
  <2>. QED  BY <2>2, <2>3
<1>. QED  BY <1>1, <1>2

(* What is inductive: the buffer in flight fits, which survives because    *)
(* the MR cannot move under it.                                            *)
IInv == TypeOK /\ (busy => Fits(address, len))

LEMMA InitIInv == Init => IInv
<1>1. 0 \in Word
  BY AddressSpacePositive DEF Word
<1>. QED  BY <1>1 DEF Init, IInv, TypeOK

LEMMA NextIInv == IInv /\ [Next]_vars => IInv'
<1>. SUFFICES ASSUME IInv, [Next]_vars  PROVE IInv'
  OBVIOUS
<1>1. CASE \E b, c \in Word : Register(b, c)
  BY <1>1 DEF IInv, TypeOK, Register, Memory
<1>2. ASSUME NEW a \in Word \ {0}, NEW n \in Word, Post(a, n)
      PROVE  IInv'
  <2>1. TypeOK'
    BY <1>2 DEF IInv, TypeOK, Post, Memory, mr
  <2>2. Fits(a, n)
    BY <1>2, InRangeIsFits DEF IInv, Post
  <2>. QED  BY <1>2, <2>1, <2>2 DEF IInv, Post, Fits, mr
<1>3. CASE Complete
  <2>1. 0 \in Word
    BY AddressSpacePositive DEF Word
  <2>. QED  BY <1>3, <2>1 DEF IInv, TypeOK, Complete, Memory, mr
<1>4. CASE UNCHANGED vars
  BY <1>4 DEF IInv, TypeOK, Memory, Fits, vars
<1>. QED  BY <1>1, <1>2, <1>3, <1>4 DEF Next

LEMMA Inductive == Spec => []IInv
BY InitIInv, NextIInv, PTL DEF Spec

(* Whatever the caller passes, and wherever its memory lies, every byte    *)
(* fi_send or fi_recv may touch is a byte of the registered memory.        *)
THEOREM BuffersAlwaysInside == Spec => []HeldInside
<1>1. IInv => HeldInside
  BY AddressSpacePositive DEF IInv, TypeOK, Memory, Word, Fits, HeldInside
<1>. QED  BY <1>1, Inductive, PTL

(* post_message refuses for its range no buffer that fits.                 *)
THEOREM FittingAlwaysAccepted == Spec => []FittingAccepted
<1>1. IInv => FittingAccepted
  BY InRangeIsFits DEF IInv, Fits, FittingAccepted
<1>. QED  BY <1>1, Inductive, PTL
=============================================================================
