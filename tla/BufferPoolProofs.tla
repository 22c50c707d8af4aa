-------------------------- MODULE BufferPoolProofs --------------------------
(***************************************************************************)
(* ReuseDistance for every number of buffers, callers and cores.            *)
(***************************************************************************)
EXTENDS BufferPool, TLAPS

(* Only the caller that holds the lock is past it.                           *)
MutualExclusion == \A c \in Callers : pc[c] \in {"read", "write", "exit"} => my_lock = c

(* Between its read and its write the holder's copy is the index.            *)
CopyIsCurrent == \A c \in Callers : pc[c] = "write" => next_buffer[c] = buffer_index

(* The d-th last buffer handed out lies d places before the index on the     *)
(* ring, for d up to N.                                                      *)
BehindIndex ==
  \A i \in DOMAIN grants :
    LET d == Len(grants) + 1 - i
    IN d <= N => grants[i] = IF d <= buffer_index THEN buffer_index - d
                                                  ELSE (buffer_index + N) - d

IInv == TypeOK /\ MutualExclusion /\ CopyIsCurrent /\ BehindIndex /\ ReuseDistance

(* The index wraps around at N.                                              *)
LEMMA WrapAround ==
  ASSUME NEW n \in Nat \ {0}, NEW i \in 0..n-1
  PROVE  (i + 1) % n = IF i + 1 = n THEN 0 ELSE i + 1
OBVIOUS

(* TypeOK: the index never leaves the pool.                                  *)
LEMMA TypeInductive == TypeOK /\ [Next]_vars => TypeOK'
<1> SUFFICES ASSUME TypeOK, [Next]_vars PROVE TypeOK'
  OBVIOUS
<1> USE BufferPoolAssumption DEF TypeOK
<1>1. ASSUME NEW c \in Callers, Enter(c) PROVE TypeOK'
  BY <1>1 DEF Enter, Callers
<1>2. ASSUME NEW c \in Callers, Acquire(c) PROVE TypeOK'
  BY <1>2 DEF Acquire
<1>3. ASSUME NEW c \in Callers, Read(c) PROVE TypeOK'
  BY <1>3 DEF Read
<1>4. ASSUME NEW c \in Callers, Write(c) PROVE TypeOK'
  BY <1>4 DEF Write
<1>5. ASSUME NEW c \in Callers, Exit(c) PROVE TypeOK'
  BY <1>5 DEF Exit
<1>6. CASE UNCHANGED vars
  BY <1>6 DEF vars
<1> QED
  BY <1>1, <1>2, <1>3, <1>4, <1>5, <1>6 DEF Next, Section

(* Handing out the buffer at the index keeps the ring order, and the buffer  *)
(* differs from the N - 1 handed out before it.                              *)
LEMMA WriteKeepsRing ==
  ASSUME IInv, NEW c \in Callers, Write(c)
  PROVE  BehindIndex' /\ ReuseDistance'
<1> DEFINE len == Len(grants)
<1>1. /\ grants \in Seq(0..N-1) /\ N \in Nat \ {0} /\ buffer_index \in 0..N-1
      /\ len \in Nat /\ DOMAIN grants = 1..len /\ \A i \in 1..len : grants[i] \in 0..N-1
  BY BufferPoolAssumption DEF IInv, TypeOK
<1>2. /\ grants' = Append(grants, buffer_index)
      /\ buffer_index' = IF buffer_index + 1 = N THEN 0 ELSE buffer_index + 1
  BY <1>1, WrapAround DEF IInv, CopyIsCurrent, Write
<1>3. /\ Len(grants') = len + 1 /\ DOMAIN grants' = 1..len + 1
      /\ grants'[len + 1] = buffer_index
      /\ \A i \in 1..len : grants'[i] = grants[i]
  BY <1>1, <1>2
<1>4. ASSUME NEW i \in 1..len, len + 1 - i <= N
      PROVE  grants[i] = IF len + 1 - i <= buffer_index THEN buffer_index - (len + 1 - i)
                         ELSE (buffer_index + N) - (len + 1 - i)
  BY <1>1, <1>4 DEF IInv, BehindIndex
<1> HIDE DEF len
<1>5. BehindIndex'
  <2> SUFFICES ASSUME NEW i \in 1..len + 1, (len + 1) + 1 - i <= N
               PROVE  grants'[i] =
                        IF (len + 1) + 1 - i <= buffer_index'
                        THEN buffer_index' - ((len + 1) + 1 - i)
                        ELSE (buffer_index' + N) - ((len + 1) + 1 - i)
    BY <1>3 DEF BehindIndex
  <2>1. CASE i = len + 1
    BY <2>1, <1>1, <1>2, <1>3
  <2>2. CASE i # len + 1
    <3>1. i \in 1..len /\ len + 1 - i <= N - 1
      BY <2>2, <1>1
    <3> QED
      BY <3>1, <1>1, <1>2, <1>3, <1>4
  <2> QED
    BY <2>1, <2>2
<1>6. ASSUME NEW i \in 1..len, len + 1 - i < N PROVE grants[i] # buffer_index
  BY <1>1, <1>4, <1>6, SMTT(30)
<1>7. ReuseDistance'
  <2> SUFFICES ASSUME NEW i \in 1..len + 1, NEW j \in 1..len + 1, i < j, j - i < N
               PROVE  grants'[i] # grants'[j]
    BY <1>3 DEF ReuseDistance
  <2>1. CASE j = len + 1
    BY <2>1, <1>1, <1>3, <1>6
  <2>2. CASE j # len + 1
    <3>1. i \in 1..len /\ j \in 1..len
      BY <2>2, <1>1
    <3>2. grants[i] # grants[j]
      BY <3>1, <1>1 DEF IInv, ReuseDistance
    <3> QED
      BY <3>1, <3>2, <1>3
  <2> QED
    BY <2>1, <2>2
<1> QED
  BY <1>5, <1>7

(* The strengthened invariant is inductive: only Write touches the index or  *)
(* the history, and only the lock's holder is at Read, Write or Exit.        *)
LEMMA IInvInductive == IInv /\ [Next]_vars => IInv'
<1> SUFFICES ASSUME IInv, [Next]_vars PROVE IInv'
  OBVIOUS
<1>1. TypeOK'
  BY TypeInductive DEF IInv
<1> USE BufferPoolAssumption DEF IInv, TypeOK
<1>2. ASSUME NEW c \in Callers, Enter(c) PROVE IInv'
  BY <1>1, <1>2 DEF Enter, MutualExclusion, CopyIsCurrent, BehindIndex, ReuseDistance
<1>3. ASSUME NEW c \in Callers, Acquire(c) PROVE IInv'
  <2>1. MutualExclusion'
    BY <1>3 DEF Acquire, MutualExclusion
  <2> QED
    BY <1>1, <1>3, <2>1 DEF Acquire, CopyIsCurrent, BehindIndex, ReuseDistance
<1>4. ASSUME NEW c \in Callers, Read(c) PROVE IInv'
  <2>1. MutualExclusion' /\ CopyIsCurrent'
    BY <1>4 DEF Read, MutualExclusion, CopyIsCurrent
  <2> QED
    BY <1>1, <1>4, <2>1 DEF Read, BehindIndex, ReuseDistance
<1>5. ASSUME NEW c \in Callers, Write(c) PROVE IInv'
  <2>1. MutualExclusion' /\ CopyIsCurrent'
    BY <1>5 DEF Write, MutualExclusion, CopyIsCurrent
  <2> QED
    BY <1>1, <1>5, <2>1, WriteKeepsRing
<1>6. ASSUME NEW c \in Callers, Exit(c) PROVE IInv'
  <2>1. MutualExclusion' /\ CopyIsCurrent'
    BY <1>6 DEF Exit, MutualExclusion, CopyIsCurrent
  <2> QED
    BY <1>1, <1>6, <2>1 DEF Exit, BehindIndex, ReuseDistance
<1>7. CASE UNCHANGED vars
  BY <1>1, <1>7 DEF vars, MutualExclusion, CopyIsCurrent, BehindIndex, ReuseDistance
<1> QED
  BY <1>2, <1>3, <1>4, <1>5, <1>6, <1>7 DEF Next, Section

(* The invariant holds in every reachable state.                             *)
LEMMA Invariant == Spec => []IInv
<1>1. Init => IInv
  BY BufferPoolAssumption DEF Init, IInv, TypeOK, MutualExclusion, CopyIsCurrent,
     BehindIndex, ReuseDistance
<1> QED
  BY <1>1, IInvInductive, PTL DEF Spec

(* The pool is well formed in every reachable state: buffer_index stays      *)
(* below SPI_BUFFER_COUNT, so spi_buffers is never indexed out of bounds.    *)
THEOREM TypeCorrect == Spec => []TypeOK
BY Invariant, PTL DEF IInv

(* A buffer handed out is not handed out again by the next N - 1 calls, for  *)
(* every number of buffers and every set of tasks, handlers and cores.       *)
THEOREM NoEarlyReuse == Spec => []ReuseDistance
BY Invariant, PTL DEF IInv
=============================================================================
