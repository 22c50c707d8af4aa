----------------------------- MODULE BufferPool -----------------------------
(***************************************************************************)
(* The pool of SPI buffers (task_spi_comms.cpp): get_next_spi_buffer_index  *)
(* hands out the buffers round-robin to tasks on either core and to the     *)
(* interrupt handlers, inside a critical section.                           *)
(*                                                                          *)
(* portENTER_CRITICAL masks the interrupts of the core, which also keeps    *)
(* the scheduler off it, and then spins for my_lock; portEXIT_CRITICAL      *)
(* releases the lock and unmasks.  An interrupt handler that is taken stops *)
(* the task it interrupts until it returns.                                 *)
(***************************************************************************)
EXTENDS Naturals, Sequences

CONSTANTS
  N,          \* SPI_BUFFER_COUNT (8)
  Tasks,      \* the tasks that call get_next_spi_buffer
  Isrs,       \* the interrupt handlers that call it
  Cores,      \* the cores of the chip
  MayRunOn,   \* the cores each caller may run on
  MaxGrants,  \* bound: no new call once this many buffers were handed out
  NONE        \* no caller

Callers == Tasks \cup Isrs

ASSUME BufferPoolAssumption ==
  /\ N \in 1..256       \* buffer_index is a uint8_t
  /\ MaxGrants \in Nat
  /\ MayRunOn \in [Callers -> SUBSET Cores]
  /\ NONE \notin Callers

VARIABLES
  buffer_index,  \* the next buffer to hand out
  my_lock,       \* the caller that holds the lock, or NONE
  pc,            \* control of each caller
  core,          \* the core each caller runs its critical section on
  next_buffer,   \* each caller's local copy
  grants         \* history: the buffers handed out

vars == <<buffer_index, my_lock, pc, core, next_buffer, grants>>

Init ==
  /\ buffer_index = 0
  /\ my_lock = NONE
  /\ pc = [c \in Callers |-> "idle"]
  /\ core \in [Callers -> Cores]
  /\ next_buffer = [c \in Callers |-> 0]
  /\ grants = <<>>
-----------------------------------------------------------------------------
Inside(c) == pc[c] # "idle"

(* The interrupts of core k are unmasked.                                    *)
Unmasked(k) == \A d \in Callers : Inside(d) => core[d] # k

(* No interrupt handler has stopped caller c.                                *)
Runs(c) == c \in Tasks => \A i \in Isrs : Inside(i) => core[i] # core[c]

(* Mutant of Enter: the interrupts stay unmasked.                            *)
EnterUnmasked(c) ==
  /\ pc[c] = "idle"
  /\ Len(grants) < MaxGrants
  /\ \E k \in MayRunOn[c] : core' = [core EXCEPT ![c] = k]
  /\ pc' = [pc EXCEPT ![c] = "spin"]
  /\ UNCHANGED <<buffer_index, my_lock, next_buffer, grants>>

(* portENTER_CRITICAL: mask interrupts ...                                   *)
Enter(c) ==
  /\ pc[c] = "idle"
  /\ Len(grants) < MaxGrants
  /\ \E k \in MayRunOn[c] : Unmasked(k) /\ core' = [core EXCEPT ![c] = k]
  /\ pc' = [pc EXCEPT ![c] = "spin"]
  /\ UNCHANGED <<buffer_index, my_lock, next_buffer, grants>>

(* Mutant of Acquire: interrupts are masked but the lock is not taken.       *)
AcquireNothing(c) ==
  /\ pc[c] = "spin"
  /\ Runs(c)
  /\ my_lock' = c
  /\ pc' = [pc EXCEPT ![c] = "read"]
  /\ UNCHANGED <<buffer_index, core, next_buffer, grants>>

(* ... and spin for the lock.                                                *)
Acquire(c) ==
  /\ pc[c] = "spin"
  /\ Runs(c)
  /\ my_lock = NONE
  /\ my_lock' = c
  /\ pc' = [pc EXCEPT ![c] = "read"]
  /\ UNCHANGED <<buffer_index, core, next_buffer, grants>>

Read(c) ==
  /\ pc[c] = "read"
  /\ Runs(c)
  /\ next_buffer' = [next_buffer EXCEPT ![c] = buffer_index]
  /\ pc' = [pc EXCEPT ![c] = "write"]
  /\ UNCHANGED <<buffer_index, my_lock, core, grants>>

(* Mutant of Write: the index does not wrap around.                          *)
WriteNoWrap(c) ==
  /\ pc[c] = "write"
  /\ Runs(c)
  /\ buffer_index' = buffer_index + 1
  /\ grants' = Append(grants, next_buffer[c])
  /\ pc' = [pc EXCEPT ![c] = "exit"]
  /\ UNCHANGED <<my_lock, core, next_buffer>>

Write(c) ==
  /\ pc[c] = "write"
  /\ Runs(c)
  /\ buffer_index' = (buffer_index + 1) % N
  /\ grants' = Append(grants, next_buffer[c])
  /\ pc' = [pc EXCEPT ![c] = "exit"]
  /\ UNCHANGED <<my_lock, core, next_buffer>>

Exit(c) ==
  /\ pc[c] = "exit"
  /\ Runs(c)
  /\ my_lock' = NONE
  /\ pc' = [pc EXCEPT ![c] = "idle"]
  /\ UNCHANGED <<buffer_index, core, next_buffer, grants>>

Section(c) == Acquire(c) \/ Read(c) \/ Write(c) \/ Exit(c)
Next == \E c \in Callers : Enter(c) \/ Section(c)

Spec == Init /\ [][Next]_vars

(* A core executes the instructions of the critical section it is in; when   *)
(* two cores spin, nothing says which of them takes the lock.                *)
Fairness == \A c \in Callers : WF_vars(Section(c))
FairSpec == Spec /\ Fairness
-----------------------------------------------------------------------------
TypeOK ==
  /\ buffer_index \in 0..N-1
  /\ my_lock \in Callers \cup {NONE}
  /\ pc \in [Callers -> {"idle", "spin", "read", "write", "exit"}]
  /\ core \in [Callers -> Cores]
  /\ next_buffer \in [Callers -> 0..N-1]
  /\ grants \in Seq(0..N-1)

(* A buffer that was handed out is not handed out again by any of the next   *)
(* N - 1 calls, whichever tasks and interrupt handlers make them and however *)
(* they interleave: that is all the protection a packet in a queue has       *)
(* against being overwritten.                                                *)
ReuseDistance ==
  \A i, j \in DOMAIN grants : i < j /\ j - i < N => grants[i] # grants[j]

(* Whenever some caller is in the critical section, a buffer is eventually   *)
(* handed out: no handler spins for a lock held by the task it interrupted.  *)
SomeoneIsServed ==
  \A k \in 0..MaxGrants + 1 :
    Len(grants) = k /\ (\E c \in Callers : pc[c] = "spin") ~> Len(grants) > k
=============================================================================
