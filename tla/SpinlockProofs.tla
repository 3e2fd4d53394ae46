--------------------------- MODULE SpinlockProofs ---------------------------
(***************************************************************************)
(* What Spinlock promises, for any set of threads.  The flag alone says    *)
(* nothing about who owns the lock, so mutual exclusion is not inductive:  *)
(* the invariant adds that an owner keeps the flag raised, which is what   *)
(* makes every other thread's exchange come back TRUE.                     *)
(***************************************************************************)
EXTENDS Spinlock, TLAPS

(* While a thread owns the lock the flag is raised. *)
OwnerKeepsFlag == \A t \in Threads : at[t] = "in" => locked

(* A raised flag has an owner. *)
FlagHasOwner == locked => \E t \in Threads : at[t] = "in"

IInv == TypeOK /\ OwnerKeepsFlag /\ MutualExclusion

(* The variables of the lock only ever hold values of their types: a       *)
(* boolean flag, and one of three places for each thread.                  *)
THEOREM TypeCorrect == Spec => []TypeOK
<1>1. Init => TypeOK
  BY DEF Init, TypeOK
<1>2. TypeOK /\ [Next]_vars => TypeOK'
  BY DEF TypeOK, Next, Lock, Exchange, TryLock, Unlock, vars
<1> QED
  BY <1>1, <1>2, PTL DEF Spec

LEMMA InitIInv == Init => IInv
  BY DEF Init, IInv, TypeOK, OwnerKeepsFlag, MutualExclusion

LEMMA StepIInv == IInv /\ [Next]_vars => IInv'
<1> SUFFICES ASSUME IInv, [Next]_vars PROVE IInv'
  OBVIOUS
<1> USE DEF IInv, TypeOK
<1>1. ASSUME NEW t \in Threads, Lock(t) PROVE IInv'
  BY <1>1 DEF Lock, OwnerKeepsFlag, MutualExclusion
<1>2. ASSUME NEW t \in Threads, Exchange(t) PROVE IInv'
  BY <1>2 DEF Exchange, OwnerKeepsFlag, MutualExclusion
<1>3. ASSUME NEW t \in Threads, TryLock(t) PROVE IInv'
  BY <1>3 DEF TryLock, OwnerKeepsFlag, MutualExclusion
<1>4. ASSUME NEW t \in Threads, Unlock(t) PROVE IInv'
  BY <1>4 DEF Unlock, OwnerKeepsFlag, MutualExclusion
<1>5. CASE UNCHANGED vars
  BY <1>5 DEF vars, OwnerKeepsFlag, MutualExclusion
<1> QED
  BY <1>1, <1>2, <1>3, <1>4, <1>5 DEF Next

(* No two threads own the lock at once (spinlock_guard's critical sections *)
(* never overlap), for any number of threads.                              *)
THEOREM MutualExclusionHolds == Spec => []MutualExclusion
<1>1. IInv => MutualExclusion
  BY DEF IInv
<1> QED
  BY InitIInv, StepIInv, <1>1, PTL DEF Spec

(* The flag is raised exactly while somebody owns the lock, so it is never *)
(* left raised after the last owner has gone.                              *)
THEOREM FlagMatchesOwnerHolds == Spec => []FlagMatchesOwner
<1> DEFINE Inv == IInv /\ FlagHasOwner
<1>1. Init => Inv
  BY InitIInv DEF Init, FlagHasOwner
<1>2. Inv /\ [Next]_vars => Inv'
  <2> SUFFICES ASSUME Inv, [Next]_vars PROVE FlagHasOwner'
    BY StepIInv
  <2> USE DEF IInv, TypeOK, FlagHasOwner
  <2>1. ASSUME NEW t \in Threads, Lock(t) PROVE FlagHasOwner'
    BY <2>1 DEF Lock
  <2>2. ASSUME NEW t \in Threads, Exchange(t) PROVE FlagHasOwner'
    BY <2>2 DEF Exchange
  <2>3. ASSUME NEW t \in Threads, TryLock(t) PROVE FlagHasOwner'
    BY <2>3 DEF TryLock
  <2>4. ASSUME NEW t \in Threads, Unlock(t) PROVE FlagHasOwner'
    BY <2>4 DEF Unlock
  <2>5. CASE UNCHANGED vars
    BY <2>5 DEF vars
  <2> QED
    BY <2>1, <2>2, <2>3, <2>4, <2>5 DEF Next
<1>3. Inv => FlagMatchesOwner
  BY DEF IInv, OwnerKeepsFlag, FlagHasOwner, FlagMatchesOwner
<1> QED
  BY <1>1, <1>2, <1>3, PTL DEF Spec
=============================================================================
