------------------------------ MODULE Spinlock ------------------------------
(***************************************************************************)
(* The non-recursive test-and-set lock of spinlock.hpp.  `locked' is its   *)
(* one atomic flag; `at' says where each thread is with respect to it: a   *)
(* thread that has called lock() spins until its exchange returns FALSE.   *)
(*                                                                         *)
(* Every access to the flag is one atomic instruction, so every action     *)
(* below is exactly one instruction (or the call that precedes it).        *)
(***************************************************************************)
CONSTANT Threads

VARIABLES
    locked,    \* the atomic flag locked_
    at         \* where each thread is: "out", "spin" (in lock()), "in"

vars == <<locked, at>>

TypeOK ==
    /\ locked \in BOOLEAN
    /\ at \in [Threads -> {"out", "spin", "in"}]

Init ==
    /\ locked = FALSE
    /\ at = [t \in Threads |-> "out"]

-----------------------------------------------------------------------------
(* A thread calls lock(), as the constructor of spinlock_guard does. *)
Lock(t) ==
    /\ at[t] = "out"
    /\ at' = [at EXCEPT ![t] = "spin"]
    /\ UNCHANGED locked

\* Slip: the value the exchange returned is not looked at.
BlindExchange(t) ==
    /\ at[t] = "spin"
    /\ locked' = TRUE
    /\ at' = [at EXCEPT ![t] = "in"]

(* One turn of lock()'s loop: the exchange always leaves TRUE in the flag, *)
(* and the caller owns the lock only if it found FALSE there.              *)
Exchange(t) ==
    /\ at[t] = "spin"
    /\ locked' = TRUE
    /\ at' = [at EXCEPT ![t] = IF locked THEN "spin" ELSE "in"]

\* Slip: try_lock() returns what the exchange found, without the negation.
UnnegatedTryLock(t) ==
    /\ at[t] = "out"
    /\ locked' = TRUE
    /\ at' = [at EXCEPT ![t] = IF locked THEN "in" ELSE "out"]

(* try_lock(): the same exchange, given up after one turn. *)
TryLock(t) ==
    /\ at[t] = "out"
    /\ locked' = TRUE
    /\ at' = [at EXCEPT ![t] = IF locked THEN "out" ELSE "in"]

\* Slip: the guard leaves without its store.
ForgottenUnlock(t) ==
    /\ at[t] = "in"
    /\ at' = [at EXCEPT ![t] = "out"]
    /\ UNCHANGED locked

(* unlock(), as the destructor of spinlock_guard calls it. *)
Unlock(t) ==
    /\ at[t] = "in"
    /\ locked' = FALSE
    /\ at' = [at EXCEPT ![t] = "out"]

Next == \E t \in Threads : Lock(t) \/ Exchange(t) \/ TryLock(t) \/ Unlock(t)

Spec == Init /\ [][Next]_vars

(* Threads that spin keep spinning, and whoever owns the lock gives it back. *)
Fairness == \A t \in Threads : WF_vars(Exchange(t)) /\ WF_vars(Unlock(t))

FairSpec == Spec /\ Fairness

-----------------------------------------------------------------------------
(* At most one thread is between the exchange that found FALSE and its     *)
(* unlock(), whatever mix of lock() and try_lock() the threads use.        *)
MutualExclusion ==
    \A s, t \in Threads : at[s] = "in" /\ at[t] = "in" => s = t

(* The flag is raised exactly while a thread owns the lock: neither a      *)
(* failed exchange nor a failed try_lock() can leave it raised with nobody *)
(* to lower it, nor lower it under an owner.                               *)
FlagMatchesOwner == locked <=> \E t \in Threads : at[t] = "in"

(* As long as somebody spins, somebody gets in: the lock never locks       *)
(* everyone out.  (That a given thread gets in is not promised: the lock   *)
(* keeps no queue.)                                                        *)
SomebodyGetsIn ==
    (\E t \in Threads : at[t] = "spin") ~> (\E t \in Threads : at[t] = "in")
=============================================================================
