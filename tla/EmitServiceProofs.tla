------------------------- MODULE EmitServiceProofs --------------------------
(***************************************************************************)
(* ProgramOrder for any threads and any number of messages.  The sink's    *)
(* log alone does not say that a message still on its way is new to it:    *)
(* the invariant bounds what the log holds of each thread by what that     *)
(* thread has already settled.                                             *)
(***************************************************************************)
EXTENDS EmitService, TLAPS

(* How many of its messages a thread has settled, delivered or dropped. *)
Settled(t) == IF call[t] = "waiting" THEN sent[t] - 1 ELSE sent[t]

LogIsSettled == \A i \in 1..Len(log) : log[i].no <= Settled(log[i].by)

(* A thread inside emit() has emitted something. *)
CallersHaveSent == \A t \in Threads : call[t] # "idle" => sent[t] >= 1

IInv == TypeOK /\ CallersHaveSent /\ LogIsSettled /\ ProgramOrder

LEMMA MessageFields ==
    /\ \A m \in Messages : m.by \in Threads /\ m.no \in 1..MaxEmits
    /\ \A t \in Threads, n \in 1..MaxEmits :
          /\ Message(t, n) \in Messages
          /\ Message(t, n).by = t /\ Message(t, n).no = n
  BY DEF Messages, Message

LEMMA InitIInv == ASSUME MaxEmits \in Nat PROVE Init => IInv
  BY DEF Init, IInv, TypeOK, CallersHaveSent, LogIsSettled, ProgramOrder

(* A step that leaves the log alone preserves what is said of it, as long  *)
(* as no thread has settled fewer messages than before.                    *)
LEMMA SameLog ==
    ASSUME MaxEmits \in Nat, IInv, UNCHANGED log,
           \A s \in Threads : Settled(s) <= Settled(s)',
           \A s \in Threads : Settled(s) \in Int /\ Settled(s)' \in Int
    PROVE  LogIsSettled' /\ ProgramOrder'
<1>1. \A i \in 1..Len(log) : log[i].by \in Threads /\ log[i].no \in Nat
  BY MessageFields DEF IInv, TypeOK
<1>2. LogIsSettled'
  <2> SUFFICES ASSUME NEW i \in 1..Len(log)
               PROVE  log[i].no <= Settled(log[i].by)'
    BY DEF LogIsSettled, Settled
  <2>1. log[i].no <= Settled(log[i].by)
    BY DEF IInv, LogIsSettled
  <2> QED
    BY <1>1, <2>1
<1>3. ProgramOrder'
  BY DEF IInv, ProgramOrder
<1> QED
  BY <1>2, <1>3

LEMMA DeliverIInv ==
    ASSUME MaxEmits \in Nat, NEW t \in Threads, IInv, Deliver(t) PROVE IInv'
<1> USE DEF IInv, TypeOK, Deliver
<1>1. sent[t] \in 1..MaxEmits /\ Message(t, sent[t]) \in Messages
  BY MessageFields DEF CallersHaveSent
<1>2. TypeOK' /\ CallersHaveSent'
  BY <1>1 DEF CallersHaveSent
<1>3. /\ Len(log') = Len(log) + 1
      /\ log'[Len(log) + 1] = Message(t, sent[t])
      /\ \A i \in 1..Len(log) : log'[i] = log[i]
  BY <1>1
<1>0. Len(log) \in Nat /\ \A i \in 1..Len(log) : log[i].no \in Nat
  BY MessageFields
<1>4. LogIsSettled'
  BY <1>0, <1>1, <1>3, MessageFields DEF LogIsSettled, Settled
<1>5. ProgramOrder'
  <2> SUFFICES ASSUME NEW i \in 1..Len(log'), NEW j \in 1..Len(log'),
                      i < j, log'[i].by = log'[j].by
               PROVE  log'[i].no < log'[j].no
    BY DEF ProgramOrder
  <2>1. CASE j \in 1..Len(log)
    BY <2>1, <1>3 DEF ProgramOrder
  <2>2. CASE j = Len(log) + 1
    <3>1. i \in 1..Len(log) /\ log[i].by = t
      BY <2>2, <1>0, <1>1, <1>3, MessageFields
    <3>2. log[i].no <= sent[t] - 1
      BY <3>1 DEF LogIsSettled, Settled
    <3>3. log'[i].no = log[i].no /\ log'[j].no = sent[t]
      BY <3>1, <2>2, <1>1, <1>3, MessageFields
    <3> QED
      BY <3>1, <3>2, <3>3, <1>0, <1>1
  <2>3. j \in 1..Len(log) \/ j = Len(log) + 1
    <3>1. PICK n \in Nat : n = Len(log)
      BY <1>0
    <3>2. j \in 1..n + 1
      BY <3>1, <1>3
    <3> QED
      BY <3>1, <3>2
  <2> QED
    BY <2>1, <2>2, <2>3
<1> QED
  BY <1>2, <1>4, <1>5

LEMMA StepIInv ==
    ASSUME MaxEmits \in Nat PROVE IInv /\ [Next]_vars => IInv'
<1> SUFFICES ASSUME IInv, [Next]_vars PROVE IInv'
  OBVIOUS
<1> USE DEF IInv, TypeOK
<1>1. ASSUME NEW t \in Threads, Call(t) PROVE IInv'
  <2>1. TypeOK' /\ CallersHaveSent'
    BY <1>1 DEF Call, CallersHaveSent
  <2>2. \A s \in Threads : /\ Settled(s) <= Settled(s)'
                           /\ Settled(s) \in Int /\ Settled(s)' \in Int
    BY <1>1 DEF Call, Settled
  <2> QED
    BY <1>1, <2>1, <2>2, SameLog DEF Call
<1>2. ASSUME NEW t \in Threads, Deliver(t) PROVE IInv'
  BY <1>2, DeliverIInv
<1>3. ASSUME NEW t \in Threads, Drop(t) PROVE IInv'
  <2>1. TypeOK' /\ CallersHaveSent'
    BY <1>3 DEF Drop, CallersHaveSent
  <2>2. \A s \in Threads : /\ Settled(s) <= Settled(s)'
                           /\ Settled(s) \in Int /\ Settled(s)' \in Int
    BY <1>3 DEF Drop, Settled
  <2> QED
    BY <1>3, <2>1, <2>2, SameLog DEF Drop
<1>4. ASSUME NEW t \in Threads, Return(t) PROVE IInv'
  <2>1. TypeOK' /\ CallersHaveSent'
    BY <1>4 DEF Return, CallersHaveSent
  <2>2. \A s \in Threads : /\ Settled(s) <= Settled(s)'
                           /\ Settled(s) \in Int /\ Settled(s)' \in Int
    BY <1>4 DEF Return, Settled
  <2> QED
    BY <1>4, <2>1, <2>2, SameLog DEF Return
<1>5. CASE UNCHANGED vars
  BY <1>5 DEF vars, CallersHaveSent, LogIsSettled, Settled, ProgramOrder
<1> QED
  BY <1>1, <1>2, <1>3, <1>4, <1>5 DEF Next

(* emit() keeps each caller's order and delivers no message twice, for any *)
(* threads and any number of messages.                                     *)
THEOREM ProgramOrderHolds ==
    ASSUME MaxEmits \in Nat PROVE Spec => []ProgramOrder
<1>1. IInv => ProgramOrder
  BY DEF IInv
<1> QED
  BY InitIInv, StepIInv, <1>1, PTL DEF Spec
=============================================================================
