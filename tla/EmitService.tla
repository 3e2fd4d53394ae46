---------------------------- MODULE EmitService -----------------------------
(***************************************************************************)
(* What emit() promises its callers, without a lock, stages or a source:   *)
(* the call is synchronous, so the sink has seen the message, or never     *)
(* will, by the time the call returns, and what the sink sees is one       *)
(* sequence in which each thread's messages keep their order.              *)
(*                                                                         *)
(* The abstract specification that Pipeline implements.                    *)
(***************************************************************************)
EXTENDS Integers, Sequences

CONSTANTS
    Threads,     \* whoever calls emit(), directly or from inside a poll
    MaxEmits     \* bound: how many messages one thread emits

VARIABLES
    call,        \* each thread: "idle", "waiting" in emit(), "settled" in it
    sent,        \* how many messages each thread has emitted so far
    log          \* what the sink was given, in order

vars == <<call, sent, log>>

(* A message is named by who emitted it and how many it had emitted. *)
Message(t, n) == [by |-> t, no |-> n]
Messages == [by : Threads, no : 1..MaxEmits]

TypeOK ==
    /\ call \in [Threads -> {"idle", "waiting", "settled"}]
    /\ sent \in [Threads -> 0..MaxEmits]
    /\ log \in Seq(Messages)

Init ==
    /\ call = [t \in Threads |-> "idle"]
    /\ sent = [t \in Threads |-> 0]
    /\ log = <<>>

-----------------------------------------------------------------------------
Call(t) ==
    /\ call[t] = "idle"
    /\ sent[t] < MaxEmits
    /\ call' = [call EXCEPT ![t] = "waiting"]
    /\ sent' = [sent EXCEPT ![t] = @ + 1]
    /\ UNCHANGED log

(* The message reaches the sink. *)
Deliver(t) ==
    /\ call[t] = "waiting"
    /\ call' = [call EXCEPT ![t] = "settled"]
    /\ log' = Append(log, Message(t, sent[t]))
    /\ UNCHANGED sent

(* The message is dropped: over-long, filtered out, or there is no sink. *)
Drop(t) ==
    /\ call[t] = "waiting"
    /\ call' = [call EXCEPT ![t] = "settled"]
    /\ UNCHANGED <<sent, log>>

Return(t) ==
    /\ call[t] = "settled"
    /\ call' = [call EXCEPT ![t] = "idle"]
    /\ UNCHANGED <<sent, log>>

Next == \E t \in Threads : Call(t) \/ Deliver(t) \/ Drop(t) \/ Return(t)

Spec == Init /\ [][Next]_vars

-----------------------------------------------------------------------------
(* The sink never sees a message twice, nor two messages of one thread in  *)
(* another order than that thread emitted them.                            *)
ProgramOrder ==
    \A i, j \in 1..Len(log) :
        i < j /\ log[i].by = log[j].by => log[i].no < log[j].no
=============================================================================
