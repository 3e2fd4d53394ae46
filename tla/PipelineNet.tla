---------------------------- MODULE PipelineNet -----------------------------
(***************************************************************************)
(* Pipelines whose sinks emit into other pipelines (connect_to.hpp).       *)
(*                                                                         *)
(* emit() is synchronous and holds its pipeline's spinlock while the sink  *)
(* runs, so a thread that has reached the k-th pipeline of a chain holds   *)
(* k - 1 locks and waits for, or holds, the next.  Any thread may emit     *)
(* into any pipeline, also into one that others are connected to.          *)
(*                                                                         *)
(* A topic is a sequence of parts: what application code wrote, and in     *)
(* front the name of each pipeline whose sink has put its prefix there     *)
(* since.  Application code writes it where it is emitted, in a stage,     *)
(* which has the pipeline's own copy of the message and may give it        *)
(* another topic, and in a remap callable.                                 *)
(***************************************************************************)
EXTENDS Integers, Sequences, SequencesExt

CONSTANTS
    Threads,
    Pipes,
    Kind,            \* each pipeline's sink: "none", "app", "forward", "prefix", "remap"
    Target,          \* the pipeline that the last three kinds emit into
    Hops,            \* each pipeline: how many more a message may go through
    Rewriting,       \* the pipelines with a stage that may rewrite the topic
    Part,            \* what topics are made of where application code writes them
    MaxEntryLen,     \* bound: the parts of a topic that it makes
    MaxTopicLen,     \* Config::max_topic_len, in parts
    MaxEmits         \* bound: messages one thread emits

SinkKinds == {"none", "app", "forward", "prefix", "remap"}
Connected(p) == Kind[p] \in {"forward", "prefix", "remap"}
Prefixing(p) == Kind[p] = "prefix"

(* "Connecting a pipeline to itself is undefined behaviour": no way along  *)
(* the targets leads back.                                                 *)
ASSUME NetAssumption ==
    /\ Kind \in [Pipes -> SinkKinds]
    /\ Target \in [Pipes -> Pipes]
    /\ Hops \in [Pipes -> Nat]
    /\ \A p \in Pipes : Connected(p) => Hops[Target[p]] < Hops[p]
    /\ Rewriting \subseteq Pipes
    /\ MaxEntryLen \in Nat /\ MaxTopicLen \in Nat /\ MaxEmits \in Nat

VARIABLES
    locked,     \* each pipeline's stage_lock_
    path,       \* each thread: the pipelines whose emit() it is in, the last called last
    at,         \* each thread: where it is in that last emit()
    topic,      \* each thread: the topic that emit() was given
    sent,       \* how many messages each thread has emitted
    log         \* the messages given to the application's sinks, in order

(* Kept to state a property. *)
VARIABLES
    written,    \* each thread: its message's topic as application code last wrote it
    since       \* each thread: the first pipeline of its path to prefix that

topic_vars == <<topic, written, since>>
vars == <<locked, path, at, topic_vars, sent, log>>

Places == {"out", "lock", "pass", "sink", "app", "unlock"}
Messages == [by : Threads, no : 1..MaxEmits]
Topics == Seq(Pipes \cup {Part})

TypeOK ==
    /\ locked \in [Pipes -> BOOLEAN]
    /\ path \in [Threads -> Seq(Pipes)]
    /\ at \in [Threads -> Places]
    /\ topic \in [Threads -> Topics]
    /\ written \in [Threads -> Topics]
    /\ since \in [Threads -> Nat]
    /\ sent \in [Threads -> 0..MaxEmits]
    /\ log \in Seq(Messages)

Init ==
    /\ locked = [p \in Pipes |-> FALSE]
    /\ path = [t \in Threads |-> <<>>]
    /\ at = [t \in Threads |-> "out"]
    /\ topic = [t \in Threads |-> <<>>]
    /\ written = [t \in Threads |-> <<>>]
    /\ since = [t \in Threads |-> 0]
    /\ sent = [t \in Threads |-> 0]
    /\ log = <<>>

(* The pipeline whose emit() a thread is in. *)
Here(t) == path[t][Len(path[t])]

Steps(t, from, to) == at[t] = from /\ at' = [at EXCEPT ![t] = to]

(* The topics that the application gives its messages, and those it makes  *)
(* of the topic of a message: a view into that, or one of its own.         *)
Emitted == {[i \in 1..n |-> Part] : n \in 1..MaxEntryLen}
MadeOf(s) == {SubSeq(s, i, j) : i \in 1..Len(s), j \in 0..Len(s)} \cup Emitted

(* Application code gives t's message the topic s; n pipelines of its path  *)
(* have put their prefix, or none, before the topic that it had.            *)
Write(t, s, n) ==
    /\ topic' = [topic EXCEPT ![t] = s]
    /\ written' = [written EXCEPT ![t] = s]
    /\ since' = [since EXCEPT ![t] = n + 1]

-----------------------------------------------------------------------------
(* A thread emits a message into some pipeline. *)
Emit(t, p) ==
    /\ Steps(t, "out", "lock")
    /\ sent[t] < MaxEmits
    /\ sent' = [sent EXCEPT ![t] = @ + 1]
    /\ path' = [path EXCEPT ![t] = <<p>>]
    /\ \E s \in Emitted : Write(t, s, 0)
    /\ UNCHANGED <<locked, log>>

\* Slip: the guard is taken without looking at what the exchange returned.
BlindAcquire(t) ==
    /\ Steps(t, "lock", "pass")
    /\ locked' = [locked EXCEPT ![Here(t)] = TRUE]
    /\ UNCHANGED <<path, topic_vars, sent, log>>

(* One turn of spinlock::lock() in emit(). *)
Acquire(t) ==
    /\ Steps(t, "lock", IF locked[Here(t)] THEN "lock" ELSE "pass")
    /\ locked' = [locked EXCEPT ![Here(t)] = TRUE]
    /\ UNCHANGED <<path, topic_vars, sent, log>>

(* process_message() returns before the sink: the topic does not fit in    *)
(* this pipeline's message, a stage drops it, or no sink is set.           *)
Drop(t) ==
    /\ Steps(t, "pass", "unlock")
    /\ UNCHANGED <<locked, path, topic_vars, sent, log>>

(* A stage calls from_view() on the message it was given, with a topic that *)
(* is not refused.  The emitter's own message stays as it is.               *)
StageRewrites(t) ==
    /\ Here(t) \in Rewriting
    /\ \E s \in MadeOf(topic[t]) :
          Len(s) <= MaxTopicLen /\ Write(t, s, Len(path[t]) - 1)

(* All stages return true, and there is a sink to call. *)
Pass(t) ==
    /\ Steps(t, "pass", "sink")
    /\ Len(topic[t]) <= MaxTopicLen
    /\ StageRewrites(t) \/ UNCHANGED topic_vars
    /\ Kind[Here(t)] # "none"
    /\ UNCHANGED <<locked, path, sent, log>>

(* The application's own sink. *)
CallApp(t) ==
    /\ Steps(t, "sink", "app")
    /\ Kind[Here(t)] = "app"
    /\ log' = Append(log, [by |-> t, no |-> sent[t]])
    /\ UNCHANGED <<locked, path, topic_vars, sent>>

AppReturns(t) ==
    /\ Steps(t, "app", "unlock")
    /\ UNCHANGED <<locked, path, topic_vars, sent, log>>

\* Slip: the prefix is appended to the topic.
PrefixBehind(p, s) == IF Prefixing(p) THEN Append(s, p) ELSE s

(* What a connected sink makes of a topic by itself. *)
Prefixed(p, s) == IF Prefixing(p) THEN <<p>> \o s ELSE s

(* A remap callable returns a topic; for an empty one the sink has its own. *)
Remap(t) ==
    /\ Kind[Here(t)] = "remap"
    /\ \E s \in MadeOf(topic[t]) \ {<<>>} : Write(t, s, Len(path[t]))

KeepTopic(t) ==
    /\ topic' = [topic EXCEPT ![t] = Prefixed(Here(t), @)]
    /\ UNCHANGED <<written, since>>

\* Slip: the sink captures its own pipeline for the target.
EmitIntoItself(t) ==
    /\ Steps(t, "sink", "lock")
    /\ Connected(Here(t))
    /\ path' = [path EXCEPT ![t] = Append(@, Here(t))]
    /\ Remap(t) \/ KeepTopic(t)
    /\ UNCHANGED <<locked, sent, log>>

(* A connected sink calls target->emit() with this pipeline's lock held. *)
EmitIntoTarget(t) ==
    /\ Steps(t, "sink", "lock")
    /\ Connected(Here(t))
    /\ path' = [path EXCEPT ![t] = Append(@, Target[Here(t)])]
    /\ Remap(t) \/ KeepTopic(t)
    /\ UNCHANGED <<locked, sent, log>>

\* Slip: the sink goes back to its loop when the target's emit() has returned.
ReturnToSink(t) ==
    /\ Steps(t, "unlock", IF Len(path[t]) = 1 THEN "out" ELSE "sink")
    /\ locked' = [locked EXCEPT ![Here(t)] = FALSE]
    /\ path' = [path EXCEPT ![t] = Front(@)]
    /\ UNCHANGED <<topic_vars, sent, log>>

\* Slip: what the target's emit() leaves unwinds past the guards before it.
UnwindPastGuards(t) ==
    /\ Steps(t, "unlock", "out")
    /\ locked' = [locked EXCEPT ![Here(t)] = FALSE]
    /\ path' = [path EXCEPT ![t] = <<>>]
    /\ UNCHANGED <<topic_vars, sent, log>>

(* emit() gives its lock back and returns: to the sink that called it,     *)
(* which has nothing left to do but return, or out of the network.         *)
Release(t) ==
    /\ Steps(t, "unlock", IF Len(path[t]) = 1 THEN "out" ELSE "unlock")
    /\ locked' = [locked EXCEPT ![Here(t)] = FALSE]
    /\ path' = [path EXCEPT ![t] = Front(@)]
    /\ UNCHANGED <<topic_vars, sent, log>>

-----------------------------------------------------------------------------
Step(t) ==
    \/ Acquire(t) \/ Drop(t) \/ Pass(t) \/ CallApp(t) \/ AppReturns(t)
    \/ EmitIntoTarget(t) \/ Release(t)

Next == \E t \in Threads : (\E p \in Pipes : Emit(t, p)) \/ Step(t)

Spec == Init /\ [][Next]_vars

(* Stages, sinks and remap callables return, and a thread waiting for a    *)
(* lock gets it some time after the last of finitely many messages.        *)
FairSpec == Spec /\ \A t \in Threads : WF_vars(Step(t))

-----------------------------------------------------------------------------
(* The whole network, seen from its emitters, is again what one pipeline   *)
(* promises them.                                                          *)
Service == INSTANCE EmitService WITH
    call <- [t \in Threads |-> CASE at[t] = "out" -> "idle"
                                [] at[t] \in {"app", "unlock"} -> "settled"
                                [] OTHER -> "waiting"]

-----------------------------------------------------------------------------
(* However pipelines are connected and entered, a message that an emitter  *)
(* hands to the first of them is given to the application once at most,    *)
(* within the emitter's call, and in the emitter's order.                  *)
NetworkIsEmitService == Service!Spec

(* A thread holds the lock of every pipeline on its path but one it still  *)
(* waits for.                                                              *)
Holds(t, p) ==
    \E i \in 1..Len(path[t]) :
        /\ path[t][i] = p
        /\ i < Len(path[t]) \/ at[t] # "lock"

(* A pipeline works on one message at a time, also while its sink is away  *)
(* in the pipelines behind it, and is locked exactly then.                 *)
OneInEachPipe ==
    /\ \A s, t \in Threads : \A p \in Pipes : Holds(s, p) /\ Holds(t, p) => s = t
    /\ \A p \in Pipes : locked[p] <=> \E t \in Threads : Holds(t, p)

(* Threads never all wait for one another: while anybody is in a call,     *)
(* somebody in a call is not waiting, or waits for a lock that is free.    *)
CanMove(t) == at[t] # "out" /\ (at[t] = "lock" => ~locked[Here(t)])

NobodyWaitsInACircle ==
    (\E t \in Threads : at[t] # "out") => \E t \in Threads : CanMove(t)

(* A topic that reaches the application tells the way it came since its own *)
(* code last wrote it, when it was emitted, in a stage or in a remap: before *)
(* what was written there are the prefixes of the pipelines it has left      *)
(* since, the last first, and nothing is cut off.                            *)
PrefixesOf[way \in Seq(Pipes)] ==
    IF way = <<>> THEN <<>>
    ELSE (IF Prefixing(Last(way)) THEN <<Last(way)>> ELSE <<>>) \o PrefixesOf[Front(way)]

WaySince(t) == SubSeq(path[t], since[t], Len(path[t]))

TopicTellsItsWay ==
    \A t \in Threads :
        at[t] = "app" => topic[t] = PrefixesOf[WaySince(t)] \o written[t]

(* Every emit() returns, through however many pipelines it goes. *)
EmitReturns == \A t \in Threads : at[t] # "out" ~> at[t] = "out"
=============================================================================
