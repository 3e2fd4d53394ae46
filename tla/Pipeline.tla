------------------------------ MODULE Pipeline ------------------------------
(***************************************************************************)
(* basic_pipeline (pipeline.hpp): the builder calls that fill it, run()    *)
(* with its event loop, stop(), poll_once(), and emit() from any thread.   *)
(*                                                                         *)
(* One thread, the owner, configures the pipeline and runs it; clients     *)
(* hold a reference to it and call emit(), poll_once() and stop().  An     *)
(* action is what one thread does between two points at which another can  *)
(* observe or change the pipeline: one atomic access, one call of user     *)
(* code, one call into the source.                                         *)
(*                                                                         *)
(* The source is any type that meets the BusSource concept.  Its connect,  *)
(* subscribe, configuration and disconnect calls succeed or fail at will,  *)
(* poll() hands out any number of messages, and the connection may go at   *)
(* any moment.                                                             *)
(***************************************************************************)
EXTENDS Integers, Sequences

CONSTANTS
    Owner,               \* the thread that configures the pipeline and runs it
    Clients,             \* the threads that share it
    Topics, LongTopics,  \* topics; those longer than max_topic_len
    Uris, LongUris,      \* URIs; those longer than max_uri_len
    NoTopic, NoUri,      \* the empty topic and the empty URI
    MaxSubscriptions,    \* Config::max_subscriptions
    MaxConfigOps,        \* Config::max_config_ops
    MaxStages,           \* Config::max_stages
    MaxEmits,            \* bound: messages one thread sends through emit()
    Excess,              \* bound: builder calls of a kind beyond those that fit
    LateConfig           \* whether the owner configures a pipeline in use

ASSUME PipelineAssumption ==
    /\ Owner \notin Clients
    /\ LongTopics \subseteq Topics /\ NoTopic \notin Topics
    /\ LongUris \subseteq Uris /\ NoUri \notin Uris
    /\ MaxSubscriptions \in Nat /\ MaxConfigOps \in Nat
    /\ MaxStages \in Nat /\ MaxEmits \in Nat /\ Excess \in Nat
    /\ LateConfig \in BOOLEAN

Threads == Clients \cup {Owner}

VARIABLES
    pending_error,  \* the last builder call that failed leaves its error here
    subscriptions,  \* the topics stored, an empty one where storing failed
    config_count,   \* how many config_ops_ are stored
    stages,         \* each slot: "null", "raw" (pointers set, no callable), "ready"
    stage_count,    \* how many slots process_message() goes through
    sink,           \* the sink's slot, like a stage's
    owned_uri,      \* the URI stored in the pipeline
    uri_view,       \* "own": its view points into it; "gone": into a dead temporary
    running,        \* the atomic flag running_
    locked,         \* the flag of stage_lock_
    connected,      \* the source is connected
    callback,       \* the source has the pipeline's message callback
    src_uri,        \* the URI the source was connected with
    applied,        \* how many config ops were applied since it was connected
    subscribed,     \* the topics subscribed since it was connected
    pc,             \* each thread: where it is in a builder call, run(), poll_once()
    em,             \* each thread: where it is in emit()
    next            \* each thread: the stage process_message() is at

(* What was asked of the pipeline and what it did, kept to state properties. *)
VARIABLES
    want_subs, want_configs, want_stages, want_uri,  \* what the builder was asked
    sent,           \* how many messages each thread has sent through emit()
    log,            \* the messages the sink was given, in order
    pass,           \* the calls of user code since the lock last changed hands
    refused,        \* the disconnect() of the last run() failed
    late,           \* each thread: polls it began since running_ went down
    stop_asked      \* stop() was called during the run() under way

builder_vars == <<pending_error, subscriptions, config_count, owned_uri, uri_view,
                  want_subs, want_configs, want_uri>>
stage_vars == <<stages, stage_count, sink, want_stages>>
source_vars == <<connected, callback, src_uri, applied, subscribed, refused>>
run_vars == <<running, late, stop_asked>>
emit_vars == <<locked, em, next, sent, log, pass>>
vars == <<builder_vars, stage_vars, source_vars, run_vars, pc, emit_vars>>

-----------------------------------------------------------------------------
Errors == {"none", "buffer_overflow", "capacity_exceeded", "invalid_uri"}
SlotStates == {"null", "raw", "ready"}
BuilderSteps == {"stage_set", "stage_fill", "sink_reset", "sink_set", "sink_fill"}
InLoop == {"loop", "loop_conn", "poll"}
RunSteps == {"configure", "subscribe", "abort", "start", "install"}
                \cup InLoop \cup {"clear", "disconnect"}
PollOnceSteps == {"once_conn", "once_poll"}
Places == {"idle"} \cup BuilderSteps \cup RunSteps \cup PollOnceSteps
EmitSteps == {"out", "lock", "copy", "scan", "stage", "sink", "unlock"}

SinkAt == MaxStages + 1
Messages == [by : Threads, no : 1..MaxEmits]
Visits == [by : Threads, at : 1..SinkAt]

BuilderTypes ==
    /\ pending_error \in Errors
    /\ subscriptions \in Seq(Topics \cup {NoTopic})
    /\ Len(subscriptions) <= MaxSubscriptions
    /\ config_count \in 0..MaxConfigOps
    /\ owned_uri \in Uris \cup {NoUri}
    /\ uri_view \in {"own", "gone"}
    /\ want_subs \in Seq(Topics)
    /\ want_configs \in Nat
    /\ want_uri \in Uris \cup {NoUri}

StageTypes ==
    /\ stages \in [1..MaxStages -> SlotStates]
    /\ stage_count \in 0..MaxStages
    /\ sink \in SlotStates
    /\ want_stages \in Nat

SourceTypes ==
    /\ connected \in BOOLEAN /\ callback \in BOOLEAN /\ refused \in BOOLEAN
    /\ src_uri \in Uris \cup {NoUri}
    /\ applied \in 0..MaxConfigOps
    /\ subscribed \in Seq(Topics \cup {NoTopic})

RunTypes ==
    /\ running \in BOOLEAN
    /\ late \in [Threads -> Nat]
    /\ stop_asked \in BOOLEAN

EmitTypes ==
    /\ locked \in BOOLEAN
    /\ em \in [Threads -> EmitSteps]
    /\ next \in [Threads -> 1..MaxStages + 1]
    /\ sent \in [Threads -> 0..MaxEmits]
    /\ log \in Seq(Messages)
    /\ pass \in Seq(Visits)

TypeOK ==
    /\ BuilderTypes /\ StageTypes /\ SourceTypes /\ RunTypes /\ EmitTypes
    /\ pc \in [Threads -> Places]

(* basic_uri::parse_or_default: an over-long URI leaves nothing stored. *)
ParseOrDefault(uri) == IF uri \in LongUris THEN NoUri ELSE uri

(* The constructors, without a URI (NoUri) or with one. *)
Init ==
    /\ \E uri \in Uris \cup {NoUri} :
          /\ owned_uri = ParseOrDefault(uri)
          /\ pending_error = IF uri \in LongUris THEN "invalid_uri" ELSE "none"
          /\ want_uri = uri
    /\ uri_view = "own"
    /\ subscriptions = <<>> /\ config_count = 0
    /\ stages = [i \in 1..MaxStages |-> "null"] /\ stage_count = 0
    /\ sink = "null"
    /\ running = FALSE /\ locked = FALSE
    /\ connected = FALSE /\ callback = FALSE /\ src_uri = NoUri
    /\ applied = 0 /\ subscribed = <<>> /\ refused = FALSE
    /\ pc = [t \in Threads |-> "idle"]
    /\ em = [t \in Threads |-> "out"]
    /\ next = [t \in Threads |-> 1]
    /\ want_subs = <<>> /\ want_configs = 0 /\ want_stages = 0
    /\ sent = [t \in Threads |-> 0]
    /\ log = <<>> /\ pass = <<>>
    /\ late = [t \in Threads |-> 0]
    /\ stop_asked = FALSE

Free(t) == pc[t] = "idle" /\ em[t] = "out"
Goes(t, from, to) == pc[t] = from /\ pc' = [pc EXCEPT ![t] = to]

-----------------------------------------------------------------------------
(* The moves, which operator| makes into its parameter and again into its    *)
(* result: the tables go along, running_ and the lock are down as they were, *)
(* and the URI's view is copied as it is, into the pipeline left behind.     *)
(* Nobody may be in a call then, and the application does it before the      *)
(* source has a callback that captured this.                                 *)
MovesAlong ==
    /\ \A t \in Threads : Free(t)
    /\ ~callback
    /\ uri_view' = IF owned_uri = NoUri THEN uri_view ELSE "gone"

Move ==
    /\ MovesAlong
    /\ UNCHANGED <<pending_error, subscriptions, config_count, owned_uri, want_subs,
                   want_configs, want_uri, stage_vars, source_vars, run_vars, pc, emit_vars>>

(* A builder call is made by its name, or by operator|. *)
CalledOrPiped == UNCHANGED uri_view \/ MovesAlong

-----------------------------------------------------------------------------
(* Builder calls that touch only what run() reads, and run() is the owner's. *)

\* Slip: the capacity test is off by one.
SubscribeStoresOneMore(topic) ==
    /\ Len(subscriptions) <= MaxSubscriptions
    /\ topic \notin LongTopics
    /\ subscriptions' = Append(subscriptions, topic)
    /\ UNCHANGED pending_error

SubscribeStores(topic) ==
    /\ Len(subscriptions) < MaxSubscriptions
    /\ topic \notin LongTopics
    /\ subscriptions' = Append(subscriptions, topic)
    /\ UNCHANGED pending_error

\* Slip: checked_from()'s result is not looked at.
UncheckedTopic(topic) ==
    /\ Len(subscriptions) < MaxSubscriptions
    /\ topic \in LongTopics
    /\ subscriptions' = Append(subscriptions, NoTopic)
    /\ UNCHANGED pending_error

(* The slot is taken before the topic is found not to fit. *)
SubscribeTooLong(topic) ==
    /\ Len(subscriptions) < MaxSubscriptions
    /\ topic \in LongTopics
    /\ subscriptions' = Append(subscriptions, NoTopic)
    /\ pending_error' = "buffer_overflow"

SubscribeFull ==
    /\ Len(subscriptions) >= MaxSubscriptions
    /\ pending_error' = "capacity_exceeded"
    /\ UNCHANGED subscriptions

(* subscribe() *)
Subscribe(topic) ==
    /\ Free(Owner)
    /\ Len(want_subs) < MaxSubscriptions + Excess
    /\ want_subs' = Append(want_subs, topic)
    /\ SubscribeStores(topic) \/ SubscribeTooLong(topic) \/ SubscribeFull
    /\ CalledOrPiped
    /\ UNCHANGED <<config_count, owned_uri, want_configs, want_uri,
                   stage_vars, source_vars, run_vars, pc, emit_vars>>

(* configure() *)
Configure ==
    /\ Free(Owner)
    /\ want_configs < MaxConfigOps + Excess
    /\ want_configs' = want_configs + 1
    /\ \/ /\ config_count < MaxConfigOps
          /\ config_count' = config_count + 1
          /\ UNCHANGED pending_error
       \/ /\ config_count >= MaxConfigOps
          /\ pending_error' = "capacity_exceeded"
          /\ UNCHANGED config_count
    /\ CalledOrPiped
    /\ UNCHANGED <<subscriptions, owned_uri, want_subs, want_uri,
                   stage_vars, source_vars, run_vars, pc, emit_vars>>

(* connect_uri() assigns from a temporary basic_uri, whose view_ points into *)
(* the temporary's own storage_ and is copied as it is.                      *)
ConnectUri(uri) ==
    /\ Free(Owner)
    /\ owned_uri' = ParseOrDefault(uri)
    /\ uri_view' = IF ParseOrDefault(uri) = NoUri THEN "own" ELSE "gone"
    /\ pending_error' = IF uri \in LongUris THEN "invalid_uri" ELSE pending_error
    /\ want_uri' = uri
    /\ UNCHANGED <<subscriptions, config_count, want_subs, want_configs,
                   stage_vars, source_vars, run_vars, pc, emit_vars>>

-----------------------------------------------------------------------------
(* Builder calls that change what emit() reads.  They take no lock: unless   *)
(* LateConfig, the application makes them only while no client is in a call  *)
(* that may reach emit(), and keeps clients out until they return.           *)

Configuring == pc[Owner] \in BuilderSteps
MayConfigure == LateConfig \/ \A c \in Clients : Free(c)
MayEmit == LateConfig \/ ~Configuring

(* add_stage(): the count goes up before the slot is assigned, and the       *)
(* assignment sets the slot's pointers before it moves the callable in.      *)
AddStage ==
    /\ Free(Owner) /\ MayConfigure
    /\ want_stages < MaxStages + Excess
    /\ want_stages' = want_stages + 1
    /\ \/ /\ stage_count < MaxStages
          /\ stage_count' = stage_count + 1
          /\ pc' = [pc EXCEPT ![Owner] = "stage_set"]
          /\ UNCHANGED pending_error
       \/ /\ stage_count >= MaxStages
          /\ pending_error' = "capacity_exceeded"
          /\ UNCHANGED <<stage_count, pc>>
    /\ CalledOrPiped
    /\ UNCHANGED <<subscriptions, config_count, owned_uri, want_subs, want_configs,
                   want_uri, stages, sink, source_vars, run_vars, emit_vars>>

SetStage ==
    /\ Goes(Owner, "stage_set", "stage_fill")
    /\ stages' = [stages EXCEPT ![stage_count] = "raw"]
    /\ UNCHANGED <<builder_vars, stage_count, sink, want_stages, source_vars, run_vars, emit_vars>>

FillStage ==
    /\ Goes(Owner, "stage_fill", "idle")
    /\ stages' = [stages EXCEPT ![stage_count] = "ready"]
    /\ UNCHANGED <<builder_vars, stage_count, sink, want_stages, source_vars, run_vars, emit_vars>>

(* set_sink(): the assignment destroys the old sink first, and then resets  *)
(* its pointers.                                                            *)
SetSink ==
    /\ Free(Owner) /\ MayConfigure
    /\ pc' = [pc EXCEPT ![Owner] = "sink_reset"]
    /\ sink' = IF sink = "null" THEN "null" ELSE "raw"
    /\ CalledOrPiped
    /\ UNCHANGED <<pending_error, subscriptions, config_count, owned_uri, want_subs,
                   want_configs, want_uri, stages, stage_count, want_stages,
                   source_vars, run_vars, emit_vars>>

ResetSink ==
    /\ Goes(Owner, "sink_reset", "sink_set")
    /\ sink' = "null"
    /\ UNCHANGED <<builder_vars, stages, stage_count, want_stages, source_vars, run_vars, emit_vars>>

SetSinkPointers ==
    /\ Goes(Owner, "sink_set", "sink_fill")
    /\ sink' = "raw"
    /\ UNCHANGED <<builder_vars, stages, stage_count, want_stages, source_vars, run_vars, emit_vars>>

FillSink ==
    /\ Goes(Owner, "sink_fill", "idle")
    /\ sink' = "ready"
    /\ UNCHANGED <<builder_vars, stages, stage_count, want_stages, source_vars, run_vars, emit_vars>>

-----------------------------------------------------------------------------
(* run().  Where pending_error_ is set, or connect() fails, it returns at    *)
(* once and nothing has changed.                                             *)

(* The view handed to connect() may point anywhere once its temporary is gone. *)
RunConnects ==
    /\ Free(Owner)
    /\ pending_error = "none"
    /\ connected' = TRUE
    /\ src_uri' \in IF uri_view = "own" THEN {owned_uri} ELSE Uris \cup {NoUri}
    /\ applied' = 0 /\ subscribed' = <<>> /\ refused' = FALSE
    /\ pc' = [pc EXCEPT ![Owner] = "configure"]
    /\ UNCHANGED <<builder_vars, stage_vars, callback, run_vars, emit_vars>>

(* One turn of the loop over config_ops_; a failed one ends the run. *)
ApplyConfig ==
    /\ pc[Owner] = "configure" /\ applied < config_count
    /\ \/ applied' = applied + 1 /\ UNCHANGED pc
       \/ Goes(Owner, "configure", "abort") /\ UNCHANGED applied
    /\ UNCHANGED <<builder_vars, stage_vars, connected, callback, src_uri, subscribed,
                   refused, run_vars, emit_vars>>

ConfigApplied ==
    /\ applied >= config_count
    /\ Goes(Owner, "configure", "subscribe")
    /\ UNCHANGED <<builder_vars, stage_vars, source_vars, run_vars, emit_vars>>

(* One turn of the loop over subscriptions_; a failed one ends the run. *)
SubscribeSource ==
    /\ pc[Owner] = "subscribe" /\ Len(subscribed) < Len(subscriptions)
    /\ \/ /\ subscribed' = Append(subscribed, subscriptions[Len(subscribed) + 1])
          /\ UNCHANGED pc
       \/ Goes(Owner, "subscribe", "abort") /\ UNCHANGED subscribed
    /\ UNCHANGED <<builder_vars, stage_vars, connected, callback, src_uri, applied,
                   refused, run_vars, emit_vars>>

AllSubscribed ==
    /\ Len(subscribed) >= Len(subscriptions)
    /\ Goes(Owner, "subscribe", "start")
    /\ UNCHANGED <<builder_vars, stage_vars, source_vars, run_vars, emit_vars>>

(* A disconnect() that fails leaves the connection as it is; run() looks at  *)
(* the result of none of its three.                                          *)
DisconnectSource ==
    \/ connected' = FALSE /\ UNCHANGED refused
    \/ connected /\ refused' = TRUE /\ UNCHANGED connected

\* Slip: the error path returns without the disconnect().
AbortConnected ==
    /\ Goes(Owner, "abort", "idle")
    /\ stop_asked' = FALSE
    /\ UNCHANGED <<builder_vars, stage_vars, source_vars, running, late, emit_vars>>

(* The disconnect() of the two error paths. *)
Abort ==
    /\ Goes(Owner, "abort", "idle")
    /\ DisconnectSource
    /\ stop_asked' = FALSE
    /\ UNCHANGED <<builder_vars, stage_vars, callback, src_uri, applied, subscribed,
                   running, late, emit_vars>>

Start ==
    /\ Goes(Owner, "start", "install")
    /\ running' = TRUE
    /\ late' = [t \in Threads |-> 0]
    /\ UNCHANGED <<builder_vars, stage_vars, source_vars, stop_asked, emit_vars>>

(* event_loop() *)
InstallCallback ==
    /\ Goes(Owner, "install", "loop")
    /\ callback' = TRUE
    /\ UNCHANGED <<builder_vars, stage_vars, connected, src_uri, applied, subscribed,
                   refused, run_vars, emit_vars>>

\* Slip: the loop looks at the connection alone.
LoopIgnoresStop ==
    /\ Goes(Owner, "loop", "loop_conn")
    /\ UNCHANGED <<builder_vars, stage_vars, source_vars, run_vars, emit_vars>>

LoopReadsRunning ==
    /\ Goes(Owner, "loop", IF running THEN "loop_conn" ELSE "clear")
    /\ UNCHANGED <<builder_vars, stage_vars, source_vars, run_vars, emit_vars>>

(* A poll begins: after running_ has gone down, it is a late one. *)
PollBegins(t) == late' = IF running THEN late ELSE [late EXCEPT ![t] = @ + 1]

\* Slip: the loop looks at running_ alone.
LoopIgnoresConnection ==
    /\ Goes(Owner, "loop_conn", "poll") /\ PollBegins(Owner)
    /\ UNCHANGED <<builder_vars, stage_vars, source_vars, running, stop_asked, emit_vars>>

LoopReadsConnected ==
    /\ \/ connected /\ Goes(Owner, "loop_conn", "poll") /\ PollBegins(Owner)
       \/ ~connected /\ Goes(Owner, "loop_conn", "clear") /\ UNCHANGED late
    /\ UNCHANGED <<builder_vars, stage_vars, source_vars, running, stop_asked, emit_vars>>

LoopPollReturns ==
    /\ em[Owner] = "out"
    /\ Goes(Owner, "poll", "loop")
    /\ UNCHANGED <<builder_vars, stage_vars, source_vars, run_vars, emit_vars>>

ClearRunning ==
    /\ Goes(Owner, "clear", "disconnect")
    /\ running' = FALSE
    /\ UNCHANGED <<builder_vars, stage_vars, source_vars, late, stop_asked, emit_vars>>

Disconnect ==
    /\ Goes(Owner, "disconnect", "idle")
    /\ DisconnectSource
    /\ stop_asked' = FALSE
    /\ UNCHANGED <<builder_vars, stage_vars, callback, src_uri, applied, subscribed,
                   running, late, emit_vars>>

-----------------------------------------------------------------------------
(* stop(), from any thread, a signal handler or a callback: one store. *)
Stop ==
    /\ running' = FALSE
    /\ stop_asked' = (pc[Owner] \in RunSteps)
    /\ UNCHANGED <<builder_vars, stage_vars, source_vars, late, pc, emit_vars>>

(* poll_once(): the same three steps as one turn of the loop. *)
PollOnce(t) ==
    /\ Free(t) /\ running
    /\ pc' = [pc EXCEPT ![t] = "once_conn"]
    /\ UNCHANGED <<builder_vars, stage_vars, source_vars, run_vars, emit_vars>>

PollOnceReadsConnected(t) ==
    /\ \/ connected /\ Goes(t, "once_conn", "once_poll") /\ PollBegins(t)
       \/ ~connected /\ Goes(t, "once_conn", "idle") /\ UNCHANGED late
    /\ UNCHANGED <<builder_vars, stage_vars, source_vars, running, stop_asked, emit_vars>>

PollOnceReturns(t) ==
    /\ em[t] = "out"
    /\ Goes(t, "once_poll", "idle")
    /\ UNCHANGED <<builder_vars, stage_vars, source_vars, run_vars, emit_vars>>

(* The source loses its connection by itself, at any moment. *)
ConnectionLost ==
    /\ connected
    /\ connected' = FALSE
    /\ UNCHANGED <<builder_vars, stage_vars, callback, src_uri, applied, subscribed,
                   refused, run_vars, pc, emit_vars>>

-----------------------------------------------------------------------------
(* emit() and process_message(). *)

non_emit_vars == <<builder_vars, stage_vars, source_vars, run_vars, pc>>

EmitBegins(t) ==
    /\ sent[t] < MaxEmits
    /\ sent' = [sent EXCEPT ![t] = @ + 1]
    /\ em' = [em EXCEPT ![t] = "lock"]
    /\ UNCHANGED <<locked, next, log, pass>>

(* A thread calls emit() itself. *)
Emit(t) ==
    /\ Free(t) /\ (t = Owner \/ MayEmit)
    /\ EmitBegins(t)
    /\ UNCHANGED non_emit_vars

Polling(t) == pc[t] \in {"poll", "once_poll"} /\ em[t] = "out"

(* A poll hands out a message: the callback passes it on to emit() in the   *)
(* polling thread.                                                          *)
PollDelivers(t) ==
    /\ Polling(t) /\ callback
    /\ EmitBegins(t)
    /\ UNCHANGED non_emit_vars

(* Before run() has installed the callback a source can only discard it. *)
PollDiscards(t) ==
    /\ Polling(t) /\ ~callback
    /\ UNCHANGED vars

Steps(t, from, to) == em[t] = from /\ em' = [em EXCEPT ![t] = to]

\* Slip: the guard is taken without looking at what the exchange returned.
BlindAcquire(t) ==
    /\ Steps(t, "lock", "copy")
    /\ locked' = TRUE
    /\ pass' = <<>>
    /\ UNCHANGED <<next, sent, log, non_emit_vars>>

(* One turn of spinlock::lock(). *)
Acquire(t) ==
    /\ Steps(t, "lock", IF locked THEN "lock" ELSE "copy")
    /\ locked' = TRUE
    /\ pass' = IF locked THEN pass ELSE <<>>
    /\ UNCHANGED <<next, sent, log, non_emit_vars>>

\* Slip: the early return for an over-long message comes after the guard is gone.
LeakyFromViewFails(t) ==
    /\ Steps(t, "copy", "out")
    /\ UNCHANGED <<locked, next, sent, log, pass, non_emit_vars>>

(* from_view() refuses a topic or a payload longer than the buffers. *)
FromViewFails(t) ==
    /\ Steps(t, "copy", "unlock")
    /\ UNCHANGED <<locked, next, sent, log, pass, non_emit_vars>>

(* from_view() copies the message, and the stages start over. *)
FromView(t) ==
    /\ Steps(t, "copy", "scan")
    /\ next' = [next EXCEPT ![t] = 1]
    /\ UNCHANGED <<locked, sent, log, pass, non_emit_vars>>

Visit(t, place) == pass' = Append(pass, [by |-> t, at |-> place])

\* Slip: the loop goes through the whole array.
CallEverySlot(t) ==
    /\ next[t] <= MaxStages
    /\ Steps(t, "scan", "stage")
    /\ Visit(t, next[t])
    /\ UNCHANGED <<locked, next, sent, log, non_emit_vars>>

CallStage(t) ==
    /\ next[t] <= stage_count
    /\ Steps(t, "scan", "stage")
    /\ Visit(t, next[t])
    /\ UNCHANGED <<locked, next, sent, log, non_emit_vars>>

StagePasses(t) ==
    /\ Steps(t, "stage", "scan")
    /\ next' = [next EXCEPT ![t] = @ + 1]
    /\ UNCHANGED <<locked, sent, log, pass, non_emit_vars>>

\* Slip: a stage that returns false only skips the rest of the stages.
DroppedGoesOn(t) ==
    /\ Steps(t, "stage", "scan")
    /\ next' = [next EXCEPT ![t] = stage_count + 1]
    /\ UNCHANGED <<locked, sent, log, pass, non_emit_vars>>

StageDrops(t) ==
    /\ Steps(t, "stage", "unlock")
    /\ UNCHANGED <<locked, next, sent, log, pass, non_emit_vars>>

CallSink(t) ==
    /\ next[t] > stage_count /\ sink # "null"
    /\ Steps(t, "scan", "sink")
    /\ Visit(t, SinkAt)
    /\ log' = Append(log, [by |-> t, no |-> sent[t]])
    /\ UNCHANGED <<locked, next, sent, non_emit_vars>>

NoSink(t) ==
    /\ next[t] > stage_count /\ sink = "null"
    /\ Steps(t, "scan", "unlock")
    /\ UNCHANGED <<locked, next, sent, log, pass, non_emit_vars>>

\* Slip: the sink is called inside the loop over the stages.
SinkReturnsToLoop(t) ==
    /\ Steps(t, "sink", "scan")
    /\ UNCHANGED <<locked, next, sent, log, pass, non_emit_vars>>

SinkReturns(t) ==
    /\ Steps(t, "sink", "unlock")
    /\ UNCHANGED <<locked, next, sent, log, pass, non_emit_vars>>

Release(t) ==
    /\ Steps(t, "unlock", "out")
    /\ locked' = FALSE
    /\ pass' = <<>>
    /\ UNCHANGED <<next, sent, log, non_emit_vars>>

-----------------------------------------------------------------------------
Build ==
    \/ \E topic \in Topics : Subscribe(topic)
    \/ Configure
    \/ \E uri \in Uris \cup {NoUri} : ConnectUri(uri)
    \/ AddStage \/ SetSink \/ Move

FinishBuild == SetStage \/ FillStage \/ ResetSink \/ SetSinkPointers \/ FillSink

RunStep ==
    \/ ApplyConfig \/ ConfigApplied \/ SubscribeSource \/ AllSubscribed \/ Abort
    \/ Start \/ InstallCallback \/ LoopReadsRunning \/ LoopReadsConnected
    \/ LoopPollReturns \/ ClearRunning \/ Disconnect

PollOnceStep(t) == PollOnceReadsConnected(t) \/ PollOnceReturns(t)

EmitStep(t) ==
    \/ Acquire(t) \/ FromViewFails(t) \/ FromView(t)
    \/ CallStage(t) \/ StagePasses(t) \/ StageDrops(t)
    \/ CallSink(t) \/ NoSink(t) \/ SinkReturns(t) \/ Release(t)

Next ==
    \/ Build \/ FinishBuild
    \/ RunConnects \/ RunStep
    \/ Stop \/ ConnectionLost
    \/ \E t \in Clients : PollOnce(t) \/ PollOnceStep(t)
    \/ \E t \in Threads : Emit(t) \/ PollDelivers(t) \/ PollDiscards(t) \/ EmitStep(t)

Spec == Init /\ [][Next]_vars

(* A thread that is inside a call of the pipeline goes on with it: stages,  *)
(* the sink and the source return, and no thread is starved of a free lock  *)
(* for ever (each sends MaxEmits messages at most).  Nothing makes anybody  *)
(* call, or the source hand out a message or lose its connection.           *)
Fairness ==
    /\ WF_vars(FinishBuild)
    /\ WF_vars(RunStep)
    /\ \A t \in Clients : WF_vars(PollOnceStep(t))
    /\ \A t \in Threads : WF_vars(EmitStep(t))

FairSpec == Spec /\ Fairness

-----------------------------------------------------------------------------
(* The lock the pipeline uses is the Spinlock of its own module. *)
Lock == INSTANCE Spinlock WITH
    at <- [t \in Threads |-> CASE em[t] = "out" -> "out"
                              [] em[t] = "lock" -> "spin"
                              [] OTHER -> "in"]

(* emit() keeps what EmitService promises. *)
Service == INSTANCE EmitService WITH
    call <- [t \in Threads |-> CASE em[t] = "out" -> "idle"
                                [] em[t] \in {"sink", "unlock"} -> "settled"
                                [] OTHER -> "waiting"]

-----------------------------------------------------------------------------
(* The lock of the pipeline behaves as spinlock.hpp's does: emit() takes it *)
(* once, waits for it as lock() waits, and gives it back on every path out. *)
SpinlockSpec == Lock!Spec

(* However the stages, the source and the clients behave, emit() is the     *)
(* synchronous service its callers see: each message reaches the sink at    *)
(* most once, inside its own call, in its caller's order.                   *)
EmitServiceSpec == Service!Spec

(* The sink never sees a message twice, nor two messages of one thread in   *)
(* another order than that thread emitted them: what a caller of emit() may *)
(* conclude from the lock and the synchronous call, whatever the others do. *)
ProgramOrder == Service!ProgramOrder

(* While user code runs for a message, the calls of user code since the     *)
(* lock was taken are exactly that message's way through the stages, from   *)
(* the first: no stage is skipped, none sees another message in between,    *)
(* and a message that a stage dropped is seen by none after it.             *)
StageVisits(t, n) == [k \in 1..n |-> [by |-> t, at |-> k]]

OnePassAtATime ==
    \A t \in Threads :
        /\ em[t] = "stage" => pass = StageVisits(t, next[t])
        /\ em[t] = "sink" =>
              pass = Append(StageVisits(t, stage_count), [by |-> t, at |-> SinkAt])

(* No thread is ever inside a stage or the sink whose callable is not there *)
(* (small_function's operator() tests nothing): the slots a pass goes       *)
(* through are assigned before it reaches them and stay until it has left.  *)
SlotsAreReady ==
    \A t \in Threads :
        /\ em[t] = "stage" => stages[next[t]] = "ready"
        /\ em[t] = "sink" => sink = "ready"

(* run() reaches its event loop only with everything the builder was asked  *)
(* for: every topic, option and stage is in force, in order, and the URI    *)
(* given last is the one connected to unless its view was left dangling.    *)
(* What did not fit or was too long must have kept run() from starting.     *)
LoopRunsWhatWasAsked ==
    pc[Owner] \in {"install"} \cup InLoop =>
        /\ subscribed = want_subs
        /\ applied = want_configs
        /\ stage_count = want_stages
        /\ \A i \in 1..stage_count : stages[i] = "ready"
        /\ uri_view = "own" => src_uri = want_uri

(* Whichever way run() returns, the pipeline is not running, and the source *)
(* is still connected only if it refused the disconnect() of the run that   *)
(* connected it last: no path out leaves it without one.                    *)
RunCleansUp == pc[Owner] \notin RunSteps => ~running /\ (connected => refused)

(* Once running_ has gone down, each thread begins one more poll at most,   *)
(* in the loop or in poll_once(): the one whose check came before.          *)
OneLatePoll == \A t \in Threads : late[t] <= 1

(* A loop that has been told to stop, or has lost its connection, returns   *)
(* from run(), also while clients keep the lock busy with their messages.   *)
RunEnds ==
    (pc[Owner] \in InLoop /\ (~running \/ ~connected)) ~> pc[Owner] = "idle"

(* Every emit() returns: no path through process_message() keeps the lock,  *)
(* and no mix of callers and polls waits for each other.                    *)
EmitReturns == \A t \in Threads : em[t] # "out" ~> em[t] = "out"

-----------------------------------------------------------------------------
(* What the documentation says and the code does not keep. *)

(* "stop() signals the event loop to exit" (README.md:116): a stop() made   *)
(* during run() stays in force until that run() returns.                    *)
StopIsKept == stop_asked => ~running

(* "Owned URI storage prevents dangling" (README.md:229): the source is     *)
(* connected with the URI the pipeline was given last.                      *)
SourceGetsOwnedUri == pc[Owner] \in RunSteps => src_uri = want_uri
=============================================================================
