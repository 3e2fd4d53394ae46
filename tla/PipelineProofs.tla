--------------------------- MODULE PipelineProofs ---------------------------
(***************************************************************************)
(* Theorems about Pipeline for any threads, topics, URIs and capacities.   *)
(***************************************************************************)
EXTENDS Pipeline, TLAPS

(* What the types of a step inside emit() rest on: a stage being called is  *)
(* one of those stored, and a thread in emit() has sent something.          *)
StageInRange == \A t \in Threads : em[t] = "stage" => next[t] <= stage_count
CallersHaveSent == \A t \in Threads : em[t] # "out" => sent[t] >= 1

TInv == TypeOK /\ StageInRange /\ CallersHaveSent

(* A step that leaves a group of variables alone leaves its types alone. *)
LEMMA SameTypes ==
    /\ UNCHANGED builder_vars /\ BuilderTypes => BuilderTypes'
    /\ UNCHANGED stage_vars /\ StageTypes => StageTypes'
    /\ UNCHANGED source_vars /\ SourceTypes => SourceTypes'
    /\ UNCHANGED run_vars /\ RunTypes => RunTypes'
    /\ UNCHANGED emit_vars /\ EmitTypes => EmitTypes'
  BY DEF builder_vars, BuilderTypes, stage_vars, StageTypes, source_vars, SourceTypes,
         run_vars, RunTypes, emit_vars, EmitTypes

(* A move of one thread's program counter keeps its type. *)
LEMMA GoesTypes ==
    ASSUME TypeOK, NEW t \in Threads, NEW from, NEW to \in Places, Goes(t, from, to)
    PROVE  pc' \in [Threads -> Places]
  BY DEF TypeOK, Goes

LEMMA PlacesAre ==
    /\ {"idle", "stage_set", "stage_fill", "sink_reset", "sink_set", "sink_fill",
        "configure", "subscribe", "abort", "start", "install",
        "loop", "loop_conn", "poll", "clear", "disconnect",
        "once_conn", "once_poll"} \subseteq Places
    /\ Owner \in Threads /\ Clients \subseteq Threads
  BY DEF Places, BuilderSteps, RunSteps, InLoop, PollOnceSteps, Threads

(* Nobody is in emit() more or less than before. *)
LEMMA SameTInv ==
    ASSUME TInv, UNCHANGED emit_vars, stage_count <= stage_count', TypeOK,
           stage_count \in Nat, stage_count' \in Nat
    PROVE  StageInRange' /\ CallersHaveSent'
  BY DEF TInv, emit_vars, StageInRange, CallersHaveSent, EmitTypes, TypeOK

(* Two sequences with the same elements in the same places are the same. *)
LEMMA SequenceExtensionality ==
    ASSUME NEW S, NEW s \in Seq(S), NEW r \in Seq(S), Len(s) = Len(r),
           \A i \in 1..Len(s) : s[i] = r[i]
    PROVE  s = r
  OBVIOUS

LEMMA TypeInit == Init => TInv
<1> SUFFICES ASSUME Init PROVE TInv
  OBVIOUS
<1> USE PipelineAssumption DEF Init
<1>1. BuilderTypes
  BY DEF BuilderTypes, ParseOrDefault, Errors
<1>2. StageTypes /\ SourceTypes /\ RunTypes
  <2>1. StageTypes
    BY DEF StageTypes, SlotStates
  <2>2. SourceTypes
    <3>1. subscribed \in Seq(Topics \cup {NoTopic})
      OBVIOUS
    <3>2. connected \in BOOLEAN /\ callback \in BOOLEAN /\ refused \in BOOLEAN
      OBVIOUS
    <3>3. src_uri \in Uris \cup {NoUri} /\ applied \in 0..MaxConfigOps
      OBVIOUS
    <3> QED
      BY <3>1, <3>2, <3>3 DEF SourceTypes
  <2>3. RunTypes
    BY DEF RunTypes
  <2> QED
    BY <2>1, <2>2, <2>3
<1>3. EmitTypes
  <2>1. em \in [Threads -> EmitSteps] /\ sent \in [Threads -> 0..MaxEmits]
    BY DEF EmitSteps
  <2>2. next \in [Threads -> 1..MaxStages + 1]
    BY 1 \in 1..MaxStages + 1
  <2>3. log \in Seq(Messages) /\ pass \in Seq(Visits)
    OBVIOUS
  <2> QED
    BY <2>1, <2>2, <2>3 DEF EmitTypes
<1>4. pc \in [Threads -> Places]
  BY PlacesAre
<1>5. StageInRange /\ CallersHaveSent
  <2>1. \A t \in Threads : em[t] = "out"
    OBVIOUS
  <2> QED
    BY <2>1 DEF StageInRange, CallersHaveSent
<1> QED
  BY <1>1, <1>2, <1>3, <1>4, <1>5 DEF TInv, TypeOK

(* A move never mends a view that is gone. *)
LEMMA PipedView ==
    ASSUME BuilderTypes, CalledOrPiped \/ MovesAlong
    PROVE  uri_view' \in {"own", "gone"} /\ (uri_view' = "own" => uri_view = "own")
  BY DEF BuilderTypes, CalledOrPiped, MovesAlong

(* The builder calls. *)
LEMMA TypeBuild == ASSUME TInv, Build PROVE TInv'
<1> USE PipelineAssumption, PlacesAre, SameTypes, SameTInv DEF TypeOK, TInv
<1>1. ASSUME NEW topic \in Topics, Subscribe(topic) PROVE TInv'
  <2>1. want_subs' \in Seq(Topics) /\ pending_error' \in Errors
    BY <1>1 DEF Subscribe, SubscribeStores, SubscribeTooLong, SubscribeFull,
                BuilderTypes, Errors
  <2>2. ASSUME NEW stored \in Topics \cup {NoTopic},
               Len(subscriptions) < MaxSubscriptions,
               subscriptions' = Append(subscriptions, stored)
        PROVE  /\ subscriptions' \in Seq(Topics \cup {NoTopic})
               /\ Len(subscriptions') <= MaxSubscriptions
    BY <2>2 DEF BuilderTypes
  <2>3. /\ subscriptions' \in Seq(Topics \cup {NoTopic})
        /\ Len(subscriptions') <= MaxSubscriptions
    BY <1>1, <2>2 DEF Subscribe, SubscribeStores, SubscribeTooLong, SubscribeFull,
                      BuilderTypes
  <2>4. BuilderTypes'
    BY <1>1, <2>1, <2>3, PipedView DEF Subscribe, BuilderTypes
  <2> QED
    BY <1>1, <2>4 DEF Subscribe, stage_vars, StageTypes
<1>2. CASE Configure
  <2>1. BuilderTypes'
    BY <1>2, PipedView DEF Configure, BuilderTypes, Errors
  <2> QED
    BY <1>2, <2>1 DEF Configure, stage_vars, StageTypes
<1>3. ASSUME NEW uri \in Uris \cup {NoUri}, ConnectUri(uri) PROVE TInv'
  <2>1. BuilderTypes'
    BY <1>3 DEF ConnectUri, ParseOrDefault, BuilderTypes, Errors
  <2> QED
    BY <1>3, <2>1 DEF ConnectUri, stage_vars, StageTypes
<1>4. CASE AddStage
  <2>1. BuilderTypes'
    BY <1>4, PipedView DEF AddStage, BuilderTypes, Errors
  <2>2. StageTypes' /\ stage_count <= stage_count' /\ stage_count' \in Nat
    BY <1>4 DEF AddStage, StageTypes
  <2>3. pc' \in [Threads -> Places]
    BY <1>4 DEF AddStage
  <2> QED
    BY <1>4, <2>1, <2>2, <2>3 DEF AddStage, StageTypes
<1>5. CASE SetSink
  <2>1. StageTypes' /\ pc' \in [Threads -> Places]
    BY <1>5 DEF SetSink, StageTypes, SlotStates
  <2>2. BuilderTypes'
    BY <1>5, PipedView DEF SetSink, BuilderTypes
  <2> QED
    BY <1>5, <2>1, <2>2 DEF SetSink, StageTypes
<1>6. CASE Move
  <2>1. BuilderTypes'
    BY <1>6, PipedView DEF Move, BuilderTypes
  <2> QED
    BY <1>6, <2>1 DEF Move, stage_vars, StageTypes
<1> QED
  BY <1>1, <1>2, <1>3, <1>4, <1>5, <1>6 DEF Build

LEMMA TypeFinishBuild == ASSUME TInv, FinishBuild PROVE TInv'
<1> USE PipelineAssumption, PlacesAre, SameTypes, SameTInv DEF TypeOK, TInv
<1>1. ASSUME SetStage \/ FillStage PROVE TInv'
  <2>1. StageTypes' /\ pc' \in [Threads -> Places]
    BY <1>1 DEF SetStage, FillStage, StageTypes, SlotStates, Goes
  <2> QED
    BY <1>1, <2>1 DEF SetStage, FillStage, StageTypes
<1>2. ASSUME ResetSink \/ SetSinkPointers \/ FillSink PROVE TInv'
  <2>1. StageTypes' /\ pc' \in [Threads -> Places]
    BY <1>2 DEF ResetSink, SetSinkPointers, FillSink, StageTypes, SlotStates, Goes
  <2> QED
    BY <1>2, <2>1 DEF ResetSink, SetSinkPointers, FillSink, StageTypes
<1> QED
  BY <1>1, <1>2 DEF FinishBuild

(* run() up to the event loop; it writes what the source has and pc. *)
LEMMA TypeRun ==
    ASSUME TInv, RunConnects \/ RunStep
    PROVE  TInv'
<1> USE PipelineAssumption, PlacesAre, SameTypes, SameTInv DEF TypeOK, TInv
<1>0. UNCHANGED <<builder_vars, stage_vars, emit_vars>>
  BY DEF RunStep, RunConnects, ApplyConfig, ConfigApplied, SubscribeSource, AllSubscribed, Abort,
         Start, InstallCallback, LoopReadsRunning, LoopReadsConnected,
         LoopPollReturns, ClearRunning, Disconnect
<1>1. BuilderTypes' /\ StageTypes' /\ EmitTypes' /\ StageInRange' /\ CallersHaveSent'
  BY <1>0 DEF stage_vars, StageTypes
<1>2. ASSUME SourceTypes' /\ RunTypes' /\ pc' \in [Threads -> Places] PROVE TInv'
  BY <1>1, <1>2
<1>3. CASE RunConnects
  <2>1. pc' \in [Threads -> Places] /\ RunTypes'
    BY <1>3 DEF RunConnects, run_vars, RunTypes
  <2>2. src_uri' \in Uris \cup {NoUri}
    BY <1>3 DEF RunConnects, BuilderTypes
  <2>3. /\ connected' \in BOOLEAN /\ callback' \in BOOLEAN /\ refused' \in BOOLEAN
        /\ applied' = 0 /\ subscribed' = <<>>
    BY <1>3 DEF RunConnects, SourceTypes
  <2>4. 0 \in 0..MaxConfigOps /\ <<>> \in Seq(Topics \cup {NoTopic})
    OBVIOUS
  <2>5. SourceTypes'
    BY <2>2, <2>3, <2>4 DEF SourceTypes
  <2> QED
    BY <1>2, <2>1, <2>5
<1>4. CASE ApplyConfig
  <2>1. pc' \in [Threads -> Places]
    BY <1>4 DEF ApplyConfig, Goes
  <2>2. SourceTypes'
    BY <1>4 DEF ApplyConfig, SourceTypes, BuilderTypes, Goes
  <2>3. RunTypes'
    BY <1>4 DEF ApplyConfig
  <2> QED
    BY <1>2, <2>1, <2>2, <2>3
<1>5. CASE ConfigApplied \/ AllSubscribed \/ LoopReadsRunning \/ LoopPollReturns
  BY <1>2, <1>5 DEF ConfigApplied, AllSubscribed, LoopReadsRunning, LoopPollReturns, Goes
<1>6. CASE SubscribeSource
  <2>1. subscribed' \in Seq(Topics \cup {NoTopic})
    <3>1. PICK n \in Nat, m \in Nat : n = Len(subscribed) /\ m = Len(subscriptions)
      BY DEF SourceTypes, BuilderTypes
    <3>2. n + 1 \in 1..Len(subscriptions)
      BY <1>6, <3>1 DEF SubscribeSource
    <3>3. subscriptions[Len(subscribed) + 1] \in Topics \cup {NoTopic}
      BY <3>1, <3>2 DEF BuilderTypes
    <3> QED
      BY <1>6, <3>3 DEF SubscribeSource, SourceTypes
  <2>2. pc' \in [Threads -> Places]
    BY <1>6 DEF SubscribeSource, Goes
  <2>3. UNCHANGED <<connected, callback, src_uri, applied, refused, running, late, stop_asked>>
    BY <1>6 DEF SubscribeSource, run_vars
  <2>4. SourceTypes' /\ RunTypes'
    BY <2>1, <2>3 DEF SourceTypes, RunTypes
  <2> HIDE DEF TypeOK, TInv
  <2> QED
    BY <1>2, <2>2, <2>4
<1>7. CASE Abort \/ Disconnect
  BY <1>2, <1>7 DEF Abort, Disconnect, DisconnectSource, SourceTypes, RunTypes, Goes
<1>8. CASE Start \/ ClearRunning
  <2>1. RunTypes'
    <3>1. CASE Start
      BY <3>1 DEF Start, RunTypes
    <3>2. CASE ClearRunning
      BY <3>2 DEF ClearRunning, RunTypes
    <3> QED
      BY <1>8, <3>1, <3>2
  <2>2. pc' \in [Threads -> Places]
    BY <1>8 DEF Start, ClearRunning, Goes
  <2> QED
    BY <1>2, <1>8, <2>1, <2>2 DEF Start, ClearRunning
<1>9. CASE InstallCallback
  BY <1>2, <1>9 DEF InstallCallback, SourceTypes, Goes
<1>10. CASE LoopReadsConnected
  BY <1>2, <1>10 DEF LoopReadsConnected, PollBegins, RunTypes, Goes
<1> QED
  BY <1>3, <1>4, <1>5, <1>6, <1>7, <1>8, <1>9, <1>10 DEF RunStep

(* stop(), poll_once() and the loss of a connection. *)
LEMMA TypeOther ==
    ASSUME TInv,
           \/ Stop \/ ConnectionLost
           \/ \E t \in Clients : PollOnce(t) \/ PollOnceStep(t)
    PROVE  TInv'
<1> USE PipelineAssumption, PlacesAre, SameTypes, SameTInv DEF TypeOK, TInv
<1>0. UNCHANGED <<builder_vars, stage_vars, emit_vars>>
  BY DEF Stop, ConnectionLost, PollOnce, PollOnceStep, PollOnceReadsConnected, PollOnceReturns
<1>1. BuilderTypes' /\ StageTypes' /\ EmitTypes' /\ StageInRange' /\ CallersHaveSent'
  BY <1>0 DEF stage_vars, StageTypes
<1>2. ASSUME SourceTypes' /\ RunTypes' /\ pc' \in [Threads -> Places] PROVE TInv'
  BY <1>1, <1>2
<1>3. CASE Stop
  <2>1. stop_asked' \in BOOLEAN
    <3>1. CASE pc[Owner] \in RunSteps
      BY <1>3, <3>1 DEF Stop
    <3>2. CASE pc[Owner] \notin RunSteps
      BY <1>3, <3>2 DEF Stop
    <3> QED
      BY <3>1, <3>2
  <2> QED
    BY <1>2, <1>3, <2>1 DEF Stop, RunTypes
<1>4. CASE ConnectionLost
  BY <1>2, <1>4 DEF ConnectionLost, SourceTypes
<1>5. ASSUME NEW t \in Clients, PollOnce(t) PROVE TInv'
  BY <1>2, <1>5 DEF PollOnce
<1>6. ASSUME NEW t \in Clients, PollOnceReadsConnected(t) PROVE TInv'
  <2>1. RunTypes' /\ UNCHANGED source_vars
    BY <1>6 DEF PollOnceReadsConnected, PollBegins, RunTypes
  <2>2. pc' \in [Threads -> Places]
    BY <1>6 DEF PollOnceReadsConnected, Goes
  <2> QED
    BY <1>2, <2>1, <2>2
<1>7. ASSUME NEW t \in Clients, PollOnceReturns(t) PROVE TInv'
  BY <1>2, <1>7 DEF PollOnceReturns, Goes
<1> QED
  BY <1>3, <1>4, <1>5, <1>6, <1>7 DEF PollOnceStep

(* Nothing on the way through emit() changes more than emit()'s own state. *)
LEMMA EmitLeavesTheRest ==
    ASSUME NEW t \in Threads,
           Emit(t) \/ PollDelivers(t) \/ PollDiscards(t) \/ EmitStep(t)
    PROVE  UNCHANGED non_emit_vars
  BY DEF Emit, PollDelivers, PollDiscards, EmitStep, Acquire, FromViewFails, FromView,
         CallStage, StagePasses, StageDrops, CallSink, NoSink, SinkReturns, Release,
         non_emit_vars, vars

(* emit(): a message enters, waits for the lock, and goes through the slots. *)
LEMMA TypeEmit ==
    ASSUME TInv, NEW t \in Threads,
           Emit(t) \/ PollDelivers(t) \/ PollDiscards(t) \/ EmitStep(t)
    PROVE  TInv'
<1> USE PipelineAssumption, PlacesAre, SameTypes DEF TypeOK, TInv
<1>1. UNCHANGED non_emit_vars
  BY EmitLeavesTheRest
<1>2. ASSUME EmitTypes' /\ StageInRange' /\ CallersHaveSent' PROVE TInv'
  BY <1>1, <1>2 DEF non_emit_vars
<1>3. UNCHANGED stage_count
  BY <1>1 DEF non_emit_vars, stage_vars
<1>4. CASE EmitBegins(t)
  <2>1. EmitTypes'
    BY <1>4 DEF EmitBegins, EmitTypes, EmitSteps
  <2>2. StageInRange' /\ CallersHaveSent'
    BY <1>3, <1>4 DEF EmitBegins, EmitTypes, StageInRange, CallersHaveSent
  <2> QED
    BY <1>2, <2>1, <2>2
<1>5. CASE Acquire(t)
  <2>1. em' \in [Threads -> EmitSteps] /\ locked' \in BOOLEAN
    BY <1>5 DEF Acquire, Steps, EmitTypes, EmitSteps
  <2>2. EmitTypes'
    BY <1>5, <2>1 DEF Acquire, EmitTypes
  <2>3. StageInRange' /\ CallersHaveSent'
    BY <1>3, <1>5 DEF Acquire, Steps, EmitTypes, StageInRange, CallersHaveSent
  <2> QED
    BY <1>2, <2>2, <2>3
<1>6. CASE FromViewFails(t) \/ StageDrops(t) \/ NoSink(t) \/ SinkReturns(t)
  <2>1. EmitTypes'
    BY <1>6 DEF FromViewFails, StageDrops, NoSink, SinkReturns, Steps, EmitTypes, EmitSteps
  <2>2. StageInRange' /\ CallersHaveSent'
    BY <1>3, <1>6 DEF FromViewFails, StageDrops, NoSink, SinkReturns, Steps, EmitTypes,
                      StageInRange, CallersHaveSent
  <2> QED
    BY <1>2, <2>1, <2>2
<1>7. CASE FromView(t)
  <2>1. EmitTypes'
    BY <1>7 DEF FromView, Steps, EmitTypes, EmitSteps
  <2>2. StageInRange' /\ CallersHaveSent'
    BY <1>3, <1>7 DEF FromView, Steps, EmitTypes, StageInRange, CallersHaveSent
  <2> QED
    BY <1>2, <2>1, <2>2
<1>8. CASE CallStage(t)
  <2>1. [by |-> t, at |-> next[t]] \in Visits
    BY DEF EmitTypes, Visits, SinkAt
  <2>2. EmitTypes'
    BY <1>8, <2>1 DEF CallStage, Steps, Visit, EmitTypes, EmitSteps
  <2>3. StageInRange' /\ CallersHaveSent'
    BY <1>3, <1>8 DEF CallStage, Steps, EmitTypes, StageInRange, CallersHaveSent
  <2> QED
    BY <1>2, <2>2, <2>3
<1>9. CASE StagePasses(t)
  <2>1. next[t] + 1 \in 1..MaxStages + 1
    BY <1>9 DEF StagePasses, Steps, EmitTypes, StageTypes, StageInRange
  <2>2. EmitTypes'
    BY <1>9, <2>1 DEF StagePasses, Steps, EmitTypes, EmitSteps
  <2>3. StageInRange' /\ CallersHaveSent'
    BY <1>3, <1>9 DEF StagePasses, Steps, EmitTypes, StageInRange, CallersHaveSent
  <2> QED
    BY <1>2, <2>2, <2>3
<1>10. CASE CallSink(t)
  <2>1. [by |-> t, at |-> SinkAt] \in Visits
    BY DEF Visits, SinkAt
  <2>2. [by |-> t, no |-> sent[t]] \in Messages
    BY <1>10 DEF CallSink, Steps, CallersHaveSent, EmitTypes, Messages
  <2>3. EmitTypes'
    BY <1>10, <2>1, <2>2 DEF CallSink, Steps, Visit, EmitTypes, EmitSteps
  <2>4. StageInRange' /\ CallersHaveSent'
    BY <1>3, <1>10 DEF CallSink, Steps, EmitTypes, StageInRange, CallersHaveSent
  <2> QED
    BY <1>2, <2>3, <2>4
<1>11. CASE Release(t)
  <2>. em' \in [Threads -> EmitSteps] /\ pass' \in Seq(Visits)
    BY <1>11 DEF Release, Steps, EmitTypes, EmitSteps
  <2>1. EmitTypes'
    BY <1>11 DEF Release, EmitTypes
  <2>2. StageInRange' /\ CallersHaveSent'
    BY <1>3, <1>11 DEF Release, Steps, EmitTypes, StageInRange, CallersHaveSent
  <2> QED
    BY <1>2, <2>1, <2>2
<1>12. CASE PollDiscards(t)
  <2>1. UNCHANGED emit_vars
    BY <1>12 DEF PollDiscards, vars
  <2>2. StageInRange' /\ CallersHaveSent'
    BY <2>1, <1>3 DEF emit_vars, StageInRange, CallersHaveSent
  <2> QED
    BY <1>2, <2>1, <2>2
<1> HIDE DEF TypeOK, TInv
<1> QED
  BY <1>4, <1>5, <1>6, <1>7, <1>8, <1>9, <1>10, <1>11, <1>12
     DEF Emit, PollDelivers, EmitStep

LEMMA TypeStep == TInv /\ [Next]_vars => TInv'
<1> SUFFICES ASSUME TInv, [Next]_vars PROVE TInv'
  OBVIOUS
<1>1. CASE UNCHANGED vars
  BY <1>1, SameTypes, SameTInv DEF vars, TInv, TypeOK, stage_vars, StageTypes
<1> QED
  BY <1>1, TypeBuild, TypeFinishBuild, TypeRun, TypeOther, TypeEmit DEF Next

(* Every variable of the pipeline keeps its type: counts stay within the    *)
(* capacities of the configuration, and no slot outside them is gone to.    *)
THEOREM TypeCorrect == Spec => []TypeOK
<1>1. TInv => TypeOK
  BY DEF TInv
<1> QED
  BY TypeInit, TypeStep, <1>1, PTL DEF Spec

-----------------------------------------------------------------------------
(* RunCleansUp.  It says nothing of the states inside run(), from which the *)
(* owner must find its way out, so the flags are tied to every place there. *)

RunFlags ==
    /\ connected => pc[Owner] \in RunSteps \/ refused
    /\ running => pc[Owner] \in {"install", "loop", "loop_conn", "poll", "clear"}

(* A step that keeps the owner where it is, or only lowers the flags.       *)
LEMMA FlagsStay ==
    ASSUME RunFlags, pc'[Owner] = pc[Owner], connected' => connected, running' => running,
           UNCHANGED refused
    PROVE  RunFlags'
  BY DEF RunFlags

(* A client's move does not move the owner. *)
LEMMA ClientMoves ==
    ASSUME TypeOK, NEW t \in Clients, NEW place, pc' = [pc EXCEPT ![t] = place]
    PROVE  pc'[Owner] = pc[Owner]
  BY PipelineAssumption, PlacesAre DEF TypeOK

LEMMA FlagsStep == TInv /\ RunFlags /\ [Next]_vars => RunFlags'
<1> SUFFICES ASSUME TInv, RunFlags, [Next]_vars PROVE RunFlags'
  OBVIOUS
<1>0. TypeOK /\ Owner \in Threads /\ pc \in [Threads -> Places]
  BY PlacesAre DEF TInv, TypeOK
<1>1. CASE Build \/ FinishBuild
  <2>1. pc[Owner] \notin RunSteps /\ UNCHANGED <<connected, refused, running>>
    BY <1>1, PlacesAre
       DEF Build, FinishBuild, Subscribe, Configure, ConnectUri, AddStage, SetSink, Move,
                MovesAlong, SetStage, FillStage, ResetSink, SetSinkPointers, FillSink, Free, Goes,
                RunSteps, InLoop, source_vars, run_vars
  <2> QED
    BY <2>1 DEF RunFlags, RunSteps, InLoop
<1>2. CASE RunConnects
  BY <1>0, <1>2 DEF RunConnects, RunFlags, RunSteps, InLoop, Free, run_vars
<1>3. CASE ApplyConfig \/ SubscribeSource \/ ConfigApplied \/ AllSubscribed \/ Abort
  BY <1>0, <1>3 DEF ApplyConfig, SubscribeSource, ConfigApplied, AllSubscribed, Abort,
              DisconnectSource, Goes,
              RunFlags, RunSteps, InLoop, run_vars, source_vars
<1>4. CASE Start \/ InstallCallback
  BY <1>0, <1>4 DEF Start, InstallCallback, Goes, RunFlags, RunSteps, InLoop, run_vars,
              source_vars
<1>5. CASE LoopReadsRunning \/ LoopReadsConnected \/ LoopPollReturns
  BY <1>0, <1>5 DEF LoopReadsRunning, LoopReadsConnected, LoopPollReturns, Goes, RunFlags,
              RunSteps, InLoop, run_vars, source_vars
<1>6. CASE ClearRunning \/ Disconnect
  BY <1>0, <1>6 DEF ClearRunning, Disconnect, DisconnectSource, Goes, RunFlags, RunSteps, InLoop, source_vars
<1>7. CASE Stop \/ ConnectionLost
  BY <1>7, FlagsStay DEF Stop, ConnectionLost, source_vars, run_vars
<1>8. ASSUME NEW t \in Clients, PollOnce(t) \/ PollOnceStep(t) PROVE RunFlags'
  <2>1. pc'[Owner] = pc[Owner]
    BY <1>0, <1>8, ClientMoves DEF PollOnce, PollOnceStep, PollOnceReadsConnected,
                                   PollOnceReturns, Goes
  <2> QED
    BY <1>8, <2>1, FlagsStay DEF PollOnce, PollOnceStep, PollOnceReadsConnected,
                                 PollOnceReturns, source_vars, run_vars
<1>9. ASSUME NEW t \in Threads,
             Emit(t) \/ PollDelivers(t) \/ PollDiscards(t) \/ EmitStep(t)
      PROVE  RunFlags'
  <2>1. UNCHANGED non_emit_vars
    BY <1>9, EmitLeavesTheRest
  <2> QED
    BY <2>1, FlagsStay DEF non_emit_vars, source_vars, run_vars
<1>10. CASE UNCHANGED vars
  BY <1>10, FlagsStay DEF vars, source_vars, run_vars
<1> QED
  BY <1>1, <1>2, <1>3, <1>4, <1>5, <1>6, <1>7, <1>8, <1>9, <1>10 DEF Next, RunStep

(* Whichever way run() comes to its end (a failed option or subscription, a *)
(* stop(), a lost connection), the pipeline is not running and the source   *)
(* is disconnected unless it refused: no path forgets its disconnect().     *)
THEOREM RunCleansUpHolds == Spec => []RunCleansUp
<1>1. Init => RunFlags
  BY DEF Init, RunFlags
<1>2. RunFlags => RunCleansUp
  BY DEF RunFlags, RunCleansUp, RunSteps, InLoop
<1> QED
  BY TypeInit, TypeStep, FlagsStep, <1>1, <1>2, PTL DEF Spec

-----------------------------------------------------------------------------
(* LoopRunsWhatWasAsked.  By the time run() is in its loop, what a builder  *)
(* call did is long past, so the invariant follows it all the way: as long  *)
(* as no error is pending the pipeline stores what was asked of it, and     *)
(* run(), which starts with no error pending, hands all of it over.         *)

StoresWhatWasAsked ==
    pending_error = "none" =>
        /\ subscriptions = want_subs
        /\ config_count = want_configs
        /\ stage_count = want_stages
        /\ uri_view = "own" => owned_uri = want_uri

StagesAreFilled ==
    \A i \in 1..stage_count :
        \/ stages[i] = "ready"
        \/ i = stage_count /\ pc[Owner] \in {"stage_set", "stage_fill"}

HandsOver ==
    /\ pc[Owner] \in RunSteps =>
          pending_error = "none" /\ (uri_view = "own" => src_uri = owned_uri)
    /\ pc[Owner] = "configure" => applied <= config_count /\ subscribed = <<>>
    /\ pc[Owner] \in RunSteps \ {"configure", "abort"} => applied = config_count
    /\ pc[Owner] = "subscribe" =>
          /\ Len(subscribed) <= Len(subscriptions)
          /\ \A i \in 1..Len(subscribed) : subscribed[i] = subscriptions[i]
    /\ pc[Owner] \in RunSteps \ {"configure", "subscribe", "abort"} =>
          subscribed = subscriptions

AskedInv == StoresWhatWasAsked /\ StagesAreFilled /\ HandsOver

(* Only the owner's steps write any of this. *)
LEMMA AskedStays ==
    ASSUME AskedInv, pc'[Owner] = pc[Owner], UNCHANGED <<builder_vars, stage_vars>>,
           UNCHANGED <<src_uri, applied, subscribed>>
    PROVE  AskedInv'
  BY DEF AskedInv, StoresWhatWasAsked, StagesAreFilled, HandsOver, builder_vars, stage_vars

(* The builder calls, made while no run() is under way. *)
LEMMA AskedBuild ==
    ASSUME TypeOK, AskedInv, Build \/ FinishBuild
    PROVE  AskedInv'
<1> USE PlacesAre DEF TypeOK, AskedInv
<1>0. BuilderTypes
  BY DEF TypeOK
<1>1. pc[Owner] \notin RunSteps /\ pc'[Owner] \notin RunSteps
  BY DEF Build, FinishBuild, Subscribe, Configure, ConnectUri, AddStage, SetSink, Move,
         MovesAlong, SetStage, FillStage, ResetSink, SetSinkPointers, FillSink, Free, Goes, RunSteps, InLoop
<1>2. HandsOver'
  BY <1>1 DEF HandsOver, RunSteps, InLoop
<1>3. ASSUME NEW topic \in Topics, Subscribe(topic) PROVE AskedInv'
  BY <1>0, <1>2, <1>3, PipedView
     DEF Subscribe, SubscribeStores, SubscribeTooLong, SubscribeFull, StoresWhatWasAsked,
                    StagesAreFilled, stage_vars
<1>4. CASE Configure
  BY <1>0, <1>2, <1>4, PipedView
     DEF Configure, StoresWhatWasAsked, StagesAreFilled, stage_vars
<1>5. ASSUME NEW uri \in Uris \cup {NoUri}, ConnectUri(uri) PROVE AskedInv'
  BY <1>2, <1>5, PipelineAssumption
     DEF ConnectUri, ParseOrDefault, StoresWhatWasAsked, StagesAreFilled, stage_vars
<1>6. CASE AddStage
  <2>1. StoresWhatWasAsked'
    BY <1>0, <1>6, PipedView DEF AddStage, StoresWhatWasAsked, StageTypes
  <2>2. StagesAreFilled'
    BY <1>6 DEF AddStage, StagesAreFilled, StageTypes, Free
  <2> QED
    BY <1>2, <2>1, <2>2
<1>7. CASE SetStage \/ FillStage
  <2>1. StoresWhatWasAsked'
    BY <1>7 DEF SetStage, FillStage, StoresWhatWasAsked, builder_vars
  <2>2. \A i \in 1..stage_count : i # stage_count => stages[i] = "ready"
    BY DEF StagesAreFilled
  <2>3. StagesAreFilled'
    <3>1. CASE SetStage
      BY <2>2, <3>1 DEF SetStage, StagesAreFilled, StageTypes, Goes
    <3>2. CASE FillStage
      BY <2>2, <3>2 DEF FillStage, StagesAreFilled, StageTypes, Goes
    <3> QED
      BY <1>7, <3>1, <3>2
  <2> QED
    BY <1>2, <2>1, <2>3
<1>8. CASE SetSink \/ ResetSink \/ SetSinkPointers \/ FillSink
  <2>1. StoresWhatWasAsked'
    BY <1>0, <1>8, PipedView
       DEF SetSink, ResetSink, SetSinkPointers, FillSink, StoresWhatWasAsked, builder_vars
  <2>2. StagesAreFilled'
    BY <1>8 DEF SetSink, ResetSink, SetSinkPointers, FillSink, StagesAreFilled, Free, Goes
  <2> QED
    BY <1>2, <2>1, <2>2
<1>9. CASE Move
  <2>1. StoresWhatWasAsked'
    BY <1>0, <1>9, PipedView DEF Move, StoresWhatWasAsked, stage_vars
  <2>2. StagesAreFilled'
    BY <1>9 DEF Move, StagesAreFilled, stage_vars
  <2> QED
    BY <1>2, <2>1, <2>2
<1> HIDE DEF TypeOK, AskedInv
<1> QED
  BY <1>3, <1>4, <1>5, <1>6, <1>7, <1>8, <1>9 DEF Build, FinishBuild

(* run(), one of its places after the other. *)
LEMMA AskedRun ==
    ASSUME TypeOK, AskedInv, RunConnects \/ RunStep
    PROVE  AskedInv'
<1> USE PlacesAre DEF TypeOK
<1>1. UNCHANGED <<builder_vars, stage_vars>> /\ pc'[Owner] \in RunSteps \cup {"idle"}
  BY DEF RunConnects, RunStep, ApplyConfig, ConfigApplied, SubscribeSource, AllSubscribed,
         Abort, Start, InstallCallback, LoopReadsRunning, LoopReadsConnected,
         LoopPollReturns, ClearRunning, Disconnect, Goes, RunSteps, InLoop
<1>2. StoresWhatWasAsked'
  BY <1>1 DEF AskedInv, StoresWhatWasAsked, builder_vars, stage_vars
<1>3. StagesAreFilled'
  <2>1. pc[Owner] \notin {"stage_set", "stage_fill"}
    BY DEF RunConnects, RunStep, ApplyConfig, ConfigApplied, SubscribeSource, AllSubscribed,
           Abort, Start, InstallCallback, LoopReadsRunning, LoopReadsConnected,
           LoopPollReturns, ClearRunning, Disconnect, Goes, Free
  <2> QED
    BY <1>1, <2>1 DEF AskedInv, StagesAreFilled, stage_vars
<1>4. ASSUME HandsOver' PROVE AskedInv'
  BY <1>2, <1>3, <1>4 DEF AskedInv
<1>5. HandsOver /\ UNCHANGED <<pending_error, subscriptions, config_count, owned_uri, uri_view>>
  BY <1>1 DEF AskedInv, builder_vars
<1>6. CASE RunConnects
  BY <1>4, <1>5, <1>6 DEF RunConnects, HandsOver, RunSteps, InLoop, BuilderTypes
<1>7. CASE ApplyConfig
  BY <1>4, <1>5, <1>7 DEF ApplyConfig, Goes, HandsOver, RunSteps, InLoop, BuilderTypes,
                          SourceTypes
<1>8. CASE ConfigApplied
  BY <1>4, <1>5, <1>8 DEF ConfigApplied, Goes, HandsOver, RunSteps, InLoop, BuilderTypes,
                          SourceTypes, source_vars
<1>9. CASE SubscribeSource
  <2>1. CASE pc[Owner]' = "abort"
    BY <1>4, <1>5, <1>9, <2>1 DEF SubscribeSource, Goes, HandsOver, RunSteps, InLoop
  <2>2. CASE UNCHANGED pc
    <3>1. PICK n \in Nat, m \in Nat :
                 n = Len(subscribed) /\ m = Len(subscriptions) /\ n < m
      BY <1>9 DEF SubscribeSource, SourceTypes, BuilderTypes
    <3>2. subscribed' = Append(subscribed, subscriptions[n + 1])
      BY <1>9, <2>2, <3>1 DEF SubscribeSource, Goes, SourceTypes
    <3>3. /\ Len(subscribed') = n + 1 /\ subscribed'[n + 1] = subscriptions[n + 1]
          /\ \A i \in 1..n : subscribed'[i] = subscribed[i]
      BY <3>1, <3>2 DEF SourceTypes
    <3>4. \A i \in 1..n + 1 : subscribed'[i] = subscriptions[i]
      BY <1>5, <1>9, <3>1, <3>3 DEF HandsOver, SubscribeSource
    <3> QED
      BY <1>4, <1>5, <1>9, <2>2, <3>1, <3>3, <3>4
         DEF SubscribeSource, HandsOver, RunSteps, InLoop
  <2> QED
    BY <1>9, <2>1, <2>2 DEF SubscribeSource, Goes
<1>10. CASE AllSubscribed
  <2>1. subscribed = subscriptions
    <3>1. /\ Len(subscribed) = Len(subscriptions)
          /\ \A i \in 1..Len(subscribed) : subscribed[i] = subscriptions[i]
      BY <1>5, <1>10 DEF AllSubscribed, Goes, HandsOver, SourceTypes, BuilderTypes
    <3> QED
      BY <3>1, SequenceExtensionality DEF SourceTypes, BuilderTypes
  <2> QED
    BY <1>4, <1>5, <1>10, <2>1 DEF AllSubscribed, Goes, HandsOver, RunSteps, InLoop, source_vars
<1>11. CASE Abort \/ Disconnect
  BY <1>4, <1>5, <1>11 DEF Abort, Disconnect, DisconnectSource, Goes, HandsOver, RunSteps, InLoop
<1>12. CASE \/ Start \/ InstallCallback \/ LoopReadsRunning \/ LoopReadsConnected
            \/ LoopPollReturns \/ ClearRunning
  BY <1>4, <1>5, <1>12 DEF Start, InstallCallback, LoopReadsRunning, LoopReadsConnected,
        LoopPollReturns, ClearRunning, Goes, HandsOver, RunSteps, InLoop, source_vars
<1> HIDE DEF TypeOK
<1> QED
  BY <1>6, <1>7, <1>8, <1>9, <1>10, <1>11, <1>12 DEF RunStep

LEMMA AskedStep == TInv /\ AskedInv /\ [Next]_vars => AskedInv'
<1> SUFFICES ASSUME TInv, AskedInv, [Next]_vars PROVE AskedInv'
  OBVIOUS
<1>0. TypeOK
  BY DEF TInv
<1>1. CASE Build \/ FinishBuild
  BY <1>0, <1>1, AskedBuild
<1>2. CASE RunConnects \/ RunStep
  BY <1>0, <1>2, AskedRun
<1>3. CASE Stop \/ ConnectionLost
  BY <1>3, AskedStays DEF Stop, ConnectionLost, source_vars
<1>4. ASSUME NEW t \in Clients, PollOnce(t) \/ PollOnceStep(t) PROVE AskedInv'
  <2>1. pc'[Owner] = pc[Owner]
    BY <1>0, <1>4, ClientMoves DEF PollOnce, PollOnceStep, PollOnceReadsConnected,
                                   PollOnceReturns, Goes
  <2> QED
    BY <1>4, <2>1, AskedStays DEF PollOnce, PollOnceStep, PollOnceReadsConnected,
                                  PollOnceReturns, source_vars
<1>5. ASSUME NEW t \in Threads,
             Emit(t) \/ PollDelivers(t) \/ PollDiscards(t) \/ EmitStep(t)
      PROVE  AskedInv'
  <2>1. UNCHANGED non_emit_vars
    BY <1>5, EmitLeavesTheRest
  <2> QED
    BY <2>1, AskedStays DEF non_emit_vars, source_vars
<1>6. CASE UNCHANGED vars
  BY <1>6, AskedStays DEF vars, source_vars
<1> QED
  BY <1>1, <1>2, <1>3, <1>4, <1>5, <1>6 DEF Next

(* Nothing the application asked of the builder is silently left out: once  *)
(* run() is in its event loop, every topic is subscribed, every option is   *)
(* applied and every stage is callable, in the order they were asked for.   *)
THEOREM LoopRunsWhatWasAskedHolds == Spec => []LoopRunsWhatWasAsked
<1>1. Init => AskedInv
  BY PipelineAssumption
     DEF Init, AskedInv, StoresWhatWasAsked, StagesAreFilled, HandsOver, ParseOrDefault,
         RunSteps, InLoop, Threads
<1>2. AskedInv => LoopRunsWhatWasAsked
  BY DEF AskedInv, StoresWhatWasAsked, StagesAreFilled, HandsOver, LoopRunsWhatWasAsked,
         RunSteps, InLoop
<1> QED
  BY TypeInit, TypeStep, AskedStep, <1>1, <1>2, PTL DEF Spec

-----------------------------------------------------------------------------
(* SpinlockSpec: each step of emit() is a step of the lock, or none of its  *)
(* business, and nothing outside emit() touches it.                         *)

LEMMA OthersLeaveEmit ==
    ASSUME [Next]_vars,
           ~\E t \in Threads : Emit(t) \/ PollDelivers(t) \/ PollDiscards(t) \/ EmitStep(t)
    PROVE  UNCHANGED emit_vars
  BY DEF Next, Build, FinishBuild, RunStep, PollOnceStep, Subscribe, Configure, ConnectUri,
        AddStage, SetSink, Move, SetStage, FillStage, ResetSink, SetSinkPointers, FillSink, RunConnects,
        ApplyConfig, ConfigApplied, SubscribeSource, AllSubscribed, Abort, Start,
        InstallCallback, LoopReadsRunning, LoopReadsConnected, LoopPollReturns,
        ClearRunning, Disconnect, Stop, ConnectionLost, PollOnce, PollOnceReadsConnected,
        PollOnceReturns, vars

LEMMA LockUntouched ==
    ASSUME UNCHANGED <<locked, em>> PROVE UNCHANGED Lock!vars
  BY DEF Lock!vars

LEMMA LockStep == TypeOK /\ [Next]_vars => [Lock!Next]_(Lock!vars)
<1> SUFFICES ASSUME TypeOK, [Next]_vars PROVE [Lock!Next]_(Lock!vars)
  OBVIOUS
<1>0. em \in [Threads -> EmitSteps]
  BY DEF TypeOK, EmitTypes
<1>1. CASE UNCHANGED emit_vars
  BY <1>1, LockUntouched DEF emit_vars
<1>2. ASSUME NEW t \in Threads, EmitBegins(t), em[t] = "out" PROVE Lock!Lock(t)
  BY <1>0, <1>2 DEF EmitBegins, Lock!Lock
<1>3. ASSUME NEW t \in Threads, Acquire(t) PROVE Lock!Exchange(t)
  BY <1>0, <1>3 DEF Acquire, Steps, Lock!Exchange
<1>4. ASSUME NEW t \in Threads, Release(t) PROVE Lock!Unlock(t)
  BY <1>0, <1>4 DEF Release, Steps, Lock!Unlock
<1>5. ASSUME NEW t \in Threads,
             \/ FromViewFails(t) \/ FromView(t) \/ CallStage(t) \/ StagePasses(t)
             \/ StageDrops(t) \/ CallSink(t) \/ NoSink(t) \/ SinkReturns(t)
      PROVE  UNCHANGED Lock!vars
  BY <1>0, <1>5 DEF FromViewFails, FromView, CallStage, StagePasses, StageDrops, CallSink,
                    NoSink, SinkReturns, Steps, Lock!vars
<1>6. ASSUME NEW t \in Threads,
             Emit(t) \/ PollDelivers(t) \/ PollDiscards(t) \/ EmitStep(t)
      PROVE  [Lock!Next]_(Lock!vars)
  BY <1>1, <1>2, <1>3, <1>4, <1>5, <1>6
     DEF Emit, PollDelivers, PollDiscards, EmitStep, Free, Polling, Lock!Next, vars
<1>7. ASSUME ~\E t \in Threads :
                Emit(t) \/ PollDelivers(t) \/ PollDiscards(t) \/ EmitStep(t)
      PROVE  UNCHANGED emit_vars
  BY <1>7, OthersLeaveEmit
<1> QED
  BY <1>1, <1>6, <1>7

(* emit() uses stage_lock_ as spinlock.hpp means it to be used: whoever     *)
(* takes it gives it back, on every path out, and only its owner does.      *)
THEOREM PipelineUsesSpinlock == Spec => SpinlockSpec
<1>1. Init => Lock!Init
  BY DEF Init, Lock!Init
<1>2. TInv => TypeOK
  BY DEF TInv
<1> QED
  BY TypeInit, TypeStep, LockStep, <1>1, <1>2, PTL DEF Spec, SpinlockSpec, Lock!Spec

-----------------------------------------------------------------------------
(* EmitServiceSpec: a message is on its way until its pass is decided.      *)

LEMMA ServiceUntouched ==
    ASSUME UNCHANGED emit_vars PROVE UNCHANGED Service!vars
  BY DEF Service!vars, emit_vars

LEMMA ServiceStep == TypeOK /\ [Next]_vars => [Service!Next]_(Service!vars)
<1> SUFFICES ASSUME TypeOK, [Next]_vars PROVE [Service!Next]_(Service!vars)
  OBVIOUS
<1>0. em \in [Threads -> EmitSteps]
  BY DEF TypeOK, EmitTypes
<1>1. CASE UNCHANGED emit_vars
  BY <1>1, ServiceUntouched
<1>2. ASSUME NEW t \in Threads, EmitBegins(t), em[t] = "out" PROVE Service!Call(t)
  BY <1>0, <1>2 DEF EmitBegins, Service!Call
<1>3. ASSUME NEW t \in Threads, CallSink(t) PROVE Service!Deliver(t)
  BY <1>0, <1>3 DEF CallSink, Steps, Service!Deliver, Service!Message
<1>4. ASSUME NEW t \in Threads, FromViewFails(t) \/ StageDrops(t) \/ NoSink(t)
      PROVE  Service!Drop(t)
  BY <1>0, <1>4 DEF FromViewFails, StageDrops, NoSink, Steps, Service!Drop
<1>5. ASSUME NEW t \in Threads, Release(t) PROVE Service!Return(t)
  BY <1>0, <1>5 DEF Release, Steps, Service!Return
<1>6. ASSUME NEW t \in Threads,
             Acquire(t) \/ FromView(t) \/ CallStage(t) \/ StagePasses(t) \/ SinkReturns(t)
      PROVE  UNCHANGED Service!vars
  BY <1>0, <1>6 DEF Acquire, FromView, CallStage, StagePasses, SinkReturns, Steps, Service!vars
<1>7. ASSUME NEW t \in Threads,
             Emit(t) \/ PollDelivers(t) \/ PollDiscards(t) \/ EmitStep(t)
      PROVE  [Service!Next]_(Service!vars)
  BY <1>1, <1>2, <1>3, <1>4, <1>5, <1>6, <1>7
     DEF Emit, PollDelivers, PollDiscards, EmitStep, Free, Polling, Service!Next, vars
<1>8. ASSUME ~\E t \in Threads :
                Emit(t) \/ PollDelivers(t) \/ PollDiscards(t) \/ EmitStep(t)
      PROVE  UNCHANGED emit_vars
  BY <1>8, OthersLeaveEmit
<1> QED
  BY <1>1, <1>7, <1>8

(* emit() is the synchronous service that EmitService describes, whatever   *)
(* the builder, run(), stop() and the source are doing meanwhile: also when *)
(* the pipeline is configured while it is in use.                           *)
THEOREM PipelineIsEmitService == Spec => EmitServiceSpec
<1>1. Init => Service!Init
  BY DEF Init, Service!Init
<1>2. TInv => TypeOK
  BY DEF TInv
<1> QED
  BY TypeInit, TypeStep, ServiceStep, <1>1, <1>2, PTL DEF Spec, EmitServiceSpec, Service!Spec

-----------------------------------------------------------------------------
(* What the two refinements bring: the theorems of the modules refined.     *)

LockFacts == INSTANCE SpinlockProofs WITH
    at <- [t \in Threads |-> CASE em[t] = "out" -> "out"
                              [] em[t] = "lock" -> "spin"
                              [] OTHER -> "in"]

LEMMA SameLock == Lock!Spec => LockFacts!Spec
<1>1. Lock!Init => LockFacts!Init
  BY DEF Lock!Init, LockFacts!Init
<1>2. [Lock!Next]_(Lock!vars) => [LockFacts!Next]_(LockFacts!vars)
  BY DEF Lock!Next, Lock!Lock, Lock!Exchange, Lock!TryLock, Lock!Unlock, Lock!vars,
         LockFacts!Next, LockFacts!Lock, LockFacts!Exchange, LockFacts!TryLock,
         LockFacts!Unlock, LockFacts!vars
<1> QED
  BY <1>1, <1>2, PTL DEF Lock!Spec, LockFacts!Spec

(* No two threads are inside process_message() at once.                     *)
NoTwoInside ==
    \A s, t \in Threads :
        em[s] \notin {"out", "lock"} /\ em[t] \notin {"out", "lock"} => s = t

THEOREM StagesAreExclusive == Spec => []NoTwoInside
<1>1. Lock!Spec => LockFacts!Spec
  BY SameLock
<1>2. LockFacts!Spec => []LockFacts!MutualExclusion
  BY LockFacts!MutualExclusionHolds
<1>3. LockFacts!MutualExclusion => NoTwoInside
  BY DEF LockFacts!MutualExclusion, NoTwoInside
<1> QED
  BY PipelineUsesSpinlock, <1>1, <1>2, <1>3, PTL DEF SpinlockSpec

ServiceFacts == INSTANCE EmitServiceProofs WITH
    call <- [t \in Threads |-> CASE em[t] = "out" -> "idle"
                                [] em[t] \in {"sink", "unlock"} -> "settled"
                                [] OTHER -> "waiting"]

(* Whatever the other threads do, the sink is given each thread's messages  *)
(* in the order of its calls of emit(), and none twice.                     *)
THEOREM ProgramOrderKept == Spec => []ProgramOrder
<1>0. MaxEmits \in Nat
  BY PipelineAssumption
<1>1. Service!Spec => ServiceFacts!Spec
  <2>1. Service!Init => ServiceFacts!Init
    BY DEF Service!Init, ServiceFacts!Init
  <2>2. [Service!Next]_(Service!vars) => [ServiceFacts!Next]_(ServiceFacts!vars)
    BY DEF Service!Next, Service!Call, Service!Deliver, Service!Drop, Service!Return,
           Service!Message, Service!vars,
           ServiceFacts!Next, ServiceFacts!Call, ServiceFacts!Deliver, ServiceFacts!Drop,
           ServiceFacts!Return, ServiceFacts!Message, ServiceFacts!vars
  <2> QED
    BY <2>1, <2>2, PTL DEF Service!Spec, ServiceFacts!Spec
<1>2. ServiceFacts!Spec => []ServiceFacts!ProgramOrder
  BY <1>0, ServiceFacts!ProgramOrderHolds
<1>3. ServiceFacts!ProgramOrder => ProgramOrder
  BY DEF ServiceFacts!ProgramOrder, ProgramOrder, Service!ProgramOrder
<1> QED
  BY PipelineIsEmitService, <1>1, <1>2, <1>3, PTL DEF EmitServiceSpec

-----------------------------------------------------------------------------
(* SlotsAreReady, for an application that configures the pipeline only      *)
(* while nobody is inside emit() (LateConfig = FALSE).  A slot is callable  *)
(* except between two steps of a builder call, so the invariant says where  *)
(* everybody else is then.                                                  *)

ConfiguresAlone ==
    Configuring => /\ \A t \in Threads : em[t] = "out"
                   /\ \A c \in Clients : pc[c] = "idle"

SinkIsFilled ==
    /\ sink = "raw" => pc[Owner] \in {"sink_reset", "sink_fill"}
    /\ \A t \in Threads : em[t] = "sink" => sink = "ready"

QuietInv == ConfiguresAlone /\ SinkIsFilled

LEMMA QuietBuild ==
    ASSUME TypeOK, QuietInv, Build \/ FinishBuild, LateConfig = FALSE
    PROVE  QuietInv'
<1> USE PlacesAre, PipelineAssumption DEF TypeOK, QuietInv
<1>0. UNCHANGED em
  BY DEF Build, FinishBuild, Subscribe, Configure, ConnectUri, AddStage, SetSink, Move, SetStage,
         FillStage, ResetSink, SetSinkPointers, FillSink, emit_vars
<1>1. CASE \/ \E topic \in Topics : Subscribe(topic)
           \/ Configure
           \/ \E uri \in Uris \cup {NoUri} : ConnectUri(uri)
           \/ Move
  <2>1. UNCHANGED <<pc, sink>>
    BY <1>1 DEF Subscribe, Configure, ConnectUri, Move, stage_vars
  <2> QED
    BY <1>0, <2>1 DEF ConfiguresAlone, Configuring, SinkIsFilled
<1>2. CASE AddStage \/ SetSink
  <2>1. (\A t \in Threads : em[t] = "out") /\ (\A c \in Clients : pc[c] = "idle")
    BY <1>2 DEF AddStage, SetSink, MayConfigure, Free, Threads
  <2>2. \A c \in Clients : pc'[c] = pc[c]
    BY <1>2 DEF AddStage, SetSink
  <2>3. ConfiguresAlone'
    BY <1>0, <2>1, <2>2 DEF ConfiguresAlone
  <2>4. SinkIsFilled'
    BY <1>0, <1>2, <2>1 DEF AddStage, SetSink, SinkIsFilled, Free
  <2> QED
    BY <2>3, <2>4
<1>3. CASE FinishBuild
  <2>1. \A c \in Clients : pc'[c] = pc[c]
    BY <1>3 DEF FinishBuild, SetStage, FillStage, ResetSink, SetSinkPointers, FillSink, Goes
  <2>2. Configuring
    BY <1>3 DEF FinishBuild, SetStage, FillStage, ResetSink, SetSinkPointers, FillSink, Goes,
                Configuring, BuilderSteps
  <2>3. ConfiguresAlone'
    BY <1>0, <2>1, <2>2 DEF ConfiguresAlone
  <2>4. SinkIsFilled'
    BY <1>0, <1>3, <2>2
       DEF FinishBuild, SetStage, FillStage, ResetSink, SetSinkPointers, FillSink, Goes,
           ConfiguresAlone, SinkIsFilled
  <2> QED
    BY <2>3, <2>4
<1> QED
  BY <1>1, <1>2, <1>3 DEF Build

LEMMA QuietEmit ==
    ASSUME TypeOK, RunFlags, QuietInv, LateConfig = FALSE, NEW t \in Threads,
           Emit(t) \/ PollDelivers(t) \/ PollDiscards(t) \/ EmitStep(t)
    PROVE  QuietInv'
<1> USE DEF QuietInv
<1>1. UNCHANGED <<pc, sink>>
  BY EmitLeavesTheRest DEF non_emit_vars, stage_vars
<1>2. em \in [Threads -> EmitSteps] /\ Threads = Clients \cup {Owner}
  BY DEF TypeOK, EmitTypes, Threads
<1>3. CASE PollDiscards(t)
  BY <1>1, <1>3 DEF PollDiscards, vars, emit_vars, ConfiguresAlone, SinkIsFilled, Configuring
<1>4. ASSUME ~PollDiscards(t) PROVE ~Configuring
  BY <1>2, <1>4 DEF Emit, PollDelivers, Polling, Free, MayEmit, Configuring, ConfiguresAlone,
        BuilderSteps, EmitStep, Steps, Acquire, FromViewFails, FromView, CallStage,
        StagePasses, StageDrops, CallSink, NoSink, SinkReturns, Release
<1>5. ASSUME ~PollDiscards(t) PROVE \A s \in Threads : em'[s] = "sink" => em[s] = "sink" \/ sink # "null"
  BY <1>2, <1>5 DEF Emit, PollDelivers, EmitBegins, EmitStep, Steps, Acquire, FromViewFails,
        FromView, CallStage, StagePasses, StageDrops, CallSink, NoSink, SinkReturns, Release
<1>6. sink # "null" /\ ~Configuring => sink = "ready"
  BY DEF SinkIsFilled, TypeOK, StageTypes, SlotStates, Configuring, BuilderSteps
<1> QED
  BY <1>1, <1>3, <1>4, <1>5, <1>6 DEF ConfiguresAlone, SinkIsFilled, Configuring

LEMMA QuietStep ==
    TInv /\ RunFlags /\ QuietInv /\ LateConfig = FALSE /\ [Next]_vars => QuietInv'
<1> SUFFICES ASSUME TInv, RunFlags, QuietInv, LateConfig = FALSE, [Next]_vars
             PROVE  QuietInv'
  OBVIOUS
<1>0. TypeOK /\ Owner \in Threads /\ Clients \subseteq Threads
      /\ pc \in [Threads -> Places] /\ Owner \notin Clients
  BY PlacesAre, PipelineAssumption DEF TInv, TypeOK
<1>1. CASE Build \/ FinishBuild
  BY <1>0, <1>1, QuietBuild
<1>2. ASSUME UNCHANGED <<sink, em>>, pc'[Owner] \notin BuilderSteps, 
                          pc[Owner] \notin {"sink_reset", "sink_fill"}
      PROVE  QuietInv'
  BY <1>2 DEF QuietInv, ConfiguresAlone, SinkIsFilled, Configuring, BuilderSteps
<1>3. CASE RunConnects \/ RunStep
  BY <1>0, <1>2, <1>3
     DEF RunConnects, RunStep, ApplyConfig, ConfigApplied, SubscribeSource, AllSubscribed,
         Abort, Start, InstallCallback, LoopReadsRunning, LoopReadsConnected,
         LoopPollReturns, ClearRunning, Disconnect, Goes, Free, BuilderSteps, stage_vars,
         emit_vars
<1>4. CASE Stop \/ ConnectionLost \/ UNCHANGED vars
  BY <1>4 DEF Stop, ConnectionLost, vars, stage_vars, emit_vars, QuietInv, ConfiguresAlone,
              SinkIsFilled, Configuring
<1>5. ASSUME NEW c \in Clients, PollOnce(c) \/ PollOnceStep(c) PROVE QuietInv'
  <2>1. pc'[Owner] = pc[Owner]
    BY <1>0, <1>5, ClientMoves DEF PollOnce, PollOnceStep, PollOnceReadsConnected,
                                   PollOnceReturns, Goes
  <2>2. ~Configuring
    BY <1>0, <1>5 DEF PollOnce, PollOnceStep, PollOnceReadsConnected, PollOnceReturns, Goes,
                 RunFlags, Configuring, BuilderSteps, QuietInv, ConfiguresAlone
  <2> QED
    BY <1>2, <1>5, <2>1, <2>2 DEF PollOnce, PollOnceStep, PollOnceReadsConnected,
          PollOnceReturns, stage_vars, emit_vars, Configuring, BuilderSteps
<1>6. ASSUME NEW t \in Threads,
             Emit(t) \/ PollDelivers(t) \/ PollDiscards(t) \/ EmitStep(t)
      PROVE  QuietInv'
  BY <1>0, <1>6, QuietEmit
<1> QED
  BY <1>1, <1>3, <1>4, <1>5, <1>6 DEF Next

(* No thread is ever inside a null or half-assigned stage or sink, as long  *)
(* as the application configures the pipeline while nobody uses it: the     *)
(* discipline the unlocked builder calls rely on is enough.                 *)
THEOREM SlotsAreReadyWhenQuiet ==
    ASSUME LateConfig = FALSE PROVE Spec => []SlotsAreReady
<1>1. Init => RunFlags /\ AskedInv /\ QuietInv
  BY PipelineAssumption
     DEF Init, RunFlags, AskedInv, StoresWhatWasAsked, StagesAreFilled, HandsOver,
         ParseOrDefault, RunSteps, InLoop, Threads, QuietInv, ConfiguresAlone, SinkIsFilled,
         Configuring, BuilderSteps
<1>2. TInv /\ AskedInv /\ QuietInv => SlotsAreReady
  BY DEF TInv, TypeOK, EmitTypes, StageTypes, StageInRange, AskedInv, StagesAreFilled,
         QuietInv, ConfiguresAlone, SinkIsFilled, Configuring, BuilderSteps, SlotsAreReady
<1> QED
  BY TypeInit, TypeStep, FlagsStep, AskedStep, QuietStep, <1>1, <1>2, PTL DEF Spec

-----------------------------------------------------------------------------
(* OneLatePoll.  A thread that has begun a poll after running_ went down    *)
(* has that check behind it, and the next one stops it: running_ comes up   *)
(* again only in a run() of its own.                                        *)

LatePolls ==
    \A t \in Threads :
        /\ late[t] <= 1
        /\ late[t] # 0 => ~running /\ pc[t] \notin {"loop_conn", "once_conn"}

(* A step that begins no poll and brings nobody past a check of running_.   *)
LEMMA LateStays ==
    ASSUME LatePolls, UNCHANGED late, running' => running,
           \A t \in Threads : pc'[t] \in {"loop_conn", "once_conn"} =>
                                  pc[t] \in {"loop_conn", "once_conn"}
    PROVE  LatePolls'
  BY DEF LatePolls

LEMMA LateBuild ==
    ASSUME TypeOK, LatePolls, Build \/ FinishBuild
    PROVE  LatePolls'
<1>1. UNCHANGED run_vars
  BY DEF Build, FinishBuild, Subscribe, Configure, ConnectUri, AddStage, SetSink, Move,
         SetStage, FillStage, ResetSink, SetSinkPointers, FillSink
<1>2. \A t \in Threads : pc'[t] \in {"loop_conn", "once_conn"} =>
                             pc[t] \in {"loop_conn", "once_conn"}
  BY DEF Build, FinishBuild, Subscribe, Configure, ConnectUri, AddStage, SetSink, Move,
         SetStage, FillStage, ResetSink, SetSinkPointers, FillSink, Goes, TypeOK
<1> QED
  BY <1>1, <1>2, LateStays DEF run_vars

LEMMA LateRun ==
    ASSUME TypeOK, LatePolls, RunConnects \/ RunStep
    PROVE  LatePolls'
<1>0. Owner \in Threads /\ pc \in [Threads -> Places] /\ late \in [Threads -> Nat]
  BY PlacesAre DEF TypeOK, RunTypes
<1>1. CASE Start
  BY <1>1 DEF Start, LatePolls
<1>2. CASE LoopReadsRunning
  BY <1>0, <1>2 DEF LoopReadsRunning, Goes, LatePolls, run_vars
<1>3. CASE LoopReadsConnected
  BY <1>0, <1>3 DEF LoopReadsConnected, Goes, PollBegins, LatePolls
<1>4. CASE \/ RunConnects \/ ApplyConfig \/ ConfigApplied \/ SubscribeSource
           \/ AllSubscribed \/ Abort \/ InstallCallback \/ LoopPollReturns
           \/ ClearRunning \/ Disconnect
  <2>1. UNCHANGED late /\ (running' => running)
    BY <1>4 DEF RunConnects, ApplyConfig, ConfigApplied, SubscribeSource, AllSubscribed,
                Abort, InstallCallback, LoopPollReturns, ClearRunning, Disconnect, run_vars
  <2>2. UNCHANGED pc \/ \E to \in Places \ {"loop_conn", "once_conn"} :
                            pc' = [pc EXCEPT ![Owner] = to]
    BY <1>4, PlacesAre
       DEF RunConnects, ApplyConfig, ConfigApplied, SubscribeSource, AllSubscribed, Abort,
           InstallCallback, LoopPollReturns, ClearRunning, Disconnect, Goes
  <2>3. \A t \in Threads : pc'[t] \in {"loop_conn", "once_conn"} =>
                               pc[t] \in {"loop_conn", "once_conn"}
    BY <1>0, <2>2
  <2> QED
    BY <2>1, <2>3, LateStays
<1> QED
  BY <1>1, <1>2, <1>3, <1>4 DEF RunStep

LEMMA LateStep == TInv /\ LatePolls /\ [Next]_vars => LatePolls'
<1> SUFFICES ASSUME TInv, LatePolls, [Next]_vars PROVE LatePolls'
  OBVIOUS
<1>0. TypeOK /\ pc \in [Threads -> Places] /\ late \in [Threads -> Nat]
  BY DEF TInv, TypeOK, RunTypes
<1>1. CASE Build \/ FinishBuild
  BY <1>0, <1>1, LateBuild
<1>2. CASE RunConnects \/ RunStep
  BY <1>0, <1>2, LateRun
<1>3. CASE Stop \/ ConnectionLost \/ UNCHANGED vars
  BY <1>3, LateStays DEF Stop, ConnectionLost, vars, run_vars
<1>4. ASSUME NEW t \in Clients, PollOnce(t) \/ PollOnceStep(t) PROVE LatePolls'
  <2>0. t \in Threads
    BY PlacesAre
  <2>1. CASE PollOnce(t)
    BY <1>0, <2>0, <2>1 DEF PollOnce, LatePolls, run_vars
  <2>2. CASE PollOnceReadsConnected(t)
    BY <1>0, <2>0, <2>2 DEF PollOnceReadsConnected, Goes, PollBegins, LatePolls
  <2>3. CASE PollOnceReturns(t)
    BY <1>0, <2>0, <2>3, LateStays DEF PollOnceReturns, Goes, run_vars
  <2> QED
    BY <1>4, <2>1, <2>2, <2>3 DEF PollOnceStep
<1>5. ASSUME NEW t \in Threads,
             Emit(t) \/ PollDelivers(t) \/ PollDiscards(t) \/ EmitStep(t)
      PROVE  LatePolls'
  <2>1. UNCHANGED non_emit_vars
    BY <1>5, EmitLeavesTheRest
  <2> QED
    BY <2>1, LateStays DEF non_emit_vars, run_vars
<1> QED
  BY <1>1, <1>2, <1>3, <1>4, <1>5 DEF Next

(* After a stop() no thread begins a second poll, however many threads poll *)
(* and whatever moment the stop() comes at.                                 *)
THEOREM OneLatePollHolds == Spec => []OneLatePoll
<1>1. Init => LatePolls
  BY DEF Init, LatePolls
<1>2. LatePolls => OneLatePoll
  BY DEF LatePolls, OneLatePoll
<1> QED
  BY TypeInit, TypeStep, LateStep, <1>1, <1>2, PTL DEF Spec

-----------------------------------------------------------------------------
(* OnePassAtATime, again for LateConfig = FALSE: a pass that add_stage()    *)
(* makes longer while it is under way has not gone through all the stages.  *)

(* Whoever is inside process_message() has raised the lock.                 *)
LockedInside == \A t \in Threads : em[t] \notin {"out", "lock"} => locked

LEMMA InsideIsLocked == Spec => []LockedInside
<1>1. Lock!Spec => LockFacts!Spec
  BY SameLock
<1>2. LockFacts!Spec => []LockFacts!FlagMatchesOwner
  BY LockFacts!FlagMatchesOwnerHolds
<1>3. LockFacts!FlagMatchesOwner => LockedInside
  BY DEF LockFacts!FlagMatchesOwner, LockedInside
<1> QED
  BY PipelineUsesSpinlock, <1>1, <1>2, <1>3, PTL DEF SpinlockSpec

(* What the calls since the lock was taken are at each place of a pass.     *)
PassSoFar(t) ==
    /\ em[t] = "copy" => pass = <<>>
    /\ em[t] = "scan" => next[t] <= stage_count + 1 /\ pass = StageVisits(t, next[t] - 1)
    /\ em[t] = "stage" => pass = StageVisits(t, next[t])
    /\ em[t] = "sink" =>
          pass = Append(StageVisits(t, stage_count), [by |-> t, at |-> SinkAt])

PassInv == \A t \in Threads : PassSoFar(t)

LEMMA StageVisitsGrow ==
    ASSUME NEW t \in Threads
    PROVE  /\ StageVisits(t, 0) = <<>>
           /\ \A n \in Nat \ {0} :
                 Append(StageVisits(t, n - 1), [by |-> t, at |-> n]) = StageVisits(t, n)
  BY DEF StageVisits

(* One thread's step inside a pass: the others are outside.                 *)
LEMMA PassOwn ==
    ASSUME TInv, PassInv, NoTwoInside, NEW t \in Threads, em[t] \notin {"out", "lock"},
           \A s \in Threads \ {t} : em'[s] = em[s], PassSoFar(t)'
    PROVE  PassInv'
<1>1. \A s \in Threads \ {t} : em[s] \in {"out", "lock"}
  BY DEF NoTwoInside
<1>2. \A s \in Threads \ {t} : PassSoFar(s)'
  BY <1>1 DEF PassSoFar
<1> QED
  BY <1>2 DEF PassInv

(* Nobody's place in a pass changes, nor what the places are about.         *)
LEMMA PassStays ==
    ASSUME PassInv, UNCHANGED emit_vars, UNCHANGED stage_count \/ \A t \in Threads : em[t] = "out"
    PROVE  PassInv'
  BY DEF PassInv, PassSoFar, emit_vars

LEMMA PassEmit ==
    ASSUME TInv, NoTwoInside, LockedInside, PassInv, NEW t \in Threads,
           Emit(t) \/ PollDelivers(t) \/ PollDiscards(t) \/ EmitStep(t)
    PROVE  PassInv'
<1>0. /\ em \in [Threads -> EmitSteps] /\ stage_count \in Nat /\ MaxStages \in Nat
      /\ next \in [Threads -> 1..MaxStages + 1]
      /\ UNCHANGED stage_count /\ next[t] \in Nat \ {0}
  BY EmitLeavesTheRest, PipelineAssumption
     DEF TInv, TypeOK, EmitTypes, StageTypes, non_emit_vars, stage_vars
<1>1. CASE PollDiscards(t)
  BY <1>1, PassStays DEF PollDiscards, vars, stage_vars
<1>2. CASE em[t] = "out" /\ EmitBegins(t)
  BY <1>0, <1>2 DEF EmitBegins, PassInv, PassSoFar
<1>3. CASE Acquire(t)
  <2>1. CASE locked
    BY <1>0, <1>3, <2>1 DEF Acquire, Steps, PassInv, PassSoFar
  <2>2. CASE ~locked
    <3>1. \A s \in Threads : em[s] \in {"out", "lock"}
      BY <2>2 DEF LockedInside
    <3>2. em'[t] = "copy" /\ pass' = <<>> /\ \A s \in Threads \ {t} : em'[s] = em[s]
      BY <1>0, <1>3, <2>2 DEF Acquire, Steps
    <3> QED
      BY <3>1, <3>2 DEF PassInv, PassSoFar
  <2> QED
    BY <2>1, <2>2
<1>4. CASE \/ FromViewFails(t) \/ StageDrops(t) \/ NoSink(t) \/ SinkReturns(t) \/ Release(t)
  <2>1. /\ em[t] \notin {"out", "lock"} /\ em'[t] \in {"unlock", "out"}
        /\ \A s \in Threads \ {t} : em'[s] = em[s]
    BY <1>0, <1>4 DEF FromViewFails, StageDrops, NoSink, SinkReturns, Release, Steps
  <2>2. PassSoFar(t)'
    BY <2>1 DEF PassSoFar
  <2> QED
    BY <2>1, <2>2, PassOwn
<1>5. CASE FromView(t)
  <2>1. /\ em[t] = "copy" /\ em'[t] = "scan" /\ next'[t] = 1 /\ UNCHANGED pass
        /\ \A s \in Threads \ {t} : em'[s] = em[s]
    BY <1>0, <1>5 DEF FromView, Steps
  <2>2. pass = StageVisits(t, 0)
    BY <2>1, StageVisitsGrow DEF PassInv, PassSoFar
  <2>3. next'[t] - 1 = 0 /\ next'[t] <= stage_count + 1
    BY <1>0, <2>1
  <2>4. pass' = StageVisits(t, next'[t] - 1)
    BY <2>1, <2>2, <2>3
  <2>5. PassSoFar(t)'
    BY <1>0, <2>1, <2>3, <2>4 DEF PassSoFar, StageVisits
  <2> QED
    BY <2>1, <2>5, PassOwn
<1>6. CASE CallStage(t)
  <2>1. /\ em[t] = "scan" /\ em'[t] = "stage" /\ UNCHANGED next
        /\ pass' = Append(pass, [by |-> t, at |-> next[t]])
        /\ \A s \in Threads \ {t} : em'[s] = em[s]
    BY <1>0, <1>6 DEF CallStage, Visit, Steps
  <2>2. pass' = StageVisits(t, next[t])
    BY <1>0, <2>1, StageVisitsGrow DEF PassInv, PassSoFar
  <2>3. PassSoFar(t)'
    BY <2>1, <2>2 DEF PassSoFar, StageVisits
  <2> QED
    BY <2>1, <2>3, PassOwn
<1>7. CASE StagePasses(t)
  <2>1. /\ em[t] = "stage" /\ em'[t] = "scan" /\ next'[t] = next[t] + 1 /\ UNCHANGED pass
        /\ \A s \in Threads \ {t} : em'[s] = em[s]
    BY <1>0, <1>7 DEF StagePasses, Steps
  <2>2. next[t] <= stage_count /\ pass = StageVisits(t, next[t])
    BY <2>1 DEF TInv, StageInRange, PassInv, PassSoFar
  <2>3. next'[t] - 1 = next[t] /\ next'[t] <= stage_count + 1
    BY <1>0, <2>1, <2>2
  <2>4. PassSoFar(t)'
    BY <1>0, <2>1, <2>2, <2>3 DEF PassSoFar, StageVisits
  <2> QED
    BY <2>1, <2>4, PassOwn
<1>8. CASE CallSink(t)
  <2>1. /\ em[t] = "scan" /\ em'[t] = "sink" /\ next[t] > stage_count
        /\ pass' = Append(pass, [by |-> t, at |-> SinkAt])
        /\ \A s \in Threads \ {t} : em'[s] = em[s]
    BY <1>0, <1>8 DEF CallSink, Visit, Steps
  <2>2. next[t] - 1 = stage_count /\ pass = StageVisits(t, next[t] - 1)
    BY <1>0, <2>1 DEF PassInv, PassSoFar
  <2>3. PassSoFar(t)'
    BY <1>0, <2>1, <2>2 DEF PassSoFar, StageVisits, SinkAt
  <2> QED
    BY <2>1, <2>3, PassOwn
<1> QED
  BY <1>1, <1>2, <1>3, <1>4, <1>5, <1>6, <1>7, <1>8
     DEF Emit, PollDelivers, EmitStep, Free, Polling

LEMMA PassStep ==
    /\ TInv /\ NoTwoInside /\ LockedInside /\ PassInv
    /\ LateConfig = FALSE /\ [Next]_vars
    => PassInv'
<1> SUFFICES ASSUME TInv, NoTwoInside, LockedInside, PassInv, LateConfig = FALSE, [Next]_vars
             PROVE  PassInv'
  OBVIOUS
<1>1. ASSUME NEW t \in Threads,
             Emit(t) \/ PollDelivers(t) \/ PollDiscards(t) \/ EmitStep(t)
      PROVE  PassInv'
  BY <1>1, PassEmit
<1>2. CASE AddStage
  <2>1. \A t \in Threads : em[t] = "out"
    BY <1>2 DEF AddStage, MayConfigure, Free, Threads
  <2> QED
    BY <1>2, <2>1, PassStays DEF AddStage
<1>3. ASSUME ~AddStage,
             ~\E t \in Threads : Emit(t) \/ PollDelivers(t) \/ PollDiscards(t) \/ EmitStep(t)
      PROVE  PassInv'
  <2>1. UNCHANGED emit_vars
    BY <1>3, OthersLeaveEmit
  <2>2. UNCHANGED stage_count
    BY <1>3 DEF Next, Build, FinishBuild, RunStep, PollOnceStep, Subscribe, Configure,
        ConnectUri, SetSink, Move, SetStage, FillStage, ResetSink, SetSinkPointers, FillSink,
        RunConnects, ApplyConfig, ConfigApplied, SubscribeSource, AllSubscribed, Abort,
        Start, InstallCallback, LoopReadsRunning, LoopReadsConnected, LoopPollReturns,
        ClearRunning, Disconnect, Stop, ConnectionLost, PollOnce, PollOnceReadsConnected,
        PollOnceReturns, vars, stage_vars
  <2> QED
    BY <2>1, <2>2, PassStays
<1> QED
  BY <1>1, <1>2, <1>3

(* While the pipeline is configured only when nobody uses it, each message  *)
(* goes through the stages by itself, from the first to the last one there  *)
(* is, and the sink sees it only behind all of them.                        *)
THEOREM OnePassAtATimeWhenQuiet ==
    ASSUME LateConfig = FALSE PROVE Spec => []OnePassAtATime
<1>1. Init => PassInv
  BY DEF Init, PassInv, PassSoFar
<1>2. PassInv => OnePassAtATime
  BY DEF PassInv, PassSoFar, OnePassAtATime
<1> QED
  BY TypeInit, TypeStep, StagesAreExclusive, InsideIsLocked, PassStep, <1>1, <1>2, PTL
     DEF Spec
=============================================================================
