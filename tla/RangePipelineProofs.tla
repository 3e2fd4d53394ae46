------------------------ MODULE RangePipelineProofs -------------------------
(***************************************************************************)
(* The pipeline over a range, for any range, buffer, stages and clients.   *)
(*                                                                         *)
(* Every step of it is one of Pipeline's, so what is proved of Pipeline    *)
(* holds here.  The run over the range is an argument about the owner      *)
(* alone: the position is at the first element or behind the last whenever *)
(* the owner is not in poll(), and nothing takes it out of its loop before *)
(* the end of the range but what stop() or a disconnect() left behind.     *)
(***************************************************************************)
EXTENDS RangePipeline, PipelineProofs

(* Every step of the pipeline over a range is a step of the pipeline. *)
LEMMA RangeStep == [RangeNext]_all_vars => [Next]_vars
<1> SUFFICES ASSUME [RangeNext]_all_vars PROVE [Next]_vars
  OBVIOUS
<1>1. CASE Configures \/ Stops \/ UserDisconnects \/ Clear \/ RangeConnects
  BY <1>1 DEF Configures, Stops, UserDisconnects, Clear, RangeConnects, Next
<1>2. CASE RunGoesOn
  BY <1>2 DEF RunGoesOn, Next
<1>3. CASE PollStep
  <2>1. CASE HandElement
    BY <2>1, PlacesAre DEF HandElement, Next
  <2>2. CASE NextElement
    BY <2>2 DEF NextElement
  <2>3. CASE EndDisconnects \/ PollReturns
    BY <2>3 DEF EndDisconnects, PollReturns, RunStep, Next
  <2> QED
    BY <1>3, <2>1, <2>2, <2>3 DEF PollStep
<1>4. ASSUME NEW c \in Clients, ClientSends(c) PROVE Next
  BY <1>4, PlacesAre DEF ClientSends, Next
<1>5. ASSUME NEW t \in Threads, EmitGoesOn(t) \/ Push(t) PROVE Next
  BY <1>5 DEF EmitGoesOn, Push, EmitStep, Next
<1>6. CASE UNCHANGED all_vars
  BY <1>6 DEF all_vars
<1> QED
  BY <1>1, <1>2, <1>3, <1>4, <1>5, <1>6 DEF RangeNext

(* A pipeline over a range is a pipeline. *)
THEOREM RangeIsPipeline == RangeSpec => Spec
<1>1. RangeInit => Init
  BY DEF RangeInit
<1> QED
  BY <1>1, RangeStep, PTL DEF RangeSpec, Spec

-----------------------------------------------------------------------------
(* The elements up to the n-th. *)
UpTo(n) == [i \in 1..n |-> i]

Position ==
    /\ current \in 1..Length + 1
    /\ handing \in BOOLEAN
    /\ handing => pc[Owner] = "poll" /\ current <= Length
    /\ handed = UpTo(IF handing THEN current ELSE current - 1)

(* run() looks at the source only between two ways through the range. *)
BetweenPolls ==
    /\ pc[Owner] \in {"configure", "subscribe", "abort", "start", "install"} => current = 1
    /\ pc[Owner] \in {"loop", "loop_conn", "clear", "disconnect"} =>
          current \in {1, Length + 1}

(* What can take run() out of its loop, and what it must have left. *)
WhyItEnds ==
    /\ pc[Owner] \in {"install"} \cup InLoop => running \/ stop_asked
    /\ pc[Owner] \in RunSteps \ {"clear", "disconnect"} =>
          connected \/ cut \/ current = Length + 1
    /\ pc[Owner] \in {"clear", "disconnect"} => stop_asked \/ cut \/ current = Length + 1

RunInv == Position /\ BetweenPolls /\ WhyItEnds

LEMMA UpToTypes ==
    /\ \A n \in Nat : UpTo(n) \in Seq(Nat) /\ Len(UpTo(n)) = n
    /\ UpTo(0) = <<>>
<1>1. ASSUME NEW n \in Nat PROVE UpTo(n) \in Seq(Nat) /\ Len(UpTo(n)) = n
  BY DEF UpTo
<1>2. UpTo(0) = <<>>
  <2>1. UpTo(0) \in Seq(Nat) /\ Len(UpTo(0)) = 0 /\ <<>> \in Seq(Nat) /\ Len(<<>>) = 0
    BY <1>1
  <2> QED
    BY <2>1
<1> QED
  BY <1>1, <1>2

LEMMA UpToGrows == ASSUME NEW n \in Nat PROVE Append(UpTo(n), n + 1) = UpTo(n + 1)
<1>1. UpTo(n) \in Seq(Nat) /\ Len(UpTo(n)) = n
  BY UpToTypes
<1>2. Append(UpTo(n), n + 1) \in Seq(Nat) /\ Len(Append(UpTo(n), n + 1)) = n + 1
  BY <1>1
<1>3. UpTo(n + 1) \in Seq(Nat) /\ Len(UpTo(n + 1)) = n + 1
  BY UpToTypes
<1>4. ASSUME NEW i \in 1..n + 1 PROVE Append(UpTo(n), n + 1)[i] = UpTo(n + 1)[i]
  BY <1>1 DEF UpTo
<1> QED
  BY <1>2, <1>3, <1>4, SequenceExtensionality

LEMMA RunInit == RangeInit => RunInv
<1> SUFFICES ASSUME RangeInit PROVE RunInv
  OBVIOUS
<1>1. pc[Owner] = "idle"
  BY PlacesAre DEF RangeInit, Init
<1>2. current = 1 /\ handing = FALSE /\ handed = UpTo(0) /\ Length \in Nat
  BY UpToTypes, RangeAssumption DEF RangeInit
<1>3. Position
  <2>1. (IF handing THEN current ELSE current - 1) = 0 /\ current \in 1..Length + 1
    BY <1>2
  <2> QED
    BY <1>2, <2>1 DEF Position
<1> QED
  BY <1>1, <1>3 DEF RunInv, BetweenPolls, WhyItEnds, RunSteps, InLoop

(* A step that leaves the owner, the range and the flags alone. *)
LEMMA RunStays ==
    ASSUME RunInv, UNCHANGED <<current, handing, handed>>, pc'[Owner] = pc[Owner],
           running' = running \/ stop_asked', connected' = connected \/ cut' \/ current = Length + 1,
           stop_asked => stop_asked' \/ pc[Owner] \notin RunSteps, cut => cut'
    PROVE  RunInv'
<1>1. Position' /\ BetweenPolls'
  BY DEF RunInv, Position, BetweenPolls
<1>2. {"clear", "disconnect", "install"} \cup InLoop \subseteq RunSteps
  BY DEF RunSteps, InLoop
<1>3. ASSUME pc[Owner] \in RunSteps, stop_asked \/ cut PROVE stop_asked' \/ cut'
  BY <1>3
<1>4. ASSUME pc[Owner] \in {"install"} \cup InLoop PROVE running' \/ stop_asked'
  BY <1>2, <1>4 DEF RunInv, WhyItEnds
<1>5. ASSUME pc[Owner] \in RunSteps \ {"clear", "disconnect"}
      PROVE  connected' \/ cut' \/ current = Length + 1
  BY <1>5 DEF RunInv, WhyItEnds
<1>6. ASSUME pc[Owner] \in {"clear", "disconnect"}
      PROVE  stop_asked' \/ cut' \/ current = Length + 1
  BY <1>2, <1>3, <1>6 DEF RunInv, WhyItEnds
<1>7. WhyItEnds'
  BY <1>4, <1>5, <1>6 DEF WhyItEnds
<1> QED
  BY <1>1, <1>7 DEF RunInv

LEMMA RunGoesOnStep == ASSUME TInv, RunInv, RunGoesOn PROVE RunInv'
<1> USE DEF RunInv
<1>1. /\ UNCHANGED <<current, handing, handed, cut>> /\ pc[Owner] # "poll" /\ RunStep
      /\ pc \in [Threads -> Places] /\ Owner \in Threads
  BY PlacesAre DEF RunGoesOn, range_vars, TInv, TypeOK
<1>2. ~handing
  BY <1>1 DEF Position
<1>3. Position'
  BY <1>1, <1>2 DEF Position
<1>4. CASE ApplyConfig \/ ConfigApplied \/ SubscribeSource \/ AllSubscribed
  <2>1. /\ pc[Owner] \in {"configure", "subscribe"}
        /\ pc'[Owner] \in {"configure", "subscribe", "abort", "start"}
        /\ UNCHANGED <<connected, running>>
    BY <1>1, <1>4 DEF ApplyConfig, ConfigApplied, SubscribeSource, AllSubscribed, Goes,
                      source_vars, run_vars
  <2> QED
    BY <1>1, <1>3, <2>1 DEF BetweenPolls, WhyItEnds, RunSteps, InLoop
<1>5. CASE Abort \/ Disconnect
  <2>1. pc'[Owner] = "idle"
    BY <1>1, <1>5 DEF Abort, Disconnect, Goes
  <2> QED
    BY <1>3, <2>1 DEF BetweenPolls, WhyItEnds, RunSteps, InLoop
<1>6. CASE Start \/ InstallCallback
  <2>1. /\ pc[Owner] \in {"start", "install"} /\ UNCHANGED <<connected, stop_asked>>
        /\ \/ pc'[Owner] = "install" /\ running'
           \/ pc[Owner] = "install" /\ pc'[Owner] = "loop" /\ running' = running
    BY <1>1, <1>6 DEF Start, InstallCallback, Goes, source_vars, run_vars
  <2> QED
    BY <1>1, <1>3, <2>1 DEF BetweenPolls, WhyItEnds, RunSteps, InLoop
<1>7. CASE LoopReadsRunning
  <2>1. /\ pc[Owner] = "loop" /\ UNCHANGED <<connected, running, stop_asked>>
        /\ \/ running /\ pc'[Owner] = "loop_conn"
           \/ ~running /\ pc'[Owner] = "clear"
    BY <1>1, <1>7 DEF LoopReadsRunning, Goes, source_vars, run_vars
  <2> QED
    BY <1>1, <1>3, <2>1 DEF BetweenPolls, WhyItEnds, RunSteps, InLoop
<1>8. CASE LoopReadsConnected
  <2>1. /\ pc[Owner] = "loop_conn" /\ UNCHANGED <<connected, running, stop_asked>>
        /\ \/ connected /\ pc'[Owner] = "poll"
           \/ ~connected /\ pc'[Owner] = "clear"
    BY <1>1, <1>8 DEF LoopReadsConnected, Goes, source_vars
  <2> QED
    BY <1>1, <1>3, <2>1 DEF BetweenPolls, WhyItEnds, RunSteps, InLoop
<1>9. CASE ClearRunning
  <2>1. pc[Owner] = "clear" /\ pc'[Owner] = "disconnect" /\ UNCHANGED <<connected, stop_asked>>
    BY <1>1, <1>9 DEF ClearRunning, Goes, source_vars
  <2> QED
    BY <1>1, <1>3, <2>1 DEF BetweenPolls, WhyItEnds, RunSteps, InLoop
<1>10. ~LoopPollReturns
  BY <1>1 DEF LoopPollReturns, Goes
<1> QED
  BY <1>1, <1>4, <1>5, <1>6, <1>7, <1>8, <1>9, <1>10 DEF RunStep

LEMMA PollStepStep == ASSUME TInv, RunInv, PollStep PROVE RunInv'
<1>0. pc \in [Threads -> Places] /\ Owner \in Threads /\ Length \in Nat
  BY PlacesAre, RangeAssumption DEF TInv, TypeOK
<1>1. CASE HandElement
  <2>1. UNCHANGED <<pc, connected, running, stop_asked, cut, current>>
    BY <1>1 DEF HandElement, PollDelivers, non_emit_vars, source_vars, run_vars
  <2>2. /\ pc[Owner] = "poll" /\ ~handing /\ handing' = TRUE
        /\ current <= Length /\ handed' = Append(handed, current)
    BY <1>1 DEF HandElement
  <2>3. current \in 1..Length + 1 /\ handed = UpTo(current - 1)
    BY <2>2 DEF RunInv, Position
  <2>4. handed' = UpTo(current)
    <3>1. current - 1 \in Nat /\ (current - 1) + 1 = current
      BY <1>0, <2>3
    <3> QED
      BY <2>2, <2>3, <3>1, UpToGrows
  <2>5. Position'
    BY <2>1, <2>2, <2>3, <2>4 DEF Position
  <2>6. BetweenPolls' /\ WhyItEnds'
    BY <2>1 DEF RunInv, BetweenPolls, WhyItEnds
  <2> QED
    BY <2>5, <2>6 DEF RunInv
<1>2. CASE NextElement
  <2>1. UNCHANGED <<pc, connected, running, stop_asked, cut, handed>>
    BY <1>2 DEF NextElement, vars, source_vars, run_vars
  <2>2. handing /\ handing' = FALSE /\ current' = current + 1
    BY <1>2 DEF NextElement
  <2>3. /\ current \in 1..Length + 1 /\ current <= Length /\ handed = UpTo(current)
        /\ pc[Owner] = "poll"
    BY <2>2 DEF RunInv, Position
  <2>4. current' \in 1..Length + 1 /\ current' - 1 = current
    BY <1>0, <2>2, <2>3
  <2>5. Position'
    BY <2>1, <2>2, <2>3, <2>4 DEF Position
  <2>6. BetweenPolls'
    BY <2>1, <2>3 DEF BetweenPolls
  <2>7. WhyItEnds'
    <3>1. connected \/ cut
      BY <1>0, <2>3 DEF RunInv, WhyItEnds, RunSteps, InLoop
    <3> QED
      BY <2>1, <2>3, <3>1 DEF RunInv, WhyItEnds
  <2> QED
    BY <2>5, <2>6, <2>7 DEF RunInv
<1>3. CASE EndDisconnects
  <2>1. /\ UNCHANGED <<current, handing, handed, cut, pc, running, stop_asked>>
        /\ current > Length
    BY <1>3 DEF EndDisconnects, ConnectionLost, AtEnd, range_vars, run_vars
  <2>2. current = Length + 1
    BY <1>0, <2>1 DEF RunInv, Position
  <2> QED
    BY <2>1, <2>2, RunStays
<1>4. CASE PollReturns
  <2>1. /\ UNCHANGED <<current, handing, handed, cut, connected, running, stop_asked>>
        /\ current > Length /\ ~handing /\ pc[Owner] = "poll" /\ pc'[Owner] = "loop"
    BY <1>0, <1>4 DEF PollReturns, LoopPollReturns, Goes, AtEnd, range_vars, run_vars, source_vars
  <2>2. current = Length + 1
    BY <1>0, <2>1 DEF RunInv, Position
  <2> QED
    BY <2>1, <2>2 DEF RunInv, Position, BetweenPolls, WhyItEnds, RunSteps, InLoop
<1> QED
  BY <1>1, <1>2, <1>3, <1>4 DEF PollStep

LEMMA RunInvStep == TInv /\ RunInv /\ [RangeNext]_all_vars => RunInv'
<1> SUFFICES ASSUME TInv, RunInv, [RangeNext]_all_vars PROVE RunInv'
  OBVIOUS
<1>0. pc \in [Threads -> Places] /\ Owner \in Threads /\ Length \in Nat
  BY PlacesAre, RangeAssumption DEF TInv, TypeOK
<1>1. CASE Configures
  <2>1. UNCHANGED <<current, handing, handed, cut>> /\ (Build \/ FinishBuild)
    BY <1>1 DEF Configures, range_vars
  <2>2. pc[Owner] \in {"idle"} \cup BuilderSteps /\ pc'[Owner] \in {"idle"} \cup BuilderSteps
    BY <1>0, <2>1
       DEF Build, FinishBuild, Subscribe, Configure, ConnectUri, AddStage, SetSink, Move,
           MovesAlong, SetStage, FillStage, ResetSink, SetSinkPointers, FillSink, Free, Goes,
           BuilderSteps
  <2> QED
    BY <2>1, <2>2 DEF RunInv, Position, BetweenPolls, WhyItEnds, BuilderSteps, RunSteps, InLoop
<1>2. CASE Stops
  <2>1. /\ UNCHANGED <<current, handing, handed, cut, pc, connected>>
        /\ running' = FALSE /\ stop_asked' = (pc[Owner] \in RunSteps)
    BY <1>2 DEF Stops, Stop, range_vars, source_vars
  <2> QED
    BY <2>1 DEF RunInv, Position, BetweenPolls, WhyItEnds, RunSteps, InLoop
<1>3. CASE UserDisconnects
  <2>1. UNCHANGED <<current, handing, handed, pc, running, stop_asked>> /\ cut'
    BY <1>3 DEF UserDisconnects, ConnectionLost, run_vars
  <2> QED
    BY <2>1, RunStays
<1>4. CASE Clear
  <2>1. UNCHANGED <<current, handing, handed, cut, pc, connected, running, stop_asked>>
    BY <1>4 DEF Clear, vars, range_vars, source_vars, run_vars
  <2> QED
    BY <2>1, RunStays
<1>5. CASE RangeConnects
  <2>1. /\ pc[Owner] = "idle" /\ pc'[Owner] = "configure" /\ connected' = TRUE
        /\ current' = 1 /\ handed' = UpTo(0) /\ handing' = handing
    BY <1>0, <1>5, UpToTypes DEF RangeConnects, RunConnects, Free
  <2>2. ~handing
    BY <2>1 DEF RunInv, Position
  <2> QED
    BY <1>0, <2>1, <2>2 DEF RunInv, Position, BetweenPolls, WhyItEnds, RunSteps, InLoop
<1>6. ASSUME NEW t \in Threads, ClientSends(t) \/ EmitGoesOn(t) \/ Push(t) PROVE RunInv'
  <2>1. UNCHANGED <<current, handing, handed, cut, non_emit_vars>>
    BY <1>6, EmitLeavesTheRest, PlacesAre DEF ClientSends, EmitGoesOn, Push, range_vars, EmitStep
  <2> QED
    BY <2>1, RunStays DEF non_emit_vars, source_vars, run_vars
<1>7. CASE UNCHANGED all_vars
  <2>1. UNCHANGED <<current, handing, handed, cut, pc, connected, running, stop_asked>>
    BY <1>7 DEF all_vars, vars, range_vars, source_vars, run_vars
  <2> QED
    BY <2>1, RunStays
<1> QED
  BY <1>1, <1>2, <1>3, <1>4, <1>5, <1>6, <1>7, RunGoesOnStep, PollStepStep, PlacesAre DEF RangeNext

(* Any range, run any number of times, is handed out whole and in order, or *)
(* not at all because of a stop() or a disconnect().                        *)
THEOREM RunGoesThroughRangeHolds == RangeSpec => []RunGoesThroughRange
<1>1. RunInv => RunGoesThroughRange
  <2> SUFFICES ASSUME RunInv, pc[Owner] \in {"clear", "disconnect"}
               PROVE  \/ handed = UpTo(Length)
                      \/ handed = <<>> /\ (stop_asked \/ cut)
    BY DEF RunGoesThroughRange, UpTo
  <2>1. /\ ~handing /\ handed = UpTo(current - 1) /\ current \in {1, Length + 1}
        /\ stop_asked \/ cut \/ current = Length + 1
    BY DEF RunInv, Position, BetweenPolls, WhyItEnds
  <2> QED
    BY <2>1, UpToTypes, RangeAssumption
<1>2. RangeInit => TInv
  BY TypeInit DEF RangeInit
<1>3. TInv /\ [RangeNext]_all_vars => TInv'
  BY TypeStep, RangeStep
<1> QED
  BY <1>1, <1>2, <1>3, RunInit, RunInvStep, PTL DEF RangeSpec

-----------------------------------------------------------------------------
(* The buffer *)

SinkSawOne == \A t \in Threads : em[t] = "sink" => Len(log) > 0

BufferTypes ==
    /\ messages \in [1..MaxMessages -> Messages \cup {NoMessage}]
    /\ count \in 0..MaxMessages
    /\ given \in Seq(Messages)

BufferInv == SinkSawOne /\ BufferTypes /\ BufferKeepsFirst

LEMMA BufferInit == RangeInit => BufferInv
<1> SUFFICES ASSUME RangeInit PROVE BufferInv
  OBVIOUS
<1>1. SinkSawOne
  BY DEF RangeInit, Init, SinkSawOne
<1>2. MaxMessages \in Nat
  BY PipelineAssumption DEF MaxMessages
<1>3. BufferTypes /\ BufferKeepsFirst
  BY <1>2 DEF RangeInit, BufferTypes, BufferKeepsFirst
<1> QED
  BY <1>1, <1>3 DEF BufferInv

(* A thread comes to the sink by a message in the log, which only grows. *)
LEMMA SinkSeesStep == TInv /\ SinkSawOne /\ [Next]_vars => SinkSawOne'
<1> SUFFICES ASSUME TInv, SinkSawOne, [Next]_vars PROVE SinkSawOne'
  OBVIOUS
<1>0. em \in [Threads -> EmitSteps] /\ log \in Seq(Messages)
  BY DEF TInv, TypeOK, EmitTypes
<1>1. ASSUME NEW t \in Threads, Emit(t) \/ PollDelivers(t) \/ EmitStep(t), ~CallSink(t)
      PROVE  SinkSawOne'
  <2>1. UNCHANGED log /\ em'[t] # "sink" /\ \A u \in Threads \ {t} : em'[u] = em[u]
    BY <1>0, <1>1 DEF Emit, PollDelivers, EmitBegins, EmitStep, Acquire, FromViewFails, FromView,
              CallStage, StagePasses, StageDrops, NoSink, SinkReturns, Release, Steps
  <2> QED
    BY <2>1 DEF SinkSawOne
<1>2. ASSUME NEW t \in Threads, CallSink(t) PROVE SinkSawOne'
  <2>1. [by |-> t, no |-> sent[t]] \in Messages
    BY <1>2, PipelineAssumption DEF CallSink, Steps, TInv, TypeOK, EmitTypes, CallersHaveSent, Messages
  <2>2. Len(log') > 0
    BY <1>0, <1>2, <2>1 DEF CallSink
  <2> QED
    BY <2>2 DEF SinkSawOne
<1>3. ASSUME UNCHANGED emit_vars PROVE SinkSawOne'
  BY <1>3 DEF emit_vars, SinkSawOne
<1>4. CASE \E t \in Threads : Emit(t) \/ PollDelivers(t) \/ EmitStep(t)
  BY <1>1, <1>2, <1>4
<1>5. CASE ~\E t \in Threads : Emit(t) \/ PollDelivers(t) \/ EmitStep(t)
  <2>1. UNCHANGED emit_vars
    <3>1. CASE \E t \in Threads : PollDiscards(t)
      BY <3>1 DEF PollDiscards, vars
    <3>2. CASE ~\E t \in Threads : PollDiscards(t)
      BY <1>5, <3>2, OthersLeaveEmit
    <3> QED
      BY <3>1, <3>2
  <2> QED
    BY <1>3, <2>1
<1> QED
  BY <1>4, <1>5

LEMMA BufferStays ==
    ASSUME BufferTypes, BufferKeepsFirst, UNCHANGED buffer_vars
    PROVE  BufferTypes' /\ BufferKeepsFirst'
  BY DEF BufferTypes, BufferKeepsFirst, buffer_vars

LEMMA BufferStep == TInv /\ BufferInv /\ [RangeNext]_all_vars => BufferInv'
<1> SUFFICES ASSUME TInv, BufferInv, [RangeNext]_all_vars PROVE BufferInv'
  OBVIOUS
<1>0. SinkSawOne' /\ BufferTypes /\ BufferKeepsFirst /\ MaxMessages \in Nat
  BY RangeStep, SinkSeesStep, PipelineAssumption DEF BufferInv, MaxMessages
<1>1. CASE Clear
  BY <1>0, <1>1 DEF Clear, BufferInv, BufferTypes, BufferKeepsFirst
<1>2. ASSUME NEW t \in Threads, Push(t), given' = Append(given, Last) PROVE BufferInv'
  <2>1. Last \in Messages
    <3>1. Len(log) > 0 /\ log \in Seq(Messages)
      BY <1>2 DEF Push, SinkReturns, Steps, BufferInv, SinkSawOne, TInv, TypeOK, EmitTypes
    <3> QED
      BY <3>1 DEF Last
  <2>2. /\ given' \in Seq(Messages) /\ Len(given') = Len(given) + 1
        /\ given'[Len(given) + 1] = Last
        /\ \A i \in 1..Len(given) : given'[i] = given[i]
    BY <1>0, <1>2, <2>1 DEF BufferTypes
  <2>3. /\ count \in 0..MaxMessages /\ messages \in [1..MaxMessages -> Messages \cup {NoMessage}]
        /\ Len(given) \in Nat
        /\ count = IF Len(given) < MaxMessages THEN Len(given) ELSE MaxMessages
        /\ \A i \in 1..count : messages[i] = given[i]
    BY <1>0 DEF BufferTypes, BufferKeepsFirst
  <2>4. CASE count < MaxMessages
    <3>1. count' = count + 1 /\ messages' = [messages EXCEPT ![count + 1] = Last]
          /\ count = Len(given)
      BY <1>0, <1>2, <2>2, <2>3, <2>4 DEF Push, buffer_vars
    <3>2. BufferTypes'
      BY <1>0, <2>1, <2>2, <2>3, <2>4, <3>1 DEF BufferTypes
    <3>3. BufferKeepsFirst'
      BY <1>0, <2>1, <2>2, <2>3, <2>4, <3>1 DEF BufferKeepsFirst
    <3> QED
      BY <1>0, <3>2, <3>3 DEF BufferInv
  <2>5. CASE count >= MaxMessages
    <3>1. UNCHANGED <<messages, count>> /\ count = MaxMessages
      BY <1>0, <1>2, <2>2, <2>3, <2>5 DEF Push, buffer_vars
    <3>2. BufferTypes' /\ BufferKeepsFirst'
      BY <1>0, <2>2, <2>3, <3>1 DEF BufferTypes, BufferKeepsFirst
    <3> QED
      BY <1>0, <3>2 DEF BufferInv
  <2> QED
    BY <1>0, <2>3, <2>4, <2>5
<1>3. ASSUME UNCHANGED buffer_vars PROVE BufferInv'
  BY <1>0, <1>3, BufferStays DEF BufferInv
<1>4. CASE \E t \in Threads : Push(t)
  BY <1>2, <1>3, <1>4 DEF Push
<1>5. CASE ~Clear /\ ~\E t \in Threads : Push(t)
  <2>1. UNCHANGED buffer_vars
    BY <1>5 DEF RangeNext, Configures, Stops, UserDisconnects, RangeConnects, RunGoesOn,
                PollStep, HandElement, NextElement, EndDisconnects, PollReturns,
                ClientSends, EmitGoesOn, all_vars
  <2> QED
    BY <1>3, <2>1
<1> QED
  BY <1>1, <1>4, <1>5

(* A buffer of any size keeps the first messages that it could hold, of     *)
(* whatever threads, and drops the rest.                                    *)
THEOREM BufferKeepsFirstHolds == RangeSpec => []BufferKeepsFirst
<1>1. BufferInv => BufferKeepsFirst
  BY DEF BufferInv
<1>2. RangeInit => TInv
  BY TypeInit DEF RangeInit
<1>3. TInv /\ [RangeNext]_all_vars => TInv'
  BY TypeStep, RangeStep
<1> QED
  BY <1>1, <1>2, <1>3, BufferInit, BufferStep, PTL DEF RangeSpec
=============================================================================
