---------------------------- MODULE RangePipeline ----------------------------
(***************************************************************************)
(* A pipeline over a range: the source is a range_source (adapt.hpp), the  *)
(* sink pushes into a sink_buffer (as_range.hpp).  Every action is one of  *)
(* Pipeline with what it does to the source's position and to the buffer.  *)
(*                                                                         *)
(* A range_source's calls never fail and it has no lock: the owner's event *)
(* loop is the only one to poll it.  The owner sends nothing but the range,*)
(* clients send messages of their own beside it.                           *)
(***************************************************************************)
EXTENDS Pipeline

CONSTANTS
    Length,        \* the elements from begin_ to end_
    ClientEmits    \* bound: messages a client sends

ASSUME RangeAssumption == Length \in Nat /\ ClientEmits \in 0..MaxEmits

VARIABLES
    current,       \* current_, as the number of the element it points at
    handing,       \* poll() is in the callback, or behind it, for that element
    messages,      \* the slots of the sink_buffer
    count          \* how many of them it has filled

(* What the source and the buffer did, kept to state properties. *)
VARIABLES
    handed,        \* the elements this run has handed to the callback
    cut,           \* user code has disconnected the source during this run
    given          \* the messages the buffer was given since clear() and could hold

range_vars == <<current, handing, handed, cut>>
buffer_vars == <<messages, count, given>>
all_vars == <<vars, range_vars, buffer_vars>>

MaxMessages == 2 * MaxStages
NoMessage == [by |-> Owner, no |-> 0]

RangeInit ==
    /\ Init
    /\ current = 1 /\ handing = FALSE
    /\ handed = <<>> /\ cut = FALSE
    /\ messages = [i \in 1..MaxMessages |-> NoMessage] /\ count = 0
    /\ given = <<>>

-----------------------------------------------------------------------------
(* run() *)

\* Slip: connect() leaves the position where the last run left it.
NoRewind ==
    /\ sent[Owner] + Length <= MaxEmits
    /\ RunConnects
    /\ handed' = <<>> /\ cut' = FALSE
    /\ UNCHANGED <<current, handing, buffer_vars>>

RangeConnects ==
    /\ sent[Owner] + Length <= MaxEmits
    /\ RunConnects
    /\ current' = 1
    /\ handed' = <<>> /\ cut' = FALSE
    /\ UNCHANGED <<handing, buffer_vars>>

(* The rest of run() but for poll(); subscribe() and disconnect() always      *)
(* succeed.                                                                   *)
RunGoesOn ==
    /\ pc[Owner] # "poll" /\ RunStep
    /\ pc[Owner] = "subscribe" => pc'[Owner] # "abort"
    /\ ~refused'
    /\ UNCHANGED <<range_vars, buffer_vars>>

(* poll() goes to the end of the range, whatever becomes of running_ and of  *)
(* connected_ meanwhile, and disconnects behind it.                          *)
AtEnd == ~handing /\ current > Length

HandElement ==
    /\ ~handing /\ current <= Length
    /\ pc[Owner] = "poll" /\ PollDelivers(Owner)
    /\ handing' = TRUE
    /\ handed' = Append(handed, current)
    /\ UNCHANGED <<current, cut, buffer_vars>>

NextElement ==
    /\ handing /\ em[Owner] = "out"
    /\ handing' = FALSE
    /\ current' = current + 1
    /\ UNCHANGED <<vars, handed, cut, buffer_vars>>

EndDisconnects ==
    /\ pc[Owner] = "poll" /\ AtEnd
    /\ ConnectionLost
    /\ UNCHANGED <<range_vars, buffer_vars>>

\* Slip: poll() leaves the source connected.
ReturnConnected ==
    /\ AtEnd
    /\ LoopPollReturns
    /\ UNCHANGED <<range_vars, buffer_vars>>

PollReturns ==
    /\ AtEnd /\ ~connected
    /\ LoopPollReturns
    /\ UNCHANGED <<range_vars, buffer_vars>>

(* User code in the owner's thread, a config op, a stage or the sink,        *)
(* disconnects the source it was given or finds through source().            *)
UserDisconnects ==
    /\ \/ pc[Owner] = "configure" /\ applied < config_count
       \/ em[Owner] \in {"stage", "sink"}
    /\ ConnectionLost
    /\ cut' = TRUE
    /\ UNCHANGED <<current, handing, handed, buffer_vars>>

-----------------------------------------------------------------------------
(* push(), as the sink calls it; a message may be too long for the buffer's  *)
(* own Config.                                                               *)
Last == log[Len(log)]

\* Slip: the count goes up also where from_view() has failed.
PushCountsAll(t) ==
    /\ SinkReturns(t)
    /\ \/ /\ given' = Append(given, Last)
          /\ count' = IF count < MaxMessages THEN count + 1 ELSE count
          /\ messages' = IF count < MaxMessages THEN [messages EXCEPT ![count + 1] = Last]
                         ELSE messages
       \/ count' = (IF count < MaxMessages THEN count + 1 ELSE count) /\ UNCHANGED <<messages, given>>
    /\ UNCHANGED range_vars

Push(t) ==
    /\ SinkReturns(t)
    /\ \/ UNCHANGED buffer_vars
       \/ /\ given' = Append(given, Last)
          /\ IF count < MaxMessages
             THEN count' = count + 1 /\ messages' = [messages EXCEPT ![count + 1] = Last]
             ELSE UNCHANGED <<messages, count>>
    /\ UNCHANGED range_vars

(* The owner clears the buffer while nobody is in emit(). *)
Clear ==
    /\ Free(Owner) /\ \A c \in Clients : em[c] = "out"
    /\ count' = 0 /\ given' = <<>>
    /\ UNCHANGED <<vars, range_vars, messages>>

-----------------------------------------------------------------------------
(* What touches neither the range nor the buffer. *)
Configures == (Build \/ FinishBuild) /\ UNCHANGED <<range_vars, buffer_vars>>
Stops == Stop /\ UNCHANGED <<range_vars, buffer_vars>>
ClientSends(c) ==
    sent[c] < ClientEmits /\ Emit(c) /\ UNCHANGED <<range_vars, buffer_vars>>
EmitGoesOn(t) ==
    em[t] # "sink" /\ EmitStep(t) /\ UNCHANGED <<range_vars, buffer_vars>>

PollStep == HandElement \/ NextElement \/ EndDisconnects \/ PollReturns

RangeNext ==
    \/ Configures \/ Stops \/ UserDisconnects \/ Clear
    \/ RangeConnects \/ RunGoesOn \/ PollStep
    \/ \E c \in Clients : ClientSends(c)
    \/ \E t \in Threads : EmitGoesOn(t) \/ Push(t)

(* As in Pipeline; a poll() that has begun goes through its range. *)
RangeFairness ==
    /\ WF_all_vars(RunGoesOn) /\ WF_all_vars(PollStep)
    /\ \A t \in Threads : WF_all_vars(EmitGoesOn(t) \/ Push(t))

RangeSpec == RangeInit /\ [][RangeNext]_all_vars /\ RangeFairness

-----------------------------------------------------------------------------
(* A run() that came through its loop has handed out every element once, in *)
(* order, from the first, however often the range was run before and where  *)
(* a stop() or a disconnect() came while it was being polled; or nothing at *)
(* all, and then only because of a stop() or a disconnect().                *)
RunGoesThroughRange ==
    pc[Owner] \in {"clear", "disconnect"} =>
        \/ handed = [i \in 1..Length |-> i]
        \/ handed = <<>> /\ (stop_asked \/ cut)

(* The buffer has the first messages that it could hold, in the order the   *)
(* sink saw them, whoever sent them and whatever it had before clear(); the *)
(* rest is dropped, and none that does not fit leaves a gap or takes a slot.*)
BufferKeepsFirst ==
    /\ count = IF Len(given) < MaxMessages THEN Len(given) ELSE MaxMessages
    /\ \A i \in 1..count : messages[i] = given[i]

(* A run over a range returns by itself, without a stop(), and whatever its *)
(* stages and its clients do.                                               *)
RunEndsByItself == pc[Owner] \in RunSteps ~> pc[Owner] = "idle"
=============================================================================
