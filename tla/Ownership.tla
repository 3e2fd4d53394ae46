----------------------------- MODULE Ownership -----------------------------
(***************************************************************************)
(* Who owns a callable or a source while pipelines are moved about:        *)
(* small_function and any_source (type-erased boxes: pointers beside raw   *)
(* storage), and the moves of basic_pipeline, which move the boxes one by  *)
(* one (pipeline.hpp, small_function.hpp, any_source.hpp, stages.hpp).     *)
(*                                                                         *)
(* A box is well used when its pointers are set exactly while an object    *)
(* lives in its storage.  Nothing checks that: a destructor run on empty   *)
(* storage, or storage filled over a living object, goes unnoticed.        *)
(*                                                                         *)
(* The application treats a pipeline it has moved from as C++ has it: it   *)
(* assigns to it or destroys it, and nothing else.  It leaves a pipeline   *)
(* where it is while it runs.                                              *)
(***************************************************************************)
EXTENDS Naturals, Sequences, FiniteSets

CONSTANTS
    Places,        \* where a pipeline object can be
    Callables,     \* what boxes hold: sources, stages and sinks
    MaxStages,     \* Config::max_stages
    None, Nowhere

ASSUME OwnershipAssumption ==
    None \notin Callables /\ Nowhere \notin Places /\ MaxStages \in Nat

(* The boxes of a pipeline: source_, stages_ and sink_. *)
Source == 0
Sink == MaxStages + 1
Parts == Source..Sink

VARIABLES
    place,         \* each place: "free", a pipeline "ready" for use, or one moved from
    box,           \* each place: the boxes of its pipeline
    count,         \* each place: the pipeline's stage_count_
    target,        \* each source: the pipeline its message callback captured
    running,       \* the place of the pipeline whose run() is under way
    installed      \* that run() has installed its callback

(* What was handed to the pipelines and what became of it. *)
VARIABLES
    made,          \* the callables that were handed in
    gone,          \* those whose destructor has run
    built          \* each place: what its pipeline was built from

held_vars == <<place, box, count, made, gone, built>>
vars == <<held_vars, target, running, installed>>

Boxes == [set : BOOLEAN, obj : Callables \cup {None}]
Empty == [source |-> None, stages |-> <<>>, sink |-> None]

Records == [source : Callables \cup {None}, stages : Seq(Callables),
            sink : Callables \cup {None}]

TypeOK ==
    /\ place \in [Places -> {"free", "ready", "left"}]
    /\ box \in [Places -> [Parts -> Boxes]]
    /\ count \in [Places -> 0..MaxStages]
    /\ target \in [Callables -> Places \cup {Nowhere}]
    /\ running \in Places \cup {Nowhere}
    /\ installed \in BOOLEAN
    /\ made \subseteq Callables /\ gone \subseteq Callables
    /\ built \in [Places -> Records]

-----------------------------------------------------------------------------
(* The boxes, each small_function and any_source alike. *)

(* As constructed without a callable, and with one. *)
Raw == [set |-> FALSE, obj |-> None]
Holding(x) == [set |-> TRUE, obj |-> x]

(* reset(): the destructor runs if there are pointers to find it by. *)
Reset(b) == [set |-> FALSE, obj |-> IF b.set THEN None ELSE b.obj]
Dies(b) == IF b.set THEN {b.obj} ELSE {}

(* The move constructor: the pointers are copied, the object is moved over, *)
(* and what remains of it is destroyed where it was.                        *)
Takes(b, other) == [set |-> other.set, obj |-> IF other.set THEN other.obj ELSE b.obj]

\* Slip: the pointers stay behind.
KeepsPointers(other) == [set |-> other.set, obj |-> IF other.set THEN None ELSE other.obj]

GivesUp(other) == [set |-> FALSE, obj |-> IF other.set THEN None ELSE other.obj]

(* The move assignment from another box. *)
Assigns(b, other) == Takes(Reset(b), other)

\* Slip: no test on the addresses, so a box is reset and takes from itself.
AssignedUntested(b, other, same) ==
    [now |-> Takes(Reset(b), IF same THEN Reset(b) ELSE other), dies |-> Dies(b)]

(* The move assignment as each box has it: it tests its own address against *)
(* the other's first.  What the box is then, and what was destroyed in it.  *)
Assigned(b, other, same) ==
    IF same THEN [now |-> b, dies |-> {}]
            ELSE [now |-> Assigns(b, other), dies |-> Dies(b)]

-----------------------------------------------------------------------------
Init ==
    /\ place = [p \in Places |-> "free"]
    /\ box = [p \in Places |-> [i \in Parts |-> Raw]]
    /\ count = [p \in Places |-> 0]
    /\ target = [x \in Callables |-> Nowhere]
    /\ running = Nowhere /\ installed = FALSE
    /\ made = {} /\ gone = {}
    /\ built = [p \in Places |-> Empty]

Ready(p) == place[p] = "ready" /\ p # running
New(x) == x \notin made /\ made' = made \cup {x}

(* The constructor, in automatic storage or in a caller's buffer: its        *)
(* parameter is built from x and moved into source_.                         *)
Construct(p, x) ==
    /\ place[p] = "free" /\ New(x)
    /\ place' = [place EXCEPT ![p] = "ready"]
    /\ box' = [box EXCEPT ![p] = [i \in Parts |->
                  IF i = Source THEN Takes(Raw, Holding(x)) ELSE Raw]]
    /\ count' = [count EXCEPT ![p] = 0]
    /\ built' = [built EXCEPT ![p] = [source |-> x, stages |-> <<>>, sink |-> None]]
    /\ UNCHANGED <<gone, target, running, installed>>

(* pipeline_allocator refuses a buffer: the source goes with the parameter. *)
AllocatorRefuses(x) ==
    /\ New(x)
    /\ gone' = gone \cup {x}
    /\ UNCHANGED <<place, box, count, built, target, running, installed>>

(* The boxes and the record of a pipeline with n stages, after add_stage(x) *)
(* and after set_sink(x).                                                   *)
StageAdded(boxes, n, x) == [boxes EXCEPT ![n + 1] = Assigns(@, Holding(x))]
SinkSet(boxes, x) == [boxes EXCEPT ![Sink] = Assigns(@, Holding(x))]
BuiltStage(record, x) ==
    [source |-> record.source, stages |-> Append(record.stages, x), sink |-> record.sink]
BuiltSink(record, x) ==
    [source |-> record.source, stages |-> record.stages, sink |-> x]

AddStage(p, x) ==
    /\ Ready(p) /\ New(x) /\ count[p] < MaxStages
    /\ box' = [box EXCEPT ![p] = StageAdded(@, count[p], x)]
    /\ gone' = gone \cup Dies(box[p][count[p] + 1])
    /\ count' = [count EXCEPT ![p] = @ + 1]
    /\ built' = [built EXCEPT ![p] = BuiltStage(@, x)]
    /\ UNCHANGED <<place, target, running, installed>>

(* The stage that does not fit is destroyed with add_stage()'s argument. *)
RefuseStage(p, x) ==
    /\ Ready(p) /\ New(x) /\ count[p] >= MaxStages
    /\ gone' = gone \cup {x}
    /\ UNCHANGED <<place, box, count, built, target, running, installed>>

SetSink(p, x) ==
    /\ Ready(p) /\ New(x)
    /\ box' = [box EXCEPT ![p] = SinkSet(@, x)]
    /\ gone' = gone \cup Dies(box[p][Sink])
    /\ built' = [built EXCEPT ![p] = BuiltSink(@, x)]
    /\ UNCHANGED <<place, count, target, running, installed>>

-----------------------------------------------------------------------------
(* A pipeline as it is built at a free place from another's boxes, and what *)
(* that leaves of those.                                                    *)
Moved(boxes) == [i \in Parts |-> Takes(Raw, boxes[i])]
Left(boxes) == [i \in Parts |-> GivesUp(boxes[i])]

(* The record, the count and the state of two places after a move. *)
HandsOver(q, p, n, record) ==
    /\ place' = [place EXCEPT ![q] = "ready", ![p] = "left"]
    /\ count' = [count EXCEPT ![q] = n]
    /\ built' = [built EXCEPT ![q] = record, ![p] = Empty]
    /\ UNCHANGED <<target, running, installed>>

\* Slip: sink_ is missing from the initialisers.
SinkForgotten(q, p) ==
    /\ place[q] = "free" /\ Ready(p)
    /\ box' = [box EXCEPT ![q] = [Moved(box[p]) EXCEPT ![Sink] = Raw],
                          ![p] = [Left(box[p]) EXCEPT ![Sink] = box[p][Sink]]]
    /\ HandsOver(q, p, count[p], built[p])
    /\ UNCHANGED <<made, gone>>

(* The move constructor.  The old pipeline keeps its stage_count_. *)
MoveConstruct(q, p) ==
    /\ place[q] = "free" /\ Ready(p)
    /\ box' = [box EXCEPT ![q] = Moved(box[p]), ![p] = Left(box[p])]
    /\ HandsOver(q, p, count[p], built[p])
    /\ UNCHANGED <<made, gone>>

\* Slip: the boxes are filled again without a reset().
AssignOver(q, p) ==
    /\ Ready(p) /\ place[q] # "free" /\ q # running /\ q # p
    /\ box' = [box EXCEPT ![q] = [i \in Parts |-> Takes(@[i], box[p][i])],
                          ![p] = Left(box[p])]
    /\ HandsOver(q, p, count[p], built[p])
    /\ UNCHANGED <<made, gone>>

(* The move assignment from another pipeline. *)
MoveAssign(q, p) ==
    /\ Ready(p) /\ place[q] # "free" /\ q # running /\ q # p
    /\ box' = [box EXCEPT ![q] = [i \in Parts |-> Assigned(@[i], box[p][i], FALSE).now],
                          ![p] = Left(box[p])]
    /\ gone' = gone \cup UNION {Assigned(box[q][i], box[p][i], FALSE).dies : i \in Parts}
    /\ HandsOver(q, p, count[p], built[p])
    /\ UNCHANGED made

(* The move assignment of boxes to themselves.  A pipeline assigned to      *)
(* itself ends at its own test before it comes to them; who holds a box by   *)
(* itself has only the box's test.                                          *)
AssignToItself(p) ==
    /\ Ready(p)
    /\ box' = [box EXCEPT ![p] = [i \in Parts |-> Assigned(@[i], @[i], TRUE).now]]
    /\ gone' = gone \cup UNION {Assigned(box[p][i], box[p][i], TRUE).dies : i \in Parts}
    /\ UNCHANGED <<place, count, made, built, target, running, installed>>

(* operator| with process() or filter(): the pipeline moves into the         *)
(* parameter, takes the stage there, and moves on into the result.           *)
PipeStage(q, p, x) ==
    /\ place[q] = "free" /\ Ready(p) /\ New(x) /\ count[p] < MaxStages
    /\ box' = [box EXCEPT ![q] = Moved(StageAdded(Moved(box[p]), count[p], x)),
                          ![p] = Left(box[p])]
    /\ HandsOver(q, p, count[p] + 1, BuiltStage(built[p], x))
    /\ UNCHANGED gone

(* The stage that does not fit is destroyed, the pipeline moves all the same. *)
PipeRefused(q, p, x) ==
    /\ place[q] = "free" /\ Ready(p) /\ New(x) /\ count[p] >= MaxStages
    /\ box' = [box EXCEPT ![q] = Moved(Moved(box[p])), ![p] = Left(box[p])]
    /\ gone' = gone \cup {x}
    /\ HandsOver(q, p, count[p], built[p])

(* operator| with sink(): a sink set before is destroyed in the parameter. *)
PipeSink(q, p, x) ==
    /\ place[q] = "free" /\ Ready(p) /\ New(x)
    /\ box' = [box EXCEPT ![q] = Moved(SinkSet(Moved(box[p]), x)), ![p] = Left(box[p])]
    /\ gone' = gone \cup Dies(Moved(box[p])[Sink])
    /\ HandsOver(q, p, count[p], BuiltSink(built[p], x))

(* The destructor, of a pipeline in use or moved from. *)
Destroy(p) ==
    /\ place[p] # "free" /\ p # running
    /\ place' = [place EXCEPT ![p] = "free"]
    /\ box' = [box EXCEPT ![p] = [i \in Parts |-> Reset(@[i])]]
    /\ gone' = gone \cup UNION {Dies(box[p][i]) : i \in Parts}
    /\ count' = [count EXCEPT ![p] = 0]
    /\ built' = [built EXCEPT ![p] = Empty]
    /\ UNCHANGED <<made, target, running, installed>>

-----------------------------------------------------------------------------
(* run() as far as the callback goes: event_loop() captures this. *)
Run(p) ==
    /\ Ready(p) /\ running = Nowhere
    /\ running' = p /\ installed' = FALSE
    /\ UNCHANGED <<held_vars, target>>

\* Slip: a source that has a callback keeps it.
InstallOnce ==
    /\ running # Nowhere /\ ~installed
    /\ installed' = TRUE
    /\ target' = [target EXCEPT ![box[running][Source].obj] =
                     IF @ = Nowhere THEN running ELSE @]
    /\ UNCHANGED <<held_vars, running>>

InstallCallback ==
    /\ running # Nowhere /\ ~installed
    /\ installed' = TRUE
    /\ target' = [target EXCEPT ![box[running][Source].obj] = running]
    /\ UNCHANGED <<held_vars, running>>

RunReturns ==
    /\ installed
    /\ running' = Nowhere /\ installed' = FALSE
    /\ UNCHANGED <<held_vars, target>>

Next ==
    \/ \E p \in Places, x \in Callables :
          Construct(p, x) \/ AddStage(p, x) \/ RefuseStage(p, x) \/ SetSink(p, x)
    \/ \E x \in Callables : AllocatorRefuses(x)
    \/ \E q, p \in Places : MoveConstruct(q, p) \/ MoveAssign(q, p)
    \/ \E q, p \in Places, x \in Callables :
          PipeStage(q, p, x) \/ PipeRefused(q, p, x) \/ PipeSink(q, p, x)
    \/ \E p \in Places : AssignToItself(p) \/ Destroy(p) \/ Run(p)
    \/ InstallCallback \/ RunReturns

Spec == Init /\ [][Next]_vars

-----------------------------------------------------------------------------
(* No destructor runs on storage without an object, and no object lives in   *)
(* storage whose box does not know it: however pipelines were moved,         *)
(* assigned over and destroyed, a box's pointers tell what its storage has.  *)
PointersTellTruth ==
    \A p \in Places : \A i \in Parts : box[p][i].set <=> box[p][i].obj # None

(* Whatever was handed to a pipeline is in exactly one box or was destroyed: *)
(* nothing leaks, nothing has two owners, nothing that was destroyed can be  *)
(* called.                                                                   *)
Owners(x) == {o \in Places \X Parts : box[o[1]][o[2]].obj = x}

OneOwner ==
    \A x \in made : Cardinality(Owners(x)) = IF x \in gone THEN 0 ELSE 1

(* A pipeline in use is what it was built as, through any number of moves,   *)
(* operators and assignments: the same source, the same stages in the same   *)
(* order, the same sink, and a count that reaches exactly the last of them.  *)
IsBuilt(boxes, n, record) ==
    /\ boxes[Source] = Holding(record.source)
    /\ n = Len(record.stages)
    /\ \A i \in 1..MaxStages :
          boxes[i] = IF i <= n THEN Holding(record.stages[i]) ELSE Raw
    /\ boxes[Sink] = IF record.sink = None THEN Raw ELSE Holding(record.sink)

MovesKeepPipeline ==
    \A p \in Places : place[p] = "ready" => IsBuilt(box[p], count[p], built[p])

(* The source that an event loop polls hands its messages to the pipeline    *)
(* it was moved into, never to one it was in during an earlier run.          *)
PollsItsOwn == installed => target[box[running][Source].obj] = running
=============================================================================
