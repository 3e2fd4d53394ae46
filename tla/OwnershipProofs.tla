-------------------------- MODULE OwnershipProofs --------------------------
(***************************************************************************)
(* Ownership, for any number of places, callables and stages.  While       *)
(* pointers tell the truth, a box that takes over another becomes that     *)
(* other, and what is left of it is an empty box; so a move of a pipeline  *)
(* is a move of its boxes' contents, and the rest follows from that.       *)
(***************************************************************************)
EXTENDS Ownership, FiniteSetTheorems, TLAPS

USE OwnershipAssumption DEF Source, Sink, Parts

Truthful(b) == b \in Boxes /\ (b.set <=> b.obj # None)

(* What is known of the boxes before every step. *)
BoxesTruthful == \A p \in Places : \A i \in Parts : Truthful(box[p][i])

BInv == TypeOK /\ PointersTellTruth

AllRaw == [i \in Parts |-> Raw]

-----------------------------------------------------------------------------
(* The boxes. *)

LEMMA RawTruthful == Truthful(Raw) /\ ~Raw.set
  BY DEF Truthful, Raw, Boxes

LEMMA HoldingTruthful ==
  ASSUME NEW x \in Callables
  PROVE  Truthful(Holding(x)) /\ Holding(x).set /\ Holding(x).obj = x
  BY DEF Truthful, Holding, Boxes

LEMMA EmptyIsRaw ==
  ASSUME NEW b, Truthful(b), ~b.set
  PROVE  b = Raw
  BY DEF Truthful, Raw, Boxes

(* An empty box that takes over another is that other. *)
LEMMA TakesAll ==
  ASSUME NEW b, NEW o, Truthful(b), Truthful(o), ~b.set
  PROVE  Takes(b, o) = o
<1>1. CASE o.set
  BY <1>1 DEF Truthful, Takes, Boxes
<1>2. CASE ~o.set
  <2>1. b = Raw /\ o = Raw
    BY <1>2, EmptyIsRaw
  <2>2. QED
    BY <2>1 DEF Takes, Raw
<1>3. QED
  BY <1>1, <1>2

(* What was taken over, and what was reset, is an empty box. *)
LEMMA NothingStays ==
  ASSUME NEW b, Truthful(b)
  PROVE  GivesUp(b) = Raw /\ Reset(b) = Raw
  BY DEF Truthful, GivesUp, Reset, Raw, Boxes

LEMMA AssignsAll ==
  ASSUME NEW b, NEW o, Truthful(b), Truthful(o)
  PROVE  Assigns(b, o) = o
  BY NothingStays, RawTruthful, TakesAll DEF Assigns

LEMMA BoxesAreTruthful ==
  ASSUME BInv
  PROVE  BoxesTruthful
  BY DEF BInv, TypeOK, PointersTellTruth, BoxesTruthful, Truthful

LEMMA MovedAll ==
  ASSUME NEW boxes \in [Parts -> Boxes], \A i \in Parts : Truthful(boxes[i])
  PROVE  Moved(boxes) = boxes /\ Left(boxes) = AllRaw
<1>1. \A i \in Parts : Takes(Raw, boxes[i]) = boxes[i] /\ GivesUp(boxes[i]) = Raw
  BY RawTruthful, TakesAll, NothingStays
<1>2. QED
  BY <1>1 DEF Moved, Left, AllRaw

(* What add_stage() and set_sink() make of the boxes. *)
LEMMA StageAddedIs ==
  ASSUME NEW boxes \in [Parts -> Boxes], \A i \in Parts : Truthful(boxes[i]),
         NEW n \in 0..MaxStages, n < MaxStages, NEW x \in Callables
  PROVE  /\ StageAdded(boxes, n, x) = [boxes EXCEPT ![n + 1] = Holding(x)]
         /\ StageAdded(boxes, n, x) \in [Parts -> Boxes]
         /\ \A i \in Parts : Truthful(StageAdded(boxes, n, x)[i])
<1>1. n + 1 \in Parts
  OBVIOUS
<1>2. Assigns(boxes[n + 1], Holding(x)) = Holding(x)
  BY <1>1, HoldingTruthful, AssignsAll
<1>3. Holding(x) \in Boxes
  BY HoldingTruthful DEF Truthful
<1>4. StageAdded(boxes, n, x) = [boxes EXCEPT ![n + 1] = Holding(x)]
  BY <1>2 DEF StageAdded
<1>5. \A i \in Parts : Truthful([boxes EXCEPT ![n + 1] = Holding(x)][i])
  BY <1>1, HoldingTruthful
<1>6. QED
  BY <1>1, <1>3, <1>4, <1>5

LEMMA SinkSetIs ==
  ASSUME NEW boxes \in [Parts -> Boxes], \A i \in Parts : Truthful(boxes[i]),
         NEW x \in Callables
  PROVE  /\ SinkSet(boxes, x) = [boxes EXCEPT ![Sink] = Holding(x)]
         /\ SinkSet(boxes, x) \in [Parts -> Boxes]
         /\ \A i \in Parts : Truthful(SinkSet(boxes, x)[i])
<1>1. Sink \in Parts
  OBVIOUS
<1>2. Assigns(boxes[Sink], Holding(x)) = Holding(x)
  BY <1>1, HoldingTruthful, AssignsAll
<1>3. Holding(x) \in Boxes
  BY HoldingTruthful DEF Truthful
<1>4. SinkSet(boxes, x) = [boxes EXCEPT ![Sink] = Holding(x)]
  BY <1>2 DEF SinkSet
<1>5. \A i \in Parts : Truthful([boxes EXCEPT ![Sink] = Holding(x)][i])
  BY <1>1, HoldingTruthful
<1>6. QED
  BY <1>1, <1>3, <1>4, <1>5

-----------------------------------------------------------------------------
(* What each operation makes of all the boxes. *)

HoldsStage(boxes, n, x) == [boxes EXCEPT ![n + 1] = Holding(x)]
HoldsSink(boxes, x) == [boxes EXCEPT ![Sink] = Holding(x)]
Exchanged(q, p, boxes) == [box EXCEPT ![q] = boxes, ![p] = AllRaw]

LEMMA PlaceBoxes ==
  ASSUME BInv, NEW p \in Places
  PROVE  box[p] \in [Parts -> Boxes] /\ \A i \in Parts : Truthful(box[p][i])
  BY BoxesAreTruthful DEF BInv, TypeOK, BoxesTruthful

LEMMA ConstructShape ==
  ASSUME NEW p \in Places, NEW x \in Callables, Construct(p, x)
  PROVE  box' = [box EXCEPT ![p] = [AllRaw EXCEPT ![Source] = Holding(x)]]
<1>1. Takes(Raw, Holding(x)) = Holding(x)
  BY RawTruthful, HoldingTruthful, TakesAll
<1>2. [i \in Parts |-> IF i = Source THEN Takes(Raw, Holding(x)) ELSE Raw]
        = [AllRaw EXCEPT ![Source] = Holding(x)]
  BY <1>1 DEF AllRaw
<1>3. QED
  BY <1>2 DEF Construct

LEMMA AddStageShape ==
  ASSUME BInv, NEW p \in Places, NEW x \in Callables, AddStage(p, x)
  PROVE  box' = [box EXCEPT ![p] = HoldsStage(box[p], count[p], x)]
<1>1. count[p] \in 0..MaxStages /\ count[p] < MaxStages
  BY DEF BInv, TypeOK, AddStage
<1>2. StageAdded(box[p], count[p], x) = HoldsStage(box[p], count[p], x)
  BY <1>1, PlaceBoxes, StageAddedIs DEF HoldsStage
<1>3. QED
  BY <1>2 DEF AddStage

LEMMA SetSinkShape ==
  ASSUME BInv, NEW p \in Places, NEW x \in Callables, SetSink(p, x)
  PROVE  box' = [box EXCEPT ![p] = HoldsSink(box[p], x)]
<1>1. SinkSet(box[p], x) = HoldsSink(box[p], x)
  BY PlaceBoxes, SinkSetIs DEF HoldsSink
<1>2. QED
  BY <1>1 DEF SetSink

LEMMA MoveConstructShape ==
  ASSUME BInv, NEW q \in Places, NEW p \in Places, MoveConstruct(q, p)
  PROVE  box' = Exchanged(q, p, box[p])
  BY PlaceBoxes, MovedAll DEF MoveConstruct, Exchanged

LEMMA MoveAssignShape ==
  ASSUME BInv, NEW q \in Places, NEW p \in Places, MoveAssign(q, p)
  PROVE  box' = Exchanged(q, p, box[p])
<1>1. \A i \in Parts : Assigned(box[q][i], box[p][i], FALSE).now = box[p][i]
  BY PlaceBoxes, AssignsAll DEF Assigned
<1>2. [i \in Parts |-> Assigned(box[q][i], box[p][i], FALSE).now] = box[p]
  BY <1>1, PlaceBoxes
<1>3. Left(box[p]) = AllRaw
  BY PlaceBoxes, MovedAll
<1>4. QED
  BY <1>2, <1>3 DEF MoveAssign, Exchanged

LEMMA MoveAssignGone ==
  ASSUME NEW q \in Places, NEW p \in Places, MoveAssign(q, p)
  PROVE  gone' = gone \cup UNION {Dies(box[q][i]) : i \in Parts}
<1>1. \A i \in Parts : Assigned(box[q][i], box[p][i], FALSE).dies = Dies(box[q][i])
  BY DEF Assigned
<1>2. {Assigned(box[q][i], box[p][i], FALSE).dies : i \in Parts} = {Dies(box[q][i]) : i \in Parts}
  BY <1>1
<1>3. gone' = gone \cup UNION {Assigned(box[q][i], box[p][i], FALSE).dies : i \in Parts}
  BY DEF MoveAssign
<1>4. QED
  BY <1>2, <1>3

(* A box that is assigned to itself is left as it is, with what it holds. *)
LEMMA NothingToItself ==
  ASSUME BInv, NEW p \in Places, AssignToItself(p)
  PROVE  UNCHANGED vars
<1>1. /\ \A i \in Parts : Assigned(box[p][i], box[p][i], TRUE).now = box[p][i]
      /\ \A i \in Parts : Assigned(box[p][i], box[p][i], TRUE).dies = {}
  BY DEF Assigned
<1>2. [i \in Parts |-> Assigned(box[p][i], box[p][i], TRUE).now] = box[p]
  BY <1>1, PlaceBoxes
<1>3. box' = box
  BY <1>2 DEF AssignToItself, BInv, TypeOK
<1>4. UNION {Assigned(box[p][i], box[p][i], TRUE).dies : i \in Parts} = {}
  BY <1>1
<1>5. gone' = gone
  BY <1>4 DEF AssignToItself
<1>6. QED
  BY <1>3, <1>5 DEF AssignToItself, vars, held_vars

LEMMA PipeStageShape ==
  ASSUME BInv, NEW q \in Places, NEW p \in Places, NEW x \in Callables, PipeStage(q, p, x)
  PROVE  box' = Exchanged(q, p, HoldsStage(box[p], count[p], x))
<1>1. count[p] \in 0..MaxStages /\ count[p] < MaxStages
  BY DEF BInv, TypeOK, PipeStage
<1>2. Moved(box[p]) = box[p] /\ Left(box[p]) = AllRaw
  BY PlaceBoxes, MovedAll
<1>3. Moved(StageAdded(box[p], count[p], x)) = StageAdded(box[p], count[p], x)
  BY <1>1, PlaceBoxes, StageAddedIs, MovedAll
<1>4. StageAdded(box[p], count[p], x) = HoldsStage(box[p], count[p], x)
  BY <1>1, PlaceBoxes, StageAddedIs DEF HoldsStage
<1>5. QED
  BY <1>2, <1>3, <1>4 DEF PipeStage, Exchanged

LEMMA PipeRefusedShape ==
  ASSUME BInv, NEW q \in Places, NEW p \in Places, NEW x \in Callables, PipeRefused(q, p, x)
  PROVE  box' = Exchanged(q, p, box[p])
<1>1. Moved(box[p]) = box[p] /\ Left(box[p]) = AllRaw
  BY PlaceBoxes, MovedAll
<1>2. QED
  BY <1>1 DEF PipeRefused, Exchanged

LEMMA PipeSinkShape ==
  ASSUME BInv, NEW q \in Places, NEW p \in Places, NEW x \in Callables, PipeSink(q, p, x)
  PROVE  box' = Exchanged(q, p, HoldsSink(box[p], x))
<1>2. Moved(box[p]) = box[p] /\ Left(box[p]) = AllRaw
  BY PlaceBoxes, MovedAll
<1>3. Moved(SinkSet(box[p], x)) = SinkSet(box[p], x)
  BY PlaceBoxes, SinkSetIs, MovedAll
<1>4. SinkSet(box[p], x) = HoldsSink(box[p], x)
  BY PlaceBoxes, SinkSetIs DEF HoldsSink
<1>5. QED
  BY <1>2, <1>3, <1>4 DEF PipeSink, Exchanged

LEMMA DestroyShape ==
  ASSUME BInv, NEW p \in Places, Destroy(p)
  PROVE  box' = [box EXCEPT ![p] = AllRaw]
<1>1. [i \in Parts |-> Reset(box[p][i])] = AllRaw
  BY PlaceBoxes, NothingStays DEF AllRaw
<1>2. QED
  BY <1>1 DEF Destroy

LEMMA NewBoxes ==
  ASSUME BInv, NEW p \in Places, NEW x \in Callables
  PROVE  /\ AllRaw \in [Parts -> Boxes] /\ \A i \in Parts : Truthful(AllRaw[i])
         /\ LET b == [AllRaw EXCEPT ![Source] = Holding(x)]
            IN b \in [Parts -> Boxes] /\ \A i \in Parts : Truthful(b[i])
         /\ count[p] < MaxStages =>
               LET b == HoldsStage(box[p], count[p], x)
               IN b \in [Parts -> Boxes] /\ \A i \in Parts : Truthful(b[i])
         /\ LET b == HoldsSink(box[p], x)
            IN b \in [Parts -> Boxes] /\ \A i \in Parts : Truthful(b[i])
<1>1. Raw \in Boxes /\ Holding(x) \in Boxes
  BY RawTruthful, HoldingTruthful DEF Truthful
<1>2. count[p] \in 0..MaxStages
  BY DEF BInv, TypeOK
<1>3. AllRaw \in [Parts -> Boxes] /\ \A i \in Parts : Truthful(AllRaw[i])
  BY <1>1, RawTruthful DEF AllRaw
<1>4. LET b == [AllRaw EXCEPT ![Source] = Holding(x)]
      IN b \in [Parts -> Boxes] /\ \A i \in Parts : Truthful(b[i])
  BY <1>1, <1>3, HoldingTruthful
<1>5. count[p] < MaxStages =>
         LET b == HoldsStage(box[p], count[p], x)
         IN b \in [Parts -> Boxes] /\ \A i \in Parts : Truthful(b[i])
  BY <1>1, <1>2, PlaceBoxes, HoldingTruthful DEF HoldsStage
<1>6. LET b == HoldsSink(box[p], x)
      IN b \in [Parts -> Boxes] /\ \A i \in Parts : Truthful(b[i])
  BY <1>1, PlaceBoxes, HoldingTruthful DEF HoldsSink
<1>7. QED
  BY <1>3, <1>4, <1>5, <1>6

LEMMA RecordFacts ==
  ASSUME NEW r \in Records, NEW x \in Callables
  PROVE  /\ BuiltStage(r, x) \in Records /\ BuiltSink(r, x) \in Records
         /\ Empty \in Records
         /\ [source |-> x, stages |-> <<>>, sink |-> None] \in Records
  BY DEF Records, BuiltStage, BuiltSink, Empty

-----------------------------------------------------------------------------
(* The type, and with it what every box's pointers tell. *)

BoxesStay == box' \in [Places -> [Parts -> Boxes]] /\ PointersTellTruth'

LEMMA OneChanged ==
  ASSUME BInv, NEW p \in Places, NEW b \in [Parts -> Boxes],
         \A i \in Parts : Truthful(b[i]), box' = [box EXCEPT ![p] = b]
  PROVE  BoxesStay
<1>1. box' \in [Places -> [Parts -> Boxes]]
  BY DEF BInv, TypeOK
<1>2. \A r \in Places : \A i \in Parts : Truthful(box'[r][i])
  BY PlaceBoxes DEF BInv, TypeOK
<1>3. QED
  BY <1>1, <1>2 DEF BoxesStay, PointersTellTruth, Truthful

LEMMA TwoChanged ==
  ASSUME BInv, NEW q \in Places, NEW p \in Places, NEW b \in [Parts -> Boxes],
         \A i \in Parts : Truthful(b[i]), box' = Exchanged(q, p, b)
  PROVE  BoxesStay
<1>1. AllRaw \in [Parts -> Boxes] /\ \A i \in Parts : Truthful(AllRaw[i])
  BY RawTruthful DEF AllRaw, Truthful
<1>2. box' \in [Places -> [Parts -> Boxes]]
  BY <1>1 DEF BInv, TypeOK, Exchanged
<1>3. \A r \in Places : \A i \in Parts : Truthful(box'[r][i])
  BY <1>1, PlaceBoxes DEF BInv, TypeOK, Exchanged
<1>4. QED
  BY <1>2, <1>3 DEF BoxesStay, PointersTellTruth, Truthful

LEMMA BoxesStayTruthful ==
  ASSUME BInv, [Next]_vars
  PROVE  BoxesStay
<1>0. CASE UNCHANGED box
  BY <1>0 DEF BInv, TypeOK, BoxesStay, PointersTellTruth
<1>1. ASSUME NEW p \in Places, NEW x \in Callables, Construct(p, x) PROVE BoxesStay
  BY <1>1, ConstructShape, NewBoxes, OneChanged
<1>2. ASSUME NEW p \in Places, NEW x \in Callables, AddStage(p, x) PROVE BoxesStay
  <2>1. count[p] < MaxStages
    BY <1>2 DEF AddStage
  <2>2. QED
    BY <1>2, <2>1, AddStageShape, NewBoxes, OneChanged
<1>3. ASSUME NEW p \in Places, NEW x \in Callables, RefuseStage(p, x) PROVE BoxesStay
  BY <1>0, <1>3 DEF RefuseStage
<1>4. ASSUME NEW p \in Places, NEW x \in Callables, SetSink(p, x) PROVE BoxesStay
  BY <1>4, SetSinkShape, NewBoxes, OneChanged
<1>5. ASSUME NEW x \in Callables, AllocatorRefuses(x) PROVE BoxesStay
  BY <1>0, <1>5 DEF AllocatorRefuses
<1>6. ASSUME NEW q \in Places, NEW p \in Places, MoveConstruct(q, p) PROVE BoxesStay
  BY <1>6, MoveConstructShape, PlaceBoxes, TwoChanged
<1>6a. ASSUME NEW q \in Places, NEW p \in Places, NEW x \in Callables, PipeRefused(q, p, x)
       PROVE  BoxesStay
  BY <1>6a, PipeRefusedShape, PlaceBoxes, TwoChanged
<1>7. ASSUME NEW q \in Places, NEW p \in Places, MoveAssign(q, p) PROVE BoxesStay
  BY <1>7, MoveAssignShape, PlaceBoxes, TwoChanged
<1>8. ASSUME NEW q \in Places, NEW p \in Places, NEW x \in Callables, PipeStage(q, p, x)
      PROVE BoxesStay
  <2>1. count[p] < MaxStages
    BY <1>8 DEF PipeStage
  <2>2. QED
    BY <1>8, <2>1, PipeStageShape, NewBoxes, TwoChanged
<1>9. ASSUME NEW q \in Places, NEW p \in Places, NEW x \in Callables, PipeSink(q, p, x)
      PROVE BoxesStay
  BY <1>9, PipeSinkShape, NewBoxes, TwoChanged
<1>10. ASSUME NEW p \in Places, Destroy(p) PROVE BoxesStay
  <2>1. AllRaw \in [Parts -> Boxes] /\ \A i \in Parts : Truthful(AllRaw[i])
    BY RawTruthful DEF AllRaw, Truthful
  <2>2. QED
    BY <1>10, <2>1, DestroyShape, OneChanged
<1>11. CASE \/ \E p \in Places : AssignToItself(p) \/ Run(p)
            \/ InstallCallback \/ RunReturns \/ UNCHANGED vars
  BY <1>0, <1>11, NothingToItself DEF Run, InstallCallback, RunReturns, vars, held_vars
<1>12. QED
  BY <1>1, <1>2, <1>3, <1>4, <1>5, <1>6, <1>6a, <1>7, <1>8, <1>9, <1>10, <1>11 DEF Next

(* The remaining variables. *)
LEMMA OthersStayTyped ==
  ASSUME BInv, [Next]_vars, BoxesStay
  PROVE  TypeOK'
<1>0. box' \in [Places -> [Parts -> Boxes]]
  BY DEF BoxesStay
<1>01. \A r \in Records, x \in Callables :
          BuiltStage(r, x) \in Records /\ BuiltSink(r, x) \in Records
  BY RecordFacts
<1>04. \A x \in Callables : [source |-> x, stages |-> <<>>, sink |-> None] \in Records
  BY DEF Records
<1>02. Empty \in Records
  BY DEF Empty, Records
<1>03. \A p \in Places, i \in Parts : Dies(box[p][i]) \subseteq Callables
  BY PlaceBoxes DEF Dies, Truthful, Boxes
<1> HIDE DEF Records, Empty, Boxes
<1>1. ASSUME NEW p \in Places, NEW x \in Callables, Construct(p, x) PROVE TypeOK'
  <2> DEFINE r == [source |-> x, stages |-> <<>>, sink |-> None]
  <2>1. r \in Records
    BY <1>04
  <2>2. built' = [built EXCEPT ![p] = r]
    BY <1>1 DEF Construct
  <2> HIDE DEF r
  <2>3. built' \in [Places -> Records]
    BY <2>1, <2>2 DEF BInv, TypeOK
  <2>4. /\ place' = [place EXCEPT ![p] = "ready"] /\ count' = [count EXCEPT ![p] = 0]
        /\ made' = made \cup {x} /\ UNCHANGED <<gone, target, running, installed>>
    BY <1>1 DEF Construct, New
  <2>5. QED
    BY <1>0, <2>3, <2>4 DEF BInv, TypeOK
<1>2. ASSUME NEW p \in Places, NEW x \in Callables, AddStage(p, x) PROVE TypeOK'
  <2>1. Dies(box[p][count[p] + 1]) \subseteq Callables
    BY <1>2, <1>03 DEF AddStage, BInv, TypeOK
  <2>2. QED
    <3>1. count' \in [Places -> 0..MaxStages]
      <4>1. count[p] + 1 \in 0..MaxStages
        BY <1>2 DEF AddStage, BInv, TypeOK
      <4>2. count' = [count EXCEPT ![p] = count[p] + 1]
        BY <1>2 DEF AddStage
      <4>3. QED
        BY <4>1, <4>2 DEF BInv, TypeOK
    <3>2. built' \in [Places -> Records]
      BY <1>2, <1>01 DEF AddStage, BInv, TypeOK
    <3>3. made' = made \cup {x} /\ gone' = gone \cup Dies(box[p][count[p] + 1])
          /\ UNCHANGED <<place, target, running, installed>>
      BY <1>2 DEF AddStage, New
    <3>4. QED
      BY <1>0, <2>1, <3>1, <3>2, <3>3 DEF BInv, TypeOK
<1>3. ASSUME NEW p \in Places, NEW x \in Callables, RefuseStage(p, x) PROVE TypeOK'
  BY <1>3, <1>0 DEF RefuseStage, New, BInv, TypeOK
<1>4. ASSUME NEW p \in Places, NEW x \in Callables, SetSink(p, x) PROVE TypeOK'
  <2>1. Dies(box[p][Sink]) \subseteq Callables
    BY <1>03
  <2>2. QED
    BY <1>4, <1>0, <1>01, <2>1 DEF SetSink, New, BInv, TypeOK
<1>5. ASSUME NEW x \in Callables, AllocatorRefuses(x) PROVE TypeOK'
  BY <1>5, <1>0 DEF AllocatorRefuses, New, BInv, TypeOK
<1>6. ASSUME NEW q \in Places, NEW p \in Places, MoveConstruct(q, p) PROVE TypeOK'
  BY <1>6, <1>0, <1>02 DEF MoveConstruct, HandsOver, BInv, TypeOK
<1>6a. ASSUME NEW q \in Places, NEW p \in Places, NEW x \in Callables, PipeRefused(q, p, x)
       PROVE  TypeOK'
  BY <1>6a, <1>0, <1>02 DEF PipeRefused, New, HandsOver, BInv, TypeOK
<1>7. ASSUME NEW q \in Places, NEW p \in Places, MoveAssign(q, p) PROVE TypeOK'
  <2>1. UNION {Dies(box[q][i]) : i \in Parts} \subseteq Callables
    BY <1>03
  <2>2. QED
    BY <1>7, <1>0, <1>02, <2>1, MoveAssignGone DEF MoveAssign, HandsOver, BInv, TypeOK
<1>8. ASSUME NEW q \in Places, NEW p \in Places, NEW x \in Callables, PipeStage(q, p, x)
      PROVE TypeOK'
  <2>1. count[p] + 1 \in 0..MaxStages
    BY <1>8 DEF PipeStage, BInv, TypeOK
  <2>2. QED
    BY <1>8, <1>0, <1>01, <1>02, <2>1 DEF PipeStage, New, HandsOver, BInv, TypeOK
<1>9. ASSUME NEW q \in Places, NEW p \in Places, NEW x \in Callables, PipeSink(q, p, x)
      PROVE TypeOK'
  <2>1. Moved(box[p]) = box[p]
    BY PlaceBoxes, MovedAll
  <2>2. Dies(Moved(box[p])[Sink]) \subseteq Callables
    BY <1>03, <2>1
  <2>3. QED
    BY <1>9, <1>0, <1>01, <1>02, <2>2 DEF PipeSink, New, HandsOver, BInv, TypeOK
<1>10. ASSUME NEW p \in Places, Destroy(p) PROVE TypeOK'
  <2>1. UNION {Dies(box[p][i]) : i \in Parts} \subseteq Callables
    BY <1>03
  <2>2. QED
    BY <1>10, <1>0, <1>02, <2>1 DEF Destroy, BInv, TypeOK
<1>11. CASE \E p \in Places : AssignToItself(p) \/ Run(p)
  BY <1>11, <1>0, NothingToItself DEF Run, Ready, vars, held_vars, BInv, TypeOK
<1>12. CASE InstallCallback
  BY <1>12, <1>0 DEF InstallCallback, held_vars, BInv, TypeOK
<1>13. CASE RunReturns \/ UNCHANGED vars
  BY <1>13, <1>0 DEF RunReturns, vars, held_vars, BInv, TypeOK
<1>14. QED
  BY <1>1, <1>2, <1>3, <1>4, <1>5, <1>6, <1>6a, <1>7, <1>8, <1>9, <1>10, <1>11, <1>12, <1>13 DEF Next

LEMMA InitBInv ==
  ASSUME Init
  PROVE  BInv
<1>1. Empty \in Records
  BY DEF Empty, Records
<1>2. Raw \in Boxes
  BY RawTruthful DEF Truthful
<1>3. PointersTellTruth
  BY DEF Init, PointersTellTruth, Raw
<1>4. TypeOK
  <2>1. box \in [Places -> [Parts -> Boxes]]
    <3>1. [i \in Parts |-> Raw] \in [Parts -> Boxes]
      BY <1>2
    <3>2. QED
      BY <3>1 DEF Init
  <2>2. built \in [Places -> Records]
    BY <1>1 DEF Init
  <2>3. /\ place \in [Places -> {"free", "ready", "left"}]
        /\ count \in [Places -> 0..MaxStages]
        /\ target \in [Callables -> Places \cup {Nowhere}]
    BY DEF Init
  <2>4. running = Nowhere /\ installed = FALSE /\ made = {} /\ gone = {}
    BY DEF Init
  <2>5. QED
    BY <2>1, <2>2, <2>3, <2>4 DEF TypeOK
<1>5. QED
  BY <1>3, <1>4 DEF BInv

LEMMA StepBInv ==
  ASSUME BInv, [Next]_vars
  PROVE  BInv'
  BY BoxesStayTruthful, OthersStayTyped DEF BInv, BoxesStay

(* The state of the pipelines and their boxes is always of its type. *)
THEOREM TypeCorrect == Spec => []TypeOK
<1>1. BInv => TypeOK
  BY DEF BInv
<1>2. QED
  BY <1>1, InitBInv, StepBInv, PTL DEF Spec

(* small_function and any_source: however pipelines are moved, assigned over *)
(* and destroyed, no destructor runs on empty storage and no object lives    *)
(* where its box does not know of it.                                        *)
THEOREM PointersTellTruthHolds == Spec => []PointersTellTruth
<1>1. BInv => PointersTellTruth
  BY DEF BInv
<1>2. QED
  BY <1>1, InitBInv, StepBInv, PTL DEF Spec

-----------------------------------------------------------------------------
(* What a pipeline was built as. *)

LEMMA NewIsBuilt ==
  ASSUME NEW x \in Callables
  PROVE  IsBuilt([AllRaw EXCEPT ![Source] = Holding(x)], 0,
                 [source |-> x, stages |-> <<>>, sink |-> None])
  BY DEF IsBuilt, AllRaw

LEMMA StageIsBuilt ==
  ASSUME NEW boxes \in [Parts -> Boxes], NEW n \in 0..MaxStages, n < MaxStages,
         NEW record \in Records, NEW x \in Callables, IsBuilt(boxes, n, record)
  PROVE  IsBuilt(HoldsStage(boxes, n, x), n + 1, BuiltStage(record, x))
<1> DEFINE after == BuiltStage(record, x)
           held == HoldsStage(boxes, n, x)
           s == record.stages
<1>1. s \in Seq(Callables) /\ Len(s) = n
  BY DEF Records, IsBuilt
<1>2. /\ after.source = record.source /\ after.sink = record.sink
      /\ after.stages = Append(s, x)
  BY DEF BuiltStage
<1>3. Len(after.stages) = n + 1
  BY <1>1, <1>2
<1>4. after.stages[n + 1] = x /\ \A i \in 1..n : after.stages[i] = s[i]
  BY <1>1, <1>2
<1>5. \A i \in Parts : held[i] = IF i = n + 1 THEN Holding(x) ELSE boxes[i]
  BY DEF HoldsStage
<1> HIDE DEF after, held, s
<1>6. held[Source] = Holding(after.source)
  BY <1>2, <1>5 DEF IsBuilt
<1>7. held[Sink] = IF after.sink = None THEN Raw ELSE Holding(after.sink)
  BY <1>2, <1>5 DEF IsBuilt
<1>8. \A i \in 1..MaxStages :
        held[i] = IF i <= n + 1 THEN Holding(after.stages[i]) ELSE Raw
  <2> SUFFICES ASSUME NEW i \in 1..MaxStages
               PROVE  held[i] = IF i <= n + 1 THEN Holding(after.stages[i]) ELSE Raw
    OBVIOUS
  <2>1. boxes[i] = IF i <= n THEN Holding(s[i]) ELSE Raw
    BY DEF IsBuilt, s
  <2>2. CASE i <= n
    <3>1. held[i] = boxes[i] /\ after.stages[i] = s[i]
      BY <1>4, <1>5, <2>2
    <3>2. QED
      BY <2>1, <2>2, <3>1
  <2>3. CASE i = n + 1
    BY <1>4, <1>5, <2>3
  <2>4. CASE i > n + 1
    BY <1>5, <2>1, <2>4
  <2>5. QED
    BY <2>2, <2>3, <2>4
<1>9. QED
  BY <1>3, <1>6, <1>7, <1>8 DEF IsBuilt, after, held

LEMMA SinkIsBuilt ==
  ASSUME NEW boxes \in [Parts -> Boxes], NEW n \in 0..MaxStages,
         NEW record \in Records, NEW x \in Callables, IsBuilt(boxes, n, record)
  PROVE  IsBuilt(HoldsSink(boxes, x), n, BuiltSink(record, x))
<1>1. /\ BuiltSink(record, x).source = record.source
      /\ BuiltSink(record, x).stages = record.stages
      /\ BuiltSink(record, x).sink = x
  BY DEF BuiltSink
<1>2. \A i \in Parts : HoldsSink(boxes, x)[i] = IF i = Sink THEN Holding(x) ELSE boxes[i]
  BY DEF HoldsSink
<1>3. x # None
  OBVIOUS
<1>4. QED
  BY <1>1, <1>2, <1>3 DEF IsBuilt

KInv == BInv /\ MovesKeepPipeline

(* One place changes, or two by an exchange, and the rest stays. *)
LEMMA OneRebuilt ==
  ASSUME KInv, NEW p \in Places, NEW b, NEW n, NEW record, NEW state,
         place' = [place EXCEPT ![p] = state], box' = [box EXCEPT ![p] = b],
         count' = [count EXCEPT ![p] = n], built' = [built EXCEPT ![p] = record],
         state = "ready" => IsBuilt(b, n, record)
  PROVE  MovesKeepPipeline'
<1> SUFFICES ASSUME NEW r \in Places, place'[r] = "ready"
             PROVE  IsBuilt(box'[r], count'[r], built'[r])
  BY DEF MovesKeepPipeline, IsBuilt
<1>1. CASE r = p
  BY <1>1 DEF KInv, BInv, TypeOK
<1>2. CASE r # p
  BY <1>2 DEF KInv, BInv, TypeOK, MovesKeepPipeline
<1>3. QED
  BY <1>1, <1>2

LEMMA TwoRebuilt ==
  ASSUME KInv, NEW q \in Places, NEW p \in Places, q # p, NEW b, NEW n, NEW record,
         box' = Exchanged(q, p, b), HandsOver(q, p, n, record), IsBuilt(b, n, record)
  PROVE  MovesKeepPipeline'
<1> SUFFICES ASSUME NEW r \in Places, place'[r] = "ready"
             PROVE  IsBuilt(box'[r], count'[r], built'[r])
  BY DEF MovesKeepPipeline, IsBuilt
<1>1. CASE r = q
  BY <1>1 DEF KInv, BInv, TypeOK, HandsOver, Exchanged
<1>2. CASE r = p
  BY <1>2 DEF KInv, BInv, TypeOK, HandsOver
<1>3. CASE r # q /\ r # p
  BY <1>3 DEF KInv, BInv, TypeOK, HandsOver, Exchanged, MovesKeepPipeline
<1>4. QED
  BY <1>1, <1>2, <1>3

LEMMA StepKeepsPipelines ==
  ASSUME KInv, [Next]_vars
  PROVE  MovesKeepPipeline'
<1>00. BInv
  BY DEF KInv
<1>0. CASE UNCHANGED <<place, box, count, built>>
  BY <1>0 DEF KInv, MovesKeepPipeline, IsBuilt
<1>1. ASSUME NEW p \in Places, NEW x \in Callables, Construct(p, x) PROVE MovesKeepPipeline'
  BY <1>1, ConstructShape, NewIsBuilt, OneRebuilt DEF Construct
<1>01. \A p \in Places :
          /\ box[p] \in [Parts -> Boxes] /\ count[p] \in 0..MaxStages
          /\ built[p] \in Records
          /\ Ready(p) => IsBuilt(box[p], count[p], built[p])
  BY DEF KInv, BInv, TypeOK, MovesKeepPipeline, Ready
<1>02. \A p \in Places :
          /\ place = [place EXCEPT ![p] = place[p]]
          /\ count = [count EXCEPT ![p] = count[p]]
  BY DEF KInv, BInv, TypeOK
<1>2. ASSUME NEW p \in Places, NEW x \in Callables, AddStage(p, x) PROVE MovesKeepPipeline'
  <2>1. count[p] < MaxStages /\ Ready(p)
    BY <1>2 DEF AddStage
  <2>2. IsBuilt(HoldsStage(box[p], count[p], x), count[p] + 1, BuiltStage(built[p], x))
    <3>1. /\ box[p] \in [Parts -> Boxes] /\ count[p] \in 0..MaxStages
          /\ built[p] \in Records /\ IsBuilt(box[p], count[p], built[p])
      BY <2>1, <1>01, Zenon
    <3>2. QED
      BY <2>1, <3>1, StageIsBuilt, Zenon
  <2>3. /\ place' = [place EXCEPT ![p] = place[p]]
        /\ count' = [count EXCEPT ![p] = count[p] + 1]
        /\ built' = [built EXCEPT ![p] = BuiltStage(built[p], x)]
    BY <1>2, <1>02 DEF AddStage
  <2>4. box' = [box EXCEPT ![p] = HoldsStage(box[p], count[p], x)]
    BY <1>00, <1>2, AddStageShape
  <2>5. QED
    BY <2>2, <2>3, <2>4, OneRebuilt, Zenon
<1>3. ASSUME NEW p \in Places, NEW x \in Callables, RefuseStage(p, x) PROVE MovesKeepPipeline'
  BY <1>0, <1>3 DEF RefuseStage
<1>4. ASSUME NEW p \in Places, NEW x \in Callables, SetSink(p, x) PROVE MovesKeepPipeline'
  <2>1. IsBuilt(HoldsSink(box[p], x), count[p], BuiltSink(built[p], x))
    <3>1. /\ box[p] \in [Parts -> Boxes] /\ count[p] \in 0..MaxStages
          /\ built[p] \in Records /\ IsBuilt(box[p], count[p], built[p])
      BY <1>4, <1>01, Zenon DEF SetSink
    <3>2. QED
      BY <3>1, SinkIsBuilt, Zenon
  <2>2. /\ place' = [place EXCEPT ![p] = place[p]]
        /\ count' = [count EXCEPT ![p] = count[p]]
        /\ built' = [built EXCEPT ![p] = BuiltSink(built[p], x)]
    BY <1>4, <1>02 DEF SetSink
  <2>3. box' = [box EXCEPT ![p] = HoldsSink(box[p], x)]
    BY <1>00, <1>4, SetSinkShape
  <2>4. QED
    BY <2>1, <2>2, <2>3, OneRebuilt, Zenon
<1>5. ASSUME NEW x \in Callables, AllocatorRefuses(x) PROVE MovesKeepPipeline'
  BY <1>0, <1>5 DEF AllocatorRefuses
<1>6. ASSUME NEW q \in Places, NEW p \in Places, MoveConstruct(q, p) PROVE MovesKeepPipeline'
  <2>1. Ready(p) /\ q # p /\ HandsOver(q, p, count[p], built[p])
    BY <1>6 DEF MoveConstruct, Ready
  <2>2. box' = Exchanged(q, p, box[p])
    BY <1>00, <1>6, MoveConstructShape
  <2>3. QED
    <3>1. IsBuilt(box[p], count[p], built[p])
      BY <1>01, <2>1, Zenon
    <3>2. QED
      BY <2>1, <2>2, <3>1, TwoRebuilt, Zenon
<1>6a. ASSUME NEW q \in Places, NEW p \in Places, NEW x \in Callables, PipeRefused(q, p, x)
       PROVE  MovesKeepPipeline'
  <2>1. Ready(p) /\ q # p /\ HandsOver(q, p, count[p], built[p])
    BY <1>6a DEF PipeRefused, Ready
  <2>2. box' = Exchanged(q, p, box[p])
    BY <1>00, <1>6a, PipeRefusedShape
  <2>3. IsBuilt(box[p], count[p], built[p])
    BY <1>01, <2>1, Zenon
  <2>4. QED
    BY <2>1, <2>2, <2>3, TwoRebuilt, Zenon
<1>7. ASSUME NEW q \in Places, NEW p \in Places, MoveAssign(q, p) PROVE MovesKeepPipeline'
  <2>1. Ready(p) /\ q # p /\ HandsOver(q, p, count[p], built[p])
    BY <1>7 DEF MoveAssign
  <2>2. box' = Exchanged(q, p, box[p])
    BY <1>00, <1>7, MoveAssignShape
  <2>3. QED
    <3>1. IsBuilt(box[p], count[p], built[p])
      BY <1>01, <2>1, Zenon
    <3>2. QED
      BY <2>1, <2>2, <3>1, TwoRebuilt, Zenon
<1>8. ASSUME NEW q \in Places, NEW p \in Places, NEW x \in Callables, PipeStage(q, p, x)
      PROVE MovesKeepPipeline'
  <2>1. /\ Ready(p) /\ q # p /\ count[p] < MaxStages
        /\ HandsOver(q, p, count[p] + 1, BuiltStage(built[p], x))
    BY <1>8 DEF PipeStage, Ready
  <2>2. IsBuilt(HoldsStage(box[p], count[p], x), count[p] + 1, BuiltStage(built[p], x))
    <3>1. /\ box[p] \in [Parts -> Boxes] /\ count[p] \in 0..MaxStages
          /\ built[p] \in Records /\ IsBuilt(box[p], count[p], built[p])
      BY <2>1, <1>01, Zenon
    <3>2. QED
      BY <2>1, <3>1, StageIsBuilt, Zenon
  <2>3. box' = Exchanged(q, p, HoldsStage(box[p], count[p], x))
    BY <1>00, <1>8, PipeStageShape
  <2>4. QED
    BY <2>1, <2>2, <2>3, TwoRebuilt, Zenon
<1>9. ASSUME NEW q \in Places, NEW p \in Places, NEW x \in Callables, PipeSink(q, p, x)
      PROVE MovesKeepPipeline'
  <2>1. Ready(p) /\ q # p /\ HandsOver(q, p, count[p], BuiltSink(built[p], x))
    BY <1>9 DEF PipeSink, Ready
  <2>2. IsBuilt(HoldsSink(box[p], x), count[p], BuiltSink(built[p], x))
    <3>1. /\ box[p] \in [Parts -> Boxes] /\ count[p] \in 0..MaxStages
          /\ built[p] \in Records /\ IsBuilt(box[p], count[p], built[p])
      BY <2>1, <1>01, Zenon
    <3>2. QED
      BY <3>1, SinkIsBuilt, Zenon
  <2>3. box' = Exchanged(q, p, HoldsSink(box[p], x))
    BY <1>00, <1>9, PipeSinkShape
  <2>4. QED
    BY <2>1, <2>2, <2>3, TwoRebuilt, Zenon
<1>10. ASSUME NEW p \in Places, Destroy(p) PROVE MovesKeepPipeline'
  BY <1>00, <1>10, DestroyShape, OneRebuilt DEF Destroy
<1>11. CASE \/ \E p \in Places : AssignToItself(p) \/ Run(p)
            \/ InstallCallback \/ RunReturns \/ UNCHANGED vars
  BY <1>00, <1>0, <1>11, NothingToItself DEF Run, InstallCallback, RunReturns, vars, held_vars
<1>12. QED
  BY <1>1, <1>2, <1>3, <1>4, <1>5, <1>6, <1>6a, <1>7, <1>8, <1>9, <1>10, <1>11 DEF Next

LEMMA InitKInv ==
  ASSUME Init
  PROVE  KInv
  BY InitBInv DEF KInv, MovesKeepPipeline, Init

LEMMA StepKInv ==
  ASSUME KInv, [Next]_vars
  PROVE  KInv'
  BY StepBInv, StepKeepsPipelines DEF KInv

(* A pipeline that is in use is what it was built as: every way of moving it *)
(* brings its source, its stages in their order, its sink and its count.     *)
THEOREM MovesKeepPipelineHolds == Spec => []MovesKeepPipeline
<1>1. KInv => MovesKeepPipeline
  BY DEF KInv
<1>2. QED
  BY <1>1, InitKInv, StepKInv, PTL DEF Spec

-----------------------------------------------------------------------------
(* The callback.  A pipeline that runs is ready, and no step moves its boxes. *)

RInv ==
    /\ KInv
    /\ running # Nowhere => running \in Places /\ place[running] = "ready"
    /\ installed => running # Nowhere
    /\ PollsItsOwn

LEMMA RunningStays ==
  ASSUME RInv, UNCHANGED <<target, running, installed>>,
         running # Nowhere => place'[running] = place[running] /\ box'[running] = box[running]
  PROVE  RInv' <=> KInv'
  BY DEF RInv, PollsItsOwn

LEMMA StepRInv ==
  ASSUME RInv, [Next]_vars
  PROVE  RInv'
<1>0. KInv /\ KInv' /\ BInv
  BY StepKInv DEF RInv, KInv
<1>01. place \in [Places -> {"free", "ready", "left"}] /\ box \in [Places -> [Parts -> Boxes]]
  BY <1>0 DEF BInv, TypeOK
<1>02. running # Nowhere => running \in Places /\ place[running] = "ready"
  BY DEF RInv
<1>1. ASSUME NEW p \in Places, NEW x \in Callables,
             Construct(p, x) \/ AddStage(p, x) \/ RefuseStage(p, x) \/ SetSink(p, x)
      PROVE  RInv'
  <2>1. p # running
    BY <1>1, <1>02 DEF Construct, AddStage, RefuseStage, SetSink, Ready
  <2>2. running # Nowhere => place'[running] = place[running] /\ box'[running] = box[running]
    BY <1>1, <1>01, <1>02, <2>1 DEF Construct, AddStage, RefuseStage, SetSink
  <2>3. UNCHANGED <<target, running, installed>>
    BY <1>1 DEF Construct, AddStage, RefuseStage, SetSink
  <2>4. QED
    BY <1>0, <2>2, <2>3, RunningStays
<1>2. ASSUME NEW x \in Callables, AllocatorRefuses(x) PROVE RInv'
  BY <1>0, <1>2, RunningStays DEF AllocatorRefuses
<1>3. ASSUME NEW q \in Places, NEW p \in Places,
             \/ MoveConstruct(q, p) \/ MoveAssign(q, p)
             \/ \E x \in Callables :
                   PipeStage(q, p, x) \/ PipeRefused(q, p, x) \/ PipeSink(q, p, x)
      PROVE  RInv'
  <2>1. p # running /\ q # running
    BY <1>3, <1>02 DEF MoveConstruct, MoveAssign, PipeStage, PipeRefused, PipeSink, Ready
  <2>2. running # Nowhere => box'[running] = box[running]
    BY <1>3, <1>01, <1>02, <2>1 DEF MoveConstruct, MoveAssign, PipeStage, PipeRefused, PipeSink
  <2>3. \E n, record : HandsOver(q, p, n, record)
    BY <1>3 DEF MoveConstruct, MoveAssign, PipeStage, PipeRefused, PipeSink
  <2>4. running # Nowhere => place'[running] = place[running]
    BY <1>01, <1>02, <2>1, <2>3 DEF HandsOver
  <2>5. UNCHANGED <<target, running, installed>>
    BY <2>3 DEF HandsOver
  <2>6. QED
    BY <1>0, <2>2, <2>4, <2>5, RunningStays
<1>4. ASSUME NEW p \in Places, Destroy(p) PROVE RInv'
  <2>1. running # Nowhere => place'[running] = place[running] /\ box'[running] = box[running]
    BY <1>4, <1>01, <1>02 DEF Destroy
  <2>2. UNCHANGED <<target, running, installed>>
    BY <1>4 DEF Destroy
  <2>3. QED
    BY <1>0, <2>1, <2>2, RunningStays
<1>5. CASE UNCHANGED vars \/ \E p \in Places : AssignToItself(p)
  BY <1>0, <1>5, RunningStays, NothingToItself DEF vars, held_vars
<1>6. ASSUME NEW p \in Places, Run(p) PROVE RInv'
  BY <1>0, <1>6 DEF Run, Ready, RInv, PollsItsOwn, held_vars
<1>7. CASE InstallCallback
  <2>1. running \in Places /\ place[running] = "ready"
    BY <1>7, <1>02 DEF InstallCallback
  <2>2. box[running][Source] = Holding(built[running].source)
    BY <1>0, <2>1 DEF KInv, MovesKeepPipeline, IsBuilt
  <2>3. Truthful(box[running][Source])
    BY <1>0, <2>1, PlaceBoxes
  <2>4. box[running][Source].obj \in Callables
    BY <2>2, <2>3 DEF Truthful, Holding, Boxes
  <2>5. target'[box[running][Source].obj] = running
    BY <1>0, <1>7, <2>4 DEF InstallCallback, BInv, TypeOK
  <2>6. PollsItsOwn'
    BY <1>7, <2>5 DEF InstallCallback, PollsItsOwn, held_vars
  <2>7. QED
    BY <1>0, <1>7, <2>1, <2>6 DEF InstallCallback, RInv, held_vars
<1>8. CASE RunReturns
  BY <1>0, <1>8 DEF RunReturns, RInv, PollsItsOwn, held_vars
<1>9. QED
  BY <1>1, <1>2, <1>3, <1>4, <1>5, <1>6, <1>7, <1>8 DEF Next

(* An event loop never polls a source whose callback leads to a place that   *)
(* its pipeline has left.                                                    *)
THEOREM PollsItsOwnHolds == Spec => []PollsItsOwn
<1>1. Init => RInv
  BY InitKInv DEF Init, RInv, PollsItsOwn
<1>2. RInv /\ [Next]_vars => RInv'
  BY StepRInv
<1>3. RInv => PollsItsOwn
  BY DEF RInv
<1>4. QED
  BY <1>1, <1>2, <1>3, PTL DEF Spec

-----------------------------------------------------------------------------
(* Ownership.  Owned says of the contents of all boxes, of what was handed   *)
(* in and of what was destroyed that each callable has its one owner.        *)

Owned(bx, m, g) ==
    /\ m \subseteq Callables /\ g \subseteq m
    /\ bx \in [Places -> [Parts -> Boxes]]
    /\ \A p \in Places : \A i \in Parts : Truthful(bx[p][i])
    /\ \A p \in Places : \A i \in Parts :
          bx[p][i].obj # None => bx[p][i].obj \in m /\ bx[p][i].obj \notin g
    /\ \A p, q \in Places : \A i, j \in Parts :
          bx[p][i].obj # None /\ bx[p][i].obj = bx[q][j].obj => p = q /\ i = j
    /\ \A x \in m : x \in g \/ \E p \in Places : \E i \in Parts : bx[p][i].obj = x

DiesAt(boxes) == UNION {Dies(boxes[i]) : i \in Parts}

LEMMA DiesIs ==
  ASSUME NEW b, Truthful(b)
  PROVE  Dies(b) = IF b.obj = None THEN {} ELSE {b.obj}
  BY DEF Dies, Truthful

LEMMA OneBox ==
  ASSUME NEW bx, NEW m, NEW g, Owned(bx, m, g)
  PROVE  \A p, q \in Places : \A i, j \in Parts :
            bx[p][i].obj # None /\ bx[p][i].obj = bx[q][j].obj => p = q /\ i = j
  BY DEF Owned

LEMMA RawObj == Raw.obj = None /\ Raw \in Boxes /\ Truthful(Raw)
  BY RawTruthful DEF Raw, Truthful

(* A box filled with a new callable: what was in it is destroyed. *)
LEMMA FillOwned ==
  ASSUME NEW bx, NEW m, NEW g, Owned(bx, m, g),
         NEW p \in Places, NEW k \in Parts, NEW x \in Callables, x \notin m
  PROVE  Owned([bx EXCEPT ![p] = [bx[p] EXCEPT ![k] = Holding(x)]],
               m \cup {x}, g \cup Dies(bx[p][k]))
<1>0. \A r, q \in Places : \A i, j \in Parts :
        bx[r][i].obj # None /\ bx[r][i].obj = bx[q][j].obj => r = q /\ i = j
  BY OneBox
<1> DEFINE by == [bx EXCEPT ![p] = [bx[p] EXCEPT ![k] = Holding(x)]]
           old == bx[p][k].obj
           g2 == g \cup Dies(bx[p][k])
<1>1. Holding(x) \in Boxes /\ Truthful(Holding(x)) /\ Holding(x).obj = x /\ x # None
  BY HoldingTruthful DEF Truthful
<1>2. by \in [Places -> [Parts -> Boxes]]
  BY <1>1 DEF Owned
<1>3. \A r \in Places : \A i \in Parts :
        by[r][i] = IF r = p /\ i = k THEN Holding(x) ELSE bx[r][i]
  BY DEF Owned
<1>4. \A r \in Places : \A i \in Parts :
        by[r][i].obj = IF r = p /\ i = k THEN x ELSE bx[r][i].obj
  BY <1>1, <1>3
<1>5. \A c : c \in g2 <=> c \in g \/ (c = old /\ old # None)
  BY DiesIs DEF Owned
<1> HIDE DEF by, g2
<1>6. \A r \in Places : \A i \in Parts : Truthful(by[r][i])
  BY <1>1, <1>3 DEF Owned
<1>7. \A r \in Places : \A i \in Parts :
        by[r][i].obj # None => by[r][i].obj \in m \cup {x} /\ by[r][i].obj \notin g2
  <2> SUFFICES ASSUME NEW r \in Places, NEW i \in Parts, by[r][i].obj # None
               PROVE  by[r][i].obj \in m \cup {x} /\ by[r][i].obj \notin g2
    OBVIOUS
  <2>1. CASE r = p /\ i = k
    <3>1. by[r][i].obj = x
      BY <1>4, <2>1
    <3>2. old # x
      BY <1>1 DEF Owned
    <3>3. x \notin g
      BY DEF Owned
    <3>4. QED
      BY <1>5, <3>1, <3>2, <3>3
  <2>2. CASE ~(r = p /\ i = k)
    <3>1. by[r][i].obj = bx[r][i].obj
      BY <1>4, <2>2
    <3>2. bx[r][i].obj # old \/ old = None
      BY <2>2, <3>1 DEF Owned
    <3>3. QED
      BY <1>5, <3>1, <3>2 DEF Owned
  <2>3. QED
    BY <2>1, <2>2
<1>8. \A r, q \in Places : \A i, j \in Parts :
        by[r][i].obj # None /\ by[r][i].obj = by[q][j].obj => r = q /\ i = j
  <2>1. \A r \in Places : \A i \in Parts : bx[r][i].obj # x
    BY <1>1 DEF Owned
  <2> SUFFICES ASSUME NEW r \in Places, NEW q \in Places, NEW i \in Parts, NEW j \in Parts,
                      by[r][i].obj # None, by[r][i].obj = by[q][j].obj
               PROVE  r = q /\ i = j
    OBVIOUS
  <2>2. CASE r = p /\ i = k
    BY <1>4, <2>1, <2>2
  <2>3. CASE q = p /\ j = k
    BY <1>4, <2>1, <2>3
  <2>4. CASE ~(r = p /\ i = k) /\ ~(q = p /\ j = k)
    <3>1. by[r][i].obj = bx[r][i].obj /\ by[q][j].obj = bx[q][j].obj
      BY <1>4, <2>4
    <3>2. bx[r][i].obj # None /\ bx[r][i].obj = bx[q][j].obj
      BY <3>1
    <3>3. QED
      BY <3>2, <1>0
  <2>5. QED
    BY <2>2, <2>3, <2>4
<1>9. \A c \in m \cup {x} : c \in g2 \/ \E r \in Places : \E i \in Parts : by[r][i].obj = c
  <2> SUFFICES ASSUME NEW c \in m \cup {x}, c \notin g2
               PROVE  \E r \in Places : \E i \in Parts : by[r][i].obj = c
    OBVIOUS
  <2>1. CASE c = x
    BY <1>4, <2>1
  <2>2. CASE c # x
    <3>1. PICK r \in Places, i \in Parts : bx[r][i].obj = c
      BY <1>5, <2>2 DEF Owned
    <3>2. c # None
      BY <2>2 DEF Owned
    <3>3. ~(r = p /\ i = k)
      BY <1>5, <3>1, <3>2
    <3>4. QED
      BY <1>4, <3>1, <3>3
  <2>3. QED
    BY <2>1, <2>2
<1>10. m \cup {x} \subseteq Callables /\ g2 \subseteq m \cup {x}
  BY <1>5 DEF Owned
<1>11. QED
  BY <1>2, <1>6, <1>7, <1>8, <1>9, <1>10 DEF Owned, by, g2

(* The boxes of p go to q, where what was in the boxes is destroyed. *)
LEMMA ExchangeOwned ==
  ASSUME NEW bx, NEW m, NEW g, Owned(bx, m, g),
         NEW q \in Places, NEW p \in Places, q # p
  PROVE  Owned([bx EXCEPT ![q] = bx[p], ![p] = AllRaw], m, g \cup DiesAt(bx[q]))
<1>0. \A r, s \in Places : \A i, j \in Parts :
        bx[r][i].obj # None /\ bx[r][i].obj = bx[s][j].obj => r = s /\ i = j
  BY OneBox
<1> DEFINE by == [bx EXCEPT ![q] = bx[p], ![p] = AllRaw]
           g2 == g \cup DiesAt(bx[q])
<1>1. AllRaw \in [Parts -> Boxes] /\ \A i \in Parts : AllRaw[i] = Raw
  BY RawObj DEF AllRaw
<1>2. by \in [Places -> [Parts -> Boxes]]
  BY <1>1 DEF Owned
<1>3. \A r \in Places : \A i \in Parts :
        by[r][i] = IF r = p THEN Raw ELSE IF r = q THEN bx[p][i] ELSE bx[r][i]
  BY <1>1 DEF Owned
<1>4. \A c : c \in g2 <=> c \in g \/ \E i \in Parts : c = bx[q][i].obj /\ c # None
  BY DiesIs DEF Owned, DiesAt
<1> HIDE DEF by, g2
<1>5. \A r \in Places : \A i \in Parts : Truthful(by[r][i])
  BY <1>3, RawObj DEF Owned
<1>6. \A r \in Places : \A i \in Parts : by[r][i].obj # None =>
        r # p /\ \E o \in Places : o # q /\ by[r][i] = bx[o][i] /\ (r = q <=> o = p)
  BY <1>3, RawObj
<1>7. \A r \in Places : \A i \in Parts :
        by[r][i].obj # None => by[r][i].obj \in m /\ by[r][i].obj \notin g2
  <2> SUFFICES ASSUME NEW r \in Places, NEW i \in Parts, by[r][i].obj # None
               PROVE  by[r][i].obj \in m /\ by[r][i].obj \notin g2
    OBVIOUS
  <2>1. PICK o \in Places : o # q /\ by[r][i] = bx[o][i]
    BY <1>6
  <2>2. by[r][i].obj \in m /\ by[r][i].obj \notin g
    BY <2>1 DEF Owned
  <2>3. \A j \in Parts : by[r][i].obj # bx[q][j].obj
    BY <2>1 DEF Owned
  <2>4. QED
    BY <1>4, <2>2, <2>3
<1>8. \A r, s \in Places : \A i, j \in Parts :
        by[r][i].obj # None /\ by[r][i].obj = by[s][j].obj => r = s /\ i = j
  <2> SUFFICES ASSUME NEW r \in Places, NEW s \in Places, NEW i \in Parts, NEW j \in Parts,
                      by[r][i].obj # None, by[r][i].obj = by[s][j].obj
               PROVE  r = s /\ i = j
    OBVIOUS
  <2>0. r # p /\ s # p
    BY <1>6
  <2> DEFINE From(t) == IF t = q THEN p ELSE t
  <2>1. by[r][i] = bx[From(r)][i] /\ by[s][j] = bx[From(s)][j]
    BY <1>3, <2>0
  <2>2. From(r) \in Places /\ From(s) \in Places
    OBVIOUS
  <2>3. bx[From(r)][i].obj # None /\ bx[From(r)][i].obj = bx[From(s)][j].obj
    BY <2>1
  <2> HIDE DEF From
  <2>4. From(r) = From(s) /\ i = j
    BY <2>2, <2>3, <1>0
  <2> USE DEF From
  <2>5. QED
    BY <2>0, <2>4
<1>9. \A c \in m : c \in g2 \/ \E r \in Places : \E i \in Parts : by[r][i].obj = c
  <2> SUFFICES ASSUME NEW c \in m, c \notin g2
               PROVE  \E r \in Places : \E i \in Parts : by[r][i].obj = c
    OBVIOUS
  <2>1. c # None
    BY DEF Owned
  <2>2. PICK r \in Places, i \in Parts : bx[r][i].obj = c
    BY <1>4 DEF Owned
  <2>3. r # q
    BY <1>4, <2>1, <2>2
  <2>4. by[IF r = p THEN q ELSE r][i] = bx[r][i]
    BY <1>3, <2>3
  <2>5. QED
    BY <2>2, <2>4
<1>10. m \subseteq Callables /\ g2 \subseteq m
  BY <1>4 DEF Owned
<1>11. QED
  BY <1>2, <1>5, <1>7, <1>8, <1>9, <1>10 DEF Owned, by, g2

(* The boxes of p are reset. *)
LEMMA ResetOwned ==
  ASSUME NEW bx, NEW m, NEW g, Owned(bx, m, g), NEW p \in Places
  PROVE  Owned([bx EXCEPT ![p] = AllRaw], m, g \cup DiesAt(bx[p]))
<1>0. \A r, s \in Places : \A i, j \in Parts :
        bx[r][i].obj # None /\ bx[r][i].obj = bx[s][j].obj => r = s /\ i = j
  BY OneBox
<1> DEFINE by == [bx EXCEPT ![p] = AllRaw]
           g2 == g \cup DiesAt(bx[p])
<1>1. AllRaw \in [Parts -> Boxes] /\ \A i \in Parts : AllRaw[i] = Raw
  BY RawObj DEF AllRaw
<1>2. by \in [Places -> [Parts -> Boxes]]
  BY <1>1 DEF Owned
<1>3. \A r \in Places : \A i \in Parts : by[r][i] = IF r = p THEN Raw ELSE bx[r][i]
  BY <1>1 DEF Owned
<1>4. \A c : c \in g2 <=> c \in g \/ \E i \in Parts : c = bx[p][i].obj /\ c # None
  BY DiesIs DEF Owned, DiesAt
<1> HIDE DEF by, g2
<1>5. \A r \in Places : \A i \in Parts : Truthful(by[r][i])
  BY <1>3, RawObj DEF Owned
<1>6. \A r \in Places : \A i \in Parts :
        by[r][i].obj # None => r # p /\ by[r][i] = bx[r][i]
  BY <1>3, RawObj
<1>7. \A r \in Places : \A i \in Parts :
        by[r][i].obj # None => by[r][i].obj \in m /\ by[r][i].obj \notin g2
  BY <1>4, <1>6 DEF Owned
<1>8. \A r, s \in Places : \A i, j \in Parts :
        by[r][i].obj # None /\ by[r][i].obj = by[s][j].obj => r = s /\ i = j
  <2> SUFFICES ASSUME NEW r \in Places, NEW s \in Places, NEW i \in Parts, NEW j \in Parts,
                      by[r][i].obj # None, by[r][i].obj = by[s][j].obj
               PROVE  r = s /\ i = j
    OBVIOUS
  <2>1. by[r][i] = bx[r][i] /\ by[s][j] = bx[s][j]
    BY <1>6
  <2>2. bx[r][i].obj # None /\ bx[r][i].obj = bx[s][j].obj
    BY <2>1
  <2>3. QED
    BY <2>2, <1>0
<1>9. \A c \in m : c \in g2 \/ \E r \in Places : \E i \in Parts : by[r][i].obj = c
  <2> SUFFICES ASSUME NEW c \in m, c \notin g2
               PROVE  \E r \in Places : \E i \in Parts : by[r][i].obj = c
    OBVIOUS
  <2>1. c # None
    BY DEF Owned
  <2>2. PICK r \in Places, i \in Parts : bx[r][i].obj = c
    BY <1>4 DEF Owned
  <2>3. r # p
    BY <1>4, <2>1, <2>2
  <2>4. QED
    BY <1>3, <2>2, <2>3
<1>10. m \subseteq Callables /\ g2 \subseteq m
  BY <1>4 DEF Owned
<1>11. QED
  BY <1>2, <1>5, <1>7, <1>8, <1>9, <1>10 DEF Owned, by, g2

(* A callable that is refused is destroyed at once. *)
LEMMA RefusedOwned ==
  ASSUME NEW bx, NEW m, NEW g, Owned(bx, m, g), NEW x \in Callables, x \notin m
  PROVE  Owned(bx, m \cup {x}, g \cup {x})
  BY DEF Owned

-----------------------------------------------------------------------------
(* Every step keeps the owners apart. *)

FreeIsRaw == \A p \in Places : place[p] = "free" => box[p] = AllRaw

OInv == KInv /\ Owned(box, made, gone) /\ FreeIsRaw

LEMMA NothingDies == Dies(Raw) = {} /\ DiesAt(AllRaw) = {}
  BY DEF Dies, DiesAt, Raw, AllRaw

LEMMA KInvIsBInv == KInv => BInv
  BY DEF KInv

(* The boxes of p, with x in box k, at q: an exchange, then a fill. *)
LEMMA PipeOwned ==
  ASSUME NEW bx, NEW m, NEW g, Owned(bx, m, g),
         NEW q \in Places, NEW p \in Places, q # p, bx[q] = AllRaw,
         NEW k \in Parts, NEW x \in Callables, x \notin m
  PROVE  Owned([bx EXCEPT ![q] = [bx[p] EXCEPT ![k] = Holding(x)], ![p] = AllRaw],
               m \cup {x}, g \cup Dies(bx[p][k]))
<1> DEFINE mid == [bx EXCEPT ![q] = bx[p], ![p] = AllRaw]
<1>1. g \cup DiesAt(bx[q]) = g
  BY NothingDies
<1>2. Owned(mid, m, g \cup DiesAt(bx[q]))
  BY ExchangeOwned
<1>3. Owned(mid, m, g)
  BY <1>1, <1>2
<1>4. bx \in [Places -> [Parts -> Boxes]]
  BY DEF Owned
<1>5. mid[q] = bx[p]
  BY <1>4
<1>6. [mid EXCEPT ![q] = [bx[p] EXCEPT ![k] = Holding(x)]]
        = [bx EXCEPT ![q] = [bx[p] EXCEPT ![k] = Holding(x)], ![p] = AllRaw]
  BY <1>4
<1> HIDE DEF mid
<1>7. Owned([mid EXCEPT ![q] = [mid[q] EXCEPT ![k] = Holding(x)]],
            m \cup {x}, g \cup Dies(mid[q][k]))
  BY <1>3, FillOwned
<1>8. QED
  BY <1>5, <1>6, <1>7

(* A pipeline with n stages has nothing in the boxes after those. *)
LEMMA NextIsRaw ==
  ASSUME KInv, NEW p \in Places, place[p] = "ready", count[p] < MaxStages
  PROVE  count[p] + 1 \in Parts /\ box[p][count[p] + 1] = Raw
<1>1. count[p] \in 0..MaxStages
  BY DEF KInv, BInv, TypeOK
<1>2. count[p] + 1 \in 1..MaxStages /\ ~(count[p] + 1 <= count[p])
  BY <1>1
<1>3. QED
  BY <1>2 DEF KInv, MovesKeepPipeline, IsBuilt

LEMMA StepOwned ==
  ASSUME OInv, Next
  PROVE  Owned(box', made', gone')
<1>0. BInv /\ KInv /\ Owned(box, made, gone) /\ FreeIsRaw
  BY DEF OInv, KInv
<1>1. ASSUME NEW p \in Places, NEW x \in Callables, Construct(p, x)
      PROVE  Owned(box', made', gone')
  <2>1. box[p] = AllRaw /\ box' = [box EXCEPT ![p] = [AllRaw EXCEPT ![Source] = Holding(x)]]
    BY <1>0, <1>1, ConstructShape DEF Construct, FreeIsRaw
  <2>2. Source \in Parts /\ box[p][Source] = Raw
    BY <2>1 DEF AllRaw
  <2>3. x \notin made /\ made' = made \cup {x} /\ gone' = gone \cup Dies(box[p][Source])
    BY <1>1, <2>2, NothingDies DEF Construct, New
  <2>4. Owned([box EXCEPT ![p] = [box[p] EXCEPT ![Source] = Holding(x)]],
              made \cup {x}, gone \cup Dies(box[p][Source]))
    BY <1>0, <2>2, <2>3, FillOwned
  <2>5. QED
    BY <2>1, <2>3, <2>4
<1>2. ASSUME NEW p \in Places, NEW x \in Callables, AddStage(p, x)
      PROVE  Owned(box', made', gone')
  <2> DEFINE k == count[p] + 1
  <2>1. box' = [box EXCEPT ![p] = [box[p] EXCEPT ![k] = Holding(x)]]
    BY <1>0, <1>2, AddStageShape DEF HoldsStage
  <2>2. k \in Parts /\ x \notin made /\ made' = made \cup {x}
        /\ gone' = gone \cup Dies(box[p][k])
    BY <1>0, <1>2 DEF AddStage, New, BInv, TypeOK
  <2> HIDE DEF k
  <2>3. Owned([box EXCEPT ![p] = [box[p] EXCEPT ![k] = Holding(x)]],
              made \cup {x}, gone \cup Dies(box[p][k]))
    BY <1>0, <2>2, FillOwned
  <2>4. QED
    BY <2>1, <2>2, <2>3
<1>3. ASSUME NEW p \in Places, NEW x \in Callables, SetSink(p, x)
      PROVE  Owned(box', made', gone')
  <2>1. box' = [box EXCEPT ![p] = [box[p] EXCEPT ![Sink] = Holding(x)]]
    BY <1>0, <1>3, SetSinkShape DEF HoldsSink
  <2>2. Sink \in Parts /\ x \notin made /\ made' = made \cup {x}
        /\ gone' = gone \cup Dies(box[p][Sink])
    BY <1>3 DEF SetSink, New
  <2>3. Owned([box EXCEPT ![p] = [box[p] EXCEPT ![Sink] = Holding(x)]],
              made \cup {x}, gone \cup Dies(box[p][Sink]))
    BY <1>0, <2>2, FillOwned
  <2>4. QED
    BY <2>1, <2>2, <2>3
<1>4. ASSUME NEW x \in Callables,
             AllocatorRefuses(x) \/ \E p \in Places : RefuseStage(p, x)
      PROVE  Owned(box', made', gone')
  <2>1. x \notin made /\ made' = made \cup {x} /\ gone' = gone \cup {x} /\ box' = box
    BY <1>4 DEF AllocatorRefuses, RefuseStage, New
  <2>2. QED
    BY <1>0, <2>1, RefusedOwned
<1>5. ASSUME NEW q \in Places, NEW p \in Places, MoveConstruct(q, p)
      PROVE  Owned(box', made', gone')
  <2>1. q # p /\ box[q] = AllRaw /\ box' = [box EXCEPT ![q] = box[p], ![p] = AllRaw]
    BY <1>0, <1>5, MoveConstructShape DEF MoveConstruct, Ready, FreeIsRaw, Exchanged
  <2>2. made' = made /\ gone' = gone \cup DiesAt(box[q])
    BY <1>5, <2>1, NothingDies DEF MoveConstruct
  <2>3. Owned([box EXCEPT ![q] = box[p], ![p] = AllRaw], made, gone \cup DiesAt(box[q]))
    BY <1>0, <2>1, ExchangeOwned
  <2>4. QED
    BY <2>1, <2>2, <2>3
<1>6. ASSUME NEW q \in Places, NEW p \in Places, MoveAssign(q, p)
      PROVE  Owned(box', made', gone')
  <2>1. q # p /\ box' = [box EXCEPT ![q] = box[p], ![p] = AllRaw]
    BY <1>0, <1>6, MoveAssignShape DEF MoveAssign, Exchanged
  <2>2. made' = made /\ gone' = gone \cup DiesAt(box[q])
    BY <1>6, MoveAssignGone DEF MoveAssign, DiesAt
  <2>3. Owned([box EXCEPT ![q] = box[p], ![p] = AllRaw], made, gone \cup DiesAt(box[q]))
    BY <1>0, <2>1, ExchangeOwned
  <2>4. QED
    BY <2>1, <2>2, <2>3
<1>7. ASSUME NEW q \in Places, NEW p \in Places, NEW x \in Callables, PipeStage(q, p, x)
      PROVE  Owned(box', made', gone')
  <2> DEFINE k == count[p] + 1
  <2>1. q # p /\ box[q] = AllRaw /\ place[p] = "ready" /\ count[p] < MaxStages
    BY <1>0, <1>7 DEF PipeStage, Ready, FreeIsRaw
  <2>2. box' = [box EXCEPT ![q] = [box[p] EXCEPT ![k] = Holding(x)], ![p] = AllRaw]
    BY <1>0, <1>7, PipeStageShape DEF Exchanged, HoldsStage
  <2>3. k \in Parts /\ box[p][k] = Raw
    BY <1>0, <2>1, NextIsRaw
  <2>4. x \notin made /\ made' = made \cup {x} /\ gone' = gone \cup Dies(box[p][k])
    BY <1>7, <2>3, NothingDies DEF PipeStage, New
  <2> HIDE DEF k
  <2>5. Owned([box EXCEPT ![q] = [box[p] EXCEPT ![k] = Holding(x)], ![p] = AllRaw],
              made \cup {x}, gone \cup Dies(box[p][k]))
    BY <1>0, <2>1, <2>3, <2>4, PipeOwned
  <2>6. QED
    BY <2>2, <2>4, <2>5
<1>7a. ASSUME NEW q \in Places, NEW p \in Places, NEW x \in Callables, PipeRefused(q, p, x)
       PROVE  Owned(box', made', gone')
  <2> DEFINE mid == [box EXCEPT ![q] = box[p], ![p] = AllRaw]
  <2>1. q # p /\ box[q] = AllRaw
    BY <1>0, <1>7a DEF PipeRefused, Ready, FreeIsRaw
  <2>2. x \notin made /\ made' = made \cup {x} /\ gone' = gone \cup {x} /\ box' = mid
    BY <1>0, <1>7a, PipeRefusedShape DEF PipeRefused, New, Exchanged
  <2>3. Owned(mid, made, gone \cup DiesAt(box[q])) /\ gone \cup DiesAt(box[q]) = gone
    BY <1>0, <2>1, ExchangeOwned, NothingDies
  <2> HIDE DEF mid
  <2>4. Owned(mid, made, gone)
    BY <2>3
  <2>5. QED
    BY <2>2, <2>4, RefusedOwned
<1>8. ASSUME NEW q \in Places, NEW p \in Places, NEW x \in Callables, PipeSink(q, p, x)
      PROVE  Owned(box', made', gone')
  <2>1. q # p /\ box[q] = AllRaw
    BY <1>0, <1>8 DEF PipeSink, Ready, FreeIsRaw
  <2>2. box' = [box EXCEPT ![q] = [box[p] EXCEPT ![Sink] = Holding(x)], ![p] = AllRaw]
    BY <1>0, <1>8, PipeSinkShape DEF Exchanged, HoldsSink
  <2>3. Moved(box[p]) = box[p]
    BY <1>0, PlaceBoxes, MovedAll
  <2>4. Sink \in Parts /\ x \notin made /\ made' = made \cup {x}
        /\ gone' = gone \cup Dies(box[p][Sink])
    BY <1>8, <2>3 DEF PipeSink, New
  <2>5. Owned([box EXCEPT ![q] = [box[p] EXCEPT ![Sink] = Holding(x)], ![p] = AllRaw],
              made \cup {x}, gone \cup Dies(box[p][Sink]))
    BY <1>0, <2>1, <2>4, PipeOwned
  <2>6. QED
    BY <2>2, <2>4, <2>5
<1>9. ASSUME NEW p \in Places, Destroy(p)
      PROVE  Owned(box', made', gone')
  <2>1. box' = [box EXCEPT ![p] = AllRaw]
    BY <1>0, <1>9, DestroyShape
  <2>2. made' = made /\ gone' = gone \cup DiesAt(box[p])
    BY <1>9 DEF Destroy, DiesAt
  <2>3. Owned([box EXCEPT ![p] = AllRaw], made, gone \cup DiesAt(box[p]))
    BY <1>0, ResetOwned
  <2>4. QED
    BY <2>1, <2>2, <2>3
<1>10. ASSUME (\E p \in Places : AssignToItself(p) \/ Run(p)) \/ InstallCallback \/ RunReturns
       PROVE  Owned(box', made', gone')
  <2>1. box' = box /\ made' = made /\ gone' = gone
    BY <1>0, <1>10, NothingToItself DEF Run, InstallCallback, RunReturns, vars, held_vars
  <2>2. QED
    BY <1>0, <2>1
<1>11. QED
  BY <1>1, <1>2, <1>3, <1>4, <1>5, <1>6, <1>7, <1>7a, <1>8, <1>9, <1>10 DEF Next

LEMMA StepFree ==
  ASSUME OInv, Next
  PROVE  FreeIsRaw'
<1>0. BInv /\ FreeIsRaw /\ place \in [Places -> {"free", "ready", "left"}]
      /\ box \in [Places -> [Parts -> Boxes]]
  BY DEF OInv, KInv, BInv, TypeOK
<1>1. ASSUME NEW p \in Places, NEW x \in Callables,
             Construct(p, x) \/ AddStage(p, x) \/ SetSink(p, x)
      PROVE  FreeIsRaw'
  <2>1. place'[p] = "ready"
    BY <1>0, <1>1 DEF Construct, AddStage, SetSink, Ready
  <2>2. \A r \in Places : r # p => place'[r] = place[r] /\ box'[r] = box[r]
    BY <1>0, <1>1 DEF Construct, AddStage, SetSink
  <2>3. QED
    BY <1>0, <2>1, <2>2 DEF FreeIsRaw
<1>2. ASSUME NEW x \in Callables,
             AllocatorRefuses(x) \/ \E p \in Places : RefuseStage(p, x)
      PROVE  FreeIsRaw'
  BY <1>0, <1>2 DEF AllocatorRefuses, RefuseStage, FreeIsRaw
<1>3. ASSUME NEW q \in Places, NEW p \in Places,
             \/ MoveConstruct(q, p) \/ MoveAssign(q, p)
             \/ \E x \in Callables :
                   PipeStage(q, p, x) \/ PipeRefused(q, p, x) \/ PipeSink(q, p, x)
      PROVE  FreeIsRaw'
  <2>1. place' = [place EXCEPT ![q] = "ready", ![p] = "left"]
    BY <1>3 DEF MoveConstruct, MoveAssign, PipeStage, PipeRefused, PipeSink, HandsOver
  <2>2. \A r \in Places : r # p /\ r # q => box'[r] = box[r]
    BY <1>0, <1>3 DEF MoveConstruct, MoveAssign, PipeStage, PipeRefused, PipeSink
  <2>3. \A r \in Places : place'[r] = "free" => r # p /\ r # q /\ place[r] = "free"
    BY <1>0, <2>1
  <2>4. QED
    BY <1>0, <2>2, <2>3 DEF FreeIsRaw
<1>4. ASSUME NEW p \in Places, Destroy(p)
      PROVE  FreeIsRaw'
  <2>1. box' = [box EXCEPT ![p] = AllRaw] /\ place' = [place EXCEPT ![p] = "free"]
    BY <1>0, <1>4, DestroyShape DEF Destroy
  <2>2. QED
    BY <1>0, <2>1 DEF FreeIsRaw
<1>5. ASSUME (\E p \in Places : AssignToItself(p) \/ Run(p)) \/ InstallCallback \/ RunReturns
      PROVE  FreeIsRaw'
  BY <1>0, <1>5, NothingToItself DEF Run, InstallCallback, RunReturns, vars, held_vars, FreeIsRaw
<1>6. QED
  BY <1>1, <1>2, <1>3, <1>4, <1>5 DEF Next

LEMMA InitOInv ==
  ASSUME Init
  PROVE  OInv
<1>1. \A p \in Places : box[p] = AllRaw
  BY DEF Init, AllRaw
<1>2. \A p \in Places : \A i \in Parts : box[p][i].obj = None /\ Truthful(box[p][i])
  BY <1>1, RawObj DEF AllRaw
<1>3. box \in [Places -> [Parts -> Boxes]] /\ made = {} /\ gone = {}
  BY RawObj DEF Init
<1>4. Owned(box, made, gone)
  BY <1>2, <1>3 DEF Owned
<1>5. QED
  BY <1>1, <1>4, InitKInv DEF OInv, FreeIsRaw

LEMMA StepOInv ==
  ASSUME OInv, [Next]_vars
  PROVE  OInv'
<1>1. KInv'
  BY StepKInv DEF OInv
<1>2. CASE Next
  BY <1>1, <1>2, StepOwned, StepFree DEF OInv
<1>3. CASE UNCHANGED vars
  <2>1. place' = place /\ box' = box /\ made' = made /\ gone' = gone
    BY <1>3 DEF vars, held_vars
  <2>2. Owned(box', made', gone') /\ FreeIsRaw'
    BY <2>1 DEF OInv, FreeIsRaw
  <2>3. QED
    BY <1>1, <2>2 DEF OInv
<1>4. QED
  BY <1>2, <1>3

LEMMA OwnedIsOne ==
  ASSUME Owned(box, made, gone), NEW x \in made
  PROVE  Cardinality(Owners(x)) = IF x \in gone THEN 0 ELSE 1
<1>1. x # None
  BY DEF Owned
<1>2. CASE x \in gone
  <2>1. Owners(x) = {}
    BY <1>1, <1>2 DEF Owned, Owners
  <2>2. QED
    BY <1>2, <2>1, FS_EmptySet
<1>3. CASE x \notin gone
  <2>1. PICK p \in Places, i \in Parts : box[p][i].obj = x
    BY <1>3 DEF Owned
  <2>2. \A q \in Places : \A j \in Parts : box[q][j].obj = x => q = p /\ j = i
    BY <1>1, <2>1, OneBox
  <2>3. Owners(x) = {<<p, i>>}
    BY <2>1, <2>2 DEF Owners
  <2>4. QED
    BY <1>3, <2>3, FS_Singleton
<1>4. QED
  BY <1>2, <1>3

(* Of all that was handed in, each callable is in exactly one box, or its    *)
(* destructor has run and it is in none.                                     *)
THEOREM OneOwnerHolds == Spec => []OneOwner
<1>1. Init => OInv
  BY InitOInv
<1>2. OInv /\ [Next]_vars => OInv'
  BY StepOInv
<1>3. OInv => OneOwner
  BY OwnedIsOne DEF OInv, OneOwner
<1>4. QED
  BY <1>1, <1>2, <1>3, PTL DEF Spec

=============================================================================
