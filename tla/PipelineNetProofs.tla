------------------------- MODULE PipelineNetProofs --------------------------
(***************************************************************************)
(* Connected pipelines, for any number of them, of threads and of          *)
(* messages, as long as every target has fewer hops to go than the         *)
(* pipeline connected to it.                                               *)
(*                                                                         *)
(* Deadlock freedom is the lock-order argument: hops go down along every   *)
(* thread's path, so a thread holds only locks of pipelines with more hops *)
(* than the one it waits for.  Were everybody waiting, whoever waits for   *)
(* the pipeline with the fewest hops would wait for a lock somebody holds, *)
(* who then waits for one with fewer still.                                *)
(***************************************************************************)
EXTENDS PipelineNet, WellFoundedInduction, TLAPS

Located ==
    \A t \in Threads :
        /\ at[t] = "out" <=> path[t] = <<>>
        /\ at[t] # "out" => sent[t] >= 1

TInv == TypeOK /\ Located

LEMMA HereIsAPipe ==
    ASSUME TInv, NEW t \in Threads, at[t] # "out"
    PROVE  Len(path[t]) \in Nat \ {0} /\ Here(t) \in Pipes
<1>1. path[t] \in Seq(Pipes) /\ path[t] # <<>>
  BY DEF TInv, TypeOK, Located
<1> QED
  BY <1>1 DEF Here

LEMMA TypeInit == Init => TInv
  BY NetAssumption DEF Init, TInv, TypeOK, Located, Places, Topics

(* The places a topic can come from. *)
LEMMA TopicTypes ==
    /\ Emitted \subseteq Topics
    /\ \A s \in Topics : MadeOf(s) \subseteq Topics
    /\ \A p \in Pipes, s \in Topics : Prefixed(p, s) \in Topics
<1>1. Emitted \subseteq Topics
  BY NetAssumption DEF Emitted, Topics
<1>2. ASSUME NEW s \in Topics PROVE MadeOf(s) \subseteq Topics
  <2>1. ASSUME NEW i \in 1..Len(s), NEW j \in 0..Len(s) PROVE SubSeq(s, i, j) \in Topics
    BY DEF Topics
  <2>2. ASSUME NEW r \in MadeOf(s) PROVE r \in Topics
    <3>1. CASE r \in Emitted
      BY <1>1, <3>1
    <3>2. ASSUME r \notin Emitted PROVE r \in Topics
      <4>1. PICK i \in 1..Len(s), j \in 0..Len(s) : r = SubSeq(s, i, j)
        BY <2>2, <3>2 DEF MadeOf
      <4> QED
        BY <2>1, <4>1, Zenon
    <3> QED
      BY <3>1, <3>2
  <2> QED
    BY <2>2
<1>3. ASSUME NEW p \in Pipes, NEW s \in Topics PROVE Prefixed(p, s) \in Topics
  <2>1. <<p>> \o s \in Topics
    BY DEF Topics
  <2> QED
    BY <2>1 DEF Prefixed
<1> QED
  BY <1>1, <1>2, <1>3

(* What application code writes, at any place. *)
LEMMA WriteTypes ==
    ASSUME TypeOK, NEW t \in Threads, NEW s \in Topics, NEW n \in Nat, Write(t, s, n)
    PROVE  /\ topic' \in [Threads -> Topics] /\ written' \in [Threads -> Topics]
           /\ since' \in [Threads -> Nat]
           /\ topic'[t] = s /\ written'[t] = s /\ since'[t] = n + 1
           /\ \A u \in Threads \ {t} : /\ topic'[u] = topic[u] /\ written'[u] = written[u]
                                        /\ since'[u] = since[u]
  BY DEF TypeOK, Write

LEMMA FrontType ==
    ASSUME NEW s \in Seq(Pipes), s # <<>>
    PROVE  /\ Front(s) \in Seq(Pipes)
           /\ Len(Front(s)) = Len(s) - 1
           /\ Front(s) = <<>> <=> Len(s) = 1
           /\ \A i \in 1..Len(s) - 1 : Front(s)[i] = s[i]
<1>1. PICK n \in Nat : n = Len(s) /\ n >= 1
  OBVIOUS
<1>2. Front(s) = [i \in 1..n - 1 |-> s[i]]
  BY <1>1 DEF Front
<1>3. \A i \in 1..n - 1 : s[i] \in Pipes
  BY <1>1
<1>4. Front(s) \in Seq(Pipes) /\ Len(Front(s)) = n - 1
  BY <1>1, <1>2, <1>3
<1>5. Front(s) = <<>> <=> n = 1
  <2>1. ASSUME n = 1 PROVE Front(s) = <<>>
    BY <2>1, <1>2
  <2>2. ASSUME Front(s) = <<>> PROVE n = 1
    <3>0. \A e : e = <<>> => Len(e) = 0
      OBVIOUS
    <3>1. Len(Front(s)) = 0
      BY <2>2, <3>0
    <3>2. n - 1 = 0
      BY <3>1, <1>4
    <3> QED
      BY <3>2
  <2> QED
    BY <2>1, <2>2
<1>6. \A i \in 1..n - 1 : Front(s)[i] = s[i]
  BY <1>2
<1> QED
  BY <1>1, <1>4, <1>5, <1>6

LEMMA TypeStep == TInv /\ [Next]_vars => TInv'
<1> SUFFICES ASSUME TInv, [Next]_vars PROVE TInv'
  OBVIOUS
<1> USE DEF TInv, Places
<1>0. TypeOK
  OBVIOUS
<1>1. ASSUME NEW t \in Threads, NEW p \in Pipes, Emit(t, p) PROVE TInv'
  <2>1. PICK s \in Emitted : Write(t, s, 0)
    BY <1>1 DEF Emit
  <2>2. /\ topic' \in [Threads -> Topics] /\ written' \in [Threads -> Topics]
        /\ since' \in [Threads -> Nat]
    BY <1>0, <2>1, TopicTypes, WriteTypes
  <2>3. path' \in [Threads -> Seq(Pipes)] /\ <<p>> # <<>>
    BY <1>1 DEF TypeOK, Emit
  <2> QED
    BY <1>1, <2>2, <2>3, NetAssumption DEF TypeOK, Located, Emit, Steps
<1>2. ASSUME NEW t \in Threads, Acquire(t) PROVE TInv'
  BY <1>2, HereIsAPipe DEF TypeOK, Located, Acquire, Steps, topic_vars
<1>3. ASSUME NEW t \in Threads, Drop(t) \/ Pass(t) \/ AppReturns(t) PROVE TInv'
  <2>1. /\ topic' \in [Threads -> Topics] /\ written' \in [Threads -> Topics]
        /\ since' \in [Threads -> Nat]
    <3>1. CASE UNCHANGED topic_vars
      BY <3>1 DEF TypeOK, topic_vars
    <3>2. CASE Pass(t) /\ StageRewrites(t)
      <4>1. Len(path[t]) - 1 \in Nat /\ topic[t] \in Topics
        BY <3>2, HereIsAPipe DEF Pass, Steps, TypeOK
      <4>2. PICK s \in Topics : Write(t, s, Len(path[t]) - 1)
        BY <3>2, <4>1, TopicTypes DEF StageRewrites
      <4> QED
        BY <1>0, <4>1, <4>2, WriteTypes
    <3> QED
      BY <1>3, <3>1, <3>2 DEF Drop, Pass, AppReturns
  <2> QED
    BY <1>3, <2>1 DEF TypeOK, Located, Drop, Pass, AppReturns, Steps
<1>4. ASSUME NEW t \in Threads, CallApp(t) PROVE TInv'
  <2>1. sent[t] \in 1..MaxEmits
    BY <1>4, NetAssumption DEF TypeOK, Located, CallApp, Steps
  <2>2. [by |-> t, no |-> sent[t]] \in Messages
    BY <2>1 DEF Messages
  <2>3. log' \in Seq(Messages)
    BY <1>4, <2>2 DEF TypeOK, CallApp
  <2> QED
    BY <1>4, <2>3 DEF TypeOK, Located, CallApp, Steps, topic_vars
<1>5. ASSUME NEW t \in Threads, EmitIntoTarget(t) PROVE TInv'
  <2>1. Here(t) \in Pipes /\ Target[Here(t)] \in Pipes /\ Connected(Here(t))
    BY <1>5, HereIsAPipe, NetAssumption DEF EmitIntoTarget, Steps
  <2>2. topic[t] \in Topics /\ Len(path[t]) \in Nat
    BY DEF TypeOK
  <2>3. /\ topic' \in [Threads -> Topics] /\ written' \in [Threads -> Topics]
        /\ since' \in [Threads -> Nat]
    <3>1. CASE KeepTopic(t)
      <4>1. Prefixed(Here(t), topic[t]) \in Topics
        BY <2>1, <2>2, TopicTypes
      <4> QED
        BY <3>1, <4>1 DEF TypeOK, KeepTopic
    <3>2. CASE Remap(t)
      <4>1. PICK s \in Topics : Write(t, s, Len(path[t]))
        BY <3>2, <2>2, TopicTypes DEF Remap
      <4> QED
        BY <1>0, <2>2, <4>1, WriteTypes
    <3> QED
      BY <1>5, <3>1, <3>2 DEF EmitIntoTarget
  <2>4. path' \in [Threads -> Seq(Pipes)] /\ path'[t] # <<>>
    <3>1. path[t] \in Seq(Pipes)
      BY DEF TypeOK
    <3>2. /\ Append(path[t], Target[Here(t)]) \in Seq(Pipes)
          /\ Len(Append(path[t], Target[Here(t)])) = Len(path[t]) + 1
          /\ Len(path[t]) \in Nat
      BY <2>1, <3>1
    <3>3. Append(path[t], Target[Here(t)]) # <<>>
      BY <3>2
    <3>4. path' = [path EXCEPT ![t] = Append(path[t], Target[Here(t)])]
      BY <1>5 DEF EmitIntoTarget
    <3> QED
      BY <3>2, <3>3, <3>4 DEF TypeOK
  <2> QED
    BY <1>5, <2>3, <2>4 DEF TypeOK, Located, EmitIntoTarget, Steps
<1>6. ASSUME NEW t \in Threads, Release(t) PROVE TInv'
  <2>1. Len(path[t]) \in Nat \ {0} /\ Here(t) \in Pipes
    BY <1>6, HereIsAPipe DEF Release, Steps
  <2>2. /\ Front(path[t]) \in Seq(Pipes)
        /\ Front(path[t]) = <<>> <=> Len(path[t]) = 1
    BY <2>1, FrontType DEF TypeOK
  <2> QED
    BY <1>6, <2>1, <2>2 DEF TypeOK, Located, Release, Steps, topic_vars
<1>7. CASE UNCHANGED vars
  BY <1>7 DEF vars, topic_vars, TypeOK, Located
<1> QED
  BY <1>1, <1>2, <1>3, <1>4, <1>5, <1>6, <1>7 DEF Next, Step

THEOREM TypeCorrect == Spec => []TypeOK
<1>1. TInv => TypeOK
  BY DEF TInv
<1> QED
  BY TypeInit, TypeStep, <1>1, PTL DEF Spec

-----------------------------------------------------------------------------
(* Hops go down along a path, and its locks are the thread's own.           *)

Descends ==
    \A t \in Threads : \A i, j \in 1..Len(path[t]) :
        i < j => Hops[path[t][j]] < Hops[path[t][i]]

NInv == TInv /\ Descends /\ OneInEachPipe

LEMMA NetInit == Init => NInv
<1> SUFFICES ASSUME Init PROVE NInv
  OBVIOUS
<1>1. \A t \in Threads : path[t] = <<>> /\ Len(path[t]) = 0
  BY DEF Init
<1>2. \A t \in Threads, p \in Pipes : ~Holds(t, p)
  BY <1>1 DEF Holds
<1> QED
  BY <1>1, <1>2, TypeInit DEF NInv, Descends, OneInEachPipe, Init

(* A step that changes neither locks nor what anybody holds.                *)
LEMMA SameHolders ==
    ASSUME OneInEachPipe, UNCHANGED locked,
           \A s \in Threads, p \in Pipes : Holds(s, p)' <=> Holds(s, p)
    PROVE  OneInEachPipe'
  BY DEF OneInEachPipe

(* A step inside a pipeline, past its lock.                                 *)
LEMMA InsideHolders ==
    ASSUME NEW t \in Threads, NEW from \in Places \ {"lock"}, NEW to \in Places \ {"lock"},
           TInv, Steps(t, from, to), UNCHANGED path
    PROVE  \A s \in Threads, p \in Pipes : Holds(s, p)' <=> Holds(s, p)
<1>1. \A s \in Threads : path'[s] = path[s] /\ (at'[s] # "lock" <=> at[s] # "lock")
  BY DEF Steps, TInv, TypeOK
<1> QED
  BY <1>1 DEF Holds

LEMMA EmitNet ==
    ASSUME NInv, NEW t \in Threads, NEW p \in Pipes, Emit(t, p)
    PROVE  Descends' /\ OneInEachPipe'
<1> USE DEF NInv
<1>1. /\ path[t] = <<>> /\ path'[t] = <<p>> /\ at'[t] = "lock"
      /\ \A s \in Threads \ {t} : path'[s] = path[s] /\ at'[s] = at[s]
  BY DEF TInv, TypeOK, Located, Emit, Steps
<1>2. Len(path[t]) = 0 /\ Len(path'[t]) = 1
  BY <1>1
<1>3. Descends'
  BY <1>1, <1>2 DEF Descends
<1>4. \A s \in Threads, q \in Pipes : Holds(s, q)' <=> Holds(s, q)
  <2>1. \A q \in Pipes : ~Holds(t, q) /\ ~Holds(t, q)'
    BY <1>1, <1>2 DEF Holds
  <2>2. \A s \in Threads \ {t}, q \in Pipes : Holds(s, q)' <=> Holds(s, q)
    BY <1>1 DEF Holds
  <2> QED
    BY <2>1, <2>2
<1> QED
  BY <1>3, <1>4, SameHolders DEF Emit

LEMMA AcquireNet ==
    ASSUME NInv, NEW t \in Threads, Acquire(t)
    PROVE  Descends' /\ OneInEachPipe'
<1> USE DEF NInv
<1>1. Descends'
  BY DEF Descends, Acquire
<1>2. Len(path[t]) \in Nat \ {0} /\ Here(t) \in Pipes /\ at[t] = "lock"
  BY HereIsAPipe DEF Acquire, Steps
<1>3. CASE locked[Here(t)]
  <2>1. UNCHANGED <<locked, path, at>>
    BY <1>2, <1>3 DEF Acquire, Steps, TInv, TypeOK
  <2> QED
    BY <1>1, <2>1, SameHolders DEF Holds
<1>4. CASE ~locked[Here(t)]
  <2>1. /\ at'[t] = "pass" /\ UNCHANGED path
        /\ \A s \in Threads \ {t} : at'[s] = at[s]
        /\ \A q \in Pipes : locked'[q] <=> q = Here(t) \/ locked[q]
    BY <1>2, <1>4 DEF Acquire, Steps, TInv, TypeOK
  <2>2. \A s \in Threads \ {t}, q \in Pipes : Holds(s, q)' <=> Holds(s, q)
    BY <2>1 DEF Holds
  <2>3. \A q \in Pipes : Holds(t, q)' <=> q = Here(t) \/ Holds(t, q)
    <3>1. \A q \in Pipes : Holds(t, q)' <=> \E i \in 1..Len(path[t]) : path[t][i] = q
      BY <2>1 DEF Holds
    <3>2. \A q \in Pipes : Holds(t, q) <=>
             \E i \in 1..Len(path[t]) : path[t][i] = q /\ i < Len(path[t])
      BY <1>2 DEF Holds
    <3>3. \A i \in 1..Len(path[t]) : i < Len(path[t]) \/ path[t][i] = Here(t)
      BY <1>2 DEF Here
    <3>4. Len(path[t]) \in 1..Len(path[t]) /\ path[t][Len(path[t])] = Here(t)
      BY <1>2 DEF Here
    <3> QED
      BY <3>1, <3>2, <3>3, <3>4
  <2>4. \A s \in Threads : ~Holds(s, Here(t))
    BY <1>2, <1>4 DEF OneInEachPipe
  <2> QED
    BY <1>1, <1>2, <2>1, <2>2, <2>3, <2>4 DEF OneInEachPipe
<1> QED
  BY <1>3, <1>4

LEMMA EmitIntoTargetNet ==
    ASSUME NInv, NEW t \in Threads, EmitIntoTarget(t)
    PROVE  Descends' /\ OneInEachPipe'
<1> USE DEF NInv
<1> DEFINE q == Target[Here(t)]
<1>1. /\ Len(path[t]) \in Nat \ {0} /\ Here(t) \in Pipes
      /\ q \in Pipes /\ Hops[q] < Hops[Here(t)] /\ at[t] = "sink"
  BY HereIsAPipe, NetAssumption DEF EmitIntoTarget, Steps
<1>2. /\ path'[t] = Append(path[t], q) /\ at'[t] = "lock"
      /\ \A s \in Threads \ {t} : path'[s] = path[s] /\ at'[s] = at[s]
  BY DEF EmitIntoTarget, Steps, TInv, TypeOK
<1>3. /\ Len(path'[t]) = Len(path[t]) + 1
      /\ path'[t][Len(path[t]) + 1] = q
      /\ \A i \in 1..Len(path[t]) : path'[t][i] = path[t][i]
  <2>1. path[t] \in Seq(Pipes)
    BY DEF TInv, TypeOK
  <2> QED
    BY <1>1, <1>2, <2>1
<1> HIDE DEF q
<1>4. PICK n \in Nat : n = Len(path[t]) /\ n >= 1
  BY <1>1
<1>5. \A i \in 1..n : Hops[path[t][i]] \in Nat /\ Hops[q] < Hops[path[t][i]]
  <2>1. path[t] \in Seq(Pipes)
    BY DEF TInv, TypeOK
  <2>2. \A i \in 1..n : path[t][i] \in Pipes
    BY <1>4, <2>1
  <2>3. \A p \in Pipes : Hops[p] \in Nat
    BY NetAssumption
  <2>4. path[t][n] = Here(t)
    BY <1>4 DEF Here
  <2>5. \A i \in 1..n : i < n => Hops[path[t][n]] < Hops[path[t][i]]
    BY <1>4 DEF Descends
  <2>6. \A i \in 1..n : i = n \/ i < n
    BY <1>4
  <2> QED
    BY <1>1, <2>2, <2>3, <2>4, <2>5, <2>6
<1>6. Descends'
  <2> SUFFICES ASSUME NEW s \in Threads,
                      NEW i \in 1..Len(path'[s]), NEW j \in 1..Len(path'[s]), i < j
               PROVE  Hops[path'[s][j]] < Hops[path'[s][i]]
    BY DEF Descends
  <2>1. CASE s # t
    BY <2>1, <1>2 DEF Descends
  <2>2. CASE s = t
    <3>1. i \in 1..n + 1 /\ j \in 1..n + 1
      BY <2>2, <1>3, <1>4
    <3>2. CASE j = n + 1
      BY <2>2, <3>1, <3>2, <1>3, <1>4, <1>5
    <3>3. CASE j \in 1..n
      <4>1. i \in 1..n
        BY <3>1, <3>3
      <4>2. path'[t][i] = path[t][i] /\ path'[t][j] = path[t][j]
        BY <4>1, <3>3, <1>3, <1>4
      <4> QED
        BY <2>2, <4>1, <4>2, <3>3, <1>4 DEF Descends
    <3> QED
      BY <3>1, <3>2, <3>3
  <2> QED
    BY <2>1, <2>2
<1>7. \A s \in Threads, p \in Pipes : Holds(s, p)' <=> Holds(s, p)
  <2>1. \A s \in Threads \ {t}, p \in Pipes : Holds(s, p)' <=> Holds(s, p)
    BY <1>2 DEF Holds
  <2>2. \A p \in Pipes : Holds(t, p) <=> \E i \in 1..n : path[t][i] = p
    BY <1>1, <1>4 DEF Holds
  <2>3. \A p \in Pipes : Holds(t, p)' <=> \E i \in 1..n + 1 : path'[t][i] = p /\ i < n + 1
    BY <1>2, <1>3, <1>4 DEF Holds
  <2>4. \A i \in 1..n + 1 : i < n + 1 <=> i \in 1..n
    BY <1>4
  <2>5. \A i \in 1..n : i \in 1..n + 1 /\ path'[t][i] = path[t][i]
    BY <1>3, <1>4
  <2>6. \A p \in Pipes : Holds(t, p)' <=> Holds(t, p)
    BY <2>2, <2>3, <2>4, <2>5
  <2> QED
    BY <2>1, <2>6
<1> QED
  BY <1>6, <1>7, SameHolders DEF EmitIntoTarget

LEMMA ReleaseNet ==
    ASSUME NInv, NEW t \in Threads, Release(t)
    PROVE  Descends' /\ OneInEachPipe'
<1> USE DEF NInv
<1>1. Len(path[t]) \in Nat \ {0} /\ Here(t) \in Pipes /\ at[t] = "unlock"
  BY HereIsAPipe DEF Release, Steps
<1>2. /\ path'[t] = Front(path[t]) /\ at'[t] # "lock"
      /\ \A s \in Threads \ {t} : path'[s] = path[s] /\ at'[s] = at[s]
      /\ \A p \in Pipes : locked'[p] <=> p # Here(t) /\ locked[p]
  BY <1>1 DEF Release, Steps, TInv, TypeOK
<1>3. PICK n \in Nat : n = Len(path[t]) /\ n >= 1
  BY <1>1
<1>4. Len(path'[t]) = n - 1 /\ \A i \in 1..n - 1 : path'[t][i] = path[t][i]
  <2>1. path[t] \in Seq(Pipes) /\ path[t] # <<>>
    BY <1>1 DEF TInv, TypeOK, Located
  <2> QED
    BY <1>2, <1>3, <2>1, FrontType
<1>5. Descends'
  <2> SUFFICES ASSUME NEW s \in Threads,
                      NEW i \in 1..Len(path'[s]), NEW j \in 1..Len(path'[s]), i < j
               PROVE  Hops[path'[s][j]] < Hops[path'[s][i]]
    BY DEF Descends
  <2>1. CASE s # t
    BY <2>1, <1>2 DEF Descends
  <2>2. CASE s = t
    <3>1. i \in 1..n - 1 /\ j \in 1..n - 1
      BY <2>2, <1>4
    <3>2. i \in 1..n /\ j \in 1..n
      BY <3>1, <1>3
    <3>3. Hops[path[t][j]] < Hops[path[t][i]]
      BY <3>2, <1>3 DEF Descends
    <3> QED
      BY <2>2, <3>1, <3>3, <1>4
  <2> QED
    BY <2>1, <2>2
<1>6. \A i \in 1..n - 1 : path[t][i] # Here(t)
  <2> SUFFICES ASSUME NEW i \in 1..n - 1 PROVE path[t][i] # Here(t)
    OBVIOUS
  <2>1. i \in 1..n /\ n \in 1..n /\ i < n
    BY <1>3
  <2>2. Hops[Here(t)] < Hops[path[t][i]]
    BY <2>1, <1>3 DEF Descends, Here
  <2>3. Hops[Here(t)] \in Nat
    BY <1>1, NetAssumption
  <2> QED
    BY <2>2, <2>3
<1>7. \A p \in Pipes : Holds(t, p)' <=> p # Here(t) /\ Holds(t, p)
  <2>1. \A p \in Pipes : Holds(t, p)' <=> \E i \in 1..n - 1 : path'[t][i] = p
    BY <1>2, <1>4 DEF Holds
  <2>2. \A p \in Pipes : Holds(t, p) <=> \E i \in 1..n : path[t][i] = p
    BY <1>1, <1>3 DEF Holds
  <2>3. \A i \in 1..n : i \in 1..n - 1 \/ path[t][i] = Here(t)
    BY <1>3 DEF Here
  <2>4. \A i \in 1..n - 1 : i \in 1..n
    BY <1>3
  <2> QED
    BY <2>1, <2>2, <2>3, <2>4, <1>4, <1>6
<1>8. Holds(t, Here(t))
  BY <1>1 DEF Holds, Here
<1>9. \A s \in Threads \ {t}, p \in Pipes : Holds(s, p)' <=> Holds(s, p)
  BY <1>2 DEF Holds
<1>10. \A s \in Threads \ {t} : ~Holds(s, Here(t))
  BY <1>1, <1>8 DEF OneInEachPipe
<1> QED
  BY <1>1, <1>2, <1>5, <1>7, <1>9, <1>10 DEF OneInEachPipe

LEMMA NetStep == NInv /\ [Next]_vars => NInv'
<1> SUFFICES ASSUME NInv, [Next]_vars PROVE Descends' /\ OneInEachPipe'
  BY TypeStep DEF NInv
<1>1. ASSUME NEW t \in Threads, Drop(t) \/ Pass(t) \/ CallApp(t) \/ AppReturns(t)
      PROVE  Descends' /\ OneInEachPipe'
  <2>1. UNCHANGED <<locked, path>>
    BY <1>1 DEF Drop, Pass, CallApp, AppReturns
  <2>2. \A s \in Threads, p \in Pipes : Holds(s, p)' <=> Holds(s, p)
    <3>1. \/ Steps(t, "pass", "unlock") \/ Steps(t, "pass", "sink")
          \/ Steps(t, "sink", "app") \/ Steps(t, "app", "unlock")
      BY <1>1 DEF Drop, Pass, CallApp, AppReturns
    <3> QED
      BY <2>1, <3>1, InsideHolders DEF NInv, Places
  <2> QED
    BY <2>1, <2>2, SameHolders DEF NInv, Descends
<1>2. CASE UNCHANGED vars
  BY <1>2 DEF vars, NInv, Descends, OneInEachPipe, Holds
<1> QED
  BY <1>1, <1>2, EmitNet, AcquireNet, EmitIntoTargetNet, ReleaseNet DEF Next, Step

(* Each pipeline of a network works on one message at a time, its lock held *)
(* over everything its sink sets off in the pipelines behind it.            *)
THEOREM OneInEachPipeHolds == Spec => []OneInEachPipe
<1>1. NInv => OneInEachPipe
  BY DEF NInv
<1> QED
  BY NetInit, NetStep, <1>1, PTL DEF Spec

-----------------------------------------------------------------------------
(* The lock order leaves somebody who can go on.                            *)
LEMMA SomebodyCanMove == NInv => NobodyWaitsInACircle
<1> SUFFICES ASSUME NInv, NEW s \in Threads, at[s] # "out", \A t \in Threads : ~CanMove(t)
             PROVE  FALSE
  BY DEF NobodyWaitsInACircle
<1> USE DEF NInv
<1> DEFINE Waits(t) == at[t] = "lock" /\ locked[Here(t)]
           Locks == {p \in Pipes : \E t \in Threads : Waits(t) /\ Here(t) = p}
<1>1. \A t \in Threads : at[t] # "out" => Waits(t)
  BY DEF CanMove
<1>2. Here(s) \in Locks
  BY <1>1, HereIsAPipe
<1>3. ASSUME NEW p \in Locks
      PROVE  \E q \in Locks : Hops[q] < Hops[p]
  <2>1. PICK t \in Threads : Waits(t) /\ Here(t) = p
    OBVIOUS
  <2>2. PICK u \in Threads : Holds(u, p)
    BY <2>1 DEF OneInEachPipe
  <2>3. PICK i \in 1..Len(path[u]) : path[u][i] = p /\ (i < Len(path[u]) \/ at[u] # "lock")
    BY <2>2 DEF Holds
  <2>4. at[u] # "out"
    <3>1. Len(path[u]) # 0
      BY <2>3
    <3>2. Len(<<>>) = 0
      OBVIOUS
    <3> QED
      BY <3>1, <3>2, Zenon DEF TInv, Located
  <2>5. Waits(u)
    BY <1>1, <2>4
  <2>6. Len(path[u]) \in Nat \ {0} /\ Here(u) \in Locks
    BY <2>4, <2>5, HereIsAPipe
  <2>7. Hops[path[u][Len(path[u])]] < Hops[path[u][i]]
    BY <2>3, <2>5, <2>6 DEF Descends
  <2> QED
    BY <2>3, <2>6, <2>7 DEF Here
<1> HIDE DEF Locks
<1>4. Locks \subseteq Pipes
  BY DEF Locks
<1> DEFINE Counts == {Hops[p] : p \in Locks}
<1>5. Counts \subseteq Nat /\ Counts # {}
  BY <1>2, <1>4, NetAssumption
<1>6. PICK n \in Counts : \A m \in Counts : ~(<<m, n>> \in OpToRel(<, Nat))
  BY <1>5, WFMin, NatLessThanWellFounded
<1>7. PICK p \in Locks : n = Hops[p]
  BY <1>6
<1>8. PICK q \in Locks : Hops[q] < Hops[p]
  BY <1>3, <1>7
<1>9. <<Hops[q], n>> \in OpToRel(<, Nat)
  BY <1>5, <1>7, <1>8 DEF OpToRel
<1> QED
  BY <1>6, <1>8, <1>9

(* As long as no way along the targets leads back, threads in connected     *)
(* pipelines never all wait for one another, however many there are.        *)
THEOREM NobodyWaitsInACircleHolds == Spec => []NobodyWaitsInACircle
  BY NetInit, NetStep, SomebodyCanMove, PTL DEF Spec

-----------------------------------------------------------------------------
(* TopicTellsItsWay.  PrefixesOf is a recursive function on all ways, so    *)
(* what it is must be shown first: it is put together from its restrictions *)
(* to ways of a bounded length, which exist and agree.                      *)

Unfolded(f, way) ==
    IF way = <<>> THEN <<>>
    ELSE (IF Prefixing(Last(way)) THEN <<Last(way)>> ELSE <<>>) \o f[Front(way)]

Ways(n) == {way \in Seq(Pipes) : Len(way) <= n}
Unfolds(f, n) == f = [way \in Ways(n) |-> Unfolded(f, way)]

(* Whatever is a set of numbers has a least one. *)
LEMMA LeastNumber ==
    ASSUME NEW N, N \subseteq Nat, N # {}
    PROVE  \E n \in N : \A m \in N : n <= m
<1>1. PICK n \in N : \A m \in N : ~(<<m, n>> \in OpToRel(<, Nat))
  BY WFMin, NatLessThanWellFounded
<1>2. ASSUME NEW m \in N PROVE ~(m < n)
  BY <1>1 DEF OpToRel
<1> QED
  BY <1>2

LEMMA UnfoldingsAgree ==
    ASSUME NEW m \in Nat, NEW n \in Nat, NEW f, NEW g, Unfolds(f, m), Unfolds(g, n),
           NEW s \in Ways(m) \cap Ways(n)
    PROVE  f[s] = g[s]
<1> DEFINE Apart == {way \in Ways(m) \cap Ways(n) : f[way] # g[way]}
           Lengths == {Len(way) : way \in Apart}
<1> SUFFICES ASSUME Apart # {} PROVE FALSE
  OBVIOUS
<1>1. Lengths \subseteq Nat /\ Lengths # {}
  <2>1. \A way \in Apart : Len(way) \in Nat
    BY DEF Ways
  <2> HIDE DEF Apart
  <2> QED
    BY <2>1
<1>2. PICK k \in Lengths : \A l \in Lengths : k <= l
  BY <1>1, LeastNumber
<1>3. PICK way \in Apart : Len(way) = k
  BY <1>2
<1>4. way \in Seq(Pipes) /\ way \in Ways(m) /\ way \in Ways(n) /\ f[way] # g[way]
  BY <1>3 DEF Ways
<1>5. f[way] = Unfolded(f, way) /\ g[way] = Unfolded(g, way)
  BY <1>4 DEF Unfolds
<1>6. way # <<>>
  BY <1>4, <1>5 DEF Unfolded
<1>7. Front(way) \in Seq(Pipes) /\ Len(Front(way)) = k - 1 /\ k \in Nat
  BY <1>1, <1>3, <1>4, <1>6, FrontType
<1>8. Front(way) \in Ways(m) /\ Front(way) \in Ways(n)
  BY <1>3, <1>4, <1>7 DEF Ways
<1>9. f[Front(way)] = g[Front(way)]
  <2>1. Front(way) \notin Apart
    BY <1>2, <1>7
  <2> QED
    BY <1>8, <2>1
<1> QED
  BY <1>4, <1>5, <1>9 DEF Unfolded

LEMMA UnfoldingsExist == \A n \in Nat : \E f : Unfolds(f, n)
<1> DEFINE Missing == {n \in Nat : ~\E f : Unfolds(f, n)}
<1> SUFFICES ASSUME Missing # {} PROVE FALSE
  OBVIOUS
<1>1. PICK n \in Missing : \A m \in Missing : n <= m
  <2>1. Missing \subseteq Nat
    OBVIOUS
  <2> HIDE DEF Missing
  <2> QED
    BY <2>1, LeastNumber
<1>2. n \in Nat /\ ~\E f : Unfolds(f, n)
  OBVIOUS
<1>3. PICK f : n > 0 => Unfolds(f, n - 1)
  <2>1. ASSUME n > 0 PROVE \E f : Unfolds(f, n - 1)
    <3>1. n - 1 \in Nat /\ ~(n <= n - 1)
      BY <1>2, <2>1
    <3> QED
      BY <1>1, <3>1
  <2> QED
    BY <2>1
<1> DEFINE g == [way \in Ways(n) |-> Unfolded(f, way)]
<1>4. ASSUME NEW way \in Ways(n) PROVE Unfolded(f, way) = Unfolded(g, way)
  <2>1. CASE way = <<>>
    BY <2>1 DEF Unfolded
  <2>2. CASE way # <<>>
    <3>1. /\ Front(way) \in Seq(Pipes) /\ Len(Front(way)) = Len(way) - 1
          /\ Len(way) \in Nat /\ Len(way) <= n
      BY <2>2, FrontType DEF Ways
    <3>2. Len(way) # 0
      BY <2>2 DEF Ways
    <3>3. n > 0 /\ Front(way) \in Ways(n - 1) /\ Front(way) \in Ways(n)
      BY <1>2, <3>1, <3>2 DEF Ways
    <3>4. f[Front(way)] = Unfolded(f, Front(way))
      BY <1>3, <3>3 DEF Unfolds
    <3>5. f[Front(way)] = g[Front(way)]
      BY <3>3, <3>4
    <3> HIDE DEF g
    <3> QED
      BY <3>5 DEF Unfolded
  <2> QED
    BY <2>1, <2>2
<1>5. g = [way \in Ways(n) |-> Unfolded(g, way)]
  BY <1>4
<1> HIDE DEF g
<1>6. Unfolds(g, n)
  BY <1>5 DEF Unfolds
<1> QED
  BY <1>2, <1>6

LEMMA PrefixesUnfold == \A way \in Seq(Pipes) : PrefixesOf[way] = Unfolded(PrefixesOf, way)
<1> DEFINE Partial(n) == CHOOSE f : Unfolds(f, n)
           Whole == [way \in Seq(Pipes) |-> Partial(Len(way))[way]]
<1>1. \A n \in Nat : Unfolds(Partial(n), n)
  BY UnfoldingsExist
<1> HIDE DEF Partial
<1>2. ASSUME NEW way \in Seq(Pipes) PROVE Whole[way] = Unfolded(Whole, way)
  <2>1. Len(way) \in Nat /\ way \in Ways(Len(way))
    BY DEF Ways
  <2>2. Whole[way] = Unfolded(Partial(Len(way)), way)
    BY <1>1, <2>1 DEF Unfolds
  <2>3. CASE way = <<>>
    BY <2>2, <2>3 DEF Unfolded
  <2>4. CASE way # <<>>
    <3>1. Front(way) \in Seq(Pipes) /\ Len(Front(way)) = Len(way) - 1 /\ Len(Front(way)) \in Nat
      BY <2>4, FrontType
    <3>2. Front(way) \in Ways(Len(way)) \cap Ways(Len(Front(way)))
      BY <2>1, <3>1 DEF Ways
    <3>3. Partial(Len(way))[Front(way)] = Partial(Len(Front(way)))[Front(way)]
      BY <1>1, <2>1, <3>1, <3>2, UnfoldingsAgree
    <3>4. Whole[Front(way)] = Partial(Len(way))[Front(way)]
      BY <3>1, <3>3
    <3> HIDE DEF Whole
    <3> QED
      BY <2>2, <3>4 DEF Unfolded
  <2> QED
    BY <2>3, <2>4
<1>3. Whole = [way \in Seq(Pipes) |-> Unfolded(Whole, way)]
  BY <1>2
<1> HIDE DEF Whole
<1>4. PrefixesOf = CHOOSE f : f = [way \in Seq(Pipes) |-> Unfolded(f, way)]
  BY DEF PrefixesOf, Unfolded
<1>5. PrefixesOf = [way \in Seq(Pipes) |-> Unfolded(PrefixesOf, way)]
  BY <1>3, <1>4
<1> QED
  BY <1>5

(* What a topic is while it is on its way: what application code wrote,     *)
(* behind the prefixes of the pipelines it has left for another since.      *)
OnItsWay == {"lock", "pass", "sink", "app"}

Tells(way, k, s, w) ==
    /\ k \in 1..Len(way)
    /\ PrefixesOf[SubSeq(way, k, Len(way) - 1)] \in Topics
    /\ s = PrefixesOf[SubSeq(way, k, Len(way) - 1)] \o w

TopicsTell ==
    \A t \in Threads :
        /\ at[t] \in OnItsWay => Tells(path[t], since[t], topic[t], written[t])
        /\ at[t] = "app" => Kind[Here(t)] = "app"

LEMMA PrefixesOfFront ==
    ASSUME NEW way \in Seq(Pipes), way # <<>>, PrefixesOf[Front(way)] \in Topics
    PROVE  PrefixesOf[way] = IF Prefixing(Last(way)) THEN <<Last(way)>> \o PrefixesOf[Front(way)]
                             ELSE PrefixesOf[Front(way)]
<1>1. PrefixesOf[way] = Unfolded(PrefixesOf, way)
  BY PrefixesUnfold
<1>2. \A r \in Topics : <<>> \o r = r
  BY DEF Topics
<1> QED
  BY <1>1, <1>2 DEF Unfolded

(* The part of a way from its k-th pipeline on, with and without the last.  *)
LEMMA FromKOn ==
    ASSUME NEW way \in Seq(Pipes), NEW k \in 1..Len(way)
    PROVE  /\ SubSeq(way, k, Len(way)) \in Seq(Pipes) /\ SubSeq(way, k, Len(way)) # <<>>
           /\ Last(SubSeq(way, k, Len(way))) = way[Len(way)]
           /\ Front(SubSeq(way, k, Len(way))) = SubSeq(way, k, Len(way) - 1)
<1> DEFINE part == SubSeq(way, k, Len(way))
           front == SubSeq(way, k, Len(way) - 1)
           n == Len(way) - k + 1
<1>0. Len(way) \in Nat /\ k \in Nat /\ 1 <= k /\ k <= Len(way)
  OBVIOUS
<1>1. /\ part \in Seq(Pipes) /\ Len(part) = n
      /\ \A i \in 1..n : part[i] = way[k + i - 1]
  BY <1>0
<1>2. /\ front \in Seq(Pipes) /\ Len(front) = n - 1
      /\ \A i \in 1..n - 1 : front[i] = way[k + i - 1]
  BY <1>0
<1>3. n \in Nat \ {0} /\ k + n - 1 = Len(way) /\ n \in 1..n /\ \A i \in 1..n - 1 : i \in 1..n
  BY <1>0
<1> HIDE DEF part, front, n
<1>4. part # <<>>
  BY <1>1, <1>3
<1>5. Last(part) = way[Len(way)]
  BY <1>1, <1>3 DEF Last
<1>6. /\ Front(part) \in Seq(Pipes) /\ Len(Front(part)) = n - 1
      /\ \A i \in 1..n - 1 : Front(part)[i] = part[i]
  BY <1>1, <1>4, FrontType
<1>7. \A i \in 1..n - 1 : Front(part)[i] = front[i]
  BY <1>1, <1>2, <1>3, <1>6
<1>8. Front(part) = front
  BY <1>2, <1>6, <1>7
<1> QED
  BY <1>1, <1>4, <1>5, <1>8 DEF part, front

LEMMA FromKOnAppended ==
    ASSUME NEW way \in Seq(Pipes), NEW k \in 1..Len(way), NEW q \in Pipes
    PROVE  /\ Append(way, q) \in Seq(Pipes) /\ Len(Append(way, q)) = Len(way) + 1
           /\ SubSeq(Append(way, q), k, Len(way)) = SubSeq(way, k, Len(way))
<1> DEFINE longer == Append(way, q)
<1>1. /\ longer \in Seq(Pipes) /\ Len(longer) = Len(way) + 1 /\ Len(way) \in Nat
      /\ \A i \in 1..Len(way) : longer[i] = way[i]
  OBVIOUS
<1> HIDE DEF longer
<1>2. SubSeq(longer, k, Len(way)) = SubSeq(way, k, Len(way))
  BY <1>1
<1> QED
  BY <1>1, <1>2 DEF longer

LEMMA Associative ==
    ASSUME NEW S, NEW q \in Seq(S), NEW r \in Seq(S), NEW s \in Seq(S)
    PROVE  q \o (r \o s) = (q \o r) \o s
<1> DEFINE left == q \o (r \o s)
           right == (q \o r) \o s
<1>1. /\ left \in Seq(S) /\ Len(left) = Len(q) + Len(r) + Len(s)
      /\ right \in Seq(S) /\ Len(right) = Len(q) + Len(r) + Len(s)
  OBVIOUS
<1>2. ASSUME NEW i \in 1..Len(left) PROVE left[i] = right[i]
  BY <1>1
<1> HIDE DEF left, right
<1>3. left = right
  BY <1>1, <1>2
<1> QED
  BY <1>3 DEF left, right

(* A topic that has just been written in the last pipeline of a way.        *)
LEMMA WrittenTells ==
    ASSUME NEW way \in Seq(Pipes), way # <<>>, NEW s \in Topics
    PROVE  Tells(way, Len(way), s, s)
<1>1. Len(way) \in 1..Len(way)
  OBVIOUS
<1>2. SubSeq(way, Len(way), Len(way) - 1) = <<>>
  BY <1>1
<1>3. PrefixesOf[<<>>] = <<>>
  <2>1. <<>> \in Seq(Pipes)
    OBVIOUS
  <2> QED
    BY <2>1, PrefixesUnfold DEF Unfolded
<1>4. <<>> \in Topics /\ s = <<>> \o s
  BY DEF Topics
<1> QED
  BY <1>1, <1>2, <1>3, <1>4 DEF Tells

(* What a connected sink passes on without writing it.                      *)
LEMMA PrefixedTells ==
    ASSUME NEW way \in Seq(Pipes), NEW k, NEW s, NEW w \in Topics, Tells(way, k, s, w),
           NEW q \in Pipes
    PROVE  Tells(Append(way, q), k, Prefixed(way[Len(way)], s), w)
<1> DEFINE p == way[Len(way)]
           front == PrefixesOf[SubSeq(way, k, Len(way) - 1)]
           whole == PrefixesOf[SubSeq(way, k, Len(way))]
<1>1. /\ k \in 1..Len(way) /\ p \in Pipes
      /\ front \in Topics /\ s = front \o w
  BY DEF Tells
<1>2. whole = IF Prefixing(p) THEN <<p>> \o front ELSE front
  BY <1>1, FromKOn, PrefixesOfFront
<1>3. /\ k \in 1..Len(Append(way, q)) /\ Len(Append(way, q)) - 1 = Len(way)
      /\ PrefixesOf[SubSeq(Append(way, q), k, Len(Append(way, q)) - 1)] = whole
  <2>1. Len(way) \in Nat /\ Len(Append(way, q)) = Len(way) + 1
    BY <1>1, FromKOnAppended
  <2>2. Len(Append(way, q)) - 1 = Len(way) /\ k \in 1..Len(Append(way, q))
    BY <1>1, <2>1
  <2> QED
    BY <1>1, <2>2, FromKOnAppended
<1> HIDE DEF p, front, whole
<1>4. whole \in Topics /\ Prefixed(p, s) = whole \o w
  <2>1. CASE Prefixing(p)
    <3>1. <<p>> \in Topics
      BY <1>1 DEF Topics
    <3>2. <<p>> \o front \in Topics
      BY <1>1, <3>1 DEF Topics
    <3>3. \A r, u, v \in Topics : r \o (u \o v) = (r \o u) \o v
      BY Associative DEF Topics
    <3>4. <<p>> \o (front \o w) = (<<p>> \o front) \o w
      BY <1>1, <3>1, <3>3, Zenon
    <3> QED
      BY <1>1, <1>2, <2>1, <3>2, <3>4 DEF Prefixed
  <2>2. CASE ~Prefixing(p)
    BY <1>1, <1>2, <2>2 DEF Prefixed
  <2> QED
    BY <2>1, <2>2
<1> QED
  BY <1>3, <1>4 DEF Tells, p

(* A step of t's, to what is claimed of it. *)
LEMMA TopicsOther ==
    ASSUME TopicsTell, NEW t \in Threads,
           \A u \in Threads \ {t} : /\ at'[u] = at[u] /\ path'[u] = path[u]
                                    /\ topic'[u] = topic[u] /\ written'[u] = written[u]
                                    /\ since'[u] = since[u],
           at'[t] \in OnItsWay => Tells(path'[t], since'[t], topic'[t], written'[t]),
           at'[t] = "app" => Kind[path'[t][Len(path'[t])]] = "app"
    PROVE  TopicsTell'
<1> SUFFICES ASSUME NEW u \in Threads
             PROVE  /\ at'[u] \in OnItsWay
                          => Tells(path'[u], since'[u], topic'[u], written'[u])
                    /\ at'[u] = "app" => Kind[path'[u][Len(path'[u])]] = "app"
  BY DEF TopicsTell, Here, Tells
<1>1. CASE u = t
  BY <1>1
<1>2. CASE u # t
  BY <1>2 DEF TopicsTell, Here
<1> QED
  BY <1>1, <1>2

LEMMA TopicsStep == TInv /\ TopicsTell /\ [Next]_vars => TopicsTell'
<1> SUFFICES ASSUME TInv, TopicsTell, [Next]_vars PROVE TopicsTell'
  OBVIOUS
<1>0. /\ TypeOK /\ TInv'
      /\ at \in [Threads -> Places] /\ at' \in [Threads -> Places]
      /\ path \in [Threads -> Seq(Pipes)] /\ topic \in [Threads -> Topics]
      /\ written \in [Threads -> Topics]
  BY TypeStep DEF TInv, TypeOK
<1>1. ASSUME NEW t \in Threads, NEW p \in Pipes, Emit(t, p) PROVE TopicsTell'
  <2>1. PICK s \in Topics : Write(t, s, 0)
    BY <1>1, TopicTypes DEF Emit
  <2>2. /\ topic'[t] = s /\ written'[t] = s /\ since'[t] = 0 + 1
        /\ \A u \in Threads \ {t} : /\ topic'[u] = topic[u] /\ written'[u] = written[u]
                                    /\ since'[u] = since[u]
    BY <1>0, <2>1, WriteTypes
  <2>3. at'[t] = "lock" /\ path'[t] = <<p>>
    BY <1>0, <1>1 DEF Emit, Steps
  <2>4. <<p>> \in Seq(Pipes) /\ <<p>> # <<>> /\ Len(<<p>>) = 0 + 1
    OBVIOUS
  <2>5. Tells(path'[t], since'[t], topic'[t], written'[t])
    BY <2>2, <2>3, <2>4, WrittenTells
  <2>6. \A u \in Threads \ {t} : at'[u] = at[u] /\ path'[u] = path[u]
    BY <1>0, <1>1 DEF Emit, Steps
  <2> QED
    BY <2>2, <2>3, <2>5, <2>6, TopicsOther
<1>2. ASSUME NEW t \in Threads,
             \/ Acquire(t) \/ Drop(t) \/ CallApp(t) \/ AppReturns(t)
             \/ Pass(t) /\ UNCHANGED topic_vars
      PROVE  TopicsTell'
  <2>1. /\ UNCHANGED <<path, topic, written, since>>
        /\ \A u \in Threads \ {t} : at'[u] = at[u]
        /\ at[t] \in OnItsWay
        /\ at'[t] = "app" => Kind[Here(t)] = "app"
    BY <1>0, <1>2 DEF Acquire, Drop, Pass, CallApp, AppReturns, Steps, topic_vars, OnItsWay
  <2>2. Tells(path[t], since[t], topic[t], written[t])
    BY <2>1 DEF TopicsTell
  <2> QED
    BY <2>1, <2>2, TopicsOther DEF Here
<1>3. ASSUME NEW t \in Threads, Pass(t), StageRewrites(t) PROVE TopicsTell'
  <2>1. /\ at[t] = "pass" /\ at'[t] = "sink" /\ path' = path
        /\ \A u \in Threads \ {t} : at'[u] = at[u]
    BY <1>0, <1>3 DEF Pass, Steps
  <2>2. path[t] \in Seq(Pipes) /\ path[t] # <<>> /\ Len(path[t]) \in Nat \ {0}
    BY <1>0, <2>1, HereIsAPipe DEF TInv, Located
  <2>3. Len(path[t]) - 1 \in Nat /\ Len(path[t]) - 1 + 1 = Len(path[t])
    BY <2>2
  <2>4. PICK s \in Topics : Write(t, s, Len(path[t]) - 1)
    BY <1>0, <1>3, TopicTypes DEF StageRewrites
  <2>5. /\ topic'[t] = s /\ written'[t] = s /\ since'[t] = Len(path[t])
        /\ \A u \in Threads \ {t} : /\ topic'[u] = topic[u] /\ written'[u] = written[u]
                                    /\ since'[u] = since[u]
    BY <1>0, <2>3, <2>4, WriteTypes
  <2>6. Tells(path'[t], since'[t], topic'[t], written'[t])
    BY <2>1, <2>2, <2>5, WrittenTells
  <2> QED
    BY <2>1, <2>5, <2>6, TopicsOther
<1>4. ASSUME NEW t \in Threads, EmitIntoTarget(t) PROVE TopicsTell'
  <2> DEFINE q == Target[Here(t)]
  <2>1. /\ at[t] = "sink" /\ at'[t] = "lock" /\ q \in Pipes
        /\ path[t] \in Seq(Pipes) /\ path[t] # <<>> /\ Len(path[t]) \in Nat \ {0}
        /\ path'[t] = Append(path[t], q)
        /\ \A u \in Threads \ {t} : at'[u] = at[u] /\ path'[u] = path[u]
    BY <1>0, <1>4, HereIsAPipe, NetAssumption DEF EmitIntoTarget, Steps, TInv, Located
  <2> HIDE DEF q
  <2>2. /\ Tells(path'[t], since'[t], topic'[t], written'[t])
        /\ \A u \in Threads \ {t} : /\ topic'[u] = topic[u] /\ written'[u] = written[u]
                                    /\ since'[u] = since[u]
    <3>1. CASE KeepTopic(t)
      <4>1. /\ topic'[t] = Prefixed(Here(t), topic[t])
            /\ written' = written /\ since' = since
            /\ \A u \in Threads \ {t} : topic'[u] = topic[u]
        BY <1>0, <3>1 DEF KeepTopic
      <4>2. Tells(path[t], since[t], topic[t], written[t]) /\ written[t] \in Topics
        BY <1>0, <2>1 DEF TopicsTell, OnItsWay
      <4>3. Tells(Append(path[t], q), since[t], Prefixed(Here(t), topic[t]), written[t])
        BY <2>1, <4>2, PrefixedTells DEF Here
      <4> QED
        BY <2>1, <4>1, <4>3
    <3>2. CASE Remap(t)
      <4>1. PICK s \in Topics : Write(t, s, Len(path[t]))
        BY <1>0, <3>2, TopicTypes DEF Remap
      <4>2. /\ topic'[t] = s /\ written'[t] = s /\ since'[t] = Len(path[t]) + 1
            /\ \A u \in Threads \ {t} : /\ topic'[u] = topic[u] /\ written'[u] = written[u]
                                        /\ since'[u] = since[u]
        BY <1>0, <2>1, <4>1, WriteTypes
      <4>3. /\ path'[t] \in Seq(Pipes) /\ Len(path'[t]) = Len(path[t]) + 1
            /\ path'[t] # <<>>
        <5>1. /\ Append(path[t], q) \in Seq(Pipes) /\ Append(path[t], q) # <<>>
              /\ Len(Append(path[t], q)) = Len(path[t]) + 1
          BY <2>1
        <5> QED
          BY <2>1, <5>1
      <4> QED
        BY <4>2, <4>3, WrittenTells
    <3> QED
      BY <1>4, <3>1, <3>2 DEF EmitIntoTarget
  <2> QED
    BY <2>1, <2>2, TopicsOther
<1>5. ASSUME NEW t \in Threads, Release(t) PROVE TopicsTell'
  <2>1. /\ at'[t] \in {"out", "unlock"}
        /\ \A u \in Threads \ {t} : /\ at'[u] = at[u] /\ path'[u] = path[u]
                                    /\ topic'[u] = topic[u] /\ written'[u] = written[u]
                                    /\ since'[u] = since[u]
    BY <1>0, <1>5 DEF Release, Steps, topic_vars
  <2> QED
    BY <2>1, TopicsOther DEF OnItsWay
<1>6. CASE UNCHANGED vars
  BY <1>6 DEF vars, topic_vars, TopicsTell, Here, Tells
<1> QED
  BY <1>1, <1>2, <1>3, <1>4, <1>5, <1>6 DEF Next, Step, Pass

(* However many pipelines a message comes through, however long its topic    *)
(* grows and whichever stages and remap callables write it anew, the         *)
(* application is given what was last written behind the prefixes of the way *)
(* since, in order and whole.                                                *)
THEOREM TopicTellsItsWayHolds == Spec => []TopicTellsItsWay
<1>1. Init => TopicsTell
  BY DEF Init, TopicsTell, OnItsWay
<1>2. TInv /\ TopicsTell => TopicTellsItsWay
  <2> SUFFICES ASSUME TInv, TopicsTell, NEW t \in Threads, at[t] = "app"
               PROVE  topic[t] = PrefixesOf[WaySince(t)] \o written[t]
    BY DEF TopicTellsItsWay
  <2>1. path[t] \in Seq(Pipes) /\ Tells(path[t], since[t], topic[t], written[t])
    BY DEF TInv, TypeOK, TopicsTell, OnItsWay
  <2>2. ~Prefixing(path[t][Len(path[t])])
    BY DEF TopicsTell, Here, Prefixing
  <2>3. PrefixesOf[WaySince(t)] = PrefixesOf[SubSeq(path[t], since[t], Len(path[t]) - 1)]
    BY <2>1, <2>2, FromKOn, PrefixesOfFront DEF Tells, WaySince
  <2> QED
    BY <2>1, <2>3 DEF Tells
<1> QED
  BY TypeInit, TypeStep, TopicsStep, <1>1, <1>2, PTL DEF Spec

-----------------------------------------------------------------------------
(* The network refines EmitService: a message is on its way until some      *)
(* pipeline drops it or the application's sink has it.                      *)
LEMMA ServiceStep == TInv /\ [Next]_vars => [Service!Next]_(Service!vars)
<1> SUFFICES ASSUME TInv, [Next]_vars PROVE [Service!Next]_(Service!vars)
  OBVIOUS
<1>0. at \in [Threads -> Places] /\ path \in [Threads -> Seq(Pipes)]
  BY DEF TInv, TypeOK
<1>1. ASSUME NEW t \in Threads, NEW p \in Pipes, Emit(t, p) PROVE Service!Call(t)
  BY <1>0, <1>1 DEF Emit, Steps, Service!Call
<1>2. ASSUME NEW t \in Threads, CallApp(t) PROVE Service!Deliver(t)
  BY <1>0, <1>2 DEF CallApp, Steps, Service!Deliver, Service!Message
<1>3. ASSUME NEW t \in Threads, Drop(t) PROVE Service!Drop(t)
  BY <1>0, <1>3 DEF Drop, Steps, Service!Drop
<1>4. ASSUME NEW t \in Threads, Release(t)
      PROVE  Service!Return(t) \/ UNCHANGED Service!vars
  <2>1. CASE Len(path[t]) = 1
    <3>1. Steps(t, "unlock", "out") /\ UNCHANGED <<sent, log>>
      BY <1>4, <2>1 DEF Release
    <3> QED
      BY <1>0, <3>1 DEF Steps, Service!Return
  <2>2. CASE Len(path[t]) # 1
    <3>1. Steps(t, "unlock", "unlock") /\ UNCHANGED <<sent, log>>
      BY <1>4, <2>2 DEF Release
    <3>2. UNCHANGED at
      BY <1>0, <3>1 DEF Steps
    <3> QED
      BY <3>1, <3>2 DEF Service!vars
  <2> QED
    BY <2>1, <2>2
<1>5. ASSUME NEW t \in Threads, Acquire(t) \/ Pass(t) \/ AppReturns(t) \/ EmitIntoTarget(t)
      PROVE  UNCHANGED Service!vars
  BY <1>0, <1>5 DEF Acquire, Pass, AppReturns, EmitIntoTarget, Steps, Service!vars
<1>6. CASE UNCHANGED vars
  BY <1>6 DEF vars, Service!vars
<1> QED
  BY <1>1, <1>2, <1>3, <1>4, <1>5, <1>6 DEF Next, Step, Service!Next

(* Connected pipelines promise their emitters what a single one does.       *)
THEOREM NetworkRefinesEmitService == Spec => NetworkIsEmitService
<1>1. Init => Service!Init
  BY DEF Init, Service!Init
<1> QED
  BY TypeInit, TypeStep, ServiceStep, <1>1, PTL
     DEF Spec, NetworkIsEmitService, Service!Spec
=============================================================================
