------------------------ MODULE SourceRegistryProofs ------------------------
(***************************************************************************)
(* The registry for any number of threads, schemes and entries, as long as *)
(* the application makes one registration at a time (Overlap = FALSE).     *)
(*                                                                         *)
(* The argument: an entry below the count is never written again and holds *)
(* one accepted registration, the i-th entry the i-th; the one that is     *)
(* being filled lies straight behind them.  So a search, which has seen a  *)
(* count that can only be too low, meets whole entries in the order of     *)
(* their registration.                                                     *)
(***************************************************************************)
EXTENDS SourceRegistry, TLAPS

Searching == {"search", "call", "missed"}

(* Whoever is in a call was given a scheme, and has an entry in front of it. *)
CallsAreTyped ==
    \A t \in Threads :
        /\ pc[t] # "idle" => arg[t] \in Schemes
        /\ pc[t] \in Registering => pos[t] <= MaxSchemes /\ made[t] \in Factories
        /\ pc[t] = "search" => pos[t] <= limit[t] + 1

TInv == TypeOK /\ CallsAreTyped

LEMMA TypeInit == Init => TInv
<1> SUFFICES ASSUME Init PROVE TInv
  OBVIOUS
<1>1. MaxSchemes \in Nat /\ Excess \in Nat /\ 1 \in 1..MaxSchemes + 1
  BY RegistryAssumption
<1>2. accepted \in Seq([scheme : Schemes, factory : Factories])
  BY DEF Init
<1>3. TypeOK
  BY <1>1, <1>2 DEF Init, TypeOK, Places
<1>4. \A t \in Threads : pc[t] = "idle"
  BY DEF Init
<1> QED
  BY <1>3, <1>4 DEF TInv, CallsAreTyped, Registering

LEMMA PlacesAre ==
    /\ {"idle", "search", "call", "missed", "scheme", "factory", "publish"} = Places
    /\ Searching \cap Registering = {} /\ "idle" \notin Searching \cup Registering
  BY DEF Places, Registering, Searching

LEMMA TypeStep == TInv /\ [Next]_vars => TInv'
<1> SUFFICES ASSUME TInv, [Next]_vars PROVE TInv'
  OBVIOUS
<1> USE RegistryAssumption DEF TInv, TypeOK
<1>1. ASSUME NEW t \in Threads, NEW s \in Schemes, Register(t, s) PROVE TInv'
  <2>1. calls' \in Factories /\ calls' \in 0..MaxSchemes + Excess
    BY <1>1 DEF Register, Factories
  <2>2. TypeOK'
    <3>1. CASE UNCHANGED <<pc, arg, pos, made>>
      BY <1>1, <2>1, <3>1 DEF Register
    <3>2. CASE /\ count < MaxSchemes
               /\ Goes(t, "idle", "scheme")
               /\ arg' = [arg EXCEPT ![t] = s]
               /\ pos' = [pos EXCEPT ![t] = count + 1]
               /\ made' = [made EXCEPT ![t] = calls']
      <4>1. count + 1 \in 1..MaxSchemes + 1 /\ "scheme" \in Places
        BY <3>2, PlacesAre
      <4>2. /\ pc' \in [Threads -> Places]
            /\ arg' \in [Threads -> Schemes \cup {NoScheme}]
            /\ pos' \in [Threads -> 1..MaxSchemes + 1]
            /\ made' \in [Threads -> Factories \cup {0}]
        BY <2>1, <3>2, <4>1 DEF Goes
      <4> QED
        BY <1>1, <2>1, <4>2 DEF Register
    <3> QED
      BY <1>1, <3>1, <3>2 DEF Register
  <2>3. CallsAreTyped'
    BY <1>1, <2>1 DEF Register, Goes, CallsAreTyped, Registering
  <2> QED
    BY <2>2, <2>3
<1>2. ASSUME NEW t \in Threads, WriteScheme(t) PROVE TInv'
  <2>1. arg[t] \in Schemes /\ pos[t] \in 1..MaxSchemes
    BY <1>2 DEF WriteScheme, Goes, CallsAreTyped, Registering
  <2>2. TypeOK'
    BY <1>2, <2>1, PlacesAre DEF WriteScheme, Goes
  <2>3. CallsAreTyped'
    BY <1>2 DEF WriteScheme, Goes, CallsAreTyped, Registering
  <2> QED
    BY <2>2, <2>3
<1>3. ASSUME NEW t \in Threads, WriteFactory(t) PROVE TInv'
  <2>1. made[t] \in Factories /\ pos[t] \in 1..MaxSchemes
    BY <1>3 DEF WriteFactory, Goes, CallsAreTyped, Registering
  <2>2. TypeOK'
    BY <1>3, <2>1, PlacesAre DEF WriteFactory, Goes
  <2>3. CallsAreTyped'
    BY <1>3 DEF WriteFactory, Goes, CallsAreTyped, Registering
  <2> QED
    BY <2>2, <2>3
<1>4. ASSUME NEW t \in Threads, Publish(t) PROVE TInv'
  <2>1. arg[t] \in Schemes /\ made[t] \in Factories /\ pos[t] \in 0..MaxSchemes
    BY <1>4 DEF Publish, Goes, CallsAreTyped, Registering
  <2>2. accepted' \in Seq([scheme : Schemes, factory : Factories])
    BY <1>4, <2>1 DEF Publish
  <2>3. TypeOK'
    BY <1>4, <2>1, <2>2, PlacesAre DEF Publish, Goes
  <2>4. CallsAreTyped'
    BY <1>4 DEF Publish, Goes, CallsAreTyped, Registering
  <2> QED
    BY <2>3, <2>4
<1>5. ASSUME NEW t \in Threads, NEW s \in Schemes, Search(t, s) PROVE TInv'
  <2>1. TypeOK'
    BY <1>5, PlacesAre DEF Search, Goes
  <2>2. CallsAreTyped'
    BY <1>5 DEF Search, Goes, CallsAreTyped, Registering
  <2> QED
    BY <2>1, <2>2
<1>6. ASSUME NEW t \in Threads, Compare(t) PROVE TInv'
  <2>1. pc' \in [Threads -> Places]
    BY <1>6, PlacesAre DEF Compare, Goes
  <2>2. pos' \in [Threads -> 1..MaxSchemes + 1]
    <3>1. ASSUME pos[t] <= limit[t] PROVE pos[t] + 1 \in 1..MaxSchemes + 1
      <4>1. limit[t] \in 0..MaxSchemes /\ pos[t] \in 1..MaxSchemes + 1
        OBVIOUS
      <4> QED
        BY <3>1, <4>1
    <3> QED
      BY <1>6, <3>1 DEF Compare
  <2>3. TypeOK'
    BY <1>6, <2>1, <2>2 DEF Compare
  <2>4. CallsAreTyped'
    BY <1>6 DEF Compare, Goes, CallsAreTyped, Registering
  <2> QED
    BY <2>3, <2>4
<1>7. ASSUME NEW t \in Threads, SearchReturns(t) PROVE TInv'
  BY <1>7, PlacesAre DEF SearchReturns, Goes, CallsAreTyped, Registering
<1>8. CASE UNCHANGED vars
  BY <1>8 DEF vars, CallsAreTyped
<1> QED
  BY <1>1, <1>2, <1>3, <1>4, <1>5, <1>6, <1>7, <1>8 DEF Next, Step

(* Every thread's position stays on the table, and every entry holds a      *)
(* scheme and a factory, or nothing.                                        *)
THEOREM TypeCorrect == Spec => []TypeOK
<1>1. TInv => TypeOK
  BY DEF TInv
<1> QED
  BY TypeInit, TypeStep, <1>1, PTL DEF Spec

-----------------------------------------------------------------------------
(* The entry of an accepted registration. *)
EntryOf(registration) ==
    [scheme |-> Stored[registration.scheme], factory |-> registration.factory]

TableIsAccepted ==
    /\ Len(accepted) = count
    /\ \A i \in 1..count : entries[i] = EntryOf(accepted[i])

(* The one registration there is fills the entry behind the last. *)
FillsTheNext ==
    /\ \A t, u \in Threads : pc[t] \in Registering /\ pc[u] \in Registering => t = u
    /\ \A t \in Threads :
          /\ pc[t] \in Registering => pos[t] = count + 1
          /\ pc[t] \in {"factory", "publish"} => entries[pos[t]].scheme = Stored[arg[t]]
          /\ pc[t] = "publish" => entries[pos[t]].factory = made[t]

(* How far a search has come. *)
Misses(s, n) == \A i \in 1..n : entries[i].scheme # s

SearchesGoOn ==
    \A t \in Threads :
        /\ pc[t] \in Searching => limit[t] <= count
        /\ pc[t] \in {"search", "call"} => Misses(arg[t], pos[t] - 1)
        /\ pc[t] = "call" => pos[t] <= limit[t] /\ entries[pos[t]].scheme = arg[t]
        /\ pc[t] = "missed" => Misses(arg[t], limit[t])

RInv == TInv /\ TableIsAccepted /\ FillsTheNext /\ SearchesGoOn

LEMMA RegistryInit == Init => RInv
<1> SUFFICES ASSUME Init PROVE RInv
  OBVIOUS
<1>1. \A t \in Threads : pc[t] = "idle"
  BY DEF Init
<1>2. Len(accepted) = 0 /\ count = 0
  BY DEF Init
<1> QED
  BY <1>1, <1>2, TypeInit DEF RInv, TableIsAccepted, FillsTheNext, SearchesGoOn,
                              Registering, Searching

(* A step that leaves the table and the registrations alone. *)
LEMMA TableStays ==
    ASSUME TableIsAccepted, UNCHANGED <<entries, count, accepted>>
    PROVE  TableIsAccepted'
  BY DEF TableIsAccepted

(* A step of t that is neither inside a registration before it nor after.   *)
LEMMA FillingStays ==
    ASSUME FillsTheNext, NEW t \in Threads, UNCHANGED <<entries, count, made>>,
           pc[t] \notin Registering, pc'[t] \notin Registering,
           \A u \in Threads \ {t} : pc'[u] = pc[u] /\ arg'[u] = arg[u] /\ pos'[u] = pos[u]
    PROVE  FillsTheNext'
  BY DEF FillsTheNext, Registering

(* A step of t that is not inside a search afterwards, and writes no entry  *)
(* below the count.                                                         *)
LEMMA SearchesStay ==
    ASSUME TInv, SearchesGoOn, NEW t \in Threads, pc'[t] \notin Searching,
           UNCHANGED limit, count' \in Nat, count <= count',
           \A i \in 1..count : entries'[i] = entries[i],
           \A u \in Threads \ {t} : pc'[u] = pc[u] /\ arg'[u] = arg[u] /\ pos'[u] = pos[u]
    PROVE  SearchesGoOn'
<1> SUFFICES ASSUME NEW u \in Threads, pc'[u] \in Searching
             PROVE  /\ limit'[u] <= count'
                    /\ pc'[u] \in {"search", "call"} => Misses(arg[u], pos[u] - 1)'
                    /\ pc'[u] = "call" =>
                          pos'[u] <= limit'[u] /\ entries'[pos'[u]].scheme = arg'[u]
                    /\ pc'[u] = "missed" => Misses(arg[u], limit[u])'
  BY DEF SearchesGoOn, Searching
<1>1. u # t /\ pc'[u] = pc[u] /\ arg'[u] = arg[u] /\ pos'[u] = pos[u]
  OBVIOUS
<1>2. /\ limit[u] \in Nat /\ pos[u] \in Nat \ {0} /\ count \in Nat /\ limit[u] <= count
      /\ pc[u] = "search" => pos[u] <= limit[u] + 1
      /\ pc[u] = "call" => pos[u] <= limit[u]
  BY <1>1, RegistryAssumption DEF TInv, TypeOK, CallsAreTyped, SearchesGoOn
<1>3. limit'[u] <= count'
  BY <1>2
<1>4. ASSUME NEW n \in Nat, n <= count, Misses(arg[u], n)
      PROVE  \A i \in 1..n : entries'[i].scheme # arg'[u]
  BY <1>1, <1>2, <1>4 DEF Misses
<1>5. ASSUME pc'[u] \in {"search", "call"} PROVE Misses(arg[u], pos[u] - 1)'
  <2>1. pos[u] - 1 \in Nat /\ pos[u] - 1 <= count /\ Misses(arg[u], pos[u] - 1)
    BY <1>1, <1>2, <1>5 DEF SearchesGoOn
  <2>2. \A i \in 1..pos[u] - 1 : entries'[i].scheme # arg'[u]
    BY <1>4, <2>1
  <2> QED
    BY <1>1, <2>2 DEF Misses
<1>6. ASSUME pc'[u] = "call"
      PROVE  pos'[u] <= limit'[u] /\ entries'[pos'[u]].scheme = arg'[u]
  BY <1>1, <1>2, <1>6 DEF SearchesGoOn
<1>7. ASSUME pc'[u] = "missed" PROVE Misses(arg[u], limit[u])'
  <2>1. Misses(arg[u], limit[u])
    BY <1>1, <1>7 DEF SearchesGoOn
  <2>2. \A i \in 1..limit[u] : entries'[i].scheme # arg'[u]
    BY <1>2, <1>4, <2>1
  <2> QED
    BY <2>2 DEF Misses
<1> QED
  BY <1>3, <1>5, <1>6, <1>7

(* What a step does to the table: it writes behind the count or, in the     *)
(* end, takes the entry there into it.                                      *)
LEMMA TableGrows ==
    ASSUME RInv, Overlap = FALSE, [Next]_vars
    PROVE  /\ count' \in Nat /\ count <= count'
           /\ \A i \in 1..count : entries'[i] = entries[i]
<1>0. count \in Nat /\ \A t \in Threads : pos[t] \in Nat
  BY RegistryAssumption DEF RInv, TInv, TypeOK
<1>1. ASSUME NEW t \in Threads, WriteScheme(t) \/ WriteFactory(t)
      PROVE  UNCHANGED count /\ \A i \in 1..count : entries'[i] = entries[i]
  <2>1. pos[t] = count + 1
    BY <1>1 DEF WriteScheme, WriteFactory, Goes, RInv, FillsTheNext, Registering
  <2>2. \A i \in 1..count : i # pos[t] /\ i \in DOMAIN entries
    BY <1>0, <2>1, RegistryAssumption DEF RInv, TInv, TypeOK
  <2> QED
    BY <1>1, <2>2 DEF WriteScheme, WriteFactory
<1>2. ASSUME NEW t \in Threads, Publish(t) PROVE UNCHANGED entries /\ count' = count + 1
  BY <1>2 DEF Publish, Goes, RInv, FillsTheNext, Registering
<1>3. ASSUME ~\E t \in Threads : WriteScheme(t) \/ WriteFactory(t) \/ Publish(t)
      PROVE  UNCHANGED <<entries, count>>
  BY <1>3 DEF Next, Step, Register, Search, Compare, SearchReturns, vars
<1> QED
  BY <1>0, <1>1, <1>2, <1>3

(* A step of t inside a search changes nothing for the others.              *)
LEMMA SearchesOthers ==
    ASSUME SearchesGoOn, NEW t \in Threads, UNCHANGED <<entries, count>>,
           \A u \in Threads \ {t} : /\ pc'[u] = pc[u] /\ arg'[u] = arg[u]
                                    /\ pos'[u] = pos[u] /\ limit'[u] = limit[u],
           pc'[t] \in Searching => limit'[t] <= count,
           pc'[t] \in {"search", "call"} => Misses(arg'[t], pos'[t] - 1),
           pc'[t] = "call" => pos'[t] <= limit'[t] /\ entries[pos'[t]].scheme = arg'[t],
           pc'[t] = "missed" => Misses(arg'[t], limit'[t])
    PROVE  SearchesGoOn'
<1>1. \A s, n : (\A i \in 1..n : entries'[i].scheme # s) <=> (\A i \in 1..n : entries[i].scheme # s)
  OBVIOUS
<1> QED
  BY <1>1 DEF SearchesGoOn, Misses

LEMMA RegistryStep == RInv /\ Overlap = FALSE /\ [Next]_vars => RInv'
<1> SUFFICES ASSUME RInv, Overlap = FALSE, [Next]_vars PROVE RInv'
  OBVIOUS
<1> USE DEF RInv
<1>0. TInv' /\ TInv /\ TypeOK
  BY TypeStep DEF TInv
<1>t. /\ count \in Nat /\ MaxSchemes \in Nat /\ entries \in [1..MaxSchemes -> [scheme : Schemes \cup {NoScheme}, factory : Factories \cup {0}]]
      /\ pc \in [Threads -> Places] /\ arg \in [Threads -> Schemes \cup {NoScheme}]
      /\ pos \in [Threads -> 1..MaxSchemes + 1] /\ limit \in [Threads -> 0..MaxSchemes]
      /\ accepted \in Seq([scheme : Schemes, factory : Factories])
      /\ made \in [Threads -> Factories \cup {0}]
  BY <1>0, RegistryAssumption DEF TypeOK
<1>1. ASSUME NEW t \in Threads, NEW s \in Schemes, Register(t, s) PROVE RInv'
  <2>1. UNCHANGED <<entries, count, limit, accepted>> /\ \A u \in Threads : pc[u] \notin Registering
    BY <1>1 DEF Register
  <2>2. \A u \in Threads \ {t} : pc'[u] = pc[u] /\ arg'[u] = arg[u] /\ pos'[u] = pos[u]
    BY <1>1, <1>t DEF Register, Goes
  <2>3. FillsTheNext'
    <3>1. pc'[t] = "scheme" => pos'[t] = count + 1
      BY <1>1, <1>t DEF Register, Goes
    <3>2. pc'[t] \in {"idle", "scheme"}
      BY <1>1, <1>t DEF Register, Goes
    <3>3. \A u \in Threads : pc'[u] \in Registering => u = t
      BY <2>1, <2>2
    <3> QED
      BY <2>1, <3>1, <3>2, <3>3 DEF FillsTheNext, Registering
  <2>4. pc'[t] \notin Searching
    BY <1>1, <1>t DEF Register, Goes, Searching
  <2>5. SearchesGoOn'
    BY <1>0, <1>t, <2>1, <2>2, <2>4, SearchesStay
  <2> QED
    BY <1>0, <2>1, <2>3, <2>5, TableStays
<1>2. ASSUME NEW t \in Threads, WriteScheme(t) \/ WriteFactory(t) PROVE RInv'
  <2>1. UNCHANGED <<count, arg, pos, made, limit, accepted>>
    BY <1>2 DEF WriteScheme, WriteFactory
  <2>2. /\ pc[t] \in {"scheme", "factory"} /\ pc'[t] \in {"factory", "publish"}
        /\ \A u \in Threads \ {t} : pc'[u] = pc[u]
    BY <1>2, <1>t DEF WriteScheme, WriteFactory, Goes
  <2>3. pos[t] = count + 1 /\ pos[t] \in 1..MaxSchemes
    BY <1>0, <1>t, <2>2 DEF FillsTheNext, Registering, TInv, CallsAreTyped
  <2>4. count' \in Nat /\ count <= count' /\ \A i \in 1..count : entries'[i] = entries[i]
    BY TableGrows
  <2>5. TableIsAccepted'
    BY <2>1, <2>4 DEF TableIsAccepted
  <2>6. FillsTheNext'
    <3>1. \A u \in Threads : pc'[u] \in Registering => u = t
      BY <2>2 DEF FillsTheNext, Registering
    <3>2. entries'[pos[t]].scheme = Stored[arg[t]]
      <4>1. CASE WriteScheme(t)
        BY <1>t, <2>3, <4>1 DEF WriteScheme
      <4>2. CASE WriteFactory(t)
        <5>1. entries[pos[t]].scheme = Stored[arg[t]]
          BY <4>2 DEF WriteFactory, Goes, FillsTheNext
        <5> QED
          BY <1>t, <2>3, <4>2, <5>1 DEF WriteFactory
      <4> QED
        BY <1>2, <4>1, <4>2
    <3>3. pc'[t] = "publish" => entries'[pos[t]].factory = made[t]
      BY <1>2, <1>t, <2>3 DEF WriteScheme, WriteFactory, Goes
    <3> QED
      BY <2>1, <2>3, <3>1, <3>2, <3>3 DEF FillsTheNext, Registering
  <2>7. SearchesGoOn'
    BY <1>0, <2>1, <2>2, <2>4, SearchesStay DEF Searching
  <2> QED
    BY <1>0, <2>5, <2>6, <2>7
<1>3. ASSUME NEW t \in Threads, Publish(t) PROVE RInv'
  <2>1. /\ UNCHANGED <<entries, arg, pos, made, limit>> /\ pc[t] = "publish" /\ pc'[t] = "idle"
        /\ \A u \in Threads \ {t} : pc'[u] = pc[u]
    BY <1>3, <1>t DEF Publish, Goes
  <2>2. count' = count + 1 /\ pos[t] = count + 1 /\ pos[t] \in 1..MaxSchemes
    <3>1. pos[t] = count + 1 /\ count' = pos[t]
      BY <1>3, <2>1 DEF Publish, FillsTheNext, Registering
    <3>2. pos[t] <= MaxSchemes /\ pos[t] \in 1..MaxSchemes + 1
      BY <1>0, <1>t, <2>1 DEF Registering, TInv, CallsAreTyped
    <3> QED
      BY <1>t, <3>1, <3>2
  <2>3. entries[count + 1] = [scheme |-> Stored[arg[t]], factory |-> made[t]]
    BY <1>t, <2>1, <2>2 DEF FillsTheNext
  <2>4. TableIsAccepted'
    <3> DEFINE r == [scheme |-> arg[t], factory |-> made[t]]
    <3>1. r \in [scheme : Schemes, factory : Factories]
      BY <1>0, <2>1 DEF TInv, CallsAreTyped, Registering
    <3>2. Len(accepted') = count + 1 /\ accepted'[count + 1] = r
          /\ \A i \in 1..count : accepted'[i] = accepted[i]
      BY <1>3, <1>t, <3>1 DEF Publish, TableIsAccepted
    <3>3. entries[count + 1] = EntryOf(r)
      BY <2>3 DEF EntryOf
    <3>4. \A i \in 1..count + 1 : entries[i] = EntryOf(accepted'[i])
      <4> SUFFICES ASSUME NEW i \in 1..count + 1 PROVE entries[i] = EntryOf(accepted'[i])
        OBVIOUS
      <4>1. CASE i \in 1..count
        BY <3>2, <4>1 DEF TableIsAccepted, EntryOf
      <4>2. CASE i = count + 1
        BY <3>2, <3>3, <4>2 DEF EntryOf
      <4> QED
        BY <1>t, <4>1, <4>2
    <3> QED
      BY <2>1, <2>2, <3>2, <3>4 DEF TableIsAccepted, EntryOf
  <2>5. FillsTheNext'
    BY <2>1 DEF FillsTheNext, Registering
  <2>6. SearchesGoOn'
    <3>1. pc'[t] \notin Searching /\ count' \in Nat /\ count <= count'
      BY <1>t, <2>1, <2>2 DEF Searching
    <3> QED
      BY <1>0, <2>1, <3>1, SearchesStay
  <2> QED
    BY <1>0, <2>4, <2>5, <2>6
<1>4. ASSUME NEW t \in Threads, NEW s \in Schemes, Search(t, s) PROVE RInv'
  <2>1. /\ UNCHANGED <<entries, count, made, accepted>>
        /\ pc[t] = "idle" /\ pc'[t] = "search" /\ pos'[t] = 1 /\ limit'[t] = count
        /\ \A u \in Threads \ {t} : /\ pc'[u] = pc[u] /\ arg'[u] = arg[u]
                                    /\ pos'[u] = pos[u] /\ limit'[u] = limit[u]
    BY <1>4, <1>t DEF Search, Goes
  <2>2. Misses(arg'[t], pos'[t] - 1)
    BY <2>1 DEF Misses
  <2>3. /\ limit'[t] <= count
        /\ pc'[t] # "call" /\ pc'[t] # "missed"
    BY <1>t, <2>1
  <2>4. SearchesGoOn'
    BY <2>1, <2>2, <2>3, SearchesOthers
  <2>5. FillsTheNext'
    BY <2>1, FillingStays DEF Registering
  <2> QED
    BY <1>0, <2>1, <2>4, <2>5, TableStays
<1>5. ASSUME NEW t \in Threads, Compare(t) PROVE RInv'
  <2>1. /\ UNCHANGED <<entries, count, arg, made, limit, accepted>>
        /\ pc[t] = "search" /\ pc'[t] \in Searching
        /\ \A u \in Threads \ {t} : pc'[u] = pc[u] /\ pos'[u] = pos[u]
    BY <1>5, <1>t DEF Compare, Goes, Searching
  <2>2. limit[t] <= count /\ Misses(arg[t], pos[t] - 1) /\ pos[t] <= limit[t] + 1
        /\ pos[t] \in Nat /\ limit[t] \in Nat /\ pos[t] >= 1
    BY <1>0, <1>t, <2>1 DEF SearchesGoOn, Searching, TInv, CallsAreTyped
  <2>3. /\ pc'[t] \in {"search", "call"} => Misses(arg'[t], pos'[t] - 1)
        /\ pc'[t] = "call" => pos'[t] <= limit'[t] /\ entries[pos'[t]].scheme = arg'[t]
        /\ pc'[t] = "missed" => Misses(arg'[t], limit'[t])
    <3>1. CASE pos[t] > limit[t]
      <4>1. pc'[t] = "missed" /\ limit[t] = pos[t] - 1
        BY <1>5, <1>t, <2>2, <3>1 DEF Compare, Goes
      <4> QED
        BY <2>1, <2>2, <4>1
    <3>2. CASE pos[t] <= limit[t] /\ entries[pos[t]].scheme = arg[t]
      <4>1. pc'[t] = "call" /\ pos' = pos
        BY <1>5, <1>t, <2>2, <3>2 DEF Compare, Goes
      <4> QED
        BY <2>1, <2>2, <3>2, <4>1
    <3>3. CASE pos[t] <= limit[t] /\ entries[pos[t]].scheme # arg[t]
      <4>1. pc'[t] = "search" /\ pos'[t] = pos[t] + 1
        BY <1>5, <1>t, <2>1, <2>2, <3>3 DEF Compare, Goes
      <4>2. Misses(arg[t], pos[t])
        BY <2>2, <3>3 DEF Misses
      <4> QED
        BY <2>1, <2>2, <4>1, <4>2
    <3> QED
      BY <2>2, <3>1, <3>2, <3>3
  <2>4. SearchesGoOn'
    BY <2>1, <2>2, <2>3, SearchesOthers
  <2>5. pc[t] \notin Registering /\ pc'[t] \notin Registering
    BY <2>1 DEF Registering, Searching
  <2>6. FillsTheNext'
    BY <2>1, <2>5, FillingStays
  <2> QED
    BY <1>0, <2>1, <2>4, <2>6, TableStays
<1>6. ASSUME NEW t \in Threads, SearchReturns(t) PROVE RInv'
  <2>1. /\ UNCHANGED <<entries, count, arg, pos, made, limit, accepted>>
        /\ pc[t] \in Searching /\ pc'[t] = "idle"
        /\ \A u \in Threads \ {t} : pc'[u] = pc[u]
    BY <1>6, <1>t DEF SearchReturns, Goes, Searching
  <2>2. SearchesGoOn'
    BY <1>0, <1>t, <2>1, SearchesStay, PlacesAre
  <2>3. FillsTheNext'
    BY <2>1, FillingStays, PlacesAre
  <2> QED
    BY <1>0, <2>1, <2>2, <2>3, TableStays
<1>7. CASE UNCHANGED vars
  <2>1. UNCHANGED <<entries, count, pc, arg, pos, made, limit, accepted>>
    BY <1>7 DEF vars
  <2>2. SearchesGoOn'
    BY <2>1 DEF SearchesGoOn, Misses
  <2>3. FillsTheNext'
    BY <2>1 DEF FillsTheNext
  <2> QED
    BY <1>0, <2>1, <2>2, <2>3, TableStays
<1> QED
  BY <1>1, <1>2, <1>3, <1>4, <1>5, <1>6, <1>7 DEF Next, Step

LEMMA RegistrySafe == ASSUME Overlap = FALSE PROVE Spec => []RInv
<1>1. RInv /\ [Next]_vars => RInv'
  BY RegistryStep
<1> QED
  BY RegistryInit, <1>1, PTL DEF Spec

(* Whatever runs beside it, a search finds the first of the accepted        *)
(* registrations under its scheme, with the factory it came with, or none   *)
(* where there was none when it began.                                      *)
THEOREM FirstRegistrationWinsHolds ==
    ASSUME Overlap = FALSE PROVE Spec => []FirstRegistrationWins
<1>1. RInv => FirstRegistrationWins
  <2> SUFFICES ASSUME RInv, NEW t \in Threads
               PROVE  /\ pc[t] = "call" =>
                           \E i \in Under(arg[t], Len(accepted)) :
                              /\ entries[pos[t]].factory = accepted[i].factory
                              /\ \A j \in Under(arg[t], Len(accepted)) : i <= j
                      /\ pc[t] = "missed" => Under(arg[t], limit[t]) = {}
    BY DEF FirstRegistrationWins
  <2>1. /\ count \in Nat /\ pos[t] \in Nat \ {0} /\ limit[t] \in Nat
        /\ Len(accepted) = count
    BY RegistryAssumption DEF RInv, TInv, TypeOK, TableIsAccepted
  <2>2. \A i \in 1..count : /\ entries[i].scheme = Stored[accepted[i].scheme]
                            /\ entries[i].factory = accepted[i].factory
    <3>1. \A r : EntryOf(r).scheme = Stored[r.scheme] /\ EntryOf(r).factory = r.factory
      BY DEF EntryOf
    <3> QED
      BY <3>1 DEF RInv, TableIsAccepted
  <2>3. ASSUME NEW n \in Nat, n <= count, Misses(arg[t], n)
        PROVE  \A i \in 1..n : i \notin Under(arg[t], count)
    BY <2>1, <2>2, <2>3 DEF Misses, Under
  <2>4. ASSUME pc[t] = "call"
        PROVE  \E i \in Under(arg[t], count) :
                  /\ entries[pos[t]].factory = accepted[i].factory
                  /\ \A j \in Under(arg[t], count) : i <= j
    <3>1. /\ pos[t] <= count /\ entries[pos[t]].scheme = arg[t]
          /\ Misses(arg[t], pos[t] - 1)
      BY <2>1, <2>4 DEF RInv, SearchesGoOn, Searching
    <3>2. pos[t] \in Under(arg[t], count) /\ entries[pos[t]].factory = accepted[pos[t]].factory
      BY <2>1, <2>2, <3>1 DEF Under
    <3>3. \A j \in 1..pos[t] - 1 : j \notin Under(arg[t], count)
      BY <2>1, <2>3, <3>1
    <3>4. ASSUME NEW j \in Under(arg[t], count) PROVE pos[t] <= j
      <4>1. j \in 1..count
        BY <3>4 DEF Under
      <4> QED
        BY <2>1, <3>3, <4>1
    <3> QED
      BY <3>2, <3>4
  <2>5. ASSUME pc[t] = "missed" PROVE Under(arg[t], limit[t]) = {}
    <3>1. limit[t] <= count /\ Misses(arg[t], limit[t])
      BY <2>5 DEF RInv, SearchesGoOn, Searching
    <3> QED
      BY <2>1, <2>2, <3>1 DEF Under, Misses
  <2> QED
    BY <2>1, <2>4, <2>5
<1> QED
  BY RegistrySafe, <1>1, PTL

(* The first entry under a scheme is where it was, and no other comes       *)
(* before it: what a scheme leads to never changes.                         *)
THEOREM FoundStaysFoundHolds ==
    ASSUME Overlap = FALSE PROVE Spec => FoundStaysFound
<1>1. ASSUME RInv, [Next]_vars, NEW s \in Schemes, Leads(s) # {}
      PROVE  Leads(s)' = Leads(s)
  <2>0. count \in Nat
    BY <1>1, RegistryAssumption DEF RInv, TInv, TypeOK
  <2>1. /\ count' \in Nat /\ count <= count' /\ count \in Nat
        /\ \A i \in 1..count : entries'[i] = entries[i]
    BY <1>1, <2>0, TableGrows
  <2>2. PICK k \in FirstMatch(s) : TRUE
    BY <1>1 DEF Leads
  <2>3. k \in 1..count /\ entries[k].scheme = s /\ \A j \in 1..k - 1 : entries[j].scheme # s
    BY <2>2 DEF FirstMatch
  <2>4. FirstMatch(s) = {k}
    <3>1. ASSUME NEW i \in FirstMatch(s) PROVE i = k
      <4>1. i \in 1..count /\ entries[i].scheme = s /\ \A j \in 1..i - 1 : entries[j].scheme # s
        BY <3>1 DEF FirstMatch
      <4>2. ~(i < k) /\ ~(k < i)
        BY <2>1, <2>3, <4>1
      <4> QED
        BY <2>1, <2>3, <4>1, <4>2
    <3> QED
      BY <2>2, <3>1
  <2>5. /\ k \in 1..count' /\ entries'[k].scheme = s
        /\ \A j \in 1..k - 1 : entries'[j].scheme # s
    BY <2>1, <2>3
  <2>6. FirstMatch(s)' = {k}
    <3>1. k \in FirstMatch(s)'
      BY <2>5 DEF FirstMatch
    <3>2. ASSUME NEW i \in FirstMatch(s)' PROVE i = k
      <4>1. i \in 1..count' /\ entries'[i].scheme = s /\ \A j \in 1..i - 1 : entries'[j].scheme # s
        BY <3>2 DEF FirstMatch
      <4>2. ~(i < k) /\ ~(k < i)
        BY <2>1, <2>5, <4>1
      <4> QED
        BY <2>1, <2>5, <4>1, <4>2
    <3> QED
      BY <3>1, <3>2
  <2>7. entries'[k].factory = entries[k].factory
    BY <2>1, <2>3
  <2> QED
    BY <2>4, <2>6, <2>7 DEF Leads
<1>2. RInv /\ [Next]_vars => [\A s \in Schemes : Leads(s) # {} => Leads(s)' = Leads(s)]_vars
  BY <1>1
<1> QED
  BY RegistrySafe, <1>2, PTL DEF Spec, FoundStaysFound
=============================================================================
