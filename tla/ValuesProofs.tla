---------------------------- MODULE ValuesProofs ----------------------------
(***************************************************************************)
(* The types that hold values, as MCValues puts them side by side, for any *)
(* number of objects, any values and any capacities.                       *)
(***************************************************************************)
EXTENDS MCValues, SequenceTheorems, WellFoundedInduction, TLAPS

-----------------------------------------------------------------------------
(* expected.  Every operation is a destroy(), a construction, or both, of   *)
(* one object, so the argument is about one object and its result.          *)

Unions ==
    [void : BOOLEAN, has_value : BOOLEAN, val : Values \cup {Dead}, err : Values \cup {Dead},
     misused : BOOLEAN]

(* An object that stands for a result, Dead for none. *)
Right(u, result) ==
    /\ ~u.misused
    /\ u.val # Dead <=> result # Dead /\ u.has_value /\ ~u.void
    /\ u.err # Dead <=> result # Dead /\ ~u.has_value
    /\ result # Dead =>
          /\ u.has_value = result.ok
          /\ result.ok /\ ~u.void => u.val = result.of
          /\ ~result.ok => u.err = result.of

EInv ==
    /\ object \in [Objects -> Unions]
    /\ meant \in [Objects -> Results \cup {Dead}]
    /\ \A o \in Objects : object[o].void <=> o \in VoidObjects
    /\ \A o \in Objects : Right(object[o], meant[o])

LEMMA DestroyedIsRight ==
    ASSUME NEW u \in Unions, NEW result \in Results, Right(u, result)
    PROVE  /\ Destroyed(u) \in Unions /\ Destroyed(u).void = u.void
           /\ Right(Destroyed(u), Dead)
<1>1. CASE u.void /\ u.has_value
  BY <1>1 DEF Destroyed, NoMember, Unions, Right
<1>2. CASE ~u.void /\ u.has_value
  <2>1. Destroyed(u) = [u EXCEPT !.val = Dead, !.misused = @ \/ u.val = Dead]
    BY <1>2 DEF Destroyed, NoMember, Member
  <2>2. u.val # Dead /\ u.err = Dead
    BY <1>2, ExpectedAssumption DEF Right
  <2> QED
    BY <1>2, <2>1, <2>2 DEF Unions, Right
<1>3. CASE ~u.has_value
  <2>1. Destroyed(u) = [u EXCEPT !.err = Dead, !.misused = @ \/ u.err = Dead]
    BY <1>3 DEF Destroyed, NoMember, Member
  <2>2. u.err # Dead /\ u.val = Dead
    BY <1>3, ExpectedAssumption DEF Right
  <2> QED
    BY <1>3, <2>1, <2>2 DEF Unions, Right
<1> QED
  BY <1>1, <1>2, <1>3 DEF Unions

LEMMA ConstructedIsRight ==
    ASSUME NEW u \in Unions, Right(u, Dead), NEW result \in Results, NEW x,
           (u.void /\ result.ok) \/ x = result.of
    PROVE  /\ Constructed(u, result.ok, x) \in Unions
           /\ Constructed(u, result.ok, x).void = u.void
           /\ Right(Constructed(u, result.ok, x), result)
<1>1. result # Dead /\ result.of \in Values /\ result.of # Dead /\ result.ok \in BOOLEAN
  BY ExpectedAssumption DEF Results
<1>2. u.val = Dead /\ u.err = Dead /\ ~u.misused
  BY DEF Right
<1>3. CASE u.void /\ result.ok
  <2>1. Constructed(u, result.ok, x) = [u EXCEPT !.has_value = result.ok]
    BY <1>3 DEF Constructed, NoMember
  <2> QED
    BY <1>1, <1>2, <1>3, <2>1 DEF Unions, Right
<1>4. CASE ~u.void /\ result.ok
  <2>1. Constructed(u, result.ok, x) =
           [u EXCEPT !.has_value = result.ok, !.val = x, !.misused = @ \/ u.val # Dead]
    BY <1>4 DEF Constructed, NoMember, Member
  <2> QED
    BY <1>1, <1>2, <1>4, <2>1 DEF Unions, Right
<1>5. CASE ~result.ok
  <2>1. Constructed(u, result.ok, x) =
           [u EXCEPT !.has_value = result.ok, !.err = x, !.misused = @ \/ u.err # Dead]
    BY <1>5 DEF Constructed, NoMember, Member
  <2> QED
    BY <1>1, <1>2, <1>5, <2>1 DEF Unions, Right
<1> QED
  BY <1>1, <1>3, <1>4, <1>5

LEMMA CopyIsRight ==
    ASSUME NEW u \in Unions, Right(u, Dead), NEW result \in Results,
           NEW v \in Unions, Right(v, result), u.void = v.void
    PROVE  /\ CopyOf(u, v) \in Unions /\ CopyOf(u, v).void = u.void
           /\ Right(CopyOf(u, v), result)
<1>1. result # Dead /\ v.has_value = result.ok
  BY ExpectedAssumption DEF Right
<1>2. (u.void /\ result.ok) \/ v[Member(v.has_value)] = result.of
  BY <1>1 DEF Right, Member
<1> QED
  BY <1>1, <1>2, ConstructedIsRight DEF CopyOf

LEMMA WrittenIsRight ==
    ASSUME NEW u \in Unions, NEW result \in Results, Right(u, result), NEW x \in Values,
           ~NoMember(u, u.has_value)
    PROVE  /\ [u EXCEPT ![Member(u.has_value)] = x] \in Unions
           /\ [u EXCEPT ![Member(u.has_value)] = x].void = u.void
           /\ [result EXCEPT !.of = x] \in Results
           /\ Right([u EXCEPT ![Member(u.has_value)] = x], [result EXCEPT !.of = x])
<1>1. result # Dead /\ x # Dead /\ u.has_value = result.ok
  BY ExpectedAssumption DEF Right
<1>2. [result EXCEPT !.of = x] \in Results /\ [result EXCEPT !.of = x] # Dead
  BY ExpectedAssumption DEF Results
<1>3. CASE u.has_value
  BY <1>1, <1>2, <1>3 DEF NoMember, Member, Unions, Right, Results
<1>4. CASE ~u.has_value
  BY <1>1, <1>2, <1>4 DEF NoMember, Member, Unions, Right, Results
<1> QED
  BY <1>3, <1>4

(* One object becomes another, and stands for another result. *)
LEMMA BecomesRight ==
    ASSUME EInv, NEW o \in Objects, NEW u \in Unions, NEW result \in Results \cup {Dead},
           Becomes(o, u, result), u.void = object[o].void, Right(u, result)
    PROVE  EInv'
  BY DEF EInv, Becomes

LEMMA EInvStep == EInv /\ [Next]_vars => EInv'
<1> SUFFICES ASSUME EInv, [Next]_vars PROVE EInv'
  OBVIOUS
<1>0. ASSUME NEW o \in Objects
      PROVE  /\ object[o] \in Unions /\ Right(object[o], meant[o])
             /\ Exists(o) => meant[o] \in Results
             /\ ~Exists(o) => meant[o] = Dead
  BY DEF EInv, Exists
<1>1. ASSUME NEW o \in Objects, NEW flag \in BOOLEAN, NEW x \in Values, Construct(o, flag, x)
      PROVE  EInv'
  <2>1. Result(flag, x) \in Results /\ Result(flag, x).ok = flag /\ Result(flag, x).of = x
    BY DEF Result, Results
  <2>2. Right(object[o], Dead) /\ Becomes(o, Constructed(object[o], flag, x), Result(flag, x))
    BY <1>0, <1>1 DEF Construct
  <2> QED
    BY <1>0, <2>1, <2>2, ConstructedIsRight, BecomesRight
<1>2. ASSUME NEW o \in Objects, NEW p \in Objects, CopyConstruct(o, p) PROVE EInv'
  <2>1. /\ Right(object[o], Dead) /\ Right(object[p], meant[p]) /\ meant[p] \in Results
        /\ object[o] \in Unions /\ object[p] \in Unions
        /\ object[o].void = object[p].void
    BY <1>0, <1>2 DEF CopyConstruct, SameType, EInv, Unions
  <2>2. Becomes(o, CopyOf(object[o], object[p]), meant[p])
    BY <1>2 DEF CopyConstruct
  <2> QED
    BY <2>1, <2>2, CopyIsRight, BecomesRight
<1>3. ASSUME NEW o \in Objects, NEW p \in Objects, Assign(o, p), o # p PROVE EInv'
  <2> DEFINE u == Destroyed(object[o])
  <2>1. /\ Right(object[p], meant[p]) /\ meant[p] \in Results
        /\ object[o] \in Unions /\ object[p] \in Unions
        /\ object[o].void = object[p].void
    BY <1>0, <1>3 DEF Assign, SameType, EInv, Unions
  <2>2. u \in Unions /\ Right(u, Dead) /\ u.void = object[p].void
    BY <1>0, <1>3, <2>1, DestroyedIsRight DEF Assign
  <2>3. Becomes(o, CopyOf(u, object[p]), meant[p])
    BY <1>3 DEF Assign
  <2> HIDE DEF u
  <2> QED
    BY <2>1, <2>2, <2>3, CopyIsRight, BecomesRight
<1>4. ASSUME NEW o \in Objects, NEW x \in Values, WriteMember(o, x) PROVE EInv'
  <2> DEFINE u == [object[o] EXCEPT ![Member(object[o].has_value)] = x]
             r == [meant[o] EXCEPT !.of = x]
  <2>1. u \in Unions /\ u.void = object[o].void /\ r \in Results /\ Right(u, r)
    BY <1>0, <1>4, WrittenIsRight DEF WriteMember
  <2>2. Becomes(o, u, r)
    BY <1>4 DEF WriteMember
  <2> HIDE DEF u, r
  <2> QED
    BY <2>1, <2>2, BecomesRight
<1>5. ASSUME NEW o \in Objects, Destroy(o) PROVE EInv'
  BY <1>0, <1>5, DestroyedIsRight, BecomesRight DEF Destroy
<1>6. CASE UNCHANGED vars
  BY <1>6 DEF vars, EInv
<1>7. ASSUME NEW o \in Objects, Assign(o, o) PROVE EInv'
  BY <1>6, <1>7 DEF Assign
<1> QED
  BY <1>1, <1>2, <1>3, <1>4, <1>5, <1>6, <1>7 DEF Next

LEMMA EInvInit == Init => EInv
<1> SUFFICES ASSUME Init PROVE EInv
  OBVIOUS
<1>1. ASSUME NEW o \in Objects
      PROVE  /\ object[o] \in Unions /\ meant[o] = Dead
             /\ object[o].void = (o \in VoidObjects) /\ Right(object[o], Dead)
  BY DEF Init, Unions, Right
<1>2. object \in [Objects -> Unions] /\ meant \in [Objects -> Results \cup {Dead}]
  BY <1>1 DEF Init
<1> QED
  BY <1>1, <1>2 DEF EInv

(* However objects are made, assigned and destroyed, exactly the member     *)
(* lives that the flag tells, and none is constructed or destroyed twice.   *)
THEOREM FlagTellsMemberHolds == Spec => []FlagTellsMember
<1>1. EInv => FlagTellsMember
  <2> SUFFICES ASSUME EInv, NEW o \in Objects, NEW flag \in BOOLEAN
               PROVE  /\ ~object[o].misused
                      /\ object[o][Member(flag)] # Dead <=>
                            Exists(o) /\ flag = object[o].has_value /\ ~NoMember(object[o], flag)
    BY DEF FlagTellsMember
  <2>1. Right(object[o], meant[o]) /\ object[o].has_value \in BOOLEAN
    BY DEF EInv, Unions
  <2>2. CASE flag
    BY <2>1, <2>2 DEF Right, Member, NoMember, Exists
  <2>3. CASE ~flag
    BY <2>1, <2>3 DEF Right, Member, NoMember, Exists
  <2> QED
    BY <2>2, <2>3
<1> QED
  BY EInvInit, EInvStep, <1>1, PTL DEF Spec

(* An expected stands for the result it was given last.                     *)
THEOREM StandsForResultHolds == Spec => []StandsForResult
<1>1. EInv => StandsForResult
  <2> SUFFICES ASSUME EInv, NEW o \in Objects, Exists(o)
               PROVE  /\ object[o].has_value = meant[o].ok
                      /\ \/ NoMember(object[o], meant[o].ok)
                         \/ object[o][Member(meant[o].ok)] = meant[o].of
    BY DEF StandsForResult
  <2>1. Right(object[o], meant[o]) /\ meant[o] # Dead
    BY DEF EInv, Exists
  <2>2. CASE meant[o].ok
    BY <2>1, <2>2 DEF Right, Member, NoMember
  <2>3. CASE ~meant[o].ok
    BY <2>1, <2>3 DEF Right, Member, NoMember
  <2> QED
    BY <2>1, <2>2, <2>3
<1> QED
  BY EInvInit, EInvStep, <1>1, PTL DEF Spec

-----------------------------------------------------------------------------
(* What the arguments about sequences share. *)

(* Whatever is a set of numbers has a least one. *)
LEMMA LeastNumber ==
    ASSUME NEW S, S \subseteq Nat, S # {}
    PROVE  \E n \in S : \A m \in S : n <= m
<1>1. PICK n \in S : \A m \in S : ~(<<m, n>> \in OpToRel(<, Nat))
  BY WFMin, NatLessThanWellFounded
<1>2. ASSUME NEW m \in S PROVE ~(m < n)
  BY <1>1 DEF OpToRel
<1> QED
  BY <1>2

LEMMA SameSequence ==
    ASSUME NEW S, NEW q \in Seq(S), NEW r \in Seq(S), Len(q) = Len(r),
           \A i \in 1..Len(q) : q[i] = r[i]
    PROVE  q = r
  OBVIOUS

(* The beginning of a sequence, or of a buffer. *)
LEMMA Beginning ==
    ASSUME NEW S, NEW m \in Nat, NEW q \in [1..m -> S], NEW n \in 0..m
    PROVE  /\ SubSeq(q, 1, n) \in Seq(S) /\ Len(SubSeq(q, 1, n)) = n
           /\ \A i \in 1..n : SubSeq(q, 1, n)[i] = q[i]
<1>1. q \in Seq(S) /\ Len(q) = m
  OBVIOUS
<1> QED
  BY <1>1

(* A part of a sequence, from behind its i-th element to its j-th. *)
LEMMA PartOf ==
    ASSUME NEW S, NEW q \in Seq(S), NEW i \in Nat, NEW j \in 0..Len(q), i <= j
    PROVE  /\ SubSeq(q, i + 1, j) \in Seq(S) /\ Len(SubSeq(q, i + 1, j)) = j - i
           /\ \A k \in 1..j - i : SubSeq(q, i + 1, j)[k] = q[i + k]
  OBVIOUS

-----------------------------------------------------------------------------
(* fixed_string.  The copy loop goes forwards, and a view into the string   *)
(* itself begins at or behind the place the loop writes to, so every        *)
(* character is read before it is written over.                             *)

Chars == FixedString!Chars
Arrays == [1..N + 1 -> Chars]

(* One turn of the loop in Copied, and the whole of it. *)
Turn(f, chars, view, i) ==
    IF i = 0 THEN chars
    ELSE [f[i - 1] EXCEPT ![i] = FixedString!At(view, f[i - 1], i)]
Copies(f, chars, view, n) == f = [i \in 0..n |-> Turn(f, chars, view, i)]

LEMMA CopiesExist ==
    ASSUME NEW chars, NEW view
    PROVE  \A n \in Nat : \E f : Copies(f, chars, view, n)
<1> DEFINE Missing == {n \in Nat : ~\E f : Copies(f, chars, view, n)}
<1> SUFFICES ASSUME Missing # {} PROVE FALSE
  OBVIOUS
<1>1. PICK n \in Missing : \A m \in Missing : n <= m
  <2>1. Missing \subseteq Nat
    OBVIOUS
  <2> HIDE DEF Missing
  <2> QED
    BY <2>1, LeastNumber
<1>2. n \in Nat /\ ~\E f : Copies(f, chars, view, n)
  OBVIOUS
<1>3. PICK f : n > 0 => Copies(f, chars, view, n - 1)
  <2>1. ASSUME n > 0 PROVE \E f : Copies(f, chars, view, n - 1)
    <3>1. n - 1 \in Nat /\ ~(n <= n - 1)
      BY <1>2, <2>1
    <3> QED
      BY <1>1, <3>1
  <2> QED
    BY <2>1
<1> DEFINE g == [i \in 0..n |-> Turn(f, chars, view, i)]
<1>4. ASSUME NEW i \in 0..n PROVE Turn(f, chars, view, i) = Turn(g, chars, view, i)
  <2>1. CASE i = 0
    BY <2>1 DEF Turn
  <2>2. CASE i # 0
    <3>1. n > 0 /\ i - 1 \in 0..n - 1 /\ i - 1 \in 0..n
      BY <1>2, <2>2
    <3>2. f[i - 1] = Turn(f, chars, view, i - 1)
      BY <1>3, <3>1 DEF Copies
    <3>3. f[i - 1] = g[i - 1]
      BY <3>1, <3>2
    <3> HIDE DEF g
    <3> QED
      BY <3>3 DEF Turn
  <2> QED
    BY <2>1, <2>2
<1>5. g = [i \in 0..n |-> Turn(g, chars, view, i)]
  BY <1>4
<1> HIDE DEF g
<1> QED
  BY <1>2, <1>5 DEF Copies

(* A view of n characters, elsewhere or into an array. *)
ViewInto(view, chars, n) ==
    /\ view.chars \in Seq(Chars) /\ n <= Len(view.chars)
    /\ view.own => /\ view.at \in Nat /\ view.at + n <= N + 1
                   /\ \A i \in 1..n : chars[view.at + i] = view.chars[i]

LEMMA CopiedIsView ==
    ASSUME N \in Nat, MaxChar \in Nat,
           NEW chars \in Arrays, NEW n \in 0..N, NEW view, ViewInto(view, chars, n)
    PROVE  /\ FixedString!Copied(chars, view, n) \in Arrays
           /\ \A i \in 1..n : FixedString!Copied(chars, view, n)[i] = view.chars[i]
           /\ FixedString!Copied(chars, view, n)[n + 1] = 0
<1> DEFINE Loop == CHOOSE f : f = [i \in 0..n |-> Turn(f, chars, view, i)]
<1>1. FixedString!Copied(chars, view, n) = [Loop[n] EXCEPT ![n + 1] = 0]
  BY DEF FixedString!Copied, Turn
<1>2. Loop = [i \in 0..n |-> Turn(Loop, chars, view, i)]
  BY CopiesExist DEF Copies
<1> HIDE DEF Loop
<1> DEFINE SoFar(k) == /\ Loop[k] \in Arrays
                       /\ \A i \in 1..k : Loop[k][i] = view.chars[i]
                       /\ \A i \in k + 1..N + 1 : Loop[k][i] = chars[i]
           Wrong == {k \in 0..n : ~SoFar(k)}
<1>3. Wrong = {}
  <2> SUFFICES ASSUME Wrong # {} PROVE FALSE
    OBVIOUS
  <2>1. PICK k \in Wrong : \A m \in Wrong : k <= m
    <3>1. Wrong \subseteq Nat
      OBVIOUS
    <3> HIDE DEF Wrong
    <3> QED
      BY <3>1, LeastNumber
  <2>2. k \in 0..n /\ ~SoFar(k)
    OBVIOUS
  <2>3. Loop[k] = Turn(Loop, chars, view, k)
    BY <1>2, <2>2
  <2>4. CASE k = 0
    BY <2>2, <2>3, <2>4 DEF Turn
  <2>5. CASE k # 0
    <3>1. k - 1 \in 0..n /\ k \in 1..N + 1 /\ k \in 1..n /\ ~(k <= k - 1)
      BY <2>2, <2>5
    <3>2. SoFar(k - 1)
      BY <2>1, <3>1
    <3> DEFINE before == Loop[k - 1]
    <3>3. /\ before \in Arrays
          /\ \A i \in 1..k - 1 : before[i] = view.chars[i]
          /\ \A i \in k..N + 1 : before[i] = chars[i]
      BY <3>1, <3>2
    <3>4. Loop[k] = [before EXCEPT ![k] = FixedString!At(view, before, k)]
      BY <2>3, <2>5 DEF Turn
    <3>5. FixedString!At(view, before, k) = view.chars[k]
      <4>1. CASE view.own
        <5>1. view.at + k \in k..N + 1 /\ chars[view.at + k] = view.chars[k]
          BY <3>1, <4>1 DEF ViewInto
        <5> QED
          BY <3>3, <4>1, <5>1 DEF FixedString!At
      <4>2. CASE ~view.own
        BY <4>2 DEF FixedString!At
      <4> QED
        BY <4>1, <4>2
    <3>6. view.chars[k] \in Chars
      BY <3>1 DEF ViewInto
    <3> HIDE DEF before
    <3>7. Loop[k] = [before EXCEPT ![k] = view.chars[k]]
      BY <3>4, <3>5
    <3>8. SoFar(k)
      BY <3>1, <3>3, <3>6, <3>7 DEF Arrays
    <3> QED
      BY <2>2, <3>8
  <2> QED
    BY <2>4, <2>5
<1>4. SoFar(n)
  BY <1>3
<1>5. n + 1 \in 1..N + 1 /\ 0 \in Chars
  BY DEF Chars, FixedString!Chars
<1> QED
  BY <1>1, <1>4, <1>5 DEF Arrays

(* What a string reads as, character by character. *)
SInv ==
    /\ data \in [Strings -> Arrays]
    /\ size \in [Strings -> 0..N]
    /\ text \in [Strings -> Seq(Chars)]
    /\ \A s \in Strings :
          /\ Len(text[s]) = size[s]
          /\ \A i \in 1..size[s] : data[s][i] = text[s][i]
          /\ data[s][size[s] + 1] = 0

LEMMA ValueIsText ==
    ASSUME N \in Nat, SInv, NEW s \in Strings
    PROVE  /\ FixedString!Value(s) = text[s]
           /\ text[s] \in Seq(Chars) /\ Len(text[s]) = size[s]
           /\ \A i \in 1..size[s] : text[s][i] = data[s][i]
<1> DEFINE value == SubSeq(data[s], 1, size[s])
<1>1. /\ data[s] \in [1..N + 1 -> Chars] /\ size[s] \in 0..N + 1 /\ N + 1 \in Nat
      /\ text[s] \in Seq(Chars) /\ Len(text[s]) = size[s]
      /\ \A i \in 1..size[s] : text[s][i] = data[s][i]
  BY DEF SInv, Arrays
<1>2. /\ value \in Seq(Chars) /\ Len(value) = size[s]
      /\ \A i \in 1..size[s] : value[i] = data[s][i]
  BY <1>1, Beginning
<1> HIDE DEF value
<1>3. value = text[s]
  BY <1>1, <1>2, SameSequence
<1> QED
  BY <1>1, <1>3 DEF FixedString!Value, value

(* A string becomes what the loop has copied. *)
LEMMA FillsRight ==
    ASSUME N \in Nat, MaxChar \in Nat, SInv, NEW s \in Strings, NEW chars \in Arrays,
           NEW n \in 0..N, NEW view, ViewInto(view, chars, n),
           FixedString!Fills(s, chars, view, n)
    PROVE  SInv'
<1> DEFINE copy == FixedString!Copied(chars, view, n)
           given == SubSeq(view.chars, 1, n)
<1>1. /\ copy \in Arrays /\ copy[n + 1] = 0
      /\ \A i \in 1..n : copy[i] = view.chars[i]
  BY CopiedIsView
<1>2. given \in Seq(Chars) /\ Len(given) = n /\ \A i \in 1..n : given[i] = view.chars[i]
  BY DEF ViewInto
<1>3. /\ data' = [data EXCEPT ![s] = copy] /\ size' = [size EXCEPT ![s] = n]
      /\ text' = [text EXCEPT ![s] = given]
  BY DEF FixedString!Fills
<1> HIDE DEF copy, given
<1>4. /\ data' \in [Strings -> Arrays] /\ size' \in [Strings -> 0..N]
      /\ text' \in [Strings -> Seq(Chars)]
  BY <1>1, <1>2, <1>3 DEF SInv
<1>5. ASSUME NEW o \in Strings
      PROVE  /\ Len(text'[o]) = size'[o]
             /\ \A i \in 1..size'[o] : data'[o][i] = text'[o][i]
             /\ data'[o][size'[o] + 1] = 0
  <2>1. CASE o = s
    <3>1. data'[o] = copy /\ size'[o] = n /\ text'[o] = given
      BY <1>3, <2>1 DEF SInv
    <3> QED
      BY <1>1, <1>2, <3>1
  <2>2. CASE o # s
    <3>1. data'[o] = data[o] /\ size'[o] = size[o] /\ text'[o] = text[o]
      BY <1>3, <2>2 DEF SInv
    <3> QED
      BY <3>1 DEF SInv
  <2> QED
    BY <2>1, <2>2
<1> QED
  BY <1>4, <1>5 DEF SInv

(* Texts, whole or up to their first 0, and parts of the string itself. *)
LEMMA ElsewhereIsView ==
    ASSUME N \in Nat, NEW t \in Seq(Chars), NEW chars, NEW n \in Nat, n <= Len(t)
    PROVE  ViewInto(FixedString!Elsewhere(t), chars, n)
  BY DEF ViewInto, FixedString!Elsewhere

LEMMA InsideIsView ==
    ASSUME N \in Nat, SInv, NEW s \in Strings, NEW view, view \in FixedString!Inside(s)
    PROVE  /\ view.chars \in Seq(Chars) /\ Len(view.chars) <= N
           /\ ViewInto(view, data[s], Len(view.chars))
<1>1. PICK i \in 0..size[s], j \in 0..size[s] :
         view = [own |-> TRUE, at |-> i, chars |-> SubSeq(FixedString!Value(s), i + 1, j)]
  BY DEF FixedString!Inside
<1>2. view.own = TRUE /\ view.at = i /\ view.chars = SubSeq(text[s], i + 1, j)
  BY <1>1, ValueIsText
<1>3. /\ text[s] \in Seq(Chars) /\ Len(text[s]) = size[s] /\ size[s] \in 0..N
      /\ \A k \in 1..size[s] : data[s][k] = text[s][k]
  BY DEF SInv
<1>4. CASE i <= j
  <2> DEFINE n == j - i
  <2>1. i \in Nat /\ j \in 0..Len(text[s]) /\ n \in Nat /\ i + n <= N + 1 /\ n <= N
    BY <1>3, <1>4
  <2>2. view.chars \in Seq(Chars) /\ Len(view.chars) = n /\ \A k \in 1..n : view.chars[k] = text[s][i + k]
    BY <1>2, <1>3, <1>4, <2>1, PartOf
  <2>3. \A k \in 1..n : i + k \in 1..size[s]
    BY <1>3, <2>1
  <2> HIDE DEF n
  <2>4. \A k \in 1..n : data[s][i + k] = view.chars[k]
    BY <1>3, <2>2, <2>3
  <2>5. n <= Len(view.chars) /\ view.at + n <= N + 1 /\ view.at \in Nat
    BY <1>2, <2>1, <2>2
  <2> QED
    BY <1>2, <2>1, <2>2, <2>4, <2>5 DEF ViewInto
<1>5. CASE j < i
  <2>1. view.chars \in Seq(Chars) /\ Len(view.chars) = 0
    BY <1>2, <1>3, <1>5
  <2>2. i \in Nat /\ i + 0 <= N + 1
    BY <1>3
  <2> QED
    BY <1>2, <2>1, <2>2 DEF ViewInto
<1> QED
  BY <1>3, <1>4, <1>5

LEMMA TextsAreSequences ==
    ASSUME N \in Nat, NEW t \in FixedString!Texts
    PROVE  t \in Seq(Chars) /\ FixedString!CString(t) \in Seq(Chars)
<1>1. PICK m \in 0..N + 1 : t \in [1..m -> Chars]
  BY DEF FixedString!Texts, Chars
<1>2. t \in Seq(Chars) /\ Len(t) = m
  BY <1>1
<1> DEFINE Ends == {n \in 0..m : n = m \/ t[n + 1] = 0}
<1>3. PICK n \in Ends : \A k \in Ends : n <= k
  <2>1. Ends \subseteq Nat /\ m \in Ends
    BY <1>1
  <2> HIDE DEF Ends
  <2> QED
    BY <2>1, LeastNumber
<1>4. n \in 0..m /\ (n = m \/ t[n + 1] = 0) /\ \A i \in 1..n : t[i] # 0
  <2>1. ASSUME NEW i \in 1..n, t[i] = 0 PROVE FALSE
    <3>1. i - 1 \in 0..m /\ (i - 1) + 1 = i /\ ~(n <= i - 1)
      BY <1>3
    <3>2. i - 1 \in Ends
      BY <2>1, <3>1
    <3> QED
      BY <1>3, <3>1, <3>2
  <2> QED
    BY <1>3, <2>1
<1> DEFINE end == CHOOSE k \in 0..Len(t) :
                      (\A i \in 1..k : t[i] # 0) /\ (k = Len(t) \/ t[k + 1] = 0)
<1>5. end \in 0..m
  BY <1>2, <1>4
<1>6. FixedString!CString(t) = SubSeq(t, 1, end)
  BY DEF FixedString!CString
<1> HIDE DEF end
<1>7. SubSeq(t, 1, end) \in Seq(Chars)
  BY <1>2, <1>5
<1> QED
  BY <1>2, <1>6, <1>7

LEMMA SInvStep ==
    ASSUME N \in Nat, MaxChar \in Nat
    PROVE  SInv /\ [FixedString!Next]_string_vars => SInv'
<1> SUFFICES ASSUME SInv, [FixedString!Next]_string_vars PROVE SInv'
  OBVIOUS
<1>0. \A m \in Nat : FixedString!Shorter(m, N) \in 0..N /\ FixedString!Shorter(m, N) <= m
  BY DEF FixedString!Shorter
<1>1. ASSUME NEW s \in Strings, NEW t \in Seq(Chars), FixedString!Construct(s, t) PROVE SInv'
  <2> DEFINE blank == [i \in 1..N + 1 |-> 0]
             n == FixedString!Shorter(Len(t), N)
  <2>1. blank \in Arrays
    BY DEF Arrays, Chars, FixedString!Chars
  <2>2. n \in 0..N /\ n <= Len(t)
    BY <1>0
  <2>3. FixedString!Fills(s, blank, FixedString!Elsewhere(t), n)
    BY <1>1 DEF FixedString!Construct
  <2> HIDE DEF blank, n
  <2>4. ViewInto(FixedString!Elsewhere(t), blank, n)
    BY <2>2, ElsewhereIsView
  <2> QED
    BY <2>1, <2>2, <2>3, <2>4, FillsRight
<1>2. ASSUME NEW s \in Strings, NEW t \in FixedString!Texts,
             FixedString!Construct(s, t) \/ FixedString!ConstructFromCString(s, t)
      PROVE  SInv'
  BY <1>1, <1>2, TextsAreSequences DEF FixedString!ConstructFromCString
<1>3. ASSUME NEW s \in Strings, NEW view \in FixedString!Views(s), NEW n \in 0..N,
             n <= Len(view.chars), FixedString!Fills(s, data[s], view, n)
      PROVE  SInv'
  <2>1. data[s] \in Arrays
    BY DEF SInv
  <2>2. ViewInto(view, data[s], n)
    <3>1. ASSUME NEW t \in FixedString!Texts, view = FixedString!Elsewhere(t)
          PROVE  ViewInto(view, data[s], n)
      <4>1. view.chars = t
        BY <3>1 DEF FixedString!Elsewhere
      <4> QED
        BY <1>3, <3>1, <4>1, ElsewhereIsView, TextsAreSequences
    <3>2. ASSUME view \in FixedString!Inside(s) PROVE ViewInto(view, data[s], n)
      <4>1. ViewInto(view, data[s], Len(view.chars)) /\ view.chars \in Seq(Chars)
        BY <3>2, InsideIsView
      <4> QED
        BY <1>3, <4>1 DEF ViewInto
    <3> QED
      BY <3>1, <3>2 DEF FixedString!Views
  <2> QED
    BY <1>3, <2>1, <2>2, FillsRight
<1>4. ASSUME NEW s \in Strings, NEW view \in FixedString!Views(s) PROVE Len(view.chars) \in Nat
  <2>1. view.chars \in Seq(Chars)
    BY InsideIsView, TextsAreSequences DEF FixedString!Views, FixedString!Elsewhere
  <2> QED
    BY <2>1
<1>5. ASSUME NEW s \in Strings, NEW view \in FixedString!Views(s),
             FixedString!FromOrTruncate(s, view)
      PROVE  SInv'
  BY <1>0, <1>3, <1>4, <1>5 DEF FixedString!FromOrTruncate
<1>6. ASSUME UNCHANGED string_vars PROVE SInv'
  BY <1>6 DEF string_vars, SInv
<1>7. ASSUME NEW s \in Strings, NEW view \in FixedString!Views(s),
             FixedString!CheckedFrom(s, view)
      PROVE  SInv'
  <2>1. CASE Len(view.chars) > N
    BY <1>6, <1>7, <2>1 DEF FixedString!CheckedFrom, FixedString!vars, string_vars
  <2>2. CASE ~(Len(view.chars) > N)
    BY <1>3, <1>4, <1>7, <2>2 DEF FixedString!CheckedFrom
  <2> QED
    BY <2>1, <2>2
<1>8. ASSUME NEW s \in Strings, NEW o \in Strings, FixedString!CopyWhole(s, o) PROVE SInv'
  BY <1>8 DEF FixedString!CopyWhole, SInv
<1>9. ASSUME NEW s \in Strings, NEW i \in 1..N, NEW c \in Chars, FixedString!SetChar(s, i, c)
      PROVE  SInv'
  <2>1. i \in 1..size[s] /\ i \in 1..N + 1 /\ size[s] \in 0..N /\ i # size[s] + 1
    BY <1>9 DEF FixedString!SetChar, SInv
  <2>2. /\ data' = [data EXCEPT ![s] = [data[s] EXCEPT ![i] = c]]
        /\ text' = [text EXCEPT ![s] = [text[s] EXCEPT ![i] = c]] /\ size' = size
    BY <1>9 DEF FixedString!SetChar
  <2>3. /\ [data[s] EXCEPT ![i] = c] \in Arrays
        /\ [data[s] EXCEPT ![i] = c][size[s] + 1] = 0
        /\ \A k \in 1..size[s] : [data[s] EXCEPT ![i] = c][k] = IF k = i THEN c ELSE data[s][k]
    BY <2>1 DEF SInv, Arrays
  <2>4. /\ [text[s] EXCEPT ![i] = c] \in Seq(Chars)
        /\ Len([text[s] EXCEPT ![i] = c]) = size[s]
        /\ \A k \in 1..size[s] : [text[s] EXCEPT ![i] = c][k] = IF k = i THEN c ELSE text[s][k]
    BY <2>1 DEF SInv
  <2>5. /\ data' \in [Strings -> Arrays] /\ size' \in [Strings -> 0..N]
        /\ text' \in [Strings -> Seq(Chars)]
    BY <2>2, <2>3, <2>4 DEF SInv
  <2>6. ASSUME NEW o \in Strings
        PROVE  /\ Len(text'[o]) = size'[o]
               /\ \A k \in 1..size'[o] : data'[o][k] = text'[o][k]
               /\ data'[o][size'[o] + 1] = 0
    <3>1. CASE o = s
      <4>1. /\ data'[o] = [data[s] EXCEPT ![i] = c] /\ size'[o] = size[s]
            /\ text'[o] = [text[s] EXCEPT ![i] = c]
        BY <2>2, <3>1 DEF SInv
      <4> QED
        BY <2>3, <2>4, <4>1 DEF SInv
    <3>2. CASE o # s
      <4>1. data'[o] = data[o] /\ size'[o] = size[o] /\ text'[o] = text[o]
        BY <2>2, <3>2 DEF SInv
      <4> QED
        BY <4>1 DEF SInv
    <3> QED
      BY <3>1, <3>2
  <2> QED
    BY <2>5, <2>6 DEF SInv
<1> QED
  BY <1>2, <1>5, <1>6, <1>7, <1>8, <1>9 DEF FixedString!Next, Chars

LEMMA SInvInit == ASSUME N \in Nat, MaxChar \in Nat PROVE FixedString!Init => SInv
  BY DEF FixedString!Init, SInv, Arrays, Chars, FixedString!Chars

(* A string of any capacity reads as what it was given, cut where that did  *)
(* not fit, and is terminated behind it, also where it is assigned a part   *)
(* of itself.                                                               *)
THEOREM KeepsTextHolds ==
    ASSUME N \in Nat, MaxChar \in Nat PROVE FixedString!Spec => []KeepsText
<1>1. SInv => KeepsText
  BY ValueIsText DEF SInv, KeepsText, FixedString!KeepsText
<1> QED
  BY SInvInit, SInvStep, <1>1, PTL DEF FixedString!Spec, FixedString!vars, string_vars
(* Two texts that differ have a first place where they do.                  *)
LEMMA FirstDifference ==
    ASSUME NEW a \in Seq(Chars), NEW b \in Seq(Chars), a # b
    PROVE  \E n \in Nat :
               /\ n <= Len(a) /\ n <= Len(b) /\ \A i \in 1..n : a[i] = b[i]
               /\ \/ n < Len(a) /\ n < Len(b) /\ a[n + 1] # b[n + 1]
                  \/ n = Len(a) /\ n < Len(b)
                  \/ n = Len(b) /\ n < Len(a)
<1>0. Len(a) \in Nat /\ Len(b) \in Nat
  OBVIOUS
<1> DEFINE Ends ==
             {n \in Nat : /\ n <= Len(a) /\ n <= Len(b)
                          /\ n = Len(a) \/ n = Len(b) \/ a[n + 1] # b[n + 1]}
<1>1. Ends \subseteq Nat /\ Ends # {}
  <2>1. CASE Len(a) <= Len(b)
    <3>1. Len(a) \in Ends
      BY <1>0, <2>1
    <3> QED
      BY <3>1
  <2>2. CASE ~(Len(a) <= Len(b))
    <3>1. Len(b) \in Ends
      BY <1>0, <2>2
    <3> QED
      BY <3>1
  <2> QED
    BY <2>1, <2>2
<1>2. PICK n \in Ends : \A m \in Ends : n <= m
  <2> HIDE DEF Ends
  <2> QED
    BY <1>1, LeastNumber
<1>3. /\ n \in Nat /\ n <= Len(a) /\ n <= Len(b)
      /\ n = Len(a) \/ n = Len(b) \/ a[n + 1] # b[n + 1]
  OBVIOUS
<1>4. ASSUME NEW i \in 1..n, a[i] # b[i] PROVE FALSE
  <2>1. /\ i - 1 \in Nat /\ (i - 1) + 1 = i /\ ~(n <= i - 1)
        /\ i - 1 <= Len(a) /\ i - 1 <= Len(b)
    BY <1>0, <1>3
  <2>2. i - 1 \in Ends
    BY <1>4, <2>1
  <2> QED
    BY <1>2, <2>1, <2>2
<1> HIDE DEF Ends
<1>5. ~(n = Len(a) /\ n = Len(b))
  BY <1>4, SameSequence
<1> QED
  BY <1>0, <1>3, <1>4, <1>5

LEMMA LessMeans ==
    ASSUME MaxChar \in Nat, NEW a \in Seq(Chars), NEW b \in Seq(Chars)
    PROVE  FixedString!LessText(a, b) <=>
               \E n \in Nat :
                   /\ n <= Len(a) /\ n < Len(b) /\ \A i \in 1..n : a[i] = b[i]
                   /\ n = Len(a) \/ (n < Len(a) /\ a[n + 1] < b[n + 1])
<1>0. Len(a) \in Nat /\ Len(b) \in Nat
  OBVIOUS
<1>1. 0..FixedString!Shorter(Len(a), Len(b)) = {n \in Nat : n <= Len(a) /\ n <= Len(b)}
  BY <1>0 DEF FixedString!Shorter
<1>2. ASSUME NEW n \in Nat, n <= Len(a), n <= Len(b)
      PROVE  SubSeq(a, 1, n) = SubSeq(b, 1, n) <=> \A i \in 1..n : a[i] = b[i]
  <2>1. a \in [1..Len(a) -> Chars] /\ b \in [1..Len(b) -> Chars]
    OBVIOUS
  <2>2. /\ SubSeq(a, 1, n) \in Seq(Chars) /\ Len(SubSeq(a, 1, n)) = n
        /\ \A i \in 1..n : SubSeq(a, 1, n)[i] = a[i]
    BY <1>0, <1>2, <2>1, Beginning
  <2>3. /\ SubSeq(b, 1, n) \in Seq(Chars) /\ Len(SubSeq(b, 1, n)) = n
        /\ \A i \in 1..n : SubSeq(b, 1, n)[i] = b[i]
    BY <1>0, <1>2, <2>1, Beginning
  <2>4. ASSUME \A i \in 1..n : a[i] = b[i] PROVE SubSeq(a, 1, n) = SubSeq(b, 1, n)
    BY <2>2, <2>3, <2>4, SameSequence
  <2>5. ASSUME SubSeq(a, 1, n) = SubSeq(b, 1, n) PROVE \A i \in 1..n : a[i] = b[i]
    BY <2>2, <2>3, <2>5
  <2> QED
    BY <2>4, <2>5
<1>3. FixedString!LessText(a, b) <=>
        \E n \in {m \in Nat : m <= Len(a) /\ m <= Len(b)} :
            /\ \A i \in 1..n : a[i] = b[i]
            /\ n < Len(b) /\ (n = Len(a) \/ (n < Len(a) /\ a[n + 1] < b[n + 1]))
  BY <1>1, <1>2 DEF FixedString!LessText
<1> QED
  BY <1>0, <1>3

LEMMA LessIsTotal ==
    ASSUME MaxChar \in Nat, NEW a \in Seq(Chars), NEW b \in Seq(Chars)
    PROVE  a = b <=> ~FixedString!LessText(a, b) /\ ~FixedString!LessText(b, a)
<1>0. Len(a) \in Nat /\ Len(b) \in Nat
  OBVIOUS
<1>1. ASSUME FixedString!LessText(a, a) PROVE FALSE
  <2>1. PICK n \in Nat :
            n <= Len(a) /\ n < Len(a) /\ (n = Len(a) \/ (n < Len(a) /\ a[n + 1] < a[n + 1]))
    BY <1>1, LessMeans
  <2>2. a[n + 1] \in Int
    BY <1>0, <2>1 DEF Chars, FixedString!Chars
  <2> QED
    BY <1>0, <2>1, <2>2
<1>2. ASSUME a # b PROVE FixedString!LessText(a, b) \/ FixedString!LessText(b, a)
  <2>1. PICK n \in Nat :
            /\ n <= Len(a) /\ n <= Len(b) /\ \A i \in 1..n : a[i] = b[i]
            /\ \/ n < Len(a) /\ n < Len(b) /\ a[n + 1] # b[n + 1]
               \/ n = Len(a) /\ n < Len(b)
               \/ n = Len(b) /\ n < Len(a)
    BY <1>2, FirstDifference
  <2>2. CASE n < Len(a) /\ n < Len(b) /\ a[n + 1] # b[n + 1]
    <3>1. a[n + 1] \in Int /\ b[n + 1] \in Int
      BY <1>0, <2>2 DEF Chars, FixedString!Chars
    <3>2. a[n + 1] < b[n + 1] \/ b[n + 1] < a[n + 1]
      BY <2>2, <3>1
    <3> QED
      BY <2>1, <2>2, <3>2, LessMeans
  <2> QED
    BY <1>0, <2>1, <2>2, LessMeans
<1> QED
  BY <1>1, <1>2

(* Two strings are equal exactly if neither is less than the other.         *)
THEOREM OrderIsTotalHolds ==
    ASSUME N \in Nat, MaxChar \in Nat PROVE FixedString!Spec => []OrderIsTotal
<1>1. ASSUME SInv, NEW s \in Strings, NEW o \in Strings
      PROVE  FixedString!Equal(s, o) <=> ~FixedString!Less(s, o) /\ ~FixedString!Less(o, s)
  <2>1. /\ text[s] \in Seq(Chars) /\ Len(text[s]) = size[s] /\ size[s] \in 0..N
        /\ text[o] \in Seq(Chars) /\ Len(text[o]) = size[o] /\ size[o] \in 0..N
    BY <1>1 DEF SInv
  <2>2. /\ \A i \in 1..size[s] : data[s][i] = text[s][i]
        /\ \A i \in 1..size[o] : data[o][i] = text[o][i]
    BY <1>1 DEF SInv
  <2>3. ASSUME FixedString!Equal(s, o) PROVE text[s] = text[o]
    <3>1. Len(text[s]) = Len(text[o]) /\ \A i \in 1..Len(text[s]) : text[s][i] = text[o][i]
      BY <2>1, <2>2, <2>3 DEF FixedString!Equal
    <3> QED
      BY <2>1, <3>1, SameSequence
  <2>4. ASSUME text[s] = text[o] PROVE FixedString!Equal(s, o)
    BY <2>1, <2>2, <2>4 DEF FixedString!Equal
  <2>5. FixedString!Value(s) = text[s] /\ FixedString!Value(o) = text[o]
    BY <1>1, ValueIsText
  <2> QED
    BY <2>1, <2>3, <2>4, <2>5, LessIsTotal DEF FixedString!Less
<1>2. SInv => OrderIsTotal
  BY <1>1 DEF OrderIsTotal, FixedString!OrderIsTotal
<1> QED
  BY SInvInit, SInvStep, <1>2, PTL DEF FixedString!Spec, FixedString!vars, string_vars

-----------------------------------------------------------------------------
(* basic_message.  A part is a buffer and a length; a copy fills the        *)
(* beginning of the buffer and leaves the rest, the other part, and the     *)
(* bytes that WellUsed keeps for the second copy.                           *)

Parts == Message!Parts
Bytes == 0..MaxByte
Limit == [topic |-> MaxTopicLen, payload |-> MaxPayloadLen]

Buffers(m) ==
    /\ m \in [Parts -> [buf : Seq(Bytes), len : Nat]]
    /\ \A part \in Parts : Len(m[part].buf) = Message!Room[part] /\ m[part].len <= Limit[part]

(* A slice that lies within what it is a part of. *)
Within(slice) ==
    /\ slice.at \in Nat /\ slice.len \in Nat
    /\ \/ /\ slice.of = "elsewhere"
          /\ slice.bytes \in Seq(Bytes) /\ Len(slice.bytes) = slice.len
       \/ slice.of \in Parts /\ slice.at + slice.len <= Message!Room[slice.of]

MInv == Buffers(message) /\ ShowsLastView

LEMMA Rooms ==
    ASSUME MaxTopicLen \in Nat, MaxPayloadLen \in Nat, NEW part \in Parts
    PROVE  /\ Limit[part] \in Nat /\ Message!Room[part] \in Nat
           /\ Limit[part] <= Message!Room[part]
           /\ part = "topic" => Limit[part] + 1 = Message!Room[part]
  BY DEF Parts, Message!Parts, Limit, Message!Room

LEMMA SlicesAreWithin ==
    ASSUME MaxTopicLen \in Nat, MaxPayloadLen \in Nat, Buffers(message),
           NEW slice, slice \in Message!Slices
    PROVE  Within(slice)
<1>1. ASSUME NEW n \in Nat, NEW bytes \in [1..n -> Bytes], slice = Message!Elsewhere(bytes)
      PROVE  Within(slice)
  <2>1. bytes \in Seq(Bytes) /\ Len(bytes) \in Nat
    OBVIOUS
  <2> QED
    BY <1>1, <2>1 DEF Within, Message!Elsewhere
<1>2. ASSUME slice.of \in Parts, slice.at \in Nat, slice.len \in Nat,
             slice.at + slice.len <= message[slice.of].len
      PROVE  Within(slice)
  BY <1>2, Rooms DEF Within, Buffers
<1>3. Message!Longest \in Nat
  BY DEF Message!Longest
<1> QED
  BY <1>1, <1>2, <1>3 DEF Message!Slices, Parts, Bytes

LEMMA ReadIsWithin ==
    ASSUME MaxTopicLen \in Nat, MaxPayloadLen \in Nat,
           NEW m, Buffers(m), NEW slice, Within(slice)
    PROVE  /\ Message!Read(m, slice) \in Seq(Bytes)
           /\ Len(Message!Read(m, slice)) = slice.len
           /\ slice.of \in Parts =>
                 \A k \in 1..slice.len :
                     Message!Read(m, slice)[k] = m[slice.of].buf[slice.at + k]
<1>1. CASE slice.of = "elsewhere"
  <2>1. "elsewhere" \notin Parts
    BY DEF Parts, Message!Parts
  <2> QED
    BY <1>1, <2>1 DEF Within, Message!Read
<1>2. CASE slice.of # "elsewhere"
  <2> DEFINE q == m[slice.of].buf
             i == slice.at
             j == slice.at + slice.len
  <2>1. slice.of \in Parts /\ i \in Nat /\ slice.len \in Nat /\ j <= Message!Room[slice.of]
    BY <1>2 DEF Within
  <2>2. q \in Seq(Bytes) /\ Len(q) = Message!Room[slice.of]
    BY <2>1 DEF Buffers
  <2>3. j \in 0..Len(q) /\ i <= j /\ j - i = slice.len
    BY <2>1, <2>2
  <2>4. Message!Read(m, slice) = SubSeq(q, i + 1, j)
    BY <1>2 DEF Message!Read
  <2> HIDE DEF q, i, j
  <2>5. /\ SubSeq(q, i + 1, j) \in Seq(Bytes) /\ Len(SubSeq(q, i + 1, j)) = j - i
        /\ \A k \in 1..j - i : SubSeq(q, i + 1, j)[k] = q[i + k]
    BY <2>1, <2>2, <2>3, PartOf
  <2> QED
    BY <2>3, <2>4, <2>5 DEF q, i
<1> QED
  BY <1>1, <1>2

(* memcpy to the beginning of a buffer. *)
LEMMA Overwritten ==
    ASSUME NEW S, NEW q \in Seq(S), NEW bytes \in Seq(S), Len(bytes) <= Len(q)
    PROVE  LET r == bytes \o SubSeq(q, Len(bytes) + 1, Len(q))
           IN  /\ r \in Seq(S) /\ Len(r) = Len(q)
               /\ SubSeq(r, 1, Len(bytes)) = bytes
<1> DEFINE n == Len(bytes)
           rest == SubSeq(q, n + 1, Len(q))
           r == bytes \o rest
<1>1. n \in Nat /\ Len(q) \in Nat /\ n <= Len(q)
  OBVIOUS
<1>2. rest \in Seq(S) /\ Len(rest) = Len(q) - n
  BY <1>1, PartOf
<1> HIDE DEF rest
<1>3. r \in Seq(S) /\ Len(r) = n + Len(rest) /\ \A i \in 1..n : r[i] = bytes[i]
  BY <1>2
<1>4. Len(r) = Len(q)
  BY <1>1, <1>2, <1>3
<1> HIDE DEF r
<1>5. SubSeq(r, 1, n) = bytes
  <2>1. r \in [1..Len(q) -> S] /\ n \in 0..Len(q)
    BY <1>1, <1>3, <1>4
  <2>2. /\ SubSeq(r, 1, n) \in Seq(S) /\ Len(SubSeq(r, 1, n)) = n
        /\ \A i \in 1..n : SubSeq(r, 1, n)[i] = r[i]
    BY <1>1, <2>1, Beginning
  <2> QED
    BY <1>3, <2>2, SameSequence
<1> QED
  BY <1>3, <1>4, <1>5 DEF r, rest

LEMMA MemcpyFills ==
    ASSUME MaxTopicLen \in Nat, MaxPayloadLen \in Nat,
           NEW m, Buffers(m), NEW part \in Parts,
           NEW slice, Within(slice), slice.len <= Limit[part],
           NEW c, c \in Message!Memcpy(m, part, slice)
    PROVE  /\ Buffers(c) /\ c[part].len = slice.len
           /\ \A other \in Parts \ {part} : c[other] = m[other]
           /\ ~Message!Overlaps(part, slice) =>
                 SubSeq(c[part].buf, 1, slice.len) = Message!Read(m, slice)
<1>1. PICK bytes \in IF Message!Overlaps(part, slice) THEN [1..slice.len -> Bytes]
                     ELSE {Message!Read(m, slice)} :
          c = [m EXCEPT ![part].len = slice.len,
                        ![part].buf = bytes \o SubSeq(@, slice.len + 1, Len(@))]
  BY DEF Message!Memcpy, Bytes
<1>2. slice.len \in Nat
  BY DEF Within
<1>3. bytes \in Seq(Bytes) /\ Len(bytes) = slice.len
  <2>1. CASE Message!Overlaps(part, slice)
    BY <1>1, <1>2, <2>1
  <2>2. CASE ~Message!Overlaps(part, slice)
    BY <1>1, <2>2, ReadIsWithin
  <2> QED
    BY <2>1, <2>2
<1> DEFINE q == m[part].buf
           r == bytes \o SubSeq(q, slice.len + 1, Len(q))
<1>4. q \in Seq(Bytes) /\ Len(q) = Message!Room[part] /\ slice.len <= Len(q)
  BY <1>2, Rooms DEF Buffers
<1>5. r \in Seq(Bytes) /\ Len(r) = Message!Room[part] /\ SubSeq(r, 1, slice.len) = bytes
  <2> HIDE DEF q
  <2> QED
    BY <1>3, <1>4, Overwritten
<1>6. /\ m \in [Parts -> [buf : Seq(Bytes), len : Nat]]
      /\ c = [m EXCEPT ![part] = [buf |-> r, len |-> slice.len]]
  <2>1. m \in [Parts -> [buf : Seq(Bytes), len : Nat]]
    BY DEF Buffers
  <2>2. m[part] \in [buf : Seq(Bytes), len : Nat]
    BY <2>1
  <2>3. [m EXCEPT ![part].len = slice.len][part] = [buf |-> q, len |-> slice.len]
    BY <2>1, <2>2
  <2> HIDE DEF r, q
  <2>4. c = [m EXCEPT ![part].len = slice.len, ![part].buf = r]
    BY <1>1, <2>3 DEF r
  <2>5. [[m EXCEPT ![part].len = slice.len][part] EXCEPT !.buf = r]
          = [buf |-> r, len |-> slice.len]
    BY <2>3
  <2>6. c = [[m EXCEPT ![part] = [m[part] EXCEPT !.len = slice.len]]
                EXCEPT ![part] = [buf |-> r, len |-> slice.len]]
    BY <2>4, <2>5
  <2> QED
    BY <2>1, <2>6
<1> HIDE DEF q, r
<1>7. c[part].buf = r /\ c[part].len = slice.len /\ \A other \in Parts \ {part} : c[other] = m[other]
  BY <1>6
<1>8. Buffers(c)
  <2>1. c \in [Parts -> [buf : Seq(Bytes), len : Nat]]
    BY <1>2, <1>5, <1>6
  <2>2. ASSUME NEW p \in Parts
        PROVE  Len(c[p].buf) = Message!Room[p] /\ c[p].len <= Limit[p]
    BY <1>5, <1>7 DEF Buffers
  <2> QED
    BY <2>1, <2>2 DEF Buffers
<1> QED
  BY <1>1, <1>5, <1>7, <1>8

LEMMA TerminatedKeeps ==
    ASSUME MaxTopicLen \in Nat, MaxPayloadLen \in Nat, MaxByte \in Nat, NEW m, Buffers(m)
    PROVE  LET t == Message!Terminated(m)
           IN  /\ Buffers(t) /\ t["payload"] = m["payload"]
               /\ t["topic"].len = m["topic"].len
               /\ \A k \in 1..m["topic"].len : t["topic"].buf[k] = m["topic"].buf[k]
<1> DEFINE q == m["topic"].buf
           n == m["topic"].len
           r == [q EXCEPT ![n + 1] = 0]
           t == [m EXCEPT !["topic"] = [buf |-> r, len |-> n]]
<1>1. "topic" \in Parts /\ "payload" \in Parts
  BY DEF Parts, Message!Parts
<1>2. m \in [Parts -> [buf : Seq(Bytes), len : Nat]]
  BY DEF Buffers
<1>3. q \in Seq(Bytes) /\ n \in Nat /\ Len(q) = Message!Room["topic"] /\ n + 1 <= Len(q)
  BY <1>1, Rooms DEF Buffers
<1>4. r \in Seq(Bytes) /\ Len(r) = Len(q) /\ \A k \in 1..n : r[k] = q[k]
  <2> HIDE DEF q, n
  <2>1. 0 \in Bytes
    BY DEF Bytes
  <2> QED
    BY <1>3, <2>1
<1>5. Message!Terminated(m) = t
  <2>1. Message!Terminated(m) = [m EXCEPT !["topic"].buf = r]
    BY DEF Message!Terminated
  <2> HIDE DEF r
  <2> QED
    <3>1. m["topic"] \in [buf : Seq(Bytes), len : Nat]
      BY <1>1, <1>2
    <3>2. [m["topic"] EXCEPT !.buf = r] = [buf |-> r, len |-> n]
      BY <3>1
    <3> QED
      BY <2>1, <3>2
<1> HIDE DEF r
<1>6. t["payload"] = m["payload"] /\ t["topic"].len = n /\ t["topic"].buf = r
  BY <1>1, <1>2
<1>7. t \in [Parts -> [buf : Seq(Bytes), len : Nat]]
  BY <1>1, <1>2, <1>3, <1>4
<1>8. \A part \in Parts : part = "topic" \/ part = "payload"
  BY DEF Parts, Message!Parts
<1> HIDE DEF t
<1>9. Buffers(t)
  BY <1>1, <1>3, <1>4, <1>6, <1>7, <1>8 DEF Buffers
<1> QED
  BY <1>4, <1>5, <1>6, <1>9

(* A slice that WellUsed lets follow the topic reads the same once the      *)
(* topic is written and terminated.                                         *)
LEMMA ReadsTheSame ==
    ASSUME MaxTopicLen \in Nat, MaxPayloadLen \in Nat,
           Buffers(message), NEW t, Buffers(t), t["payload"] = message["payload"],
           NEW topic, Within(topic), NEW payload, Within(payload),
           Message!WellUsed(topic, payload),
           SubSeq(t["topic"].buf, 1, topic.len) = Message!Read(message, topic)
    PROVE  Message!Read(t, payload) = Message!Read(message, payload)
<1> DEFINE before == Message!Read(message, payload)
           after == Message!Read(t, payload)
<1>1. /\ before \in Seq(Bytes) /\ Len(before) = payload.len
      /\ after \in Seq(Bytes) /\ Len(after) = payload.len
      /\ payload.of \in Parts =>
            \A k \in 1..payload.len :
                /\ before[k] = message[payload.of].buf[payload.at + k]
                /\ after[k] = t[payload.of].buf[payload.at + k]
  BY ReadIsWithin
<1>2. CASE payload.of = "topic"
  <2>1. topic.of = "topic" /\ topic.at = 0 /\ payload.at + payload.len <= topic.len
    BY <1>2 DEF Message!WellUsed
  <2>2. "topic" \in Parts
    BY DEF Parts, Message!Parts
  <2>3. /\ topic.len \in Nat /\ topic.len <= Message!Room["topic"]
        /\ payload.at \in Nat /\ payload.len \in Nat
    BY <2>1, <2>2 DEF Within, Parts, Message!Parts
  <2> DEFINE q == message["topic"].buf
             r == t["topic"].buf
  <2>4. /\ q \in Seq(Bytes) /\ Len(q) = Message!Room["topic"]
        /\ r \in Seq(Bytes) /\ Len(r) = Message!Room["topic"]
    BY <2>2 DEF Buffers
  <2>5. \A k \in 1..topic.len : Message!Read(message, topic)[k] = q[k]
    BY <2>1, <2>2, <2>3, ReadIsWithin
  <2> HIDE DEF q, r
  <2>6. r \in [1..Len(r) -> Bytes] /\ Len(r) \in Nat /\ topic.len \in 0..Len(r)
    BY <2>3, <2>4
  <2>7. \A k \in 1..topic.len : SubSeq(r, 1, topic.len)[k] = r[k]
    BY <2>6, Beginning
  <2>8. \A k \in 1..topic.len : r[k] = q[k]
    BY <2>5, <2>7 DEF r
  <2>9. \A k \in 1..payload.len : payload.at + k \in 1..topic.len
    BY <2>1, <2>3
  <2>10. \A k \in 1..payload.len : before[k] = after[k]
    BY <1>1, <1>2, <2>2, <2>8, <2>9 DEF q, r
  <2> QED
    BY <1>1, <2>10, SameSequence
<1>3. CASE payload.of # "topic"
  BY <1>3 DEF Message!Read, Within, Parts, Message!Parts
<1> QED
  BY <1>2, <1>3

LEMMA MInvStep ==
    ASSUME MaxTopicLen \in Nat, MaxPayloadLen \in Nat, MaxByte \in Nat
    PROVE  MInv /\ [Message!Next]_message_vars => MInv'
<1> SUFFICES ASSUME MInv, [Message!Next]_message_vars PROVE MInv'
  OBVIOUS
<1>1. CASE UNCHANGED message_vars
  BY <1>1 DEF MInv, Buffers, ShowsLastView, Message!ShowsLastView, Message!AsView, message_vars
<1>2. CASE Message!Next
  <2>1. PICK topic \in Message!Slices, payload \in Message!Slices :
            Message!FromView(topic, payload)
    BY <1>2 DEF Message!Next
  <2>2. topic.len <= Limit["topic"] /\ payload.len <= Limit["payload"]
    BY <2>1 DEF Message!FromView, Limit
  <2>3. PICK m \in Message!Memcpy(message, "topic", topic) :
            message' \in Message!Memcpy(Message!Terminated(m), "payload", payload)
    BY <2>1 DEF Message!FromView
  <2> DEFINE t == Message!Terminated(m)
  <2>4. "topic" \in Parts /\ "payload" \in Parts /\ "topic" # "payload"
    BY DEF Parts, Message!Parts
  <2>5. Buffers(message) /\ Within(topic) /\ Within(payload)
    BY SlicesAreWithin DEF MInv
  <2>6. /\ Buffers(m) /\ m["topic"].len = topic.len
        /\ m["payload"] = message["payload"]
        /\ ~Message!Overlaps("topic", topic) =>
              SubSeq(m["topic"].buf, 1, topic.len) = Message!Read(message, topic)
    BY <2>2, <2>3, <2>4, <2>5, MemcpyFills
  <2>7. /\ Buffers(t) /\ t["payload"] = m["payload"] /\ t["topic"].len = m["topic"].len
        /\ \A k \in 1..m["topic"].len : t["topic"].buf[k] = m["topic"].buf[k]
    BY <2>6, TerminatedKeeps
  <2>8. SubSeq(t["topic"].buf, 1, topic.len) = SubSeq(m["topic"].buf, 1, topic.len)
    <3> DEFINE q == m["topic"].buf
               r == t["topic"].buf
               n == topic.len
    <3>1. /\ q \in Seq(Bytes) /\ Len(q) = Message!Room["topic"]
          /\ r \in Seq(Bytes) /\ Len(r) = Message!Room["topic"]
          /\ n \in Nat /\ n <= Message!Room["topic"] /\ Message!Room["topic"] \in Nat
          /\ \A k \in 1..n : r[k] = q[k]
      BY <2>2, <2>4, <2>5, <2>6, <2>7, Rooms DEF Buffers, Within
    <3> HIDE DEF q, r, n
    <3>2. q \in [1..Len(q) -> Bytes] /\ r \in [1..Len(r) -> Bytes]
      BY <3>1
    <3>3. /\ SubSeq(q, 1, n) \in Seq(Bytes) /\ Len(SubSeq(q, 1, n)) = n
          /\ \A i \in 1..n : SubSeq(q, 1, n)[i] = q[i]
      BY <3>1, <3>2, Beginning
    <3>4. /\ SubSeq(r, 1, n) \in Seq(Bytes) /\ Len(SubSeq(r, 1, n)) = n
          /\ \A i \in 1..n : SubSeq(r, 1, n)[i] = r[i]
      BY <3>1, <3>2, Beginning
    <3>5. SubSeq(r, 1, n) = SubSeq(q, 1, n)
      BY <3>1, <3>3, <3>4, SameSequence
    <3> QED
      BY <3>5 DEF q, r, n
  <2> HIDE DEF t
  <2>9. message' \in Message!Memcpy(t, "payload", payload)
    BY <2>3 DEF t
  <2>10. /\ Buffers(message') /\ message'["payload"].len = payload.len
         /\ message'["topic"] = t["topic"]
         /\ ~Message!Overlaps("payload", payload) =>
               SubSeq(message'["payload"].buf, 1, payload.len) = Message!Read(t, payload)
    <3> DEFINE c == message'
    <3>1. c \in Message!Memcpy(t, "payload", payload)
      BY <2>9
    <3> HIDE DEF c
    <3>2. /\ Buffers(c) /\ c["payload"].len = payload.len /\ c["topic"] = t["topic"]
          /\ ~Message!Overlaps("payload", payload) =>
                SubSeq(c["payload"].buf, 1, payload.len) = Message!Read(t, payload)
      BY <2>2, <2>4, <2>5, <2>7, <3>1, MemcpyFills
    <3> QED
      BY <3>2 DEF c
  <2>11. Message!AsView(message')
           = [topic |-> SubSeq(message'["topic"].buf, 1, message'["topic"].len),
              payload |-> SubSeq(message'["payload"].buf, 1, message'["payload"].len)]
    <3> DEFINE seen == Message!AsView(message')
    <3>1. /\ seen = [part \in {"topic", "payload"} |-> seen[part]]
          /\ seen["topic"] = SubSeq(message'["topic"].buf, 1, message'["topic"].len)
          /\ seen["payload"] = SubSeq(message'["payload"].buf, 1, message'["payload"].len)
      BY DEF Message!AsView, Message!Parts
    <3> HIDE DEF seen
    <3>2. seen = [topic |-> seen["topic"], payload |-> seen["payload"]]
      BY <3>1
    <3> QED
      BY <3>1, <3>2 DEF seen
  <2>12. CASE Message!WellUsed(topic, payload)
    <3>1. ~Message!Overlaps("topic", topic) /\ ~Message!Overlaps("payload", payload)
      BY <2>12 DEF Message!WellUsed
    <3>2. SubSeq(t["topic"].buf, 1, topic.len) = Message!Read(message, topic)
      BY <2>6, <2>8, <3>1
    <3>3. Message!Read(t, payload) = Message!Read(message, payload)
      <4>1. Buffers(t) /\ t["payload"] = message["payload"]
        BY <2>6, <2>7
      <4> QED
        BY <2>5, <2>12, <3>2, <4>1, ReadsTheSame
    <3>4. /\ SubSeq(message'["topic"].buf, 1, message'["topic"].len) = Message!Read(message, topic)
          /\ SubSeq(message'["payload"].buf, 1, message'["payload"].len)
                = Message!Read(message, payload)
      BY <2>6, <2>7, <2>10, <3>1, <3>2, <3>3
    <3>5. shown' = [topic |-> Message!Read(message, topic), payload |-> Message!Read(message, payload)]
      BY <2>1, <2>12 DEF Message!FromView, Message!Shows
    <3> QED
      BY <2>10, <2>11, <3>4, <3>5 DEF MInv, ShowsLastView, Message!ShowsLastView, Buffers
  <2>13. CASE ~Message!WellUsed(topic, payload)
    <3>1. shown' = Message!AsView(message')
      BY <2>1, <2>13 DEF Message!FromView, Message!Shows
    <3> QED
      BY <2>10, <3>1 DEF MInv, ShowsLastView, Message!ShowsLastView, Message!AsView, Buffers
  <2> QED
    BY <2>12, <2>13
<1> QED
  BY <1>1, <1>2

LEMMA MInvInit ==
    ASSUME MaxTopicLen \in Nat, MaxPayloadLen \in Nat, MaxByte \in Nat
    PROVE  Message!Init => MInv
<1> SUFFICES ASSUME Message!Init PROVE MInv
  OBVIOUS
<1>1. ShowsLastView
  BY DEF Message!Init, ShowsLastView, Message!ShowsLastView
<1>2. ASSUME NEW part \in Parts
      PROVE  /\ message[part].buf \in Seq(Bytes) /\ Len(message[part].buf) = Message!Room[part]
             /\ message[part].len = 0
  <2>1. Message!Room[part] \in Nat /\ 0 \in Bytes
    BY Rooms DEF Bytes
  <2>2. message[part] = [buf |-> [i \in 1..Message!Room[part] |-> 0], len |-> 0]
    BY DEF Message!Init, Parts
  <2> QED
    BY <2>1, <2>2
<1>3. message \in [Parts -> [buf : Seq(Bytes), len : Nat]]
  <2>1. ASSUME NEW part \in Parts PROVE message[part] \in [buf : Seq(Bytes), len : Nat]
    <3>1. message[part] = [buf |-> message[part].buf, len |-> message[part].len]
      BY DEF Message!Init, Parts
    <3> QED
      BY <1>2, <3>1
  <2>2. message = [part \in Parts |-> message[part]]
    BY DEF Message!Init, Parts
  <2> QED
    BY <2>1, <2>2
<1> QED
  BY <1>1, <1>2, <1>3, Rooms DEF MInv, Buffers

(* A message of any capacities shows what the last view that fitted read,   *)
(* also where that view looked into the message itself.                     *)
THEOREM ShowsLastViewHolds ==
    ASSUME MaxTopicLen \in Nat, MaxPayloadLen \in Nat, MaxByte \in Nat
    PROVE  Message!Spec => []ShowsLastView
<1>1. MInv => ShowsLastView
  BY DEF MInv
<1> QED
  BY MInvInit, MInvStep, <1>1, PTL DEF Message!Spec, Message!vars, message_vars

-----------------------------------------------------------------------------
(* uri.  Every text is a sequence of Characters.  A parser's result is made  *)
(* of parts of the text, so that rebind finds each of them again, and what   *)
(* is read from a basic_uri is what its parser found; the rest of the        *)
(* argument is about the parsers as functions of the text.                   *)
Text == Seq(Characters)

(* The first character of a set, and what lies before and behind it. *)
LEMMA FindIs ==
    ASSUME NEW s \in Text, NEW C
    PROVE  \/ Uri!Find(s, C) = 0 /\ \A i \in 1..Len(s) : s[i] \notin C
           \/ /\ Uri!Find(s, C) \in 1..Len(s) /\ s[Uri!Find(s, C)] \in C
              /\ \A i \in 1..Uri!Find(s, C) - 1 : s[i] \notin C
<1> DEFINE I == {i \in 1..Len(s) : s[i] \in C}
<1>1. Uri!Find(s, C) = IF I # {} THEN Uri!Min(I) ELSE 0
  BY DEF Uri!Find, Uri!SelectInSeq
<1>2. CASE I = {}
  BY <1>1, <1>2
<1>3. CASE I # {}
  <2>1. I \subseteq Nat
    BY DEF Text
  <2> HIDE DEF I
  <2>2. \E n \in I : \A m \in I : n <= m
    BY <1>3, <2>1, LeastNumber
  <2>3. Uri!Min(I) \in I /\ \A m \in I : Uri!Min(I) <= m
    BY <2>2 DEF Uri!Min
  <2>4. Uri!Find(s, C) = Uri!Min(I)
    BY <1>1, <1>3
  <2>5. Uri!Find(s, C) \in I /\ \A m \in I : Uri!Find(s, C) <= m
    BY <2>3, <2>4
  <2> DEFINE k == Uri!Find(s, C)
  <2> HIDE DEF k
  <2>6. k \in I /\ \A m \in I : k <= m
    BY <2>5 DEF k
  <2>7. k \in 1..Len(s) /\ s[k] \in C /\ \A i \in 1..k - 1 : s[i] \notin C
    BY <2>6 DEF I, Text
  <2> QED
    BY <2>7 DEF k
<1> QED
  BY <1>2, <1>3

(* The last colon. *)
LEMMA LastColonIs ==
    ASSUME NEW s \in Text
    PROVE  \/ Uri!LastColon(s) = 0 /\ \A i \in 1..Len(s) : s[i] # ":"
           \/ /\ Uri!LastColon(s) \in 1..Len(s) /\ s[Uri!LastColon(s)] = ":"
              /\ \A i \in Uri!LastColon(s) + 1..Len(s) : s[i] # ":"
<1> DEFINE I == {i \in 1..Len(s) : s[i] = ":"}
           Behind == {n \in Nat : n < Len(s) /\ Len(s) - n \in I}
<1>0. Len(s) \in Nat
  BY DEF Text
<1>1. Uri!LastColon(s) = IF I # {} THEN Uri!Max(I) ELSE 0
  BY DEF Uri!LastColon, Uri!SelectLastInSeq
<1>2. CASE I = {}
  BY <1>1, <1>2
<1>3. CASE I # {}
  <2>1. PICK i \in I : TRUE
    BY <1>3
  <2>2. i \in 1..Len(s) /\ Len(s) - i \in Nat /\ Len(s) - (Len(s) - i) = i /\ Len(s) - i < Len(s)
    BY <1>0
  <2>3. Len(s) - i \in Behind /\ Behind \subseteq Nat
    BY <2>2
  <2>4. PICK n \in Behind : \A m \in Behind : n <= m
    <3> HIDE DEF Behind
    <3> QED
      BY <2>3, LeastNumber
  <2>5. \A j \in I : j <= Len(s) - n
    <3> SUFFICES ASSUME NEW j \in I PROVE j <= Len(s) - n
      OBVIOUS
    <3>1. j \in 1..Len(s) /\ Len(s) - j \in Nat /\ Len(s) - (Len(s) - j) = j /\ Len(s) - j < Len(s)
      BY <1>0
    <3>2. Len(s) - j \in Behind
      BY <3>1
    <3>3. n <= Len(s) - j /\ n \in Nat
      BY <2>4, <3>2
    <3> QED
      BY <1>0, <3>1, <3>3
  <2>6. Len(s) - n \in I
    OBVIOUS
  <2> HIDE DEF I, Behind
  <2>7. Uri!Max(I) \in I /\ \A j \in I : j <= Uri!Max(I)
    BY <2>5, <2>6 DEF Uri!Max
  <2> DEFINE k == Uri!LastColon(s)
  <2>8. k = Uri!Max(I)
    BY <1>1, <1>3
  <2> HIDE DEF k
  <2>9. k \in I /\ \A j \in I : j <= k
    BY <2>7, <2>8
  <2>10. k \in 1..Len(s) /\ s[k] = ":" /\ \A j \in k + 1..Len(s) : s[j] # ":"
    BY <1>0, <2>9 DEF I
  <2> QED
    BY <2>10 DEF k
<1> QED
  BY <1>2, <1>3

(* A part between two places of a text, its length and its characters. *)
LEMMA Cut ==
    ASSUME NEW s \in Text, NEW i \in Nat, NEW j \in 0..Len(s), i <= j
    PROVE  /\ SubSeq(s, i + 1, j) \in Text /\ Len(SubSeq(s, i + 1, j)) = j - i
           /\ \A k \in 1..j - i : SubSeq(s, i + 1, j)[k] = s[i + k]
  BY PartOf DEF Text

(* A part that ends before it begins is empty. *)
LEMMA CutNothing == ASSUME NEW s \in Text, NEW i \in Int, NEW j \in Int, j <= i PROVE SubSeq(s, i + 1, j) = <<>>
  OBVIOUS

(* Two texts of one length and the same characters are one. *)
LEMMA SameText ==
    ASSUME NEW q \in Text, NEW r \in Text, Len(q) = Len(r), \A i \in 1..Len(q) : q[i] = r[i]
    PROVE  q = r
  BY SameSequence DEF Text

(* What is found again in a text: k characters into it.  *)
Lies(q, t, k) == k \in Nat /\ k + Len(q) <= Len(t) /\ \A i \in 1..Len(q) : q[i] = t[k + i]
Part(q, t) == q \in Text /\ \E k \in Nat : Lies(q, t, k)

(* Nothing, and the whole text, are found in a text. *)
LEMMA NoPart == ASSUME NEW t \in Text PROVE Part(<<>>, t) /\ Part(t, t)
<1>1. <<>> \in Text /\ Len(<<>>) = 0 /\ Len(t) \in Nat
  BY DEF Text
<1>2. Lies(<<>>, t, 0) /\ Lies(t, t, 0)
  BY <1>1 DEF Lies, Text
<1> QED
  BY <1>1, <1>2 DEF Part

(* What is found in a part of a text is found in the text. *)
LEMMA PartOfPart ==
    ASSUME NEW t \in Text, NEW r, Part(r, t), NEW q, Part(q, r)
    PROVE  Part(q, t)
<1>1. PICK k \in Nat : Lies(r, t, k)
  BY DEF Part
<1>2. PICK l \in Nat : Lies(q, r, l)
  BY DEF Part
<1>3. q \in Text /\ r \in Text /\ Len(q) \in Nat /\ Len(r) \in Nat /\ Len(t) \in Nat
  BY DEF Part, Text
<1>4. k + l \in Nat /\ (k + l) + Len(q) <= Len(t)
  BY <1>1, <1>2, <1>3 DEF Lies
<1>5. ASSUME NEW i \in 1..Len(q) PROVE q[i] = t[(k + l) + i]
  <2>1. l + i \in 1..Len(r) /\ k + (l + i) = (k + l) + i
    BY <1>2, <1>3 DEF Lies
  <2> QED
    BY <1>1, <1>2, <2>1 DEF Lies
<1>6. Lies(q, t, k + l)
  BY <1>4, <1>5 DEF Lies
<1> QED
  BY <1>3, <1>4, <1>6 DEF Part

(* What SubSeq cuts out of a text is found in it. *)
LEMMA CutIsPart ==
    ASSUME NEW t \in Text, NEW i \in Nat, NEW j \in Int, j <= Len(t)
    PROVE  Part(SubSeq(t, i + 1, j), t)
<1>0. Len(t) \in Nat
  BY DEF Text
<1>1. CASE i <= j
  <2> DEFINE q == SubSeq(t, i + 1, j)
  <2>1. q \in Text /\ Len(q) = j - i /\ \A k \in 1..j - i : q[k] = t[i + k]
    BY <1>0, <1>1, Cut
  <2> HIDE DEF q
  <2>2. Lies(q, t, i)
    BY <1>0, <1>1, <2>1 DEF Lies
  <2>3. Part(q, t)
    BY <2>1, <2>2 DEF Part
  <2> QED
    BY <2>3 DEF q
<1>2. CASE j < i
  <2>1. SubSeq(t, i + 1, j) = <<>>
    BY <1>2, CutNothing
  <2> QED
    BY <2>1, NoPart
<1> QED
  BY <1>0, <1>1, <1>2

(* What lies before and behind the first of some characters is found in a text. *)
LEMMA CutsArePart ==
    ASSUME NEW t \in Text, NEW C
    PROVE  Part(Uri!Before(t, C), t) /\ Part(Uri!After(t, C), t)
<1>0. Len(t) \in Nat
  BY DEF Text
<1> DEFINE k == Uri!Find(t, C)
<1>1. k \in 0..Len(t)
  BY <1>0, FindIs
<1> HIDE DEF k
<1>2. Part(SubSeq(t, 0 + 1, k - 1), t)
  BY <1>0, <1>1, CutIsPart
<1>3. Part(SubSeq(t, k + 1, Len(t)), t)
  BY <1>0, <1>1, CutIsPart
<1>4. Part(Uri!Before(t, C), t)
  <2>1. CASE Uri!Has(t, C)
    BY <1>2, <2>1 DEF Uri!Before, k
  <2>2. CASE ~Uri!Has(t, C)
    BY <2>2, NoPart DEF Uri!Before
  <2> QED
    BY <2>1, <2>2
<1>5. Part(Uri!After(t, C), t)
  <2>1. CASE Uri!Has(t, C)
    BY <1>3, <2>1 DEF Uri!After, k
  <2>2. CASE ~Uri!Has(t, C)
    BY <2>2, NoPart DEF Uri!After
  <2> QED
    BY <2>1, <2>2
<1> QED
  BY <1>4, <1>5

(* The end of a text is found in it. *)
LEMMA FromIsPart == ASSUME NEW t \in Text, NEW i \in Nat \ {0} PROVE Part(Uri!From(t, i), t)
<1>1. i - 1 \in Nat /\ (i - 1) + 1 = i /\ Len(t) \in Nat
  BY DEF Text
<1>2. Part(SubSeq(t, (i - 1) + 1, Len(t)), t)
  BY <1>1, CutIsPart
<1> QED
  BY <1>1, <1>2 DEF Uri!From

(* A part is placed where it reads the same.  *)
LEMMA PlaceReads ==
    ASSUME NEW t \in Text, NEW q, Part(q, t)
    PROVE  SubSeq(t, Uri!Place(t, q).at, Uri!Place(t, q).at + Uri!Place(t, q).len - 1) = q
<1>0. q \in Text /\ Len(t) \in Nat /\ Len(q) \in Nat
  BY DEF Part, Text
<1>1. CASE q = <<>>
  BY <1>1 DEF Uri!Place
<1>2. CASE q # <<>>
  <2> DEFINE At == {i \in 1..Len(t) : SubSeq(t, i, i + Len(q) - 1) = q}
  <2>1. Len(q) > 0
    BY <1>0, <1>2 DEF Text
  <2>2. PICK k \in Nat : Lies(q, t, k)
    BY DEF Part
  <2>3. k + 1 \in At
    <3>1. k + Len(q) \in 0..Len(t) /\ k <= k + Len(q) /\ (k + Len(q)) - k = Len(q)
          /\ (k + 1) + Len(q) - 1 = k + Len(q) /\ k + 1 \in 1..Len(t)
      BY <1>0, <2>1, <2>2 DEF Lies
    <3> DEFINE r == SubSeq(t, k + 1, k + Len(q))
    <3>2. r \in Text /\ Len(r) = Len(q) /\ \A i \in 1..Len(q) : r[i] = t[k + i]
      BY <3>1, Cut
    <3> HIDE DEF r
    <3>3. r = q
      BY <1>0, <2>2, <3>2, SameText DEF Lies
    <3> QED
      BY <3>1, <3>3 DEF r
  <2>4. At \subseteq Nat
    OBVIOUS
  <2>5. PICK n \in At : \A m \in At : n <= m
    <3> HIDE DEF At
    <3> QED
      BY <2>3, <2>4, LeastNumber
  <2>6. \A j \in 1..n - 1 : SubSeq(t, j, j + Len(q) - 1) # q
    <3> SUFFICES ASSUME NEW j \in 1..n - 1, SubSeq(t, j, j + Len(q) - 1) = q PROVE FALSE
      OBVIOUS
    <3>1. j \in At /\ ~(n <= j)
      BY <1>0
    <3> QED
      BY <2>5, <3>1
  <2> DEFINE at == CHOOSE i \in 1..Len(t) :
                      /\ SubSeq(t, i, i + Len(q) - 1) = q
                      /\ \A j \in 1..i - 1 : SubSeq(t, j, j + Len(q) - 1) # q
  <2>7. SubSeq(t, at, at + Len(q) - 1) = q
    BY <2>6
  <2>8. Uri!Place(t, q) = [at |-> at, len |-> Len(q)]
    BY <1>2 DEF Uri!Place
  <2> HIDE DEF at
  <2> QED
    BY <2>7, <2>8
<1> QED
  BY <1>1, <1>2

(* A view whose parts are found in the text reads the same when it is
   rebound to the stored copy. *)
LEMMA StoredReads ==
    ASSUME NEW t \in Text, NEW v, v = [part \in DOMAIN v |-> v[part]],
           \A part \in DOMAIN v : Part(v[part], t)
    PROVE  Uri!Read([storage |-> t, truncated |-> FALSE, view |-> Uri!RebindView(t, v)]) = v
<1> DEFINE placed == [part \in DOMAIN v |-> Uri!Place(t, v[part])]
           u == [storage |-> t, truncated |-> FALSE, view |-> placed]
<1>1. Uri!RebindView(t, v) = placed
  BY DEF Uri!RebindView
<1>2. Uri!Read(u) = [part \in DOMAIN v |->
                      SubSeq(t, placed[part].at, placed[part].at + placed[part].len - 1)]
  BY DEF Uri!Read
<1>3. \A part \in DOMAIN v :
         SubSeq(t, placed[part].at, placed[part].at + placed[part].len - 1) = v[part]
  <2> SUFFICES ASSUME NEW part \in DOMAIN v
               PROVE  SubSeq(t, placed[part].at, placed[part].at + placed[part].len - 1) = v[part]
    OBVIOUS
  <2>1. placed[part] = Uri!Place(t, v[part])
    OBVIOUS
  <2> HIDE DEF placed
  <2> QED
    BY <2>1, PlaceReads
<1> HIDE DEF placed
<1>4. Uri!Read(u) = [part \in DOMAIN v |-> v[part]]
  BY <1>2, <1>3
<1> QED
  BY <1>1, <1>4

(* Path, query and fragment are found in what they are split from. *)
LEMMA PathQueryFragmentParts ==
    ASSUME NEW s \in Text
    PROVE  LET v == Uri!PathQueryFragment(s)
           IN  Part(v.path, s) /\ Part(v.query, s) /\ Part(v.fragment, s)
<1> DEFINE query == Uri!After(s, {"?"})
<1>1. Part(query, s) /\ Part(Uri!After(s, {"#"}), s) /\ Part(Uri!Before(s, {"?", "#"}), s)
  BY CutsArePart
<1>2. query \in Text
  BY <1>1 DEF Part
<1> HIDE DEF query
<1>3. Part(Uri!Before(query, {"#"}), query) /\ Part(Uri!After(query, {"#"}), query)
  BY <1>2, CutsArePart
<1>4. Part(Uri!Before(query, {"#"}), s) /\ Part(Uri!After(query, {"#"}), s)
  BY <1>1, <1>3, PartOfPart
<1> QED
  BY <1>1, <1>4 DEF Uri!PathQueryFragment, query

(* Host and port are found in the authority. *)
LEMMA HostPortIsPart == ASSUME NEW auth \in Text PROVE Part(Uri!HostPort(auth), auth)
  BY CutsArePart, NoPart DEF Uri!HostPort

(* Host and port are found in what is split at its last colon. *)
LEMMA SplitParts ==
    ASSUME NEW hp \in Text
    PROVE  Part(Uri!SplitAtLastColon(hp).host, hp) /\ Part(Uri!SplitAtLastColon(hp).port, hp)
<1> DEFINE colon == Uri!LastColon(hp)
<1>1. colon \in 0..Len(hp) /\ Len(hp) \in Nat
  BY LastColonIs DEF Text
<1>2. Uri!SplitAtLastColon(hp) =
        IF colon = 0 THEN [host |-> hp, port |-> <<>>]
        ELSE [host |-> SubSeq(hp, 0 + 1, colon - 1), port |-> Uri!From(hp, colon + 1)]
  BY DEF Uri!SplitAtLastColon
<1> HIDE DEF colon
<1>3. CASE colon = 0
  BY <1>2, <1>3, NoPart
<1>4. CASE colon # 0
  <2>1. Part(SubSeq(hp, 0 + 1, colon - 1), hp)
    BY <1>1, CutIsPart
  <2>2. Part(Uri!From(hp, colon + 1), hp)
    BY <1>1, FromIsPart
  <2> QED
    BY <1>2, <1>4, <2>1, <2>2
<1> QED
  BY <1>3, <1>4

(* Host and port are found in the authority, with or without brackets. *)
LEMMA BracketParts ==
    ASSUME NEW auth \in Text
    PROVE  /\ Part(Uri!AuthorityRfc3986(auth).host, auth)
           /\ Part(Uri!AuthorityRfc3986(auth).port, auth)
<1> DEFINE hp == Uri!HostPort(auth)
           rest == Uri!After(hp, {"]"})
           k == Uri!Find(hp, {"]"})
<1>1. Part(hp, auth) /\ hp \in Text /\ Len(hp) \in Nat
  <2>1. Part(hp, auth)
    BY HostPortIsPart
  <2>2. hp \in Text
    BY <2>1 DEF Part
  <2> QED
    BY <2>1, <2>2 DEF Text
<1> DEFINE v == Uri!AuthorityRfc3986(auth)
<1>2. v = IF Len(hp) < 2 \/ hp[1] # "[" THEN Uri!SplitAtLastColon(hp)
          ELSE IF ~Uri!Has(hp, {"]"}) THEN [host |-> <<>>, port |-> <<>>]
          ELSE [host |-> Append(Uri!Before(hp, {"]"}), "]"),
                port |-> IF rest # <<>> /\ rest[1] = ":" THEN Tail(rest) ELSE <<>>]
  BY DEF Uri!AuthorityRfc3986
<1> HIDE DEF hp, v
<1>3. Part(v.host, hp) /\ Part(v.port, hp)
  <2>1. CASE Len(hp) < 2 \/ hp[1] # "["
    <3>1. v = Uri!SplitAtLastColon(hp)
      BY <1>2, <2>1
    <3>2. /\ Part(Uri!SplitAtLastColon(hp).host, hp)
          /\ Part(Uri!SplitAtLastColon(hp).port, hp)
      BY <1>1, SplitParts
    <3> QED
      BY <3>1, <3>2
  <2>2. CASE ~(Len(hp) < 2 \/ hp[1] # "[") /\ ~Uri!Has(hp, {"]"})
    BY <1>1, <1>2, <2>2, NoPart
  <2>3. CASE ~(Len(hp) < 2 \/ hp[1] # "[") /\ Uri!Has(hp, {"]"})
    <3>1. k \in 1..Len(hp) /\ hp[k] = "]"
      BY <1>1, <2>3, FindIs DEF Uri!Has
    <3>2. v.host = Append(SubSeq(hp, 1, k - 1), "]")
      BY <1>2, <2>3 DEF Uri!Before
    <3>3. v.port = IF rest # <<>> /\ rest[1] = ":" THEN Tail(rest) ELSE <<>>
      BY <1>2, <2>3
    <3> HIDE DEF k
    <3>4. v.host = SubSeq(hp, 1, k)
      <4> DEFINE q == SubSeq(hp, 0 + 1, k - 1)
                 r == SubSeq(hp, 0 + 1, k)
      <4>1. q \in Text /\ Len(q) = k - 1 /\ \A i \in 1..k - 1 : q[i] = hp[i]
        BY <1>1, <3>1, Cut
      <4>2. r \in Text /\ Len(r) = k /\ \A i \in 1..k : r[i] = hp[i]
        BY <1>1, <3>1, Cut
      <4>3. Append(q, "]") = r
        <5> HIDE DEF q, r
        <5>1. "]" \in Characters /\ k \in Nat
          BY <3>1 DEF Characters
        <5>2. /\ Append(q, "]") \in Text /\ Len(Append(q, "]")) = k
              /\ \A i \in 1..k : Append(q, "]")[i] = IF i = k THEN "]" ELSE q[i]
          BY <4>1, <5>1 DEF Text
        <5> QED
          <6> DEFINE a == Append(q, "]")
          <6>1. /\ a \in Text /\ Len(a) = k
                /\ \A i \in 1..k : a[i] = IF i = k THEN "]" ELSE q[i]
            BY <5>2
          <6>2. \A i \in 1..k : i # k => i \in 1..k - 1
            BY <3>1
          <6> HIDE DEF a
          <6>3. \A i \in 1..k : a[i] = r[i]
            BY <3>1, <4>1, <4>2, <6>1, <6>2
          <6>4. a = r
            BY <4>2, <6>1, <6>3, SameText
          <6> QED
            BY <6>4 DEF a
      <4>4. 0 + 1 = 1
        OBVIOUS
      <4> QED
        BY <3>2, <4>3, <4>4
    <3>5. Part(v.host, hp)
      <4>1. Part(SubSeq(hp, 0 + 1, k), hp)
        BY <1>1, <3>1, CutIsPart
      <4> QED
        BY <3>4, <4>1
    <3>6. Part(rest, hp) /\ rest \in Text
      <4>1. Part(rest, hp)
        BY <1>1, CutsArePart
      <4> QED
        BY <4>1 DEF Part
    <3> HIDE DEF rest
    <3>7. Part(v.port, hp)
      <4>1. CASE rest # <<>>
        <5>1. Tail(rest) = Uri!From(rest, 2)
          BY <3>6, <4>1 DEF Text, Uri!From
        <5>2. Part(Tail(rest), rest)
          <6>1. Part(Uri!From(rest, 2), rest)
            BY <3>6, FromIsPart
          <6> QED
            BY <5>1, <6>1
        <5>3. Part(Tail(rest), hp)
          BY <1>1, <3>6, <5>2, PartOfPart
        <5>4. v.port = Tail(rest) \/ v.port = <<>>
          BY <3>3
        <5>5. Part(<<>>, hp)
          BY <1>1, NoPart
        <5> QED
          BY <5>3, <5>4, <5>5
      <4>2. CASE rest = <<>>
        BY <1>1, <3>3, <4>2, NoPart
      <4> QED
        BY <4>1, <4>2
    <3> QED
      BY <3>5, <3>7
  <2> QED
    BY <2>1, <2>2, <2>3
<1>4. Part(v.host, auth) /\ Part(v.port, auth)
  BY <1>1, <1>3, PartOfPart
<1> QED
  BY <1>4 DEF v

(* Where SchemeEnd points, "://" stands in the text. *)
LEMMA SchemeEndIs ==
    ASSUME NEW t \in Text
    PROVE  \/ Uri!SchemeEnd(t) = 0
           \/ /\ Uri!SchemeEnd(t) \in 1..Len(t) - 2
              /\ SubSeq(t, Uri!SchemeEnd(t), Uri!SchemeEnd(t) + 2) = <<":", "/", "/">>
<1> DEFINE ends == {i \in 1..Len(t) - 2 : SubSeq(t, i, i + 2) = <<":", "/", "/">>}
<1>1. Uri!SchemeEnd(t) = IF ends = {} THEN 0 ELSE CHOOSE i \in ends : \A j \in ends : i <= j
  BY DEF Uri!SchemeEnd
<1>2. ends \subseteq Nat
  OBVIOUS
<1> HIDE DEF ends
<1>3. CASE ends # {}
  <2>1. \E i \in ends : \A j \in ends : i <= j
    BY <1>2, <1>3, LeastNumber
  <2>2. Uri!SchemeEnd(t) \in ends
    BY <1>1, <1>3, <2>1
  <2> QED
    BY <2>2 DEF ends
<1> QED
  BY <1>1, <1>3

(* Both parsers' views read the way they are stored. *)
ViewParts(v, t) == v = [part \in DOMAIN v |-> v[part]] /\ \A part \in DOMAIN v : Part(v[part], t)

(* A view made of parts of the text can be rebound. *)
LEMMA ViewIsOfParts ==
    ASSUME NEW t \in Text, NEW scheme, Part(scheme, t), NEW authority, Part(authority, t),
           NEW hp, Part(hp.host, t), Part(hp.port, t),
           NEW pqf, Part(pqf.path, t), Part(pqf.query, t), Part(pqf.fragment, t)
    PROVE  ViewParts(Uri!View(t, scheme, authority, hp, pqf), t)
<1> DEFINE v == Uri!View(t, scheme, authority, hp, pqf)
<1>1. /\ DOMAIN v = {"full_str", "scheme", "authority", "host", "port", "path", "query", "fragment"}
      /\ v = [part \in DOMAIN v |-> v[part]]
  BY DEF Uri!View
<1>2. /\ v.full_str = t /\ v.scheme = scheme /\ v.authority = authority
      /\ v.host = hp.host /\ v.port = hp.port
      /\ v.path = pqf.path /\ v.query = pqf.query /\ v.fragment = pqf.fragment
  BY DEF Uri!View
<1>3. Part(t, t)
  BY NoPart
<1> HIDE DEF v
<1>4. ViewParts(v, t)
  BY <1>1, <1>2, <1>3 DEF ViewParts
<1> QED
  BY <1>4 DEF v

(* What either parser makes of an authority it found can be rebound. *)
LEMMA ViewWithIsOfParts ==
    ASSUME NEW t \in Text, NEW authority, Uri!SchemeEnd(t) # 0 => Part(authority, t),
           NEW hp, Uri!SchemeEnd(t) # 0 => Part(hp.host, authority) /\ Part(hp.port, authority)
    PROVE  ViewParts(Uri!ViewWith(t, authority, hp), t)
<1> DEFINE colon == Uri!SchemeEnd(t)
<1>0. Len(t) \in Nat /\ colon \in 0..Len(t)
  BY SchemeEndIs DEF Text
<1>1. Uri!ViewWith(t, authority, hp) =
        IF colon = 0
        THEN Uri!View(t, <<>>, <<>>, Uri!NoAuthority, Uri!PathQueryFragment(t))
        ELSE Uri!View(t, SubSeq(t, 1, colon - 1), authority, hp,
                      Uri!PathQueryFragment(Uri!From(t, colon + 3 + Len(authority))))
  BY DEF Uri!ViewWith
<1>2. CASE colon = 0
  <2>1. Part(<<>>, t)
    BY NoPart
  <2>2. Uri!NoAuthority.host = <<>> /\ Uri!NoAuthority.port = <<>>
    BY DEF Uri!NoAuthority
  <2> DEFINE pqf == Uri!PathQueryFragment(t)
  <2>3. Part(pqf.path, t) /\ Part(pqf.query, t) /\ Part(pqf.fragment, t)
    BY PathQueryFragmentParts
  <2> HIDE DEF pqf
  <2>4. ViewParts(Uri!View(t, <<>>, <<>>, Uri!NoAuthority, pqf), t)
    BY <2>1, <2>2, <2>3, ViewIsOfParts
  <2> QED
    BY <1>1, <1>2, <2>4 DEF pqf
<1>3. CASE colon # 0
  <2>1. Part(authority, t) /\ Part(hp.host, authority) /\ Part(hp.port, authority)
    BY <1>3
  <2>2. Part(hp.host, t) /\ Part(hp.port, t)
    <3>1. authority \in Text
      BY <2>1 DEF Part
    <3> QED
      BY <2>1, <3>1, PartOfPart
  <2> DEFINE i == colon + 3 + Len(authority)
             rest == Uri!From(t, i)
             pqf == Uri!PathQueryFragment(rest)
  <2>3. i \in Nat \ {0}
    BY <1>0, <2>1 DEF Part, Text
  <2> HIDE DEF i
  <2>4. Part(rest, t) /\ rest \in Text
    <3>1. Part(rest, t)
      BY <2>3, FromIsPart
    <3> QED
      BY <3>1 DEF Part
  <2> HIDE DEF rest
  <2>5. Part(pqf.path, rest) /\ Part(pqf.query, rest) /\ Part(pqf.fragment, rest)
    BY <2>4, PathQueryFragmentParts
  <2> HIDE DEF pqf
  <2>6. Part(pqf.path, t) /\ Part(pqf.query, t) /\ Part(pqf.fragment, t)
    BY <2>4, <2>5, PartOfPart
  <2> DEFINE scheme == SubSeq(t, 1, colon - 1)
  <2>7. Part(scheme, t)
    <3>1. Part(SubSeq(t, 0 + 1, colon - 1), t)
      BY <1>0, CutIsPart
    <3> QED
      BY <3>1
  <2> HIDE DEF scheme
  <2>8. ViewParts(Uri!View(t, scheme, authority, hp, pqf), t)
    BY <2>1, <2>2, <2>6, <2>7, ViewIsOfParts
  <2> QED
    BY <1>1, <1>3, <2>8 DEF pqf, rest, i, scheme
<1> QED
  BY <1>2, <1>3

(* The authority is found in the text. *)
LEMMA AuthorityIsPart ==
    ASSUME NEW t \in Text, NEW C
    PROVE  Part(Uri!Authority(t, C), t)
<1> DEFINE i == Uri!SchemeEnd(t) + 3
           rest == Uri!From(t, i)
<1>1. i \in Nat \ {0}
  BY SchemeEndIs
<1> HIDE DEF i
<1>2. Part(rest, t)
  BY <1>1, FromIsPart
<1>3. rest \in Text
  BY <1>2 DEF Part
<1> HIDE DEF rest
<1>4. Part(Uri!Before(rest, C), rest)
  BY <1>3, CutsArePart
<1>5. Part(Uri!Before(rest, C), t)
  BY <1>2, <1>3, <1>4, PartOfPart
<1> QED
  BY <1>5 DEF Uri!Authority, rest, i

(* The results of both parsers can be rebound, whatever the text. *)
LEMMA ParsedParts ==
    ASSUME NEW t \in Text
    PROVE  ViewParts(Uri!ParseMinimal(t), t) /\ ViewParts(Uri!ParseRfc3986(t), t)
<1>1. ViewParts(Uri!ParseMinimal(t), t)
  <2> DEFINE a == Uri!Authority(t, {"/"})
  <2>1. Part(a, t) /\ a \in Text
    <3>1. Part(a, t)
      BY AuthorityIsPart
    <3> QED
      BY <3>1 DEF Part
  <2>2. Uri!ParseMinimal(t) = Uri!ViewWith(t, a, Uri!AuthorityMinimal(a))
    BY DEF Uri!ParseMinimal
  <2> HIDE DEF a
  <2> DEFINE h == Uri!HostPort(a)
  <2>3. Part(h, a) /\ h \in Text
    <3>1. Part(h, a)
      BY <2>1, HostPortIsPart
    <3> QED
      BY <3>1 DEF Part
  <2>4. Uri!AuthorityMinimal(a) = Uri!SplitAtLastColon(h)
    BY DEF Uri!AuthorityMinimal
  <2> HIDE DEF h
  <2> DEFINE hp == Uri!SplitAtLastColon(h)
  <2>5. Part(hp.host, h) /\ Part(hp.port, h)
    BY <2>3, SplitParts
  <2> HIDE DEF hp
  <2>6. Part(hp.host, a) /\ Part(hp.port, a)
    BY <2>1, <2>3, <2>5, PartOfPart
  <2>7. ViewParts(Uri!ViewWith(t, a, hp), t)
    BY <2>1, <2>6, ViewWithIsOfParts
  <2> QED
    BY <2>2, <2>4, <2>7 DEF hp
<1>2. ViewParts(Uri!ParseRfc3986(t), t)
  <2> DEFINE a == Uri!Authority(t, {"/", "?", "#"})
             hp == Uri!AuthorityRfc3986(a)
  <2>1. Part(a, t) /\ a \in Text
    <3>1. Part(a, t)
      BY AuthorityIsPart
    <3> QED
      BY <3>1 DEF Part
  <2>2. Uri!ParseRfc3986(t) = Uri!ViewWith(t, a, hp)
    BY DEF Uri!ParseRfc3986
  <2> HIDE DEF a
  <2>3. Part(hp.host, a) /\ Part(hp.port, a)
    BY <2>1, BracketParts
  <2> HIDE DEF hp
  <2>4. ViewParts(Uri!ViewWith(t, a, hp), t)
    BY <2>1, <2>3, ViewWithIsOfParts
  <2> QED
    BY <2>2, <2>4
<1> QED
  BY <1>1, <1>2

(* What is read from a URI is what its parser found.  *)
Found(t) == IF parser = "minimal" THEN Uri!ParseMinimal(t) ELSE Uri!ParseRfc3986(t)

(* A basic_uri holds nothing, or what the parser made of its text. *)
UInv ==
    /\ parser \in Uri!Parsers /\ uri_text \in UriTexts
    /\ uri.storage # <<>> => uri = Uri!Stored(parser, uri_text)

(* The texts that MCValues parses are sequences of Characters. *)
LEMMA TextsAre == ASSUME MaxRest \in Nat, MaxUriLen \in Nat PROVE UriTexts \subseteq Text
<1>1. ASSUME NEW rest \in Rests PROVE rest \in Text /\ <<"a", ":", "/", "/">> \o rest \in Text
  <2>1. PICK n \in 0..MaxRest : rest \in [1..n -> Characters]
    BY DEF Rests
  <2>2. rest \in Seq(Characters)
    BY <2>1
  <2>3. <<"a", ":", "/", "/">> \in Seq(Characters)
    BY DEF Characters
  <2> QED
    BY <2>2, <2>3 DEF Text
<1>2. TooLong \in Text
  BY DEF TooLong, Text, Characters
<1> QED
  BY <1>1, <1>2 DEF UriTexts

(* A step of the URI keeps UInv. *)
LEMMA UInvStep == UInv /\ [Uri!Next]_uri_vars => UInv'
<1> SUFFICES ASSUME UInv, [Uri!Next]_uri_vars PROVE UInv'
  OBVIOUS
<1>1. CASE UNCHANGED uri_vars
  BY <1>1 DEF UInv, uri_vars
<1>2. CASE Uri!Next
  BY <1>2 DEF UInv, Uri!Next, Uri!Parse, Uri!Default
<1> QED
  BY <1>1, <1>2

(* UInv holds at first. *)
LEMMA UInvInit == Uri!Init => UInv
  BY DEF UInv, Uri!Init, Uri!Default

(* What is read from a parsed URI is what its parser found in the text. *)
LEMMA FoundIsRead ==
    ASSUME MaxRest \in Nat, MaxUriLen \in Nat, UInv, Uri!Parsed
    PROVE  uri_text \in Text /\ Uri!Read(uri) = Found(uri_text)
<1>1. uri_text \in Text
  BY TextsAre DEF UInv
<1> DEFINE v == Found(uri_text)
<1>2. ViewParts(v, uri_text)
  BY <1>1, ParsedParts DEF Found
<1>3. uri = [storage |-> uri_text, truncated |-> FALSE, view |-> Uri!RebindView(uri_text, v)]
  BY DEF UInv, Uri!Parsed, Uri!Stored, Found
<1> HIDE DEF v
<1>4. Uri!Read(uri) = v
  BY <1>1, <1>2, <1>3, StoredReads DEF ViewParts
<1> QED
  BY <1>1, <1>4 DEF v

(* A text has a character of a set where one of its places does. *)
LEMMA HasIs ==
    ASSUME NEW s \in Text, NEW C
    PROVE  Uri!Has(s, C) <=> \E i \in 1..Len(s) : s[i] \in C
<1>1. Uri!Has(s, C) <=> Uri!Find(s, C) # 0
  BY DEF Uri!Has
<1>2. \/ Uri!Find(s, C) = 0 /\ \A i \in 1..Len(s) : s[i] \notin C
      \/ /\ Uri!Find(s, C) \in 1..Len(s) /\ s[Uri!Find(s, C)] \in C
  BY FindIs
<1> QED
  BY <1>1, <1>2

(* Find is the only place of a set with none before it. *)
LEMMA FirstIs ==
    ASSUME NEW s \in Text, NEW C, NEW k \in 1..Len(s), s[k] \in C, \A i \in 1..k - 1 : s[i] \notin C
    PROVE  Uri!Find(s, C) = k
<1> DEFINE n == Uri!Find(s, C)
<1>1. n \in 1..Len(s) /\ s[n] \in C /\ \A i \in 1..n - 1 : s[i] \notin C
  BY FindIs
<1> HIDE DEF n
<1>2. ~(n < k) /\ ~(k < n)
  BY <1>1
<1>3. n = k
  BY <1>1, <1>2
<1> QED
  BY <1>3 DEF n

(* Where no query or fragment follows it straight, both parsers see the     *)
(* same authority.                                                          *)
LEMMA SameAuthority ==
    ASSUME NEW rest \in Text, ~Uri!Has(Uri!Before(rest, {"/"}), {"?", "#"})
    PROVE  Uri!Before(rest, {"/", "?", "#"}) = Uri!Before(rest, {"/"})
<1> DEFINE C == {"/", "?", "#"}
           k == Uri!Find(rest, {"/"})
<1>0. Len(rest) \in Nat
  BY DEF Text
<1>1. CASE ~Uri!Has(rest, {"/"})
  <2>1. Uri!Before(rest, {"/"}) = rest
    BY <1>1 DEF Uri!Before
  <2>2. \A i \in 1..Len(rest) : rest[i] \notin {"?", "#"} /\ rest[i] \notin {"/"}
    BY <1>1, <2>1, HasIs
  <2>3. ~Uri!Has(rest, C)
    BY <2>2, HasIs
  <2> QED
    BY <2>1, <2>3 DEF Uri!Before
<1>2. CASE Uri!Has(rest, {"/"})
  <2>1. k \in 1..Len(rest) /\ rest[k] = "/"
    BY <1>2, FindIs DEF Uri!Has
  <2>2. Uri!Before(rest, {"/"}) = SubSeq(rest, 1, k - 1)
    BY <1>2 DEF Uri!Before
  <2>3. \A i \in 1..k - 1 : rest[i] \notin {"/"}
    BY <2>1, FindIs
  <2> HIDE DEF k
  <2> DEFINE a == SubSeq(rest, 0 + 1, k - 1)
  <2>4. a \in Text /\ Len(a) = k - 1 /\ \A i \in 1..k - 1 : a[i] = rest[i]
    BY <1>0, <2>1, Cut
  <2>5. a = Uri!Before(rest, {"/"})
    BY <2>2
  <2> HIDE DEF a
  <2>6. \A i \in 1..k - 1 : a[i] \notin {"?", "#"}
    BY <2>1, <2>4, <2>5, HasIs
  <2>7. \A i \in 1..k - 1 : rest[i] \notin C
    BY <2>3, <2>4, <2>6
  <2>8. Uri!Find(rest, C) = k
    BY <2>1, <2>7, FirstIs
  <2>9. k # 0
    BY <2>1
  <2> QED
    BY <2>2, <2>8, <2>9 DEF Uri!Before, Uri!Has
<1> QED
  BY <1>1, <1>2

(* An authority without a leading bracket is split alike by both parsers. *)
LEMMA SameSplit ==
    ASSUME NEW a \in Text, ~Uri!IsPrefix(<<"[">>, Uri!HostPort(a))
    PROVE  Uri!AuthorityRfc3986(a) = Uri!AuthorityMinimal(a)
<1> DEFINE h == Uri!HostPort(a)
<1>1. h \in Text
  BY HostPortIsPart DEF Part
<1>2. ASSUME Len(h) >= 2, h[1] = "[" PROVE FALSE
  <2> HIDE DEF h
  <2> DEFINE one == <<"[">>
             q == SubSeq(one, 0 + 1, 1)
             r == SubSeq(h, 0 + 1, 1)
  <2>1. one \in Text /\ Len(one) = 1 /\ one[1] = "["
    BY DEF Text, Characters
  <2>2. Len(h) \in Nat
    BY <1>1 DEF Text
  <2> HIDE DEF one
  <2>3. q \in Text /\ Len(q) = 1 /\ q[1] = "["
    <3>1. q \in Text /\ Len(q) = 1 - 0 /\ \A k \in 1..1 - 0 : q[k] = one[0 + k]
      BY <2>1, Cut
    <3> HIDE DEF q
    <3> QED
      BY <2>1, <3>1
  <2>4. r \in Text /\ Len(r) = 1 /\ r[1] = "["
    <3>1. r \in Text /\ Len(r) = 1 - 0 /\ \A k \in 1..1 - 0 : r[k] = h[0 + k]
      BY <1>1, <1>2, <2>2, Cut
    <3> HIDE DEF r
    <3> QED
      BY <1>2, <3>1
  <2> HIDE DEF q, r
  <2>5. q = r
    BY <2>3, <2>4, SameText
  <2>6. Uri!IsPrefix(one, h)
    BY <1>2, <2>1, <2>2, <2>5 DEF Uri!IsPrefix, q, r
  <2> QED
    BY <2>6 DEF one, h
<1>3. Len(h) < 2 \/ h[1] # "["
  BY <1>1, <1>2 DEF Text
<1> QED
  BY <1>3 DEF Uri!AuthorityRfc3986, Uri!AuthorityMinimal

(* Whatever the text, the choice of parser changes only what RFC 3986 adds. *)
THEOREM ParsersAgreeHolds ==
    ASSUME MaxRest \in Nat, MaxUriLen \in Nat PROVE Uri!Spec => []ParsersAgree
<1>1. UInv => ParsersAgree
  <2> SUFFICES ASSUME UInv PROVE ParsersAgree
    OBVIOUS
  <2> DEFINE t == uri_text
             rest == Uri!From(t, Uri!SchemeEnd(t) + 3)
             other == IF parser = "minimal" THEN Uri!ParseRfc3986(t) ELSE Uri!ParseMinimal(t)
             before == Uri!Before(rest, {"/"})
  <2>1. ASSUME Uri!Parsed, ~Uri!Has(before, {"?", "#"}), ~Uri!IsPrefix(<<"[">>, Uri!HostPort(before))
        PROVE  Uri!Read(uri) = other
    <3>1. t \in Text /\ Uri!Read(uri) = Found(t)
      BY <2>1, FoundIsRead
    <3>2. Uri!SchemeEnd(t) + 3 \in Nat \ {0}
      BY <3>1, SchemeEndIs
    <3>3. rest \in Text
      BY <3>1, <3>2, FromIsPart DEF Part
    <3>4. /\ Uri!Authority(t, {"/"}) = before
          /\ Uri!Authority(t, {"/", "?", "#"}) = Uri!Before(rest, {"/", "?", "#"})
      BY DEF Uri!Authority
    <3> HIDE DEF rest
    <3>5. Uri!Before(rest, {"/", "?", "#"}) = before
      BY <2>1, <3>3, SameAuthority
    <3>6. before \in Text
      BY <3>3, CutsArePart DEF Part
    <3> HIDE DEF before
    <3>7. Uri!AuthorityRfc3986(before) = Uri!AuthorityMinimal(before)
      BY <2>1, <3>6, SameSplit
    <3>8. Uri!ParseMinimal(t) = Uri!ParseRfc3986(t)
      BY <3>4, <3>5, <3>7 DEF Uri!ParseMinimal, Uri!ParseRfc3986
    <3> QED
      BY <3>1, <3>8 DEF Found
  <2> QED
    BY <2>1 DEF ParsersAgree, Uri!ParsersAgree
<1> QED
  BY UInvInit, UInvStep, <1>1, PTL DEF Uri!Spec, Uri!vars, uri_vars

(* A part of what is behind the i-th character. *)
LEMMA CutOfCut ==
    ASSUME NEW s \in Text, NEW i \in 0..Len(s), NEW a \in Nat, NEW b \in Nat, i + b <= Len(s)
    PROVE  SubSeq(SubSeq(s, i + 1, Len(s)), a + 1, b) = SubSeq(s, (i + a) + 1, i + b)
<1>0. Len(s) \in Nat
  BY DEF Text
<1> DEFINE h == SubSeq(s, i + 1, Len(s))
           q == SubSeq(h, a + 1, b)
           r == SubSeq(s, (i + a) + 1, i + b)
<1>1. h \in Text /\ Len(h) = Len(s) - i /\ \A k \in 1..Len(s) - i : h[k] = s[i + k]
  BY <1>0, Cut
<1> HIDE DEF h
<1>2. CASE a <= b
  <2>1. b \in 0..Len(h) /\ i + a \in Nat /\ i + b \in 0..Len(s) /\ i + a <= i + b
        /\ (i + b) - (i + a) = b - a
    BY <1>0, <1>1, <1>2
  <2>2. q \in Text /\ Len(q) = b - a /\ \A k \in 1..b - a : q[k] = h[a + k]
    BY <1>1, <1>2, <2>1, Cut
  <2>3. r \in Text /\ Len(r) = b - a /\ \A k \in 1..b - a : r[k] = s[(i + a) + k]
    BY <2>1, Cut
  <2>4. ASSUME NEW k \in 1..b - a PROVE q[k] = r[k]
    <3>1. a + k \in 1..Len(s) - i /\ i + (a + k) = (i + a) + k
      BY <1>0, <1>2
    <3> QED
      BY <1>1, <2>2, <2>3, <3>1
  <2> HIDE DEF q, r
  <2>5. q = r
    BY <2>2, <2>3, <2>4, SameText
  <2> QED
    BY <2>5 DEF q, r
<1>3. CASE b < a
  <2>1. q = <<>>
    BY <1>1, <1>3, CutNothing
  <2>2. i + b <= i + a /\ i + a \in Int /\ i + b \in Int
    BY <1>3
  <2>3. r = <<>>
    BY <2>2, CutNothing
  <2> QED
    BY <2>1, <2>3
<1> QED
  BY <1>2, <1>3 DEF h

(* An authority of the form userinfo@host:port: the userinfo and its '@' are *)
(* its first i characters, the host ends at the j-th.                        *)
UserEnds(auth, i) ==
    i > 0 => auth[i] = "@" /\ \A k \in 1..i - 1 : auth[k] \notin {"@", "[", "]"}
PlainHost(auth, i, j) == \A k \in i + 1..j : auth[k] \notin {":", "@", "[", "]"}
BracketedHost(auth, i, j) ==
    /\ j - i >= 2 /\ auth[i + 1] = "[" /\ auth[j] = "]"
    /\ \A k \in i + 2..j - 1 : auth[k] \notin {"@", "[", "]"}
PortBegins(auth, j) ==
    j < Len(auth) => auth[j + 1] = ":" /\ \A k \in j + 2..Len(auth) : auth[k] \notin {":", "@", "[", "]"}

(* The userinfo ends at the first "@", and host and port are behind it. *)
LEMMA UserIsRead ==
    ASSUME NEW auth \in Text, NEW i \in 0..Len(auth), NEW j \in i..Len(auth),
           UserEnds(auth, i), PlainHost(auth, i, j) \/ BracketedHost(auth, i, j), PortBegins(auth, j)
    PROVE  /\ Uri!HostPort(auth) = SubSeq(auth, i + 1, Len(auth))
           /\ (IF Uri!Has(auth, {"@"}) THEN Uri!Before(auth, {"@"}) ELSE <<>>) = SubSeq(auth, 1, i - 1)
<1>0. Len(auth) \in Nat /\ i \in Nat /\ j \in Nat
  BY DEF Text
<1>1. ASSUME NEW k \in i + 1..Len(auth) PROVE auth[k] # "@"
  <2>1. CASE k <= j
    <3>1. k = i + 1 \/ k = j \/ k \in i + 2..j - 1
      BY <1>0, <2>1
    <3>2. k \in i + 1..j
      BY <1>0, <2>1
    <3> QED
      BY <3>1, <3>2 DEF PlainHost, BracketedHost
  <2>2. CASE k = j + 1
    BY <1>0, <2>2 DEF PortBegins
  <2>3. CASE k > j + 1
    BY <1>0, <2>3 DEF PortBegins
  <2> QED
    BY <1>0, <2>1, <2>2, <2>3
<1>2. CASE i = 0
  <2>1. ~Uri!Has(auth, {"@"})
    BY <1>1, <1>2, HasIs
  <2>2. SubSeq(auth, i + 1, Len(auth)) = auth
    BY <1>2 DEF Text
  <2>3. SubSeq(auth, 1, i - 1) = <<>>
    BY <1>2 DEF Text
  <2> QED
    BY <2>1, <2>2, <2>3 DEF Uri!HostPort
<1>3. CASE i > 0
  <2>1. /\ i \in 1..Len(auth) /\ auth[i] \in {"@"}
        /\ \A k \in 1..i - 1 : auth[k] \notin {"@"}
    BY <1>0, <1>3 DEF UserEnds
  <2>2. Uri!Find(auth, {"@"}) = i
    BY <2>1, FirstIs
  <2> QED
    BY <1>3, <2>2 DEF Uri!HostPort, Uri!Has, Uri!Before, Uri!After
<1> QED
  BY <1>0, <1>2, <1>3

(* Without brackets the host ends at the last colon. *)
LEMMA PlainHostIsRead ==
    ASSUME NEW auth \in Text, NEW i \in 0..Len(auth), NEW j \in i..Len(auth),
           UserEnds(auth, i), PlainHost(auth, i, j), PortBegins(auth, j)
    PROVE  LET h == SubSeq(auth, i + 1, Len(auth))
           IN  /\ Uri!SplitAtLastColon(h) = [host |-> SubSeq(auth, i + 1, j),
                                             port |-> SubSeq(auth, (j + 1) + 1, Len(auth))]
               /\ Len(h) < 2 \/ h[1] # "["
<1> DEFINE n == Len(auth)
           h == SubSeq(auth, i + 1, n)
           colon == Uri!LastColon(h)
<1>0. n \in Nat /\ i \in Nat /\ j \in Nat /\ i <= j /\ j <= n
  BY DEF Text
<1>1. h \in Text /\ Len(h) = n - i /\ \A k \in 1..n - i : h[k] = auth[i + k]
  BY <1>0, Cut
<1>2. ASSUME NEW k \in 1..j - i PROVE h[k] \notin {":", "@", "[", "]"}
  <2>1. k \in 1..n - i /\ i + k \in i + 1..j
    BY <1>0
  <2> QED
    BY <1>1, <2>1 DEF PlainHost
<1>3. Len(h) < 2 \/ h[1] # "["
  <2>1. CASE j > i
    <3>1. 1 \in 1..j - i
      BY <1>0, <2>1
    <3> QED
      BY <1>2, <3>1
  <2>2. CASE j = i /\ j < n
    <3>1. 1 \in 1..n - i /\ i + 1 = j + 1
      BY <1>0, <2>2
    <3>2. h[1] = ":"
      BY <1>1, <2>2, <3>1 DEF PortBegins
    <3> QED
      BY <3>2
  <2>3. CASE j = i /\ j = n
    BY <1>0, <1>1, <2>3
  <2> QED
    BY <1>0, <2>1, <2>2, <2>3
<1>4. CASE j < n
  <2>1. auth[j + 1] = ":" /\ \A k \in j + 2..n : auth[k] \notin {":", "@", "[", "]"}
    BY <1>4 DEF PortBegins
  <2>2. (j - i) + 1 \in 1..Len(h) /\ i + ((j - i) + 1) = j + 1
    BY <1>0, <1>1, <1>4
  <2>3. h[(j - i) + 1] = ":"
    BY <1>1, <2>1, <2>2
  <2>4. ASSUME NEW k \in (j - i) + 2..Len(h) PROVE h[k] # ":"
    <3>1. k \in 1..n - i /\ i + k \in j + 2..n
      BY <1>0, <1>1
    <3> QED
      BY <1>1, <2>1, <3>1
  <2>5. colon = (j - i) + 1
    <3>1. \/ colon = 0 /\ \A k \in 1..Len(h) : h[k] # ":"
          \/ /\ colon \in 1..Len(h) /\ h[colon] = ":"
             /\ \A k \in colon + 1..Len(h) : h[k] # ":"
      BY <1>1, LastColonIs
    <3> HIDE DEF h, colon
    <3>2. colon \in 1..Len(h) /\ h[colon] = ":" /\ \A k \in colon + 1..Len(h) : h[k] # ":"
      BY <2>2, <2>3, <3>1
    <3>3. ~(colon < (j - i) + 1)
      <4> SUFFICES ASSUME colon < (j - i) + 1 PROVE FALSE
        OBVIOUS
      <4>1. (j - i) + 1 \in colon + 1..Len(h)
        BY <1>0, <2>2, <3>2
      <4> QED
        BY <2>3, <3>2, <4>1
    <3>4. ~(colon > (j - i) + 1)
      <4> SUFFICES ASSUME colon > (j - i) + 1 PROVE FALSE
        OBVIOUS
      <4>1. colon \in (j - i) + 2..Len(h)
        BY <1>0, <2>2, <3>2
      <4> QED
        BY <2>4, <3>2, <4>1
    <3> QED
      BY <1>0, <3>2, <3>3, <3>4
  <2>6. Uri!SplitAtLastColon(h) = [host |-> SubSeq(h, 1, colon - 1), port |-> Uri!From(h, colon + 1)]
    BY <1>0, <2>5 DEF Uri!SplitAtLastColon
  <2>7. SubSeq(h, 0 + 1, j - i) = SubSeq(auth, (i + 0) + 1, i + (j - i))
    <3>1. j - i \in Nat /\ i + (j - i) <= n /\ i \in 0..n
      BY <1>0
    <3> QED
      BY <3>1, CutOfCut
  <2>8. SubSeq(h, ((j - i) + 1) + 1, n - i) = SubSeq(auth, (i + ((j - i) + 1)) + 1, i + (n - i))
    <3>1. (j - i) + 1 \in Nat /\ n - i \in Nat /\ i + (n - i) <= n /\ i \in 0..n
      BY <1>0
    <3> QED
      BY <3>1, CutOfCut
  <2>9. /\ 0 + 1 = 1 /\ i + 0 = i /\ i + (j - i) = j /\ i + (n - i) = n
        /\ i + ((j - i) + 1) = j + 1 /\ colon - 1 = j - i
    BY <1>0, <2>5
  <2> HIDE DEF h, colon
  <2>10. SubSeq(h, 1, colon - 1) = SubSeq(auth, i + 1, j)
    BY <2>7, <2>9
  <2>11. Uri!From(h, colon + 1) = SubSeq(auth, (j + 1) + 1, n)
    BY <1>1, <2>5, <2>8, <2>9 DEF Uri!From
  <2> QED
    BY <1>3, <2>6, <2>10, <2>11 DEF h
<1>5. CASE j = n
  <2>1. \A k \in 1..Len(h) : h[k] # ":"
    BY <1>1, <1>2, <1>5
  <2>2. colon = 0
    <3>1. \/ colon = 0
          \/ colon \in 1..Len(h) /\ h[colon] = ":"
      BY <1>1, LastColonIs
    <3> QED
      BY <2>1, <3>1
  <2>3. Uri!SplitAtLastColon(h) = [host |-> h, port |-> <<>>]
    BY <2>2 DEF Uri!SplitAtLastColon
  <2>4. SubSeq(auth, (j + 1) + 1, n) = <<>>
    <3>1. j + 1 \in Int /\ n <= j + 1 /\ n \in Int
      BY <1>0, <1>5
    <3> QED
      BY <3>1, CutNothing
  <2>5. h = SubSeq(auth, i + 1, j)
    BY <1>5
  <2> HIDE DEF h
  <2> QED
    BY <1>3, <2>3, <2>4, <2>5 DEF h
<1> QED
  BY <1>0, <1>4, <1>5

(* The tail of a text that is not empty begins at its second character. *)
LEMMA TailIs == ASSUME NEW s \in Text, s # <<>> PROVE Tail(s) = SubSeq(s, 2, Len(s))
  BY DEF Text

(* A host in brackets ends at its bracket. *)
LEMMA BracketedHostIsRead ==
    ASSUME NEW auth \in Text, NEW i \in 0..Len(auth), NEW j \in i..Len(auth),
           UserEnds(auth, i), BracketedHost(auth, i, j), PortBegins(auth, j),
           Uri!HostPort(auth) = SubSeq(auth, i + 1, Len(auth))
    PROVE  /\ Uri!AuthorityRfc3986(auth).host = SubSeq(auth, i + 1, j)
           /\ Uri!AuthorityRfc3986(auth).port = SubSeq(auth, (j + 1) + 1, Len(auth))
<1> DEFINE n == Len(auth)
           h == SubSeq(auth, i + 1, n)
           l == j - i
           rest == Uri!After(h, {"]"})
<1>0. n \in Nat /\ i \in Nat /\ j \in Nat /\ i <= j /\ j <= n /\ l \in Nat /\ l >= 2 /\ l <= n - i
  BY DEF Text, BracketedHost
<1>1. h \in Text /\ Len(h) = n - i /\ \A k \in 1..n - i : h[k] = auth[i + k]
  BY <1>0, Cut
<1>2. h[1] = "[" /\ h[l] = "]" /\ \A k \in 1..l - 1 : h[k] \notin {"]"}
  <2>1. 1 \in 1..n - i /\ l \in 1..n - i /\ i + l = j
    BY <1>0
  <2>2. ASSUME NEW k \in 1..l - 1 PROVE h[k] # "]"
    <3>1. k \in 1..n - i /\ (k = 1 \/ i + k \in i + 2..j - 1)
      BY <1>0
    <3> QED
      BY <1>1, <2>1, <3>1 DEF BracketedHost
  <2> QED
    BY <1>1, <2>1, <2>2 DEF BracketedHost
<1>3. Uri!Find(h, {"]"}) = l
  <2>1. l \in 1..Len(h) /\ h[l] \in {"]"}
    BY <1>0, <1>1, <1>2
  <2> HIDE DEF h, l
  <2> QED
    BY <1>1, <1>2, <2>1, FirstIs
<1>4. /\ Uri!Has(h, {"]"}) /\ Uri!Before(h, {"]"}) = SubSeq(h, 1, l - 1)
      /\ rest = SubSeq(h, l + 1, Len(h))
  <2>1. l # 0
    BY <1>0
  <2> HIDE DEF h, l
  <2> QED
    BY <1>3, <2>1 DEF Uri!Has, Uri!Before, Uri!After
<1>5. ~(Len(h) < 2 \/ h[1] # "[")
  BY <1>0, <1>1, <1>2
<1>6. Uri!AuthorityRfc3986(auth)
        = [host |-> Append(SubSeq(h, 1, l - 1), "]"),
           port |-> IF rest # <<>> /\ rest[1] = ":" THEN Tail(rest) ELSE <<>>]
  <2> HIDE DEF h, rest
  <2>1. Uri!HostPort(auth) = h
    BY DEF h
  <2> QED
    BY <1>4, <1>5, <2>1 DEF Uri!AuthorityRfc3986, rest
<1>7. Append(SubSeq(h, 1, l - 1), "]") = SubSeq(auth, i + 1, j)
  <2> DEFINE q == SubSeq(h, 0 + 1, l - 1)
             a == Append(q, "]")
             r == SubSeq(auth, i + 1, j)
  <2>1. q \in Text /\ Len(q) = l - 1 /\ \A k \in 1..l - 1 : q[k] = h[0 + k]
    <3> DEFINE m == l - 1
    <3>1. 0 \in Nat /\ m \in 0..Len(h) /\ 0 <= m /\ m - 0 = m
      BY <1>0, <1>1
    <3> HIDE DEF h, m
    <3>2. SubSeq(h, 0 + 1, m) \in Text /\ Len(SubSeq(h, 0 + 1, m)) = m - 0
          /\ \A k \in 1..m - 0 : SubSeq(h, 0 + 1, m)[k] = h[0 + k]
      BY <1>1, <3>1, Cut
    <3> QED
      BY <3>1, <3>2 DEF m
  <2>2. r \in Text /\ Len(r) = l /\ \A k \in 1..l : r[k] = auth[i + k]
    <3>1. j \in 0..Len(auth)
      BY <1>0
    <3> QED
      BY <1>0, <3>1, Cut
  <2> HIDE DEF q
  <2>3. "]" \in Characters
    BY DEF Characters
  <2>4. a \in Text /\ Len(a) = l /\ \A k \in 1..l : a[k] = IF k = l THEN "]" ELSE q[k]
    BY <1>0, <2>1, <2>3 DEF Text
  <2> HIDE DEF a, r
  <2>5. ASSUME NEW k \in 1..l PROVE a[k] = r[k]
    <3>1. k \in 1..n - i /\ 0 + k = k /\ (k # l => k \in 1..l - 1)
      BY <1>0
    <3> QED
      BY <1>1, <1>2, <2>1, <2>2, <2>4, <3>1
  <2>6. a = r
    BY <2>2, <2>4, <2>5, SameText
  <2>7. 0 + 1 = 1
    OBVIOUS
  <2> QED
    BY <2>6, <2>7 DEF a, q, r
<1>8. rest = SubSeq(auth, j + 1, n)
  <2>1. l \in Nat /\ n - i \in Nat /\ i + (n - i) <= n /\ i \in 0..n
    BY <1>0
  <2>2. SubSeq(h, l + 1, n - i) = SubSeq(auth, (i + l) + 1, i + (n - i))
    BY <2>1, CutOfCut
  <2>3. i + l = j /\ i + (n - i) = n
    BY <1>0
  <2> QED
    BY <1>1, <1>4, <2>2, <2>3
<1>9. (IF rest # <<>> /\ rest[1] = ":" THEN Tail(rest) ELSE <<>>) = SubSeq(auth, (j + 1) + 1, n)
  <2> HIDE DEF rest
  <2>1. rest \in Text /\ Len(rest) = n - j /\ \A k \in 1..n - j : rest[k] = auth[j + k]
    BY <1>0, <1>8, Cut
  <2>2. CASE j < n
    <3>1. rest # <<>> /\ rest[1] = ":"
      <4>1. 1 \in 1..n - j
        BY <1>0, <2>2
      <4> QED
        BY <2>1, <2>2, <4>1 DEF PortBegins
    <3>2. Tail(rest) = SubSeq(rest, 1 + 1, n - j)
      <4>1. Tail(rest) = SubSeq(rest, 2, Len(rest))
        BY <2>1, <3>1, TailIs
      <4> QED
        BY <2>1, <4>1
    <3>3. SubSeq(rest, 1 + 1, n - j) = SubSeq(auth, (j + 1) + 1, j + (n - j))
      <4>1. j \in 0..n /\ n - j \in Nat /\ j + (n - j) <= n
        BY <1>0
      <4> QED
        BY <1>8, <4>1, CutOfCut
    <3>4. j + (n - j) = n
      BY <1>0
    <3> QED
      BY <3>1, <3>2, <3>3, <3>4
  <2>3. CASE j = n
    <3>1. rest = <<>>
      BY <1>0, <2>1, <2>3 DEF Text
    <3>2. j + 1 \in Int /\ n <= j + 1 /\ n \in Int
      BY <1>0, <2>3
    <3>3. SubSeq(auth, (j + 1) + 1, n) = <<>>
      BY <3>2, CutNothing
    <3> QED
      BY <3>1, <3>3
  <2> QED
    BY <1>0, <2>2, <2>3
<1> HIDE DEF h, rest
<1> QED
  BY <1>6, <1>7, <1>9

(* What the property says of the parts of an authority, character by         *)
(* character.                                                                *)
IsUser(u) == u # <<>> => u[Len(u)] = "@" /\ ~Uri!Has(SubSeq(u, 1, Len(u) - 1), {"@", "[", "]"})
IsPort(p) == p # <<>> => p[1] = ":" /\ ~Uri!Has(Tail(p), {":", "@", "[", "]"})

(* IsUser, place by place. *)
LEMMA UserIs ==
    ASSUME NEW auth \in Text, NEW i \in 0..Len(auth), IsUser(SubSeq(auth, 0 + 1, i))
    PROVE  UserEnds(auth, i)
<1> DEFINE u == SubSeq(auth, 0 + 1, i)
           w == SubSeq(u, 0 + 1, i - 1)
<1> SUFFICES ASSUME i > 0 PROVE UserEnds(auth, i)
  BY DEF UserEnds, Text
<1>1. i \in Nat /\ i - 1 \in 0..i /\ 0 \in Nat /\ i - 0 = i /\ (i - 1) - 0 = i - 1 /\ i \in 1..i
      /\ 0 <= i /\ 0 <= i - 1 /\ 0 + 1 = 1 /\ 0 + i = i
  BY DEF Text
<1>2. u \in Text /\ Len(u) = i - 0 /\ \A k \in 1..i - 0 : u[k] = auth[0 + k]
  BY <1>1, Cut
<1>3. u \in Text /\ Len(u) = i /\ \A k \in 1..i : u[k] = auth[k]
  BY <1>1, <1>2
<1>4. u[i] = "@" /\ ~Uri!Has(w, {"@", "[", "]"})
  <2>1. u # <<>>
    BY <1>1, <1>3
  <2> QED
    BY <1>1, <1>3, <2>1 DEF IsUser
<1> HIDE DEF u
<1>5. w \in Text /\ Len(w) = (i - 1) - 0 /\ \A k \in 1..(i - 1) - 0 : w[k] = u[0 + k]
  BY <1>1, <1>3, Cut
<1>6. ASSUME NEW k \in 1..i - 1 PROVE auth[k] \notin {"@", "[", "]"}
  <2>1. k \in 1..(i - 1) - 0 /\ 0 + k = k /\ k \in 1..i /\ k \in 1..Len(w)
    BY <1>1, <1>5
  <2>2. w[k] = auth[k]
    BY <1>3, <1>5, <2>1
  <2> HIDE DEF w
  <2> QED
    BY <1>4, <1>5, <2>1, <2>2, HasIs
<1> QED
  BY <1>1, <1>3, <1>4, <1>6 DEF UserEnds

(* IsPort, place by place. *)
LEMMA PortIs ==
    ASSUME NEW auth \in Text, NEW j \in 0..Len(auth), IsPort(SubSeq(auth, j + 1, Len(auth)))
    PROVE  PortBegins(auth, j)
<1> DEFINE n == Len(auth)
           p == SubSeq(auth, j + 1, n)
           w == SubSeq(p, 1 + 1, n - j)
<1> SUFFICES ASSUME j < n PROVE PortBegins(auth, j)
  BY DEF PortBegins
<1>1. j \in Nat /\ n \in 0..n /\ n \in Nat /\ n - j \in Nat /\ j <= n /\ 1 <= n - j /\ 1 \in 1..n - j
  BY DEF Text
<1>2. p \in Text /\ Len(p) = n - j /\ \A k \in 1..n - j : p[k] = auth[j + k]
  BY <1>1, Cut
<1>3. p[1] = ":" /\ ~Uri!Has(w, {":", "@", "[", "]"})
  <2>1. p # <<>>
    <3>1. Len(p) # 0
      BY <1>1, <1>2
    <3> HIDE DEF p
    <3> QED
      BY <3>1
  <2>2. Tail(p) = SubSeq(p, 2, Len(p))
    BY <1>2, <2>1, TailIs
  <2>3. Tail(p) = w
    BY <1>2, <2>2
  <2> HIDE DEF p, w
  <2>4. IsPort(p)
    BY DEF p
  <2> QED
    BY <2>1, <2>3, <2>4 DEF IsPort
<1> HIDE DEF p
<1>4. w \in Text /\ Len(w) = (n - j) - 1 /\ \A k \in 1..(n - j) - 1 : w[k] = p[1 + k]
  <2>1. 1 \in Nat /\ n - j \in 0..Len(p)
    BY <1>1, <1>2
  <2> QED
    BY <1>1, <1>2, <2>1, Cut
<1>5. ASSUME NEW m \in j + 2..n PROVE auth[m] \notin {":", "@", "[", "]"}
  <2> DEFINE k == m - (j + 1)
  <2>1. k \in 1..(n - j) - 1 /\ 1 + k \in 1..n - j /\ j + (1 + k) = m /\ k \in 1..Len(w)
    BY <1>1, <1>4
  <2>2. w[k] = auth[m]
    BY <1>2, <1>4, <2>1
  <2> HIDE DEF w, k
  <2> QED
    BY <1>3, <1>4, <2>1, <2>2, HasIs
<1>6. auth[j + 1] = ":"
  BY <1>1, <1>2, <1>3
<1> QED
  BY <1>5, <1>6 DEF PortBegins

(* IsHost, place by place. *)
LEMMA HostIs ==
    ASSUME NEW auth \in Text, NEW i \in 0..Len(auth), NEW j \in i..Len(auth),
           Uri!IsHost(SubSeq(auth, i + 1, j))
    PROVE  PlainHost(auth, i, j) \/ (parser = "rfc3986" /\ BracketedHost(auth, i, j))
<1> DEFINE l == j - i
           h == SubSeq(auth, i + 1, j)
           w == SubSeq(h, 1 + 1, l - 1)
<1>1. i \in Nat /\ j \in 0..Len(auth) /\ i <= j /\ l \in Nat /\ i + l = j
  BY DEF Text
<1>2. h \in Text /\ Len(h) = l /\ \A k \in 1..l : h[k] = auth[i + k]
  BY <1>1, Cut
<1>3. ASSUME NEW m \in i + 1..j PROVE m - i \in 1..l /\ i + (m - i) = m
  BY <1>1
<1>4. \/ ~Uri!Has(h, {":", "@", "[", "]"})
      \/ /\ parser = "rfc3986" /\ l >= 2 /\ h[1] = "[" /\ h[l] = "]"
         /\ ~Uri!Has(w, {"@", "[", "]"})
  <2> HIDE DEF h, l
  <2>1. Uri!IsHost(h)
    BY DEF h
  <2> QED
    BY <1>2, <2>1 DEF Uri!IsHost
<1> HIDE DEF h, l
<1>5. CASE ~Uri!Has(h, {":", "@", "[", "]"})
  <2>1. ASSUME NEW m \in i + 1..j PROVE auth[m] \notin {":", "@", "[", "]"}
    <3>1. h[m - i] = auth[m] /\ m - i \in 1..Len(h)
      BY <1>2, <1>3
    <3> QED
      BY <1>2, <1>5, <3>1, HasIs
  <2> QED
    BY <2>1 DEF PlainHost
<1>6. CASE /\ parser = "rfc3986" /\ l >= 2 /\ h[1] = "[" /\ h[l] = "]"
           /\ ~Uri!Has(w, {"@", "[", "]"})
  <2>1. w \in Text /\ Len(w) = (l - 1) - 1 /\ \A k \in 1..(l - 1) - 1 : w[k] = h[1 + k]
    <3>1. 1 \in Nat /\ l - 1 \in 0..Len(h) /\ 1 <= l - 1
      BY <1>1, <1>2, <1>6
    <3> QED
      BY <1>2, <3>1, Cut
  <2>2. ASSUME NEW m \in i + 2..j - 1 PROVE auth[m] \notin {"@", "[", "]"}
    <3> DEFINE k == (m - i) - 1
    <3>1. k \in 1..(l - 1) - 1 /\ 1 + k \in 1..l /\ i + (1 + k) = m /\ k \in 1..Len(w)
      BY <1>1, <2>1
    <3>2. w[k] = auth[m]
      BY <1>2, <2>1, <3>1
    <3> HIDE DEF w, k
    <3> QED
      BY <1>6, <2>1, <3>1, <3>2, HasIs
  <2>3. 1 \in 1..l /\ l \in 1..l /\ i + l = j
    BY <1>1, <1>6
  <2>4. auth[i + 1] = "[" /\ auth[j] = "]"
    BY <1>2, <1>6, <2>3
  <2> QED
    BY <1>6, <2>2, <2>4 DEF BracketedHost, l
<1> QED
  BY <1>4, <1>5, <1>6

(* A host and port that stand alone behind the userinfo are what either     *)
(* parser finds.                                                            *)
LEMMA HostAndPortAreRead ==
    ASSUME NEW auth \in Text, NEW i \in 0..Len(auth), NEW j \in i..Len(auth),
           UserEnds(auth, i), PortBegins(auth, j),
           PlainHost(auth, i, j) \/ (parser = "rfc3986" /\ BracketedHost(auth, i, j)),
           NEW hp, hp = IF parser = "minimal" THEN Uri!AuthorityMinimal(auth) ELSE Uri!AuthorityRfc3986(auth)
    PROVE  hp.host = SubSeq(auth, i + 1, j) /\ hp.port = SubSeq(auth, (j + 1) + 1, Len(auth))
<1> DEFINE h == SubSeq(auth, i + 1, Len(auth))
<1>1. Uri!HostPort(auth) = h
  BY UserIsRead
<1>2. CASE PlainHost(auth, i, j)
  <2>1. /\ Uri!SplitAtLastColon(h) = [host |-> SubSeq(auth, i + 1, j), port |-> SubSeq(auth, (j + 1) + 1, Len(auth))]
        /\ Len(h) < 2 \/ h[1] # "["
    BY <1>2, PlainHostIsRead
  <2> HIDE DEF h
  <2>2. hp = Uri!SplitAtLastColon(h)
    BY <1>1, <2>1 DEF Uri!AuthorityMinimal, Uri!AuthorityRfc3986
  <2> QED
    BY <2>1, <2>2
<1>3. CASE parser = "rfc3986" /\ BracketedHost(auth, i, j)
  <2>1. hp = Uri!AuthorityRfc3986(auth)
    BY <1>3
  <2> QED
    BY <1>1, <1>3, <2>1, BracketedHostIsRead
<1> QED
  BY <1>2, <1>3

(* An authority that can be read as userinfo@host:port is read so: every    *)
(* reading of that form, whatever its length, is the parser's.              *)
THEOREM AuthorityIsReadHolds ==
    ASSUME MaxRest \in Nat, MaxUriLen \in Nat PROVE Uri!Spec => []AuthorityIsRead
<1>1. UInv => AuthorityIsRead
  <2> SUFFICES ASSUME UInv, Uri!Parsed PROVE AuthorityIsRead
    BY DEF AuthorityIsRead, Uri!AuthorityIsRead
  <2> DEFINE t == uri_text
             v == Uri!Read(uri)
             auth == v.authority
  <2>1. t \in Text /\ v = Found(t)
    BY FoundIsRead
  <2>2. auth \in Text /\ \/ v.host = <<>> /\ v.port = <<>> /\ auth = <<>>
                         \/ LET hp == IF parser = "minimal" THEN Uri!AuthorityMinimal(auth)
                                      ELSE Uri!AuthorityRfc3986(auth)
                            IN v.host = hp.host /\ v.port = hp.port
    <3>1. CASE Uri!SchemeEnd(t) = 0
      BY <2>1, <3>1 DEF Found, Uri!ParseMinimal, Uri!ParseRfc3986, Uri!ViewWith, Uri!View, Uri!NoAuthority, Text
    <3>2. CASE Uri!SchemeEnd(t) # 0
      <4> DEFINE a == Uri!Authority(t, IF parser = "minimal" THEN {"/"} ELSE {"/", "?", "#"})
      <4>1. Part(a, t)
        BY <2>1, AuthorityIsPart
      <4>2. auth = a
        BY <2>1, <3>2 DEF Found, Uri!ParseMinimal, Uri!ParseRfc3986, Uri!ViewWith, Uri!View
      <4>3. auth \in Text
        BY <4>1, <4>2 DEF Part
      <4>4. LET hp == IF parser = "minimal" THEN Uri!AuthorityMinimal(a) ELSE Uri!AuthorityRfc3986(a)
            IN v.host = hp.host /\ v.port = hp.port
        BY <2>1, <3>2 DEF Found, Uri!ParseMinimal, Uri!ParseRfc3986, Uri!ViewWith, Uri!View
      <4> HIDE DEF a, v
      <4> QED
        BY <4>2, <4>3, <4>4
    <3> QED
      BY <3>1, <3>2
  <2> HIDE DEF v
  <2>3. ASSUME NEW i \in 0..Len(auth), NEW j \in i..Len(auth),
               IsUser(SubSeq(auth, 0 + 1, i)), Uri!IsHost(SubSeq(auth, i + 1, j)),
               IsPort(SubSeq(auth, j + 1, Len(auth)))
        PROVE  /\ v.host = SubSeq(auth, i + 1, j)
               /\ v.port = SubSeq(auth, (j + 1) + 1, Len(auth))
               /\ Uri!Userinfo(v) = SubSeq(auth, 0 + 1, i - 1)
    <3> DEFINE A == v.authority
    <3>0. j \in 0..Len(A)
      BY <2>2 DEF Text
    <3>1. UserEnds(A, i) /\ PortBegins(A, j)
          /\ (PlainHost(A, i, j) \/ (parser = "rfc3986" /\ BracketedHost(A, i, j)))
      BY <2>2, <2>3, <3>0, UserIs, PortIs, HostIs
    <3>2. Uri!Userinfo(v) = SubSeq(A, 1, i - 1)
      BY <2>2, <3>1, UserIsRead DEF Uri!Userinfo
    <3>3. CASE v.host = <<>> /\ v.port = <<>> /\ A = <<>>
      <4>1. i = 0 /\ j = 0 /\ Len(A) = 0
        BY <3>3
      <4>2. /\ i + 1 \in Int /\ j \in Int /\ j <= i /\ i \in Int
            /\ Len(A) <= j + 1 /\ Len(A) \in Int /\ j + 1 \in Int
        BY <4>1
      <4>3. SubSeq(A, i + 1, j) = <<>> /\ SubSeq(A, (j + 1) + 1, Len(A)) = <<>>
        BY <2>2, <4>2, CutNothing
      <4> QED
        BY <3>2, <3>3, <4>3
    <3>4. CASE LET hp == IF parser = "minimal" THEN Uri!AuthorityMinimal(A) ELSE Uri!AuthorityRfc3986(A)
               IN v.host = hp.host /\ v.port = hp.port
      <4> DEFINE hp == IF parser = "minimal" THEN Uri!AuthorityMinimal(A) ELSE Uri!AuthorityRfc3986(A)
      <4>1. hp.host = SubSeq(A, i + 1, j) /\ hp.port = SubSeq(A, (j + 1) + 1, Len(A))
        BY <2>2, <3>1, HostAndPortAreRead
      <4> QED
        BY <3>2, <3>4, <4>1
    <3> QED
      BY <2>2, <3>3, <3>4
  <2> QED
    BY <2>3 DEF AuthorityIsRead, Uri!AuthorityIsRead, IsUser, IsPort, v
<1> QED
  BY UInvInit, UInvStep, <1>1, PTL DEF Uri!Spec, Uri!vars, uri_vars

(* A text is what lies before the first character of a set, that character,  *)
(* and what lies behind it.                                                  *)
LEMMA MadeOf ==
    ASSUME NEW s \in Text, NEW C
    PROVE  LET before == Uri!Before(s, C)  after == Uri!After(s, C)
           IN  /\ before \in Text /\ after \in Text /\ ~Uri!Has(before, C)
               /\ Uri!Has(s, C) => s = before \o (<<s[Uri!Find(s, C)]>> \o after)
               /\ ~Uri!Has(s, C) => before = s /\ after = <<>>
               /\ LET behind == SubSeq(s, Len(before) + 1, Len(s))
                  IN  behind \in Text /\ s = before \o behind /\ (behind # <<>> => behind[1] \in C)
<1> DEFINE before == Uri!Before(s, C)
           after == Uri!After(s, C)
           k == Uri!Find(s, C)
           behind == SubSeq(s, Len(before) + 1, Len(s))
<1>0. Len(s) \in Nat
  BY DEF Text
<1>1. before \in Text /\ after \in Text
  BY CutsArePart DEF Part
<1>2. CASE Uri!Has(s, C)
  <2>1. k \in 1..Len(s) /\ s[k] \in C /\ \A i \in 1..k - 1 : s[i] \notin C
    BY <1>2, FindIs DEF Uri!Has
  <2>2. before = SubSeq(s, 0 + 1, k - 1) /\ after = SubSeq(s, k + 1, Len(s))
    <3>1. before = SubSeq(s, 1, k - 1) /\ after = SubSeq(s, k + 1, Len(s))
      BY <1>2 DEF Uri!Before, Uri!After
    <3> HIDE DEF k, before, after
    <3>2. 0 + 1 = 1
      OBVIOUS
    <3> QED
      BY <3>1, <3>2
  <2> HIDE DEF before, after, k
  <2> DEFINE m == k - 1
  <2>3. 0 \in Nat /\ m \in 0..Len(s) /\ 0 <= m /\ m - 0 = m /\ m + 1 = k
    BY <1>0, <2>1
  <2> HIDE DEF m
  <2>4. before \in Text /\ Len(before) = m /\ \A i \in 1..m : before[i] = s[i]
    <3>1. before = SubSeq(s, 0 + 1, m)
      BY <2>2 DEF m
    <3>2. SubSeq(s, 0 + 1, m) \in Text /\ Len(SubSeq(s, 0 + 1, m)) = m - 0
          /\ \A i \in 1..m - 0 : SubSeq(s, 0 + 1, m)[i] = s[0 + i]
      BY <2>3, Cut
    <3> QED
      BY <2>3, <3>1, <3>2
  <2>5. ~Uri!Has(before, C)
    <3>1. \A i \in 1..Len(before) : before[i] \notin C
      BY <2>1, <2>4 DEF m
    <3> QED
      BY <2>4, <3>1, HasIs
  <2>6. behind = SubSeq(s, k, Len(s)) /\ before = SubSeq(s, 1, k - 1)
    BY <2>2, <2>3, <2>4
  <2>7. s = before \o behind
    <3>1. /\ 1 \in 1..Len(s) + 1 /\ k - 1 \in 1 - 1..Len(s) /\ Len(s) \in k - 1..Len(s)
          /\ (k - 1) + 1 = k
      BY <1>0, <2>1
    <3>2. SubSeq(s, 1, k - 1) \o SubSeq(s, (k - 1) + 1, Len(s)) = SubSeq(s, 1, Len(s))
      BY <3>1, ConcatAdjacentSubSeq DEF Text
    <3>3. SubSeq(s, 1, Len(s)) = s
      BY SubSeqFull DEF Text
    <3> QED
      BY <2>6, <3>1, <3>2, <3>3
  <2>8. behind = <<s[k]>> \o after
    <3>1. k \in 1..Len(s) + 1 /\ k \in k - 1..Len(s) /\ Len(s) \in k..Len(s)
      BY <1>0, <2>1
    <3>2. SubSeq(s, k, k) \o SubSeq(s, k + 1, Len(s)) = SubSeq(s, k, Len(s))
      BY <3>1, ConcatAdjacentSubSeq DEF Text
    <3>3. SubSeq(s, k, k) = <<s[k]>>
      <4> DEFINE q == SubSeq(s, m + 1, k)
                 r == <<s[k]>>
      <4>1. m \in Nat /\ k \in 0..Len(s) /\ m <= k /\ k - m = 1 /\ m + 1 = k
        BY <1>0, <2>1, <2>3
      <4>2. q \in Text /\ Len(q) = k - m /\ \A i \in 1..k - m : q[i] = s[m + i]
        BY <4>1, Cut
      <4>3. r \in Text /\ Len(r) = 1 /\ r[1] = s[k]
        BY <2>1 DEF Text
      <4> HIDE DEF q, r
      <4>4. Len(q) = Len(r) /\ \A i \in 1..Len(q) : q[i] = r[i]
        BY <4>1, <4>2, <4>3
      <4>5. q = r
        BY <4>2, <4>3, <4>4, SameText
      <4> QED
        BY <4>1, <4>5 DEF q, r
    <3> QED
      BY <2>2, <2>6, <3>2, <3>3
  <2>9. behind \in Text /\ behind[1] \in C
    <3>1. m \in Nat /\ m <= Len(s) /\ Len(s) \in 0..Len(s) /\ 1 \in 1..Len(s) - m
      BY <1>0, <2>1, <2>3
    <3>2. behind = SubSeq(s, m + 1, Len(s))
      BY <2>3, <2>6
    <3>3. behind \in Text /\ \A i \in 1..Len(s) - m : behind[i] = s[m + i]
      BY <3>1, <3>2, Cut
    <3> QED
      BY <2>1, <2>3, <3>1, <3>3
  <2> HIDE DEF behind
  <2> QED
    BY <1>1, <1>2, <2>5, <2>7, <2>8, <2>9 DEF before, after, behind, k
<1>3. CASE ~Uri!Has(s, C)
  <2>1. before = s /\ after = <<>>
    BY <1>3 DEF Uri!Before, Uri!After
  <2> HIDE DEF before, after
  <2>2. behind = <<>>
    BY <1>0, <2>1, CutNothing
  <2>3. s = s \o <<>> /\ <<>> \in Text
    BY ConcatEmptySeq DEF Text
  <2> QED
    BY <1>1, <1>3, <2>1, <2>2, <2>3 DEF before, after
<1> QED
  BY <1>2, <1>3

(* No character of the set lies before the first of them. *)
LEMMA BeforeIs ==
    ASSUME NEW s \in Text, NEW C PROVE Uri!Before(s, C) \in Text /\ ~Uri!Has(Uri!Before(s, C), C)
<1>1. LET before == Uri!Before(s, C) IN before \in Text /\ ~Uri!Has(before, C)
  BY MadeOf
<1> QED
  BY <1>1

(* Texts put together. *)
LEMMA Concat ==
    ASSUME NEW a \in Text, NEW b \in Text, NEW c \in Text
    PROVE  /\ a \o b \in Text /\ (a \o b) \o c = a \o (b \o c)
           /\ a \o <<>> = a /\ <<>> \o a = a /\ <<>> \in Text
  BY ConcatAssociative, ConcatEmptySeq, ConcatProperties DEF Text

(* It does not matter in which order they are put together. *)
LEMMA Concatenated ==
    ASSUME NEW a \in Text, NEW b \in Text, NEW c \in Text PROVE (a \o b) \o c = a \o (b \o c)
  BY ConcatAssociative DEF Text

(* The query's '?' is never behind the fragment's '#'. *)
NoLateQuery(s) == \A i, j \in 1..Len(s) : i < j /\ s[i] = "#" => s[j] # "?"

(* Path, query and fragment with their delimiters are the text they were
   split from, if no "?" stands behind a "#". *)
LEMMA PathQueryFragmentMakeIt ==
    ASSUME NEW s \in Text, NoLateQuery(s), NEW v, v = Uri!PathQueryFragment(s)
    PROVE  /\ v.path \in Text
           /\ \E q \in Uri!With(<<"?">>, v.query), f \in Uri!With(<<"#">>, v.fragment) :
                 q \in Text /\ f \in Text /\ s = (v.path \o q) \o f
           /\ ~Uri!Has(v.path, {"?", "#"}) /\ ~Uri!Has(v.query, {"#"})
<1> DEFINE D == {"?", "#"}
           k == Uri!Find(s, D)
           Q == Uri!After(s, {"?"})
<1>0. Len(s) \in Nat /\ <<>> \in Text /\ <<"?">> \in Text /\ <<"#">> \in Text
  BY DEF Text, Characters
<1>1. v.path = Uri!Before(s, D) /\ v.query = Uri!Before(Q, {"#"})
      /\ v.fragment = IF Uri!Has(s, {"?"}) THEN Uri!After(Q, {"#"}) ELSE Uri!After(s, {"#"})
  BY DEF Uri!PathQueryFragment
<1>2. v.path \in Text /\ ~Uri!Has(v.path, D)
  <2>1. Uri!Before(s, D) \in Text /\ ~Uri!Has(Uri!Before(s, D), D)
    BY BeforeIs
  <2> QED
    BY <1>1, <2>1
<1>3. Q \in Text /\ (~Uri!Has(s, {"?"}) => Q = <<>>)
  BY MadeOf
<1>4. v.query \in Text /\ ~Uri!Has(v.query, {"#"})
  <2> HIDE DEF Q
  <2>1. Uri!Before(Q, {"#"}) \in Text /\ ~Uri!Has(Uri!Before(Q, {"#"}), {"#"})
    BY <1>3, BeforeIs
  <2> QED
    BY <1>1, <2>1
<1>5. ASSUME Q = <<>> PROVE v.query = <<>>
  <2>1. ~Uri!Has(<<>>, {"#"})
    BY <1>0, HasIs
  <2> QED
    BY <1>1, <1>5, <2>1 DEF Uri!Before
<1>6. ASSUME NEW delim \in Text, NEW part \in Text
      PROVE  delim \o part \in Uri!With(delim, part) /\ delim \o part \in Text
  BY <1>6, Concat DEF Uri!With
<1>7. <<>> \in Uri!With(<<"?">>, <<>>) /\ <<>> \in Uri!With(<<"#">>, <<>>)
  BY DEF Uri!With
<1>8. Uri!Has(s, D) => k \in 1..Len(s) /\ s[k] \in D /\ \A i \in 1..k - 1 : s[i] \notin D
  BY FindIs DEF Uri!Has
<1>9. Uri!Has(s, D) => s = v.path \o (<<s[k]>> \o Uri!After(s, D))
  BY <1>1, MadeOf
<1>10. Uri!After(s, D) \in Text
  BY MadeOf
<1>11. \E q \in Uri!With(<<"?">>, v.query), f \in Uri!With(<<"#">>, v.fragment) :
          q \in Text /\ f \in Text /\ s = (v.path \o q) \o f
  <2>1. CASE ~Uri!Has(s, D)
    <3>1. ~Uri!Has(s, {"?"}) /\ ~Uri!Has(s, {"#"})
      BY <2>1, HasIs
    <3>2. v.path = s /\ v.query = <<>> /\ v.fragment = <<>>
      BY <1>1, <1>3, <1>5, <2>1, <3>1, MadeOf
    <3>3. s = (s \o <<>>) \o <<>>
      BY <1>0, Concat
    <3> QED
      BY <1>0, <1>7, <3>2, <3>3
  <2>2. CASE Uri!Has(s, D) /\ s[k] = "#"
    <3>1. ~Uri!Has(s, {"?"})
      <4>1. ASSUME NEW i \in 1..Len(s) PROVE s[i] # "?"
        BY <1>8, <2>2 DEF NoLateQuery
      <4> QED
        BY <4>1, HasIs
    <3>2. Uri!Find(s, {"#"}) = k
      <4>1. k \in 1..Len(s) /\ s[k] \in {"#"} /\ \A i \in 1..k - 1 : s[i] \notin {"#"}
        BY <1>8, <2>2
      <4> QED
        BY <4>1, FirstIs
    <3>3. v.fragment = Uri!After(s, D) /\ v.query = <<>>
      BY <1>1, <1>3, <1>5, <2>2, <3>1, <3>2 DEF Uri!After, Uri!Has
    <3> DEFINE f == <<"#">> \o v.fragment
    <3>4. f \in Uri!With(<<"#">>, v.fragment) /\ f \in Text
      BY <1>0, <1>6, <1>10, <3>3
    <3>5. s = v.path \o f
      BY <1>9, <2>2, <3>3
    <3> HIDE DEF f
    <3>6. s = (v.path \o <<>>) \o f
      BY <1>2, <3>4, <3>5, Concat
    <3> QED
      BY <1>0, <1>7, <3>3, <3>4, <3>6
  <2>3. CASE Uri!Has(s, D) /\ s[k] = "?"
    <3>1. Uri!Find(s, {"?"}) = k
      <4>1. k \in 1..Len(s) /\ s[k] \in {"?"} /\ \A i \in 1..k - 1 : s[i] \notin {"?"}
        BY <1>8, <2>3
      <4> QED
        BY <4>1, FirstIs
    <3>2. Q = Uri!After(s, D) /\ Uri!Has(s, {"?"})
      BY <2>3, <3>1 DEF Uri!After, Uri!Has
    <3>3. s = v.path \o (<<"?">> \o Q) /\ v.fragment = Uri!After(Q, {"#"})
      BY <1>1, <1>9, <2>3, <3>2
    <3> HIDE DEF Q
    <3> DEFINE q == <<"?">> \o v.query
               f == <<"#">> \o v.fragment
    <3>4. q \in Uri!With(<<"?">>, v.query) /\ q \in Text
      BY <1>0, <1>4, <1>6
    <3>5. CASE Uri!Has(Q, {"#"})
      <4>1. Q[Uri!Find(Q, {"#"})] \in {"#"}
        BY <1>3, <3>5, FindIs DEF Uri!Has
      <4>2. Q = v.query \o f
        BY <1>1, <1>3, <3>3, <3>5, <4>1, MadeOf
      <4>3. f \in Uri!With(<<"#">>, v.fragment) /\ f \in Text
        <5>1. v.fragment \in Text
          BY <1>3, <3>3, MadeOf
        <5> QED
          BY <1>0, <1>6, <5>1
      <4> HIDE DEF f
      <4> DEFINE mark == <<"?">>
      <4>4. mark \in Text /\ q = mark \o v.query /\ s = v.path \o (mark \o Q)
        BY <1>0, <3>3
      <4> HIDE DEF q, mark
      <4>5. /\ (mark \o v.query) \o f = mark \o (v.query \o f)
            /\ (v.path \o q) \o f = v.path \o (q \o f)
        <5> DEFINE path == v.path
                   query == v.query
        <5>1. path \in Text /\ query \in Text /\ mark \in Text /\ q \in Text /\ f \in Text
          BY <1>2, <1>4, <3>4, <4>3, <4>4
        <5> HIDE DEF path, query
        <5>2. (mark \o query) \o f = mark \o (query \o f)
          BY <5>1, Concatenated, Zenon
        <5>3. (path \o q) \o f = path \o (q \o f)
          BY <5>1, Concatenated
        <5> QED
          BY <5>2, <5>3, Zenon DEF path, query
      <4>6. s = (v.path \o q) \o f
        BY <4>2, <4>4, <4>5
      <4> QED
        BY <3>4, <4>3, <4>6
    <3>6. CASE ~Uri!Has(Q, {"#"})
      <4>1. v.query = Q /\ v.fragment = <<>>
        BY <1>1, <1>3, <3>3, <3>6, MadeOf
      <4>2. s = v.path \o q
        BY <3>3, <4>1
      <4> HIDE DEF q
      <4>3. s = (v.path \o q) \o <<>>
        BY <1>0, <1>2, <3>4, <4>2, Concat
      <4> QED
        BY <1>0, <1>7, <3>4, <4>1, <4>3
    <3> QED
      BY <3>5, <3>6
  <2> QED
    BY <1>8, <2>1, <2>2, <2>3
<1> QED
  BY <1>2, <1>4, <1>11

(* A plain text has no "?" behind a "#". *)
LEMMA PlainIs == ASSUME NEW s \in Text, ~Uri!Has(Uri!After(s, {"#"}), {"?"}) PROVE NoLateQuery(s)
<1> SUFFICES ASSUME NEW i \in 1..Len(s), NEW j \in 1..Len(s), i < j, s[i] = "#", s[j] = "?" PROVE FALSE
  BY DEF NoLateQuery
<1> DEFINE k == Uri!Find(s, {"#"})
           after == SubSeq(s, k + 1, Len(s))
<1>0. Len(s) \in Nat
  BY DEF Text
<1>1. k \in 1..Len(s) /\ \A m \in 1..k - 1 : s[m] \notin {"#"}
  BY FindIs
<1>2. Uri!After(s, {"#"}) = after
  <2>1. k # 0
    BY <1>1
  <2> HIDE DEF k
  <2> QED
    BY <2>1 DEF Uri!After, Uri!Has, k
<1> HIDE DEF k
<1>3. k \in Nat /\ Len(s) \in 0..Len(s) /\ k <= Len(s) /\ j - k \in 1..Len(s) - k /\ k + (j - k) = j
  <2>1. ~(i < k)
    BY <1>1
  <2> QED
    BY <1>0, <1>1, <2>1
<1>4. after \in Text /\ Len(after) = Len(s) - k /\ \A m \in 1..Len(s) - k : after[m] = s[k + m]
  BY <1>3, Cut
<1> HIDE DEF after
<1>5. j - k \in 1..Len(after) /\ after[j - k] \in {"?"}
  BY <1>3, <1>4
<1> QED
  BY <1>2, <1>4, <1>5, HasIs

(* A text with a scheme is the scheme, "://", the authority and the rest.    *)
LEMMA HeadMakesIt ==
    ASSUME NEW t \in Text, NoLateQuery(t), Uri!SchemeEnd(t) # 0,
           NEW C, NEW a, a = Uri!Authority(t, C)
    PROVE  LET colon == Uri!SchemeEnd(t)
               head == (SubSeq(t, 1, colon - 1) \o <<":", "/", "/">>) \o a
               r == Uri!From(t, colon + 3 + Len(a))
           IN  /\ head \in Text /\ r \in Text /\ t = head \o r
               /\ ~Uri!Has(a, C) /\ NoLateQuery(r) /\ (r # <<>> => r[1] \in C)
<1> DEFINE n == Len(t)
           colon == Uri!SchemeEnd(t)
           scheme == SubSeq(t, 1, colon - 1)
           mark == <<":", "/", "/">>
           rest == SubSeq(t, (colon + 2) + 1, n)
           r == SubSeq(rest, Len(a) + 1, n - (colon + 2))
<1>0. n \in Nat /\ colon \in 1..n - 2 /\ SubSeq(t, colon, colon + 2) = mark
  BY SchemeEndIs DEF Text
<1>1. mark \in Text
  BY DEF Text, Characters
<1> HIDE DEF colon, mark
<1>2. /\ colon + 2 \in Nat /\ colon + 2 <= n /\ colon + 3 = (colon + 2) + 1 /\ n \in 0..n
      /\ colon + 2 \in 0..n /\ n - (colon + 2) \in Nat /\ (colon + 2) + (n - (colon + 2)) = n
  BY <1>0
<1>3. rest \in Text /\ Len(rest) = n - (colon + 2) /\ \A i \in 1..n - (colon + 2) : rest[i] = t[(colon + 2) + i]
  BY <1>2, Cut
<1>4. a = Uri!Before(rest, C)
  <2>1. Uri!From(t, colon + 3) = rest
    BY <1>2 DEF Uri!From
  <2> HIDE DEF rest
  <2> QED
    BY <2>1 DEF Uri!Authority, colon
<1>5. scheme \in Text
  <2>1. Part(SubSeq(t, 0 + 1, colon - 1), t)
    <3>1. 0 \in Nat /\ colon - 1 \in Int /\ colon - 1 <= Len(t)
      BY <1>0
    <3> QED
      BY <3>1, CutIsPart
  <2>2. 0 + 1 = 1
    OBVIOUS
  <2> QED
    BY <2>1, <2>2 DEF Part
<1>6. t = (scheme \o mark) \o rest
  <2>1. /\ 1 \in 1..Len(t) + 1 /\ colon - 1 \in 1 - 1..Len(t) /\ (colon - 1) + 1 = colon
        /\ colon + 2 \in colon - 1..Len(t) /\ colon + 2 \in 1 - 1..Len(t) /\ Len(t) \in colon + 2..Len(t)
    BY <1>0
  <2>2. SubSeq(t, 1, colon - 1) \o SubSeq(t, (colon - 1) + 1, colon + 2) = SubSeq(t, 1, colon + 2)
    BY <2>1, ConcatAdjacentSubSeq DEF Text
  <2>3. SubSeq(t, 1, colon + 2) \o SubSeq(t, (colon + 2) + 1, Len(t)) = SubSeq(t, 1, Len(t))
    BY <2>1, ConcatAdjacentSubSeq DEF Text
  <2>4. SubSeq(t, 1, Len(t)) = t
    BY SubSeqFull DEF Text
  <2>5. SubSeq(t, (colon - 1) + 1, colon + 2) = mark
    BY <1>0, <2>1
  <2>6. scheme \o mark = SubSeq(t, 1, colon + 2)
    BY <2>2, <2>5
  <2> QED
    BY <2>3, <2>4, <2>6
<1> HIDE DEF rest
<1>7. /\ a \in Text /\ ~Uri!Has(a, C) /\ r \in Text
      /\ rest = a \o r /\ (r # <<>> => r[1] \in C)
  <2>1. LET before == Uri!Before(rest, C)
            behind == SubSeq(rest, Len(before) + 1, Len(rest))
        IN  /\ before \in Text /\ ~Uri!Has(before, C) /\ behind \in Text
            /\ rest = before \o behind /\ (behind # <<>> => behind[1] \in C)
    BY <1>3, MadeOf
  <2> QED
    BY <1>3, <1>4, <2>1
<1>8. Uri!From(t, colon + 3 + Len(a)) = r
  <2>1. Len(a) \in Nat
    BY <1>7 DEF Text
  <2>2. r = SubSeq(t, ((colon + 2) + Len(a)) + 1, (colon + 2) + (n - (colon + 2)))
    <3> DEFINE i == colon + 2
               b == n - i
    <3>1. i \in 0..Len(t) /\ b \in Nat /\ i + b <= Len(t)
      BY <1>2
    <3> HIDE DEF i, b
    <3>2. SubSeq(SubSeq(t, i + 1, Len(t)), Len(a) + 1, b) = SubSeq(t, (i + Len(a)) + 1, i + b)
      BY <2>1, <3>1, CutOfCut
    <3> QED
      BY <3>2 DEF i, b, rest
  <2>3. ((colon + 2) + Len(a)) + 1 = colon + 3 + Len(a)
    BY <1>0, <2>1
  <2> QED
    BY <1>2, <2>2, <2>3 DEF Uri!From
<1>9. NoLateQuery(r)
  <2>1. Len(a) \in Nat
    BY <1>7 DEF Text
  <2>2. Len(a) + Len(r) = Len(rest) /\ Len(r) \in Nat
    BY <1>7, ConcatProperties DEF Text
  <2>3. ASSUME NEW i \in 1..Len(r) PROVE /\ (colon + 2) + (Len(a) + i) \in 1..n
                                         /\ r[i] = t[(colon + 2) + (Len(a) + i)]
    <3>1. Len(a) + i \in 1..n - (colon + 2) /\ (colon + 2) + (Len(a) + i) \in 1..n
      BY <1>0, <1>3, <2>1, <2>2
    <3>2. r[i] = rest[Len(a) + i]
      <4> HIDE DEF r
      <4>1. Len(a) <= n - (colon + 2) /\ n - (colon + 2) \in 0..Len(rest) /\ i \in 1..(n - (colon + 2)) - Len(a)
        BY <1>2, <1>3, <2>1, <2>2
      <4> QED
        BY <1>3, <2>1, <4>1, Cut DEF r
    <3> QED
      BY <1>3, <3>1, <3>2
  <2> HIDE DEF r
  <2>4. ASSUME NEW i \in 1..Len(r), NEW j \in 1..Len(r), i < j, r[i] = "#", r[j] = "?" PROVE FALSE
    <3>1. /\ (colon + 2) + (Len(a) + i) \in 1..n /\ (colon + 2) + (Len(a) + j) \in 1..n
          /\ (colon + 2) + (Len(a) + i) < (colon + 2) + (Len(a) + j)
          /\ t[(colon + 2) + (Len(a) + i)] = "#" /\ t[(colon + 2) + (Len(a) + j)] = "?"
      <4>1. (colon + 2) + (Len(a) + i) \in 1..n /\ t[(colon + 2) + (Len(a) + i)] = "#"
        BY <2>3, <2>4
      <4>2. (colon + 2) + (Len(a) + j) \in 1..n /\ t[(colon + 2) + (Len(a) + j)] = "?"
        BY <2>3, <2>4
      <4>3. i \in Nat /\ j \in Nat
        OBVIOUS
      <4>4. (colon + 2) + (Len(a) + i) < (colon + 2) + (Len(a) + j)
        BY <1>2, <2>1, <2>4, <4>3
      <4> QED
        BY <4>1, <4>2, <4>4
    <3> QED
      BY <3>1 DEF NoLateQuery
  <2> QED
    BY <2>4 DEF NoLateQuery
<1> DEFINE start == scheme \o mark
<1>10. start \in Text /\ start \o a \in Text /\ t = (start \o a) \o r
  <2> HIDE DEF r, scheme
  <2>1. start \in Text
    BY <1>1, <1>5, Concat
  <2> HIDE DEF start
  <2>2. start \o a \in Text /\ (start \o a) \o r = start \o (a \o r)
    <3>1. a \in Text /\ r \in Text
      BY <1>7
    <3>2. start \o a \in Text
      BY <2>1, <3>1, Concat
    <3>3. (start \o a) \o r = start \o (a \o r)
      BY <2>1, <3>1, Concatenated
    <3> QED
      BY <3>2, <3>3
  <2>3. t = start \o rest
    BY <1>6 DEF start
  <2> QED
    BY <1>7, <2>1, <2>2, <2>3
<1> HIDE DEF r
<1> QED
  BY <1>7, <1>8, <1>9, <1>10 DEF colon, mark

(* For a plain text the RFC 3986 parser's parts, put together with their    *)
(* delimiters, are the text, and no part holds what would have ended it.    *)
THEOREM PartsMakeTheTextHolds ==
    ASSUME MaxRest \in Nat, MaxUriLen \in Nat PROVE Uri!Spec => []PartsMakeTheText
<1>1. UInv => PartsMakeTheText
  <2> SUFFICES ASSUME UInv, Uri!Parsed, parser = "rfc3986", Uri!Plain(uri_text) PROVE PartsMakeTheText
    BY DEF PartsMakeTheText, Uri!PartsMakeTheText
  <2> DEFINE t == uri_text
             v == Uri!Read(uri)
             colon == Uri!SchemeEnd(t)
             head == IF colon = 0 THEN <<>> ELSE (v.scheme \o <<":", "/", "/">>) \o v.authority
  <2>1. t \in Text /\ v = Uri!ParseRfc3986(t)
    BY FoundIsRead DEF Found
  <2>2. NoLateQuery(t)
    BY <2>1, PlainIs DEF Uri!Plain
  <2>3. PICK r \in Text :
          /\ head \in Text /\ t = head \o r /\ NoLateQuery(r)
          /\ ~Uri!Has(v.authority, {"/", "?", "#"})
          /\ colon # 0 /\ r # <<>> => r[1] \in {"/", "?", "#"}
          /\ LET pqf == Uri!PathQueryFragment(r)
             IN  v.path = pqf.path /\ v.query = pqf.query /\ v.fragment = pqf.fragment
    <3>1. CASE colon = 0
      <4>1. v.authority = <<>>
            /\ LET pqf == Uri!PathQueryFragment(t)
               IN  v.path = pqf.path /\ v.query = pqf.query /\ v.fragment = pqf.fragment
        BY <2>1, <3>1 DEF Uri!ParseRfc3986, Uri!ViewWith, Uri!View
      <4> HIDE DEF v
      <4>2. <<>> \in Text /\ t = <<>> \o t
        BY <2>1, Concat
      <4>3. ~Uri!Has(<<>>, {"/", "?", "#"})
        BY <4>2, HasIs
      <4> QED
        BY <2>1, <2>2, <3>1, <4>1, <4>2, <4>3
    <3>2. CASE colon # 0
      <4> DEFINE C == {"/", "?", "#"}
                 a == Uri!Authority(t, C)
                 rest == Uri!From(t, colon + 3 + Len(a))
      <4>1. v.authority = a /\ v.scheme = SubSeq(t, 1, colon - 1)
            /\ LET pqf == Uri!PathQueryFragment(rest)
               IN  v.path = pqf.path /\ v.query = pqf.query /\ v.fragment = pqf.fragment
        <5> DEFINE scheme == SubSeq(t, 1, colon - 1)
                   hp == Uri!AuthorityRfc3986(a)
                   pqf == Uri!PathQueryFragment(rest)
        <5>1. v = Uri!View(t, scheme, a, hp, pqf)
          <6> HIDE DEF v
          <6> QED
            BY <2>1, <3>2 DEF Uri!ParseRfc3986, Uri!ViewWith
        <5> HIDE DEF v, scheme, a, hp, pqf
        <5>2. v.authority = a /\ v.scheme = scheme
              /\ v.path = pqf.path /\ v.query = pqf.query /\ v.fragment = pqf.fragment
          BY <5>1 DEF Uri!View
        <5> QED
          BY <5>2 DEF scheme, pqf
      <4>2. LET h == (SubSeq(t, 1, colon - 1) \o <<":", "/", "/">>) \o a
            IN  /\ h \in Text /\ rest \in Text /\ t = h \o rest
                /\ ~Uri!Has(a, C) /\ NoLateQuery(rest) /\ (rest # <<>> => rest[1] \in C)
        BY <2>1, <2>2, <3>2, HeadMakesIt
      <4> HIDE DEF v, a, rest
      <4> QED
        BY <3>2, <4>1, <4>2
    <3> QED
      BY <3>1, <3>2
  <2> DEFINE pqf == Uri!PathQueryFragment(r)
  <2>4. /\ pqf.path \in Text
        /\ \E q \in Uri!With(<<"?">>, pqf.query), f \in Uri!With(<<"#">>, pqf.fragment) :
              q \in Text /\ f \in Text /\ r = (pqf.path \o q) \o f
        /\ ~Uri!Has(pqf.path, {"?", "#"}) /\ ~Uri!Has(pqf.query, {"#"})
    BY <2>3, PathQueryFragmentMakeIt
  <2> HIDE DEF v, colon, head, pqf
  <2>5. v.path = pqf.path /\ v.query = pqf.query /\ v.fragment = pqf.fragment
    BY <2>3 DEF pqf
  <2>6. PICK q \in Uri!With(<<"?">>, v.query), f \in Uri!With(<<"#">>, v.fragment) :
             q \in Text /\ f \in Text /\ r = (v.path \o q) \o f
    BY <2>4, <2>5
  <2> DEFINE path == v.path
  <2>7. path \in Text
    BY <2>4, <2>5
  <2>8. t = ((head \o path) \o q) \o f
    <3> HIDE DEF path
    <3>1. r = (path \o q) \o f /\ t = head \o r
      BY <2>3, <2>6 DEF path
    <3>2. head \in Text /\ q \in Text /\ f \in Text
      BY <2>3, <2>6
    <3> DEFINE p == path \o q
    <3>3. p \in Text /\ (head \o path) \o q = head \o p
      <4>1. p \in Text
        BY <2>7, <3>2, Concat
      <4>2. (head \o path) \o q = head \o (path \o q)
        BY <2>7, <3>2, Concatenated
      <4> QED
        BY <4>1, <4>2
    <3> HIDE DEF p
    <3>4. (head \o p) \o f = head \o (p \o f)
      BY <3>2, <3>3, Concatenated
    <3> QED
      BY <3>1, <3>3, <3>4 DEF p
  <2>9. colon # 0 /\ path # <<>> => path[1] = "/"
    <3> SUFFICES ASSUME colon # 0, path # <<>> PROVE path[1] = "/"
      OBVIOUS
    <3> HIDE DEF path
    <3>1. 1 \in 1..Len(path)
      BY <2>7 DEF Text
    <3>2. r = path \o (q \o f) /\ q \o f \in Text
      <4>1. r = (path \o q) \o f
        BY <2>6 DEF path
      <4>2. q \in Text /\ f \in Text
        BY <2>6
      <4>3. (path \o q) \o f = path \o (q \o f)
        BY <2>7, <4>2, Concatenated
      <4>4. q \o f \in Text
        BY <4>2, Concat
      <4> QED
        BY <4>1, <4>3, <4>4
    <3>3. r[1] = path[1] /\ r # <<>>
      BY <2>7, <3>1, <3>2, ConcatProperties DEF Text
    <3>4. path[1] \notin {"?", "#"}
      <4>1. ~Uri!Has(path, {"?", "#"})
        BY <2>4, <2>5 DEF path
      <4> QED
        BY <2>7, <3>1, <4>1, HasIs
    <3> QED
      BY <2>3, <3>3, <3>4
  <2>10. ~Uri!Has(v.path, {"?", "#"}) /\ ~Uri!Has(v.query, {"#"})
    BY <2>4, <2>5
  <2> QED
    BY <2>3, <2>6, <2>8, <2>9, <2>10 DEF PartsMakeTheText, Uri!PartsMakeTheText, head, colon, v
<1> QED
  BY UInvInit, UInvStep, <1>1, PTL DEF Uri!Spec, Uri!vars, uri_vars

-----------------------------------------------------------------------------
(* The types side by side: each behaves as it does by itself, so what is     *)
(* proved of it holds in MCValues as well.                                   *)
THEOREM EachByItself ==
    ASSUME MaxRest \in Nat PROVE MCSpec => Spec /\ FixedString!Spec /\ Message!Spec /\ Uri!Spec
<1> DEFINE mc_vars == <<focus, vars, string_vars, message_vars, uri_vars>>
<1>1. MCInit => Init /\ FixedString!Init /\ Message!Init /\ Uri!Init
  <2>1. <<>> \in UriTexts
    <3>1. <<>> \in [1..0 -> Characters] /\ 0 \in 0..MaxRest
      OBVIOUS
    <3> QED
      BY <3>1 DEF UriTexts, Rests
  <2> QED
    BY <2>1 DEF MCInit, Uri!Init, Uri!Parsers
<1>2. [MCNext]_mc_vars => [Next]_vars
  BY DEF MCNext, ExpectedStep, StringStep, MessageStep, UriStep
<1>3. [MCNext]_mc_vars => [FixedString!Next]_string_vars
  BY DEF MCNext, ExpectedStep, StringStep, MessageStep, UriStep
<1>4. [MCNext]_mc_vars => [Message!Next]_message_vars
  BY DEF MCNext, ExpectedStep, StringStep, MessageStep, UriStep
<1>5. [MCNext]_mc_vars => [Uri!Next]_uri_vars
  BY DEF MCNext, ExpectedStep, StringStep, MessageStep, UriStep
<1> QED
  BY <1>1, <1>2, <1>3, <1>4, <1>5, PTL
     DEF MCSpec, Spec, FixedString!Spec, FixedString!vars, string_vars,
         Message!Spec, Message!vars, message_vars, Uri!Spec, Uri!vars, uri_vars
=============================================================================
