----------------------------- MODULE FixedString -----------------------------
(***************************************************************************)
(* fixed_string<N> (fixed_string.hpp): N + 1 characters and a size.  It is *)
(* assigned from views, which may look into the very string that is being  *)
(* assigned to, and nothing ever wipes what a longer text left behind.     *)
(***************************************************************************)
EXTENDS Integers, Sequences

CONSTANTS
    Strings,       \* the strings
    N,             \* the capacity
    MaxChar        \* characters are 0..MaxChar, and 0 is the one that ends a C string

VARIABLES
    data,          \* each string: data_
    size,          \* each string: size_
    text           \* each string: the text it was given, kept to state properties

vars == <<data, size, text>>

Chars == 0..MaxChar
Texts == UNION {[1..n -> Chars] : n \in 0..N + 1}
Shorter(m, n) == IF m < n THEN m ELSE n

(* string_view(data_, size_) *)
Value(s) == SubSeq(data[s], 1, size[s])

(* A view: a text elsewhere, or part of the value of the string assigned to. *)
Elsewhere(t) == [own |-> FALSE, at |-> 0, chars |-> t]
Inside(s) == {[own |-> TRUE, at |-> i, chars |-> SubSeq(Value(s), i + 1, j)] :
                 i \in 0..size[s], j \in 0..size[s]}
Views(s) == {Elsewhere(t) : t \in Texts} \cup Inside(s)

Init ==
    /\ data = [s \in Strings |-> [i \in 1..N + 1 |-> 0]]
    /\ size = [s \in Strings |-> 0]
    /\ text = [s \in Strings |-> <<>>]

-----------------------------------------------------------------------------
(* sv[i], read from the characters as they are by then. *)
At(view, chars, i) == IF view.own THEN chars[view.at + i] ELSE view.chars[i]

\* Slip: the terminator is written before the characters.
TerminatedFirst(chars, view, n) ==
    LET copied[i \in 0..n] ==
            IF i = 0 THEN [chars EXCEPT ![n + 1] = 0]
            ELSE [copied[i - 1] EXCEPT ![i] = At(view, copied[i - 1], i)]
    IN copied[n]

(* The loop that every constructor and assignment has, and the terminator. *)
Copied(chars, view, n) ==
    LET copied[i \in 0..n] ==
            IF i = 0 THEN chars
            ELSE [copied[i - 1] EXCEPT ![i] = At(view, copied[i - 1], i)]
    IN [copied[n] EXCEPT ![n + 1] = 0]

Fills(s, chars, view, n) ==
    /\ data' = [data EXCEPT ![s] = Copied(chars, view, n)]
    /\ size' = [size EXCEPT ![s] = n]
    /\ text' = [text EXCEPT ![s] = SubSeq(view.chars, 1, n)]

(* The constructors from a view, a C string or another fixed_string: what    *)
(* does not fit is cut off.  A C string ends at its first 0.                 *)
CString(t) == SubSeq(t, 1, CHOOSE n \in 0..Len(t) :
                  (\A i \in 1..n : t[i] # 0) /\ (n = Len(t) \/ t[n + 1] = 0))

Construct(s, t) ==
    Fills(s, [i \in 1..N + 1 |-> 0], Elsewhere(t), Shorter(Len(t), N))

ConstructFromCString(s, t) == Construct(s, CString(t))

FromOrTruncate(s, view) == Fills(s, data[s], view, Shorter(Len(view.chars), N))

(* checked_from() refuses what does not fit before it has touched anything. *)
CheckedFrom(s, view) ==
    IF Len(view.chars) > N THEN UNCHANGED vars
    ELSE Fills(s, data[s], view, Len(view.chars))

(* The copies the compiler makes take the whole array along. *)
CopyWhole(s, o) ==
    /\ data' = [data EXCEPT ![s] = data[o]]
    /\ size' = [size EXCEPT ![s] = size[o]]
    /\ text' = [text EXCEPT ![s] = text[o]]

(* A write through the reference that operator[] returns. *)
SetChar(s, i, c) ==
    /\ i <= size[s]
    /\ data' = [data EXCEPT ![s][i] = c]
    /\ text' = [text EXCEPT ![s][i] = c]
    /\ UNCHANGED size

Next ==
    \E s \in Strings :
        \/ \E t \in Texts : Construct(s, t) \/ ConstructFromCString(s, t)
        \/ \E view \in Views(s) : FromOrTruncate(s, view) \/ CheckedFrom(s, view)
        \/ \E o \in Strings : CopyWhole(s, o)
        \/ \E i \in 1..N, c \in Chars : SetChar(s, i, c)

Spec == Init /\ [][Next]_vars

-----------------------------------------------------------------------------
\* Slip: all the characters are compared.
EqualArrays(s, o) == size[s] = size[o] /\ data[s] = data[o]

(* operator==, and operator<, which is string_view's. *)
Equal(s, o) == size[s] = size[o] /\ \A i \in 1..size[s] : data[s][i] = data[o][i]

LessText(a, b) ==
    \E n \in 0..Shorter(Len(a), Len(b)) :
        /\ SubSeq(a, 1, n) = SubSeq(b, 1, n)
        /\ n < Len(b) /\ (n = Len(a) \/ (n < Len(a) /\ a[n + 1] < b[n + 1]))

Less(s, o) == LessText(Value(s), Value(o))

(* A string reads as the text it was given, cut where it did not fit, and   *)
(* as a C string it ends behind it, although texts are copied over longer   *)
(* ones and out of the string itself.                                       *)
KeepsText ==
    \A s \in Strings : Value(s) = text[s] /\ data[s][size[s] + 1] = 0

(* Two strings are equal exactly if neither is less: == reads the arrays in *)
(* a loop of its own, < through views, and neither may see what an earlier  *)
(* text has left behind the size.                                           *)
OrderIsTotal ==
    \A s, o \in Strings : Equal(s, o) <=> ~Less(s, o) /\ ~Less(o, s)
=============================================================================
