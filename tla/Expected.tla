------------------------------ MODULE Expected ------------------------------
(***************************************************************************)
(* expected<T, E> and expected<void, E> (expected.hpp): a flag beside a    *)
(* union whose member is constructed and destroyed by hand.  Nothing stops *)
(* a destructor from running on a member that does not live, or a          *)
(* constructor from running over one that does.                            *)
(***************************************************************************)
CONSTANTS
    Objects,       \* places for an expected
    VoidObjects,   \* those where T is void, and the union has no member for it
    Values,        \* what a T or an E can be
    Dead           \* what a member is that does not live

Results == [ok : BOOLEAN, of : Values]

ASSUME ExpectedAssumption ==
    VoidObjects \subseteq Objects /\ Dead \notin Values /\ Dead \notin Results

VARIABLES
    object,        \* each place: the expected there
    meant          \* each place: the result it stands for, Dead for none

vars == <<object, meant>>

Result(flag, x) == [ok |-> flag, of |-> x]

Init ==
    /\ object = [o \in Objects |->
          [void |-> o \in VoidObjects, has_value |-> FALSE, val |-> Dead, err |-> Dead,
           misused |-> FALSE]]
    /\ meant = [o \in Objects |-> Dead]

Exists(o) == meant[o] # Dead
SameType(o, p) == o \in VoidObjects <=> p \in VoidObjects

-----------------------------------------------------------------------------
(* The member that the flag stands for; none for a void value. *)
Member(flag) == IF flag THEN "val" ELSE "err"
NoMember(u, flag) == u.void /\ flag

(* destroy() *)
Destroyed(u) ==
    IF NoMember(u, u.has_value) THEN u
    ELSE [u EXCEPT ![Member(u.has_value)] = Dead,
                   !.misused = @ \/ u[Member(u.has_value)] = Dead]

(* The flag, and the placement new. *)
Constructed(u, flag, x) ==
    IF NoMember(u, flag) THEN [u EXCEPT !.has_value = flag]
    ELSE [u EXCEPT !.has_value = flag, ![Member(flag)] = x,
                   !.misused = @ \/ u[Member(flag)] # Dead]

CopyOf(u, other) == Constructed(u, other.has_value, other[Member(other.has_value)])

Becomes(o, u, result) ==
    /\ object' = [object EXCEPT ![o] = u]
    /\ meant' = [meant EXCEPT ![o] = result]

(* The constructors by default, from a value, and from an error. *)
Construct(o, flag, x) ==
    ~Exists(o) /\ Becomes(o, Constructed(object[o], flag, x), Result(flag, x))

(* The copy and the move constructor; what a move leaves behind is what      *)
(* WriteMember() may make of a copy's source.                                *)
CopyConstruct(o, p) ==
    /\ ~Exists(o) /\ Exists(p) /\ SameType(o, p)
    /\ Becomes(o, CopyOf(object[o], object[p]), meant[p])

\* Slip: the flag is copied before destroy() goes by it.
FlagFirst(o, p) ==
    /\ Exists(o) /\ Exists(p) /\ SameType(o, p) /\ o # p
    /\ Becomes(o, CopyOf(Destroyed([object[o] EXCEPT !.has_value = object[p].has_value]),
                         object[p]), meant[p])

\* Slip: no test for an assignment to itself.
NoSelfTest(o, p) ==
    /\ Exists(o) /\ Exists(p) /\ SameType(o, p)
    /\ LET u == Destroyed(object[o])
       IN Becomes(o, CopyOf(u, IF o = p THEN u ELSE object[p]), meant[p])

(* The copy and the move assignment, which does nothing for the object and   *)
(* itself.                                                                   *)
Assign(o, p) ==
    /\ Exists(o) /\ Exists(p) /\ SameType(o, p)
    /\ IF o = p THEN UNCHANGED vars
       ELSE Becomes(o, CopyOf(Destroyed(object[o]), object[p]), meant[p])

(* Through the references of value() and error(), of the member there is;    *)
(* value() and value_or() on a temporary move out of it.                     *)
WriteMember(o, x) ==
    /\ Exists(o) /\ ~NoMember(object[o], object[o].has_value)
    /\ Becomes(o, [object[o] EXCEPT ![Member(object[o].has_value)] = x],
               [meant[o] EXCEPT !.of = x])

Destroy(o) == Exists(o) /\ Becomes(o, Destroyed(object[o]), Dead)

Next ==
    \E o \in Objects :
        \/ \E x \in Values :
              (\E flag \in BOOLEAN : Construct(o, flag, x)) \/ WriteMember(o, x)
        \/ \E p \in Objects : CopyConstruct(o, p) \/ Assign(o, p)
        \/ Destroy(o)

Spec == Init /\ [][Next]_vars

-----------------------------------------------------------------------------
(* While an expected exists exactly the member lives that its flag tells,   *)
(* before and after it none does: no constructor ever ran over a living     *)
(* member, which would leak, and no destructor twice.                       *)
FlagTellsMember ==
    \A o \in Objects :
        /\ ~object[o].misused
        /\ \A flag \in BOOLEAN :
              object[o][Member(flag)] # Dead <=>
                  Exists(o) /\ flag = object[o].has_value /\ ~NoMember(object[o], flag)

(* An expected stands for the result it was given last, through any copies, *)
(* assignments between values and errors, and assignments to itself.        *)
StandsForResult ==
    \A o \in Objects :
        Exists(o) =>
            /\ object[o].has_value = meant[o].ok
            /\ NoMember(object[o], meant[o].ok) \/ object[o][Member(meant[o].ok)] = meant[o].of
=============================================================================
