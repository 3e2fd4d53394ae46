--------------------------- MODULE SourceRegistry ---------------------------
(***************************************************************************)
(* source_registry (source_registry.hpp): a table that grows at its end    *)
(* while other threads search it.  There is no lock; a registration fills  *)
(* the entry behind the last one and only then stores the new count_, and  *)
(* a search loads count_ once and looks at no entry behind it.             *)
(*                                                                         *)
(* register_scheme() reads count_ in the beginning and stores one more in  *)
(* the end, so two of them at once take the same entry.  Unless Overlap,   *)
(* the application makes one at a time, from whatever thread.              *)
(***************************************************************************)
EXTENDS Integers, Sequences

CONSTANTS
    Threads,
    Schemes,       \* the schemes the application uses, and what they are cut to
    NoScheme,      \* the empty string
    Stored,        \* what the fixed_string of an entry keeps of each scheme
    MaxSchemes,    \* Config::max_schemes
    Excess,        \* bound: registrations beyond those that fit
    Overlap        \* whether the application makes two registrations at once

ASSUME RegistryAssumption ==
    /\ NoScheme \notin Schemes
    /\ Stored \in [Schemes -> Schemes]
    /\ MaxSchemes \in Nat /\ Excess \in Nat /\ Overlap \in BOOLEAN

VARIABLES
    entries,       \* each entry: its scheme and its factory, 0 for none
    count,         \* the atomic count_
    pc,            \* each thread: where it is in a call
    arg,           \* each thread: the scheme it registers or searches
    pos,           \* each thread: the entry it fills or looks at
    made,          \* each thread: the factory it registers
    limit,         \* each thread: the count_ its search goes by
    calls,         \* how many registrations were begun
    accepted       \* the registrations that returned true, in order

vars == <<entries, count, pc, arg, pos, made, limit, calls, accepted>>

Factories == 1..MaxSchemes + Excess   \* the n-th registration brings factory n
Registering == {"scheme", "factory", "publish"}
Places == {"idle", "search", "call", "missed"} \cup Registering

TypeOK ==
    /\ entries \in [1..MaxSchemes -> [scheme : Schemes \cup {NoScheme},
                                      factory : Factories \cup {0}]]
    /\ count \in 0..MaxSchemes
    /\ pc \in [Threads -> Places]
    /\ arg \in [Threads -> Schemes \cup {NoScheme}]
    /\ pos \in [Threads -> 1..MaxSchemes + 1]
    /\ made \in [Threads -> Factories \cup {0}]
    /\ limit \in [Threads -> 0..MaxSchemes]
    /\ calls \in 0..MaxSchemes + Excess
    /\ accepted \in Seq([scheme : Schemes, factory : Factories])

Init ==
    /\ entries = [i \in 1..MaxSchemes |-> [scheme |-> NoScheme, factory |-> 0]]
    /\ count = 0
    /\ pc = [t \in Threads |-> "idle"]
    /\ arg = [t \in Threads |-> NoScheme]
    /\ pos = [t \in Threads |-> 1]
    /\ made = [t \in Threads |-> 0]
    /\ limit = [t \in Threads |-> 0]
    /\ calls = 0
    /\ accepted = <<>>

Goes(t, from, to) == pc[t] = from /\ pc' = [pc EXCEPT ![t] = to]

-----------------------------------------------------------------------------
(* register_scheme(): a full table refuses, and nothing has changed. *)
Register(t, s) ==
    /\ Overlap \/ \A u \in Threads : pc[u] \notin Registering
    /\ calls < MaxSchemes + Excess
    /\ calls' = calls + 1
    /\ \/ /\ count >= MaxSchemes
          /\ pc[t] = "idle"
          /\ UNCHANGED <<pc, arg, pos, made>>
       \/ /\ count < MaxSchemes
          /\ Goes(t, "idle", "scheme")
          /\ arg' = [arg EXCEPT ![t] = s]
          /\ pos' = [pos EXCEPT ![t] = count + 1]
          /\ made' = [made EXCEPT ![t] = calls']
    /\ UNCHANGED <<entries, count, limit, accepted>>

\* Slip: the count goes up before the entry is filled, as add_stage() does it.
CountFirst(t) ==
    /\ Goes(t, "scheme", "factory")
    /\ entries' = [entries EXCEPT ![pos[t]].scheme = Stored[arg[t]]]
    /\ count' = pos[t]
    /\ UNCHANGED <<arg, pos, made, limit, calls, accepted>>

WriteScheme(t) ==
    /\ Goes(t, "scheme", "factory")
    /\ entries' = [entries EXCEPT ![pos[t]].scheme = Stored[arg[t]]]
    /\ UNCHANGED <<count, arg, pos, made, limit, calls, accepted>>

(* The factory's move assignment. *)
WriteFactory(t) ==
    /\ Goes(t, "factory", "publish")
    /\ entries' = [entries EXCEPT ![pos[t]].factory = made[t]]
    /\ UNCHANGED <<count, arg, pos, made, limit, calls, accepted>>

\* Slip: a scheme that is registered again gets the new factory in its old entry.
PublishInPlace(t) ==
    /\ Goes(t, "publish", "idle")
    /\ count' = pos[t]
    /\ entries' = [i \in 1..MaxSchemes |->
                      IF entries[i].scheme = Stored[arg[t]]
                      THEN [entries[i] EXCEPT !.factory = made[t]] ELSE entries[i]]
    /\ accepted' = Append(accepted, [scheme |-> arg[t], factory |-> made[t]])
    /\ UNCHANGED <<arg, pos, made, limit, calls>>

Publish(t) ==
    /\ Goes(t, "publish", "idle")
    /\ count' = pos[t]
    /\ accepted' = Append(accepted, [scheme |-> arg[t], factory |-> made[t]])
    /\ UNCHANGED <<entries, arg, pos, made, limit, calls>>

-----------------------------------------------------------------------------
(* create(), with a scheme or a URI that begins with one, and has_scheme(), *)
(* which only has no factory to call in the end.                            *)
Search(t, s) ==
    /\ Goes(t, "idle", "search")
    /\ arg' = [arg EXCEPT ![t] = s]
    /\ pos' = [pos EXCEPT ![t] = 1]
    /\ limit' = [limit EXCEPT ![t] = count]
    /\ UNCHANGED <<entries, count, made, calls, accepted>>

Compare(t) ==
    /\ pc[t] = "search"
    /\ \/ pos[t] > limit[t] /\ Goes(t, "search", "missed") /\ UNCHANGED pos
       \/ /\ pos[t] <= limit[t] /\ entries[pos[t]].scheme = arg[t]
          /\ Goes(t, "search", "call") /\ UNCHANGED pos
       \/ /\ pos[t] <= limit[t] /\ entries[pos[t]].scheme # arg[t]
          /\ pos' = [pos EXCEPT ![t] = @ + 1] /\ UNCHANGED pc
    /\ UNCHANGED <<entries, count, arg, made, limit, calls, accepted>>

(* The entry's factory has made a source, or an empty one is returned. *)
SearchReturns(t) ==
    /\ Goes(t, "call", "idle") \/ Goes(t, "missed", "idle")
    /\ UNCHANGED <<entries, count, arg, pos, made, limit, calls, accepted>>

-----------------------------------------------------------------------------
Step(t) ==
    \/ \E s \in Schemes : Register(t, s) \/ Search(t, s)
    \/ WriteScheme(t) \/ WriteFactory(t) \/ Publish(t)
    \/ Compare(t) \/ SearchReturns(t)

Next == \E t \in Threads : Step(t)

Spec == Init /\ [][Next]_vars

-----------------------------------------------------------------------------
(* The registrations that go by a scheme, as the entries keep it. *)
Under(s, n) == {i \in 1..n : Stored[accepted[i].scheme] = s}

(* A search calls the factory that was registered first under its scheme,  *)
(* whole, and misses only if none had been by the time it began, however   *)
(* it runs into registrations.                                             *)
FirstRegistrationWins ==
    \A t \in Threads :
        /\ pc[t] = "call" =>
              \E i \in Under(arg[t], Len(accepted)) :
                  /\ entries[pos[t]].factory = accepted[i].factory
                  /\ \A j \in Under(arg[t], Len(accepted)) : i <= j
        /\ pc[t] = "missed" => Under(arg[t], limit[t]) = {}

(* The sources a scheme stands for never change: once a registration has   *)
(* returned, its scheme leads to the same factory for ever.                *)
FirstMatch(s) ==
    {i \in 1..count : /\ entries[i].scheme = s
                      /\ \A j \in 1..i - 1 : entries[j].scheme # s}
Leads(s) == {entries[i].factory : i \in FirstMatch(s)}

FoundStaysFound ==
    [][\A s \in Schemes : Leads(s) # {} => Leads(s)' = Leads(s)]_vars
=============================================================================
