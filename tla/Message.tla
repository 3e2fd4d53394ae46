------------------------------- MODULE Message -------------------------------
(***************************************************************************)
(* basic_message (message.hpp): two buffers that from_view() fills, the    *)
(* topic first.  A stage may give it a view into the message itself, to    *)
(* shorten the topic or to send it as the payload.                         *)
(***************************************************************************)
EXTENDS Integers, Sequences

CONSTANTS
    MaxTopicLen,   \* Config::max_topic_len
    MaxPayloadLen, \* Config::max_payload_len
    MaxByte        \* bytes are 0..MaxByte

VARIABLES
    message,       \* each part: its bytes, and its length
    shown          \* what as_view() should show, kept to state properties

vars == <<message, shown>>

Parts == {"topic", "payload"}
Room == [topic |-> MaxTopicLen + 1, payload |-> MaxPayloadLen]

Longest == IF MaxTopicLen < MaxPayloadLen THEN MaxPayloadLen ELSE MaxTopicLen

(* A slice is bytes elsewhere, or len bytes of a part of the message itself. *)
Elsewhere(bytes) == [of |-> "elsewhere", at |-> 0, len |-> Len(bytes), bytes |-> bytes]
Slices ==
    {Elsewhere(bytes) : bytes \in UNION {[1..n -> 0..MaxByte] : n \in 0..Longest + 1}}
        \cup {s \in [of : Parts, at : 0..Longest, len : 0..Longest, bytes : {<<>>}] :
                 s.at + s.len <= message[s.of].len}

Read(m, slice) ==
    IF slice.of = "elsewhere" THEN slice.bytes
    ELSE SubSeq(m[slice.of].buf, slice.at + 1, slice.at + slice.len)

(* as_view() *)
AsView(m) == [part \in Parts |-> SubSeq(m[part].buf, 1, m[part].len)]

Init ==
    /\ message = [part \in Parts |-> [buf |-> [i \in 1..Room[part] |-> 0], len |-> 0]]
    /\ shown = AsView(message)

-----------------------------------------------------------------------------
(* memcpy to the beginning of a part: where the two ends overlap it leaves   *)
(* anything in its destination.                                              *)
Overlaps(part, slice) == slice.of = part /\ 0 < slice.at /\ slice.at < slice.len

Memcpy(m, part, slice) ==
    {[m EXCEPT ![part].len = slice.len,
               ![part].buf = bytes \o SubSeq(@, slice.len + 1, Len(@))] :
        bytes \in IF Overlaps(part, slice) THEN [1..slice.len -> 0..MaxByte]
                  ELSE {Read(m, slice)}}

Terminated(m) == [m EXCEPT !["topic"].buf[m["topic"].len + 1] = 0]

(* A stage may keep a part or cut off its end, but not its beginning, unless *)
(* what is left lies behind its own new place; it may send its topic as the  *)
(* payload only if it keeps that much of it.                                 *)
WellUsed(topic, payload) ==
    /\ ~Overlaps("topic", topic) /\ ~Overlaps("payload", payload)
    /\ payload.of = "topic" =>
          topic.of = "topic" /\ topic.at = 0 /\ payload.at + payload.len <= topic.len

Shows(topic, payload) ==
    shown' = IF WellUsed(topic, payload)
             THEN [topic |-> Read(message, topic), payload |-> Read(message, payload)]
             ELSE AsView(message')

\* Slip: the payload's length is looked at when the topic has been copied.
CheckedInTurn(topic, payload) ==
    /\ topic.len <= MaxTopicLen
    /\ \E m \in Memcpy(message, "topic", topic) :
          IF payload.len > MaxPayloadLen
          THEN message' = Terminated(m) /\ UNCHANGED shown
          ELSE message' \in Memcpy(Terminated(m), "payload", payload) /\ Shows(topic, payload)

(* from_view(), which reads the payload after it has written the topic.  It  *)
(* refuses what does not fit before it has touched anything.                 *)
FromView(topic, payload) ==
    /\ topic.len <= MaxTopicLen /\ payload.len <= MaxPayloadLen
    /\ \E m \in Memcpy(message, "topic", topic) :
          message' \in Memcpy(Terminated(m), "payload", payload)
    /\ Shows(topic, payload)

Next == \E topic, payload \in Slices : FromView(topic, payload)

Spec == Init /\ [][Next]_vars

-----------------------------------------------------------------------------
(* A message shows what the last view that fitted read before the call, also *)
(* where that view looked into the message; a view that does not fit leaves  *)
(* both parts as they were.                                                  *)
ShowsLastView == AsView(message) = shown
=============================================================================
