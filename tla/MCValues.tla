------------------------------ MODULE MCValues ------------------------------
(* The types that only hold values, each explored by itself: expected, the   *)
(* fixed string, the message, and the URI with every text of up to MaxRest   *)
(* characters, by itself and behind a scheme, and one that does not fit.     *)
EXTENDS Expected, Integers, Sequences, FiniteSets

CONSTANTS
    Strings, N, MaxChar,
    MaxTopicLen, MaxPayloadLen, MaxByte,
    MaxUriLen,
    MaxRest      \* bound: the length of the texts behind the scheme

VARIABLES
    focus,                  \* the type that is explored
    data, size, text,       \* of FixedString
    message, shown,         \* of Message
    parser, uri_text, uri   \* of Uri

string_vars == <<data, size, text>>
message_vars == <<message, shown>>
uri_vars == <<parser, uri_text, uri>>

Characters == {"a", ":", "/", "?", "#", "@", "[", "]"}
Rests == UNION {[1..n -> Characters] : n \in 0..MaxRest}
TooLong == [i \in 1..MaxUriLen + 1 |-> "a"]
UriTexts == Rests \cup {<<"a", ":", "/", "/">> \o rest : rest \in Rests} \cup {TooLong}

FixedString == INSTANCE FixedString
Message == INSTANCE Message
Uri == INSTANCE Uri WITH text <- uri_text, Texts <- UriTexts

MCInit ==
    /\ Init /\ FixedString!Init /\ Message!Init
    /\ \/ focus = "uri" /\ Uri!Init
       \/ /\ focus \in {"expected", "string", "message"}
          /\ parser = "minimal" /\ uri_text = <<>> /\ uri = Uri!Default

ExpectedStep ==
    focus = "expected" /\ Next /\ UNCHANGED <<focus, string_vars, message_vars, uri_vars>>
StringStep ==
    focus = "string" /\ FixedString!Next /\ UNCHANGED <<focus, vars, message_vars, uri_vars>>
MessageStep ==
    focus = "message" /\ Message!Next /\ UNCHANGED <<focus, vars, string_vars, uri_vars>>
UriStep ==
    focus = "uri" /\ Uri!Next /\ UNCHANGED <<focus, vars, string_vars, message_vars>>

MCNext == ExpectedStep \/ StringStep \/ MessageStep \/ UriStep

MCSpec == MCInit /\ [][MCNext]_<<focus, vars, string_vars, message_vars, uri_vars>>

-----------------------------------------------------------------------------
(* fixed_string: it reads as the text it was given, cut where it did not fit. *)
KeepsText == FixedString!KeepsText

(* fixed_string: == and < agree, whatever earlier texts left in the arrays. *)
OrderIsTotal == FixedString!OrderIsTotal

(* basic_message: it shows what the last view that fitted read. *)
ShowsLastView == Message!ShowsLastView

(* The RFC 3986 parser finds the split that the RFC's grammar allows. *)
PartsMakeTheText == Uri!PartsMakeTheText

(* Both parsers read userinfo@host:port wherever it can be read. *)
AuthorityIsRead == Uri!AuthorityIsRead

(* The choice of parser changes only what RFC 3986 adds. *)
ParsersAgree == Uri!ParsersAgree
=============================================================================
