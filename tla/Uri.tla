-------------------------------- MODULE Uri --------------------------------
(***************************************************************************)
(* The two URI parsers and basic_uri::parse (uri.hpp).  A text is a        *)
(* sequence of characters; those that are no delimiter are all alike.      *)
(* A parser's result names its parts by their texts, as string_views are   *)
(* compared; a part that is missing and one that is empty are the same.    *)
(* basic_uri keeps a copy of the text and places each part in that copy.   *)
(***************************************************************************)
EXTENDS Naturals, Sequences, SequencesExt

CONSTANTS
    Texts,         \* the texts that are parsed
    MaxUriLen      \* Config::max_uri_len

Parsers == {"minimal", "rfc3986"}

VARIABLES
    parser,        \* the Config's uri_parser
    text,          \* the text given to parse()
    uri            \* the basic_uri

vars == <<parser, text, uri>>

-----------------------------------------------------------------------------
(* string_view::find of a character of a set, and what lies around it. *)
Find(s, C) == SelectInSeq(s, LAMBDA x : x \in C)
Has(s, C) == Find(s, C) # 0
Before(s, C) == IF Has(s, C) THEN SubSeq(s, 1, Find(s, C) - 1) ELSE s
After(s, C) == IF Has(s, C) THEN SubSeq(s, Find(s, C) + 1, Len(s)) ELSE <<>>
From(s, i) == SubSeq(s, i, Len(s))

(* The first '?' starts the query, even behind a '#'. *)
PathQueryFragment(s) ==
    LET query == After(s, {"?"}) IN
    [path |-> Before(s, {"?", "#"}),
     query |-> Before(query, {"#"}),
     fragment |-> IF Has(s, {"?"}) THEN After(query, {"#"}) ELSE After(s, {"#"})]

HostPort(auth) == IF Has(auth, {"@"}) THEN After(auth, {"@"}) ELSE auth

LastColon(hp) == SelectLastInSeq(hp, LAMBDA x : x = ":")

SplitAtLastColon(hp) ==
    LET colon == LastColon(hp) IN
    IF colon = 0 THEN [host |-> hp, port |-> <<>>]
    ELSE [host |-> SubSeq(hp, 1, colon - 1), port |-> From(hp, colon + 1)]

\* Slip: find() in place of rfind().
FirstColonMinimal(auth) ==
    [host |-> Before(HostPort(auth), {":"}), port |-> After(HostPort(auth), {":"})]

AuthorityMinimal(auth) == SplitAtLastColon(HostPort(auth))

\* Slip: a bracketed host is split like any other.
BracketsIgnored(auth) == SplitAtLastColon(HostPort(auth))

(* A bracketed host ends at its bracket; what follows it counts only as a port. *)
AuthorityRfc3986(auth) ==
    LET hp == HostPort(auth)
        rest == After(hp, {"]"})
    IN IF Len(hp) < 2 \/ hp[1] # "[" THEN SplitAtLastColon(hp)
       ELSE IF ~Has(hp, {"]"}) THEN [host |-> <<>>, port |-> <<>>]
       ELSE [host |-> Append(Before(hp, {"]"}), "]"),
             port |-> IF rest # <<>> /\ rest[1] = ":" THEN Tail(rest) ELSE <<>>]

(* uri_view::userinfo() *)
Userinfo(view) == IF Has(view.authority, {"@"}) THEN Before(view.authority, {"@"}) ELSE <<>>

(* find("://") *)
SchemeEnd(t) ==
    LET ends == {i \in 1..Len(t) - 2 : SubSeq(t, i, i + 2) = <<":", "/", "/">>} IN
    IF ends = {} THEN 0 ELSE CHOOSE i \in ends : \A j \in ends : i <= j

View(t, scheme, authority, hp, pqf) ==
    [full_str |-> t, scheme |-> scheme, authority |-> authority,
     host |-> hp.host, port |-> hp.port,
     path |-> pqf.path, query |-> pqf.query, fragment |-> pqf.fragment]

NoAuthority == [host |-> <<>>, port |-> <<>>]
EmptyView == View(<<>>, <<>>, <<>>, NoAuthority, PathQueryFragment(<<>>))

(* What both parsers do: the authority is what is behind "://" up to the    *)
(* first of some characters, and the rest is path, query and fragment.      *)
Authority(t, ends) == Before(From(t, SchemeEnd(t) + 3), ends)

ViewWith(t, authority, hp) ==
    LET colon == SchemeEnd(t) IN
    IF colon = 0 THEN View(t, <<>>, <<>>, NoAuthority, PathQueryFragment(t))
    ELSE View(t, SubSeq(t, 1, colon - 1), authority, hp,
              PathQueryFragment(From(t, colon + 3 + Len(authority))))

ParseMinimal(t) ==
    LET authority == Authority(t, {"/"}) IN
    ViewWith(t, authority, AuthorityMinimal(authority))

ParseRfc3986(t) ==
    LET authority == Authority(t, {"/", "?", "#"}) IN
    ViewWith(t, authority, AuthorityRfc3986(authority))

-----------------------------------------------------------------------------
(* basic_uri *)

\* Slip: the part found again reaches to the end of the text.
PlaceToTheEnd(base, part) ==
    IF part = <<>> THEN [at |-> 1, len |-> 0]
    ELSE LET at == CHOOSE i \in 1..Len(base) :
                      /\ SubSeq(base, i, i + Len(part) - 1) = part
                      /\ \A j \in 1..i - 1 : SubSeq(base, j, j + Len(part) - 1) # part
         IN [at |-> at, len |-> Len(base) - at + 1]

(* rebind: a part is placed where the stored text first reads like it. *)
Place(base, part) ==
    IF part = <<>> THEN [at |-> 1, len |-> 0]
    ELSE LET at == CHOOSE i \in 1..Len(base) :
                      /\ SubSeq(base, i, i + Len(part) - 1) = part
                      /\ \A j \in 1..i - 1 : SubSeq(base, j, j + Len(part) - 1) # part
         IN [at |-> at, len |-> Len(part)]

RebindView(base, view) == [part \in DOMAIN view |-> Place(base, view[part])]

Stored(p, t) ==
    [storage |-> t, truncated |-> FALSE,
     view |-> RebindView(t, IF p = "minimal" THEN ParseMinimal(t) ELSE ParseRfc3986(t))]

Default == [storage |-> <<>>, truncated |-> FALSE, view |-> RebindView(<<>>, EmptyView)]

(* Each part of a basic_uri, read through its view. *)
Read(u) ==
    [part \in DOMAIN u.view |->
        SubSeq(u.storage, u.view[part].at, u.view[part].at + u.view[part].len - 1)]

Init ==
    /\ parser \in Parsers
    /\ text \in Texts
    /\ uri = Default

(* basic_uri::parse, and parse_or_default, which is the default for no text. *)
Parse ==
    /\ uri = Default /\ text # <<>>
    /\ uri' = IF Len(text) > MaxUriLen THEN [Default EXCEPT !.truncated = TRUE]
              ELSE Stored(parser, text)
    /\ UNCHANGED <<parser, text>>

Next == Parse

Spec == Init /\ [][Next]_vars

Parsed == uri.storage # <<>>

TypeOK ==
    /\ parser \in Parsers /\ text \in Texts
    /\ Len(uri.storage) <= MaxUriLen
    /\ uri.truncated \in BOOLEAN

-----------------------------------------------------------------------------
(* The texts RFC 3986 and the parser agree about: the first delimiter       *)
(* belongs to the scheme's end if there is one, and no '?' stands behind a  *)
(* '#', where it belongs to the fragment.                                   *)
Plain(t) ==
    /\ SchemeEnd(t) # 0 => ~Has(SubSeq(t, 1, SchemeEnd(t) - 1), {"/", "?", "#"})
    /\ ~Has(After(t, {"#"}), {"?"})

(* A part and its delimiter; an empty part may come without. *)
With(delim, part) == IF part = <<>> THEN {<<>>, delim} ELSE {delim \o part}

(* For plain texts the RFC 3986 parser finds the one split that the RFC's    *)
(* grammar allows: put together with their delimiters the parts make the     *)
(* text again, and no part holds a delimiter that would have ended it.       *)
PartsMakeTheText ==
    Parsed /\ parser = "rfc3986" /\ Plain(text) =>
        LET v == Read(uri)
            head == IF SchemeEnd(text) = 0 THEN <<>> ELSE v.scheme \o <<":", "/", "/">> \o v.authority
        IN /\ \E q \in With(<<"?">>, v.query), f \in With(<<"#">>, v.fragment) :
                 text = head \o v.path \o q \o f
           /\ ~Has(v.authority, {"/", "?", "#"})
           /\ ~Has(v.path, {"?", "#"}) /\ ~Has(v.query, {"#"})
           /\ SchemeEnd(text) # 0 /\ v.path # <<>> => v.path[1] = "/"

(* Wherever an authority can be read as userinfo@host:port at all, with the  *)
(* userinfo and the port optional, that reading is the parser's; a host in   *)
(* brackets is the RFC 3986 parser's alone.                                  *)
IsHost(h) ==
    \/ ~Has(h, {":", "@", "[", "]"})
    \/ /\ parser = "rfc3986" /\ Len(h) >= 2 /\ h[1] = "[" /\ h[Len(h)] = "]"
       /\ ~Has(SubSeq(h, 2, Len(h) - 1), {"@", "[", "]"})

AuthorityIsRead ==
    Parsed =>
        LET v == Read(uri)
            auth == v.authority
            Cut(i, j) == SubSeq(auth, i + 1, j)
            IsUser(u) == u # <<>> => u[Len(u)] = "@" /\ ~Has(SubSeq(u, 1, Len(u) - 1), {"@", "[", "]"})
            IsPort(p) == p # <<>> => p[1] = ":" /\ ~Has(Tail(p), {":", "@", "[", "]"})
        IN \A i \in 0..Len(auth) : \A j \in i..Len(auth) :
              IsUser(Cut(0, i)) /\ IsHost(Cut(i, j)) /\ IsPort(Cut(j, Len(auth))) =>
                  /\ v.host = Cut(i, j)
                  /\ v.port = Cut(j + 1, Len(auth))
                  /\ Userinfo(v) = Cut(0, i - 1)

(* The two parsers differ only in what the RFC adds: a query or a fragment   *)
(* straight behind the authority, and brackets.  Whatever else is in the     *)
(* text, changing the Config's parser does not change a part of it.          *)
ParsersAgree ==
    Parsed =>
        LET rest == From(text, SchemeEnd(text) + 3)
            other == IF parser = "minimal" THEN ParseRfc3986(text) ELSE ParseMinimal(text)
        IN \/ Read(uri) = other
           \/ Has(Before(rest, {"/"}), {"?", "#"})
           \/ IsPrefix(<<"[">>, HostPort(Before(rest, {"/"})))
=============================================================================
