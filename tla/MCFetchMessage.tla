----------------------------- MODULE MCFetchMessage -----------------------------
(* FetchMessage for TLC. *)
EXTENDS FetchMessage

MCSymbol == {"BODY", "1", "a", "(", ")", "[", "]", "<", "{", "}", "\"", "\\", "*", ":", ",", " ", "CRLF"}

Item(section, partial) ==
    <<"BODY", "[">> \o section \o <<"]">>
        \o (IF partial = <<>> THEN <<>> ELSE <<"<">> \o partial \o <<">">>)

Sections == {<<>>, <<"TEXT">>, <<"HEADER">>, <<"1">>, <<"2", ".">>, <<"1", ".", "TEXT">>}
Partials == {<<>>, <<"0", ".", "3">>, <<"2", ".", "4">>, <<"5">>}

MCTyped ==
    {<<"1", " ">> \o Item(s, p) : s \in Sections, p \in Partials}
    \cup {<<"1", ":", "*", " ", "(">> \o Item(<<>>, p) \o <<" ">> \o Item(s, o) \o <<")">> :
             s \in {<<>>, <<"TEXT">>}, p \in {<<>>, <<"2", ".", "4">>}, o \in {<<>>, <<"5">>}}
    \cup {<<"1", " ", "NIL">>, <<"1", " ", "BODY", " ", "(", ")">>, <<"1", " ", "(", ")">>,
          <<"\"", "{", "1", "}", "CRLF", "\"", " ", "{", "1", "}", "CRLF">>,
          <<"{", "1", "}", "CRLF", " ", "{", "2", "0", "}", "CRLF">>}

(* Mails of one and of several parts. *)
Line(n) == <<"text", n>>
Entity(type, body) == <<<<"field", type>>, Line("header"), Blank>> \o body
Delimited(b, parts) == FlattenSeq([i \in DOMAIN parts |-> <<<<"open", b>>>> \o parts[i]])
Multipart(b, preamble, parts, epilogue) ==
    Entity(b, preamble \o Delimited(b, parts) \o <<<<"close", b>>>> \o epilogue)

Bodies(n) == {<<>>, <<Line(n)>>, <<Line(n), Line(n), Blank>>, <<Blank, Line(n)>>}
Parts(n) == {Entity(t, b) : t \in {"text", "file"}, b \in Bodies(n)}

MCMails ==
    Parts("1")
    \cup {Multipart("B", <<>>, <<p, q>>, <<Blank>>) : p \in Parts("1"), q \in Parts("2")}
    \cup {Multipart("B", pre, <<p>>, epi) :
             pre \in {<<Line("pre")>>, <<Line("pre"), Blank>>}, p \in Parts("1"), epi \in {<<>>, <<Line("epi")>>}}
    \cup {Multipart("B", <<>>, <<Multipart("C", <<>>, <<p, q>>, <<>>), q>>, <<>>) :
             p \in Parts("1"), q \in Parts("2")}
    \cup {<<<<"field", "text">>>>, Entity("B", Delimited("B", <<Entity("text", <<Line("1")>>)>>))}
=============================================================================
