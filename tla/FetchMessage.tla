------------------------------ MODULE FetchMessage ------------------------------
(***************************************************************************)
(* A FETCH command for one message: its text is parsed (CommandParser), the    *)
(* handler makes queries of the arguments, getQueriedContents rebuilds what    *)
(* they ask for from the stored tree (MimeTree), and the response compiler     *)
(* announces each literal's size and streams it to the client.               *)
(*                                                                          *)
(* Of the data items only BODY and BODY[...] are modelled.  The messages of a   *)
(* FETCH are answered one after the other, each by itself.  BODY.PEEK is BODY.  *)
(* The contents of a literal are never an item's name or a sequence set.      *)
(***************************************************************************)
EXTENDS CommandParser, MimeTree

CONSTANTS
    Mails,      \* mails, as lines
    Stored      \* how an attachment is stored: "raw", or "decoded" and shorter

ASSUME FetchAssumption ==
    Mails \subseteq Seq(MailLine) /\ Stored \subseteq {"raw", "decoded"}

VARIABLES
    stage,      \* of the FETCH: "typing", "reading", "sending", "unread", or its answer
    queries,
    mail,       \* the message asked for
    stored,     \* how its attachments are stored
    literals,   \* the response's literals
    sent,       \* what the client got of each of them
    failed      \* the literals whose stream failed

message == <<mail, stored>>
response == <<literals, sent, failed>>
vars == <<parserVars, stage, queries, message, response>>

Init ==
    /\ ParserInit
    /\ stage = "typing" /\ queries = <<>>
    /\ mail = <<>> /\ stored = "none"
    /\ literals = <<>> /\ sent = <<>> /\ failed = {}

-----------------------------------------------------------------------------
(* The handler: fetch.ts *)

(* The regular expression for a sequence set. *)
IsSequenceSet(value) ==
    LET At(i) == IF i \in DOMAIN value THEN value[i] ELSE "end"
        Separator == {":", ",", "end"}
    IN
    /\ value # <<>> /\ Range(value) \subseteq Digits \cup {"*", ":", ","}
    /\ \A i \in DOMAIN value :
          /\ value[i] \in {":", ","} => At(i - 1) \notin Separator /\ At(i + 1) \notin Separator
          /\ value[i] = "*" => At(i - 1) \in Separator /\ At(i + 1) \in Separator
    /\ \A i, j \in DOMAIN value :
          i < j /\ value[i] = ":" /\ value[j] = ":" => \E k \in i .. j : value[k] = ","

Number(value) ==
    LET digit(d) == CHOOSE n \in 0 .. 5 : <<"0", "1", "2", "3", "4", "5">>[n + 1] = d
        number[i \in 0 .. Len(value)] ==
          IF i = 0 THEN 0 ELSE 10 * number[i - 1] + digit(value[i])
    IN  IF Range(value) \subseteq Digits THEN number[Len(value)] ELSE 0

(* The numbers between the full stops. *)
Numbers(value) ==
    LET Add(split, c) ==
          IF c = "." THEN Append(split, <<>>)
          ELSE Append(Front(split), Append(Last(split), c))
        split[i \in 0 .. Len(value)] == IF i = 0 THEN <<<<>>>> ELSE Add(split[i - 1], value[i])
        parts == split[Len(value)]
    IN  [i \in DOMAIN parts |-> Number(parts[i])]

(* createQueries: a section's leading path, and the type that follows it. *)
PathEnd(value) ==
    CHOOSE k \in 0 .. Len(value) :
        LET IsPath(n) ==
              /\ Range(SubSeq(value, 1, n)) \subseteq Digits \cup {"."}
              /\ \A i \in 1 .. n : value[i] = "." => i > 1 /\ value[i - 1] # "."
              /\ n \in {0, Len(value)} \/ value[n] = "."
        IN  IsPath(k) /\ \A n \in k + 1 .. Len(value) : ~ IsPath(n)

SectionOf(sections) ==
    LET value == IF sections = <<>> \/ sections[1].type = "LIST" THEN <<>>
                 ELSE sections[1].value
        k == PathEnd(value)
        path == IF k > 0 /\ value[k] = "." THEN SubSeq(value, 1, k - 1) ELSE SubSeq(value, 1, k)
        rest == SubSeq(value, k + 1, Len(value))
    IN  [path |-> IF path = <<>> THEN <<>> ELSE Numbers(path),
         type |-> IF rest = <<>> THEN <<"CONTENT">> ELSE rest]

IsQuery(param) ==
    /\ param.type \in {"ATOM", "STRING"} /\ param.value = <<"BODY">>
    /\ param.section /\ param.sections # <<>> => param.sections[1].type \notin {"NIL", "LITERAL"}
    /\ param.section =>
          SectionOf(param.sections).type \in {<<"CONTENT">>, <<"TEXT">>, <<"HEADER">>}

Query(param) ==
    LET partial == IF param.partial = <<>> THEN <<>> ELSE Numbers(param.partial[1])
        section == SectionOf(param.sections)
    IN  [literal |-> param.section, path |-> section.path, type |-> section.type[1],
         partial |-> partial # <<>>,
         startFrom |-> IF partial = <<>> THEN 0 ELSE partial[1],
         maxLength |-> IF Len(partial) < 2 THEN 0 ELSE partial[2]]

MessageData(param) == IF param.type = "LIST" THEN param.items ELSE <<param>>

Answered(answer) ==
    stage' = answer /\ UNCHANGED <<parserVars, queries, message, response>>

(* The arguments that IMAPCommand and the handler refuse. *)
Refused(a) ==
    \/ Len(a) \notin {2, 3}
    \/ a[1].type \in {"NIL", "LIST", "LITERAL"} \/ ~ IsSequenceSet(a[1].value)
    \/ Len(a) = 3 /\ a[3].type # "NIL" /\ ~ (a[3].type = "LIST" /\ a[3].items = <<>>)
    \/ \E i \in DOMAIN MessageData(a[2]) : a[2].type # "NIL" /\ ~ IsQuery(MessageData(a[2])[i])

(* The handler runs; a NIL in place of the items is a TypeError. *)
Handle ==
    /\ stage = "typing" /\ args.ok
    /\ LET a == args.value IN
          IF Refused(a) THEN Answered("BAD")
          ELSE IF a[2].type = "NIL" THEN Answered("NO")
          ELSE /\ stage' = "reading"
               /\ queries' = [i \in DOMAIN MessageData(a[2]) |-> Query(MessageData(a[2])[i])]
               /\ mail' \in Mails /\ stored' \in Stored
               /\ UNCHANGED <<parserVars, response>>

-----------------------------------------------------------------------------
(* getQueriedContents and what the compiler makes of each content *)

File(text) == IF stored = "raw" THEN text ELSE SubSeq(text, 1, (Len(text) + 1) \div 2)

WithFiles(text) ==
    [i \in DOMAIN text |-> IF text[i][1] = "attachment" THEN Append(text[i], File(text[i][2]))
                           ELSE text[i]]

Reads(text) == \E i \in DOMAIN text : text[i][1] = "attachment"

Padding(n) == [i \in 1 .. n |-> PADDING]

(* Mutant: no padding when the stream ends too soon. *)
LimitedUnpadded(text, expectedLength, startFrom) ==
    SubSeq(text, startFrom + 1, Smaller(expectedLength, Len(text)))

(* LengthLimiter: what it passes on of a stream from startFrom on; it counts what *)
(* it drops, and pads up to expectedLength.                                  *)
Limited(text, expectedLength, startFrom) ==
    SubSeq(text, startFrom + 1, Smaller(expectedLength, Len(text)))
      \o Padding(expectedLength - Len(text))

(* A mail has no more levels than lines, and the root's. *)
Depth == Len(mail) + 1

(* A stream is cut by the options of the FETCH so far; emit cuts it again, from *)
(* the query's startFrom on, as if it were whole.                            *)
StreamLiteral(node, textOnly, q, opts) ==
    LET text == Rebuilt(Depth, node, textOnly)
        expected == Length(Depth, node, textOnly)
        rest == expected - q.startFrom
        end == IF q.maxLength = 0 THEN expected ELSE Smaller(expected, q.startFrom + q.maxLength)
        stream == Streamed(WithFiles(text), opts.startFrom, opts.maxLength)
    IN  [announced |-> Larger(IF q.maxLength = 0 THEN rest ELSE Smaller(rest, q.maxLength), 0),
         content |-> IF expected = 0 THEN <<>> ELSE Limited(stream, end, q.startFrom),
         reads |-> Reads(text), whole |-> Len(text), query |-> q, opts |-> opts]

(* A text is cut by substr, whose length 0 leaves nothing. *)
TextLiteral(text, q, opts) ==
    LET value == IF q.partial THEN SubSeq(text, q.startFrom + 1,
                                          Smaller(q.startFrom + q.maxLength, Len(text)))
                 ELSE text
    IN  [announced |-> Len(value), content |-> value,
         reads |-> FALSE, whole |-> Len(text), query |-> q, opts |-> opts]

(* opts keeps what a query's partial has put into it. *)
Options(opts, q) ==
    [startFrom |-> IF q.startFrom # 0 THEN q.startFrom ELSE opts.startFrom,
     maxLength |-> IF q.maxLength # 0 THEN q.maxLength ELSE opts.maxLength]

Content(tree, q, opts) ==
    LET found == Resolve(tree, q.path) IN
    CASE found = <<>> -> TextLiteral(<<>>, q, opts)
      [] found # <<>> /\ q.type = "HEADER" /\ q.path = <<>> ->
            TextLiteral(TextOf(tree.header) \o <<NEWLINE, NEWLINE>>, q, opts)
      [] found # <<>> /\ q.type # "HEADER" /\ (q.type = "CONTENT" \/ q.path = <<>>) ->
            StreamLiteral(found[1], q.type = "TEXT" \/ q.path # <<>>, q, opts)
      [] OTHER -> TextLiteral(<<>>, q, opts)

(* The queries in their order, over one opts. *)
Contents(tree) ==
    LET Add(r, q) ==
          LET opts == Options(r.opts, q) IN
          [r EXCEPT !.opts = opts,
                    !.literals = IF q.literal THEN Append(@, Content(tree, q, opts)) ELSE @]
        asked[i \in 0 .. Len(queries)] ==
          IF i = 0 THEN [opts |-> [startFrom |-> 0, maxLength |-> 0], literals |-> <<>>]
          ELSE Add(asked[i - 1], queries[i])
    IN  asked[Len(queries)].literals

(* The cursor gives the message.  A partial of a part that is not there is a   *)
(* TypeError, which ends the FETCH.                                          *)
ReadMessage ==
    /\ stage = "reading"
    /\ LET tree == Parse(mail) IN
          IF \E i \in DOMAIN queries : queries[i].partial /\ Resolve(tree, queries[i].path) = <<>>
          THEN Answered("NO")
          ELSE /\ literals' = Contents(tree)
               /\ stage' = "sending"
               /\ UNCHANGED <<parserVars, queries, message, sent, failed>>

-----------------------------------------------------------------------------
(* The response is streamed *)

Emitting(i) == i = Len(sent) + 1 /\ i \in DOMAIN literals

SendLiteral(i) ==
    /\ stage = "sending" /\ Emitting(i) /\ i \notin failed
    /\ sent' = Append(sent, literals[i].content)
    /\ UNCHANGED <<parserVars, stage, queries, message, literals, failed>>

(* Mutant: an error of the stream is not passed on to the response. *)
StreamFailsUnheard(i) ==
    /\ stage \in {"sending", "unread"} /\ i \in DOMAIN literals /\ i > Len(sent)
    /\ literals[i].reads /\ i \notin failed
    /\ failed' = failed \cup {i}
    /\ UNCHANGED <<parserVars, stage, queries, message, literals, sent>>

(* An attachment cannot be read.  The streams run from the start; the error of  *)
(* the one that is being sent ends the FETCH, and nobody hears that of another, *)
(* whose literal then never ends (no 'error' listener, package.json:48).      *)
StreamFails(i) ==
    /\ stage \in {"sending", "unread"} /\ i \in DOMAIN literals /\ i > Len(sent)
    /\ literals[i].reads /\ i \notin failed
    /\ failed' = failed \cup {i}
    /\ stage' = IF Emitting(i) THEN "NO" ELSE stage
    /\ UNCHANGED <<parserVars, queries, message, literals, sent>>

(* The client no longer reads, or goes away: the stream is piped to a socket     *)
(* that takes nothing, and the promise of streamDataResponse waits for its end. *)
StopsReading ==
    /\ stage = "sending"
    /\ stage' = "unread"
    /\ UNCHANGED <<parserVars, queries, message, literals, sent, failed>>

Complete ==
    /\ stage = "sending" /\ Len(sent) = Len(literals)
    /\ Answered("OK")

Typing == stage = "typing" /\ ParserNext /\ UNCHANGED <<stage, queries, message, response>>

Streaming == (\E i \in DOMAIN literals : SendLiteral(i)) \/ Complete

Next ==
    \/ Typing \/ Handle \/ ReadMessage \/ Streaming \/ StopsReading
    \/ \E i \in DOMAIN literals : StreamFails(i)

(* While the client reads, a stream that has data is sent, and its end is seen:  *)
(* Node's event loop goes on.  The client types and reads when it likes, and the *)
(* database answers when it likes.                                          *)
Spec == Init /\ [][Next]_vars /\ WF_vars(Streaming)

-----------------------------------------------------------------------------
(* Properties *)

(* What the options leave of the text of a literal that reads no attachment. *)
Available(l) ==
    LET rest == Larger(l.whole - l.opts.startFrom, 0) IN
    IF l.opts.maxLength = 0 THEN rest ELSE Smaller(rest, l.opts.maxLength)

(* Each literal has the size that was announced for it, so that the client finds *)
(* the end of it, also where getLength and rebuild differ on the size of a text: *)
(* but for a partial that begins later than the start and reads an attachment,   *)
(* or begins beyond what the options, its own and those that earlier items of    *)
(* the FETCH have left behind, leave of the text.                             *)
LiteralAsAnnounced ==
    \A i \in DOMAIN sent :
        LET l == literals[i]
            start == l.query.startFrom
        IN  start = 0 \/ (start <= Available(l) /\ ~ l.reads) => Len(sent[i]) = l.announced

(* The sections of a mail, taken from its lines. *)
AfterHeader(lines) ==
    LET blanks == {k \in DOMAIN lines : lines[k] = Blank} IN
    IF blanks = {} THEN <<>>
    ELSE SubSeq(lines, (CHOOSE k \in blanks : \A j \in blanks : k <= j) + 1, Len(lines))

(* The lines between the n-th and the next delimiter of the outer multipart. *)
PartLines(lines, n) ==
    LET boundary == lines[1][2]
        delimiters == SetToSortSeq({k \in DOMAIN lines :
                                      lines[k] \in {<<"open", boundary>>, <<"close", boundary>>}},
                                   LAMBDA j, k : j < k)
    IN  SubSeq(lines, delimiters[n] + 1, delimiters[n + 1] - 1)

SectionLines(q) ==
    CASE q.path = <<>> /\ q.type = "CONTENT" -> mail
      [] q.path = <<>> /\ q.type = "TEXT" -> AfterHeader(mail)
      [] OTHER -> IF Parse(mail).boundary = "" THEN AfterHeader(mail)
                  ELSE AfterHeader(PartLines(mail, q.path[1]))

Trimmed(text) ==
    SubSeq(text, 1, Max({0} \cup {k \in DOMAIN text : text[k] \notin {NEWLINE, PADDING}}))

(* A multipart that is closed and has no text but in its parts, none of which   *)
(* is empty: getLength counts no line break for an empty part, and rebuild one  *)
(* more than there was.                                                     *)
PlainOver(inner) ==
    [node \in NodesOver(DOMAIN inner) |->
        IF node.boundary = "" THEN BodySize(node) > 0
        ELSE /\ BodySize(node) = 0 /\ <<"close", node.boundary>> \in Range(mail)
             /\ \A i \in DOMAIN node.kids : inner[node.kids[i]]]

Plain[n \in Nat] == IF n = 0 THEN <<>> ELSE PlainOver(Plain[n - 1])

(* A client gets the mail that was stored: a section that is asked for whole is  *)
(* line by line that of the mail, and the first pieces of one are what it       *)
(* begins with.                                                             *)
MailAsStored ==
    \A i \in DOMAIN sent :
        LET l == literals[i]
            tree == Parse(mail)
            section == TextOf(SectionLines(l.query))
        IN  (/\ <<l.query.type, Len(l.query.path)>> \in {<<"CONTENT", 0>>, <<"CONTENT", 1>>, <<"TEXT", 0>>}
             /\ Resolve(tree, l.query.path) # <<>>
             /\ l.opts.startFrom = 0 /\ l.opts.maxLength = l.query.maxLength
             /\ stored = "raw" /\ Plain[Depth][tree]
             /\ ~ (l.reads /\ l.query.maxLength # 0))
            => Trimmed(sent[i]) =
                 Trimmed(IF l.query.maxLength = 0 THEN section
                         ELSE SubSeq(section, 1, Smaller(l.query.maxLength, Len(section))))

(* A FETCH that is being answered comes to an end, whichever attachments cannot  *)
(* be read, unless the client stops reading, or the stream of a literal fails    *)
(* while an earlier one is being sent.                                        *)
FetchSettles ==
    stage = "sending" ~> stage \in {"OK", "NO", "unread"} \/ \E i \in failed : i > 1
=============================================================================
