------------------------------- MODULE MimeTree -------------------------------
(***************************************************************************)
(* A mail as the IMAP server stores it and gives it back: rfc822parser turns   *)
(* its lines into a tree, extractMailData takes the attachments out of it,     *)
(* rebuild streams the text of a node again, or a window of it, getLength      *)
(* tells beforehand how long the text will be, and resolveNode finds a part.   *)
(*                                                                          *)
(* A line is a pair of its kind and a value: <<"field", t>>, a header whose    *)
(* Content-Type is text, a file or multipart with the boundary t; a delimiter  *)
(* <<"open", b>> (--b) or <<"close", b>> (--b--); <<"text", n>>; or Blank.      *)
(* Text is a sequence of pieces, a piece being a line, a line break, or a       *)
(* blank of padding: sizes count pieces, where the code counts bytes.          *)
(* Embedded messages (message/rfc822) and the limit on the number of nodes are *)
(* not modelled.                                                            *)
(***************************************************************************)
EXTENDS Integers, SequencesExt

MailLine == {"field", "open", "close", "text", "blank"} \X STRING

Blank == <<"blank", "">>
NEWLINE == <<"newline", "">>
PADDING == <<"padding", "">>

Larger(a, b) == IF a > b THEN a ELSE b
Smaller(a, b) == IF a < b THEN a ELSE b

(* Texts with line breaks between them, and the text of lines. *)
Joined(texts) ==
    FlattenSeq([i \in DOMAIN texts |-> IF i = 1 THEN texts[i] ELSE <<NEWLINE>> \o texts[i]])

TextOf(lines) ==
    Joined([i \in DOMAIN lines |-> IF lines[i] = Blank THEN <<>> ELSE <<lines[i]>>])

-----------------------------------------------------------------------------
(* The parser.  The stack holds the nodes from the root to the current one.    *)

(* The nodes whose children are among kids. *)
NodesOver(kids) ==
    [state : {"header", "body"}, header : Seq(MailLine), body : Seq(MailLine), kids : Seq(kids),
     boundary : {""} \cup STRING, parentBoundary : {""} \cup STRING]

(* A new node knows its parent's boundary, and "" for its own. *)
MimeNode(parentBoundary) ==
    [state |-> "header", header |-> <<>>, body |-> <<>>, kids |-> <<>>,
     boundary |-> "", parentBoundary |-> parentBoundary]

(* processContentType: the Content-Type is the last field that has one. *)
Types(node) == {node.header[i][2] : i \in {k \in DOMAIN node.header : node.header[k][1] = "field"}}

ProcessHeader(node) ==
    [node EXCEPT !.state = "body",
                 !.boundary = IF Types(node) \subseteq {"text", "file"} THEN ""
                              ELSE CHOOSE t \in Types(node) \ {"text", "file"} : TRUE]

(* Mutant: the children in the wrong order. *)
WithKidFirst(node, kid) == [node EXCEPT !.kids = <<kid>> \o @]

WithKid(node, kid) == [node EXCEPT !.kids = Append(@, kid)]

ToParent(stack) ==
    Append(Front(Front(stack)), WithKid(Last(Front(stack)), Last(stack)))

ReadLine(stack, line) ==
    LET node == Last(stack)
        With(new) == Append(Front(stack), new)
        opens == node.parentBoundary # "" /\ line = <<"open", node.parentBoundary>>
        closes == node.parentBoundary # "" /\ line = <<"close", node.parentBoundary>>
        child == node.boundary # "" /\ line = <<"open", node.boundary>> /\ ~ opens
    IN
    IF node.state = "header"
    THEN With(IF line = Blank THEN ProcessHeader(node)
              ELSE [node EXCEPT !.header = Append(@, line)])
    ELSE CASE opens -> Append(ToParent(stack), MimeNode(node.parentBoundary))
           [] closes -> ToParent(stack)
           [] child -> Append(stack, MimeNode(node.boundary))
           [] OTHER -> With([node EXCEPT !.body = Append(@, line)])

(* The stack after each line. *)
ReadLines(lines) ==
    LET stack[i \in 0 .. Len(lines)] ==
          IF i = 0 THEN <<MimeNode("")>> ELSE ReadLine(stack[i - 1], lines[i])
    IN  stack[Len(lines)]

(* finalizeTree: the last header need not have come to its end, nor the nodes. *)
HeaderEnded(stack) ==
    IF Last(stack).state = "header" THEN Append(Front(stack), ProcessHeader(Last(stack))) ELSE stack

Finalized(stack) ==
    LET up[i \in 0 .. Len(stack) - 1] == IF i = 0 THEN HeaderEnded(stack) ELSE ToParent(up[i - 1])
    IN  up[Len(stack) - 1][1]

Parse(lines) == Finalized(ReadLines(lines))

BodySize(node) == Len(TextOf(node.body))
LineCount(node) == Larger(Len(node.body) - 1, 0)

(* extractMailData: the body of such a node is stored elsewhere. *)
IsAttachment(node) ==
    node.boundary = "" /\ "file" \in Types(node) /\ BodySize(node) > 0

-----------------------------------------------------------------------------
(* rebuild *)

(* What walk emits for a node without its header, one after the other; the       *)
(* contents of an attachment are one item.  A multipart's own text goes before   *)
(* its delimiter.  Emitted[n] takes nodes of less than n levels.               *)
HeaderText(node) == TextOf(node.header) \o <<NEWLINE>>

EmittedOf(node, inner) ==
    LET delimiter == <<"open", node.boundary>>
        Part(i) == <<HeaderText(node.kids[i])>> \o inner[node.kids[i]]
                     \o (IF i < Len(node.kids) THEN <<<<delimiter>>>> ELSE <<>>)
    IN  CASE node.boundary # "" ->
               <<TextOf(node.body) \o <<delimiter>>>>
                 \o FlattenSeq([i \in DOMAIN node.kids |-> Part(i)])
                 \o <<<<<<"close", node.boundary>>>>>>
          [] node.boundary = "" /\ IsAttachment(node) -> <<<<<<"attachment", TextOf(node.body)>>>>>>
          [] node.boundary = "" /\ ~ IsAttachment(node) -> <<TextOf(node.body)>>

EmittedOver(inner) == [node \in NodesOver(DOMAIN inner) |-> EmittedOf(node, inner)]

Emitted[n \in Nat] == IF n = 0 THEN <<>> ELSE EmittedOver(Emitted[n - 1])

(* A line break goes between what is emitted. *)
Rebuilt(n, node, textOnly) ==
    Joined((IF textOnly THEN <<>> ELSE <<HeaderText(node)>>) \o Emitted[n][node])
      \o (IF LineCount(node) > 1 THEN <<NEWLINE>> ELSE <<>>)

(* createReadStream: getAttachment gives an array, whose length of 1 is what   *)
(* the bounds are cut to.  To GridFS an end of 0 is none.                     *)
AttachmentStream(file, startFrom, maxLength) ==
    LET start == Smaller(startFrom, 1)
        end == Smaller(startFrom + maxLength, 1)
    IN  IF end = 0 THEN file ELSE SubSeq(file, start + 1, Smaller(end, Len(file)))

(* write, for a piece, and getCurrentBounds with the read of an attachment.     *)
(* A maxLength of 0 is no limit, and reads 0 pieces as far as the counters go. *)
WritePiece(w, piece, startFrom, maxLength) ==
    IF w.curWritePos < startFrom \/ (maxLength # 0 /\ w.writeLength >= maxLength)
    THEN [w EXCEPT !.curWritePos = @ + 1]
    ELSE [w EXCEPT !.curWritePos = @ + 1, !.output = Append(@, piece),
                   !.writeLength = @ + (IF maxLength = 0 THEN 0 ELSE 1)]

Piped(w, size, file, startFrom, maxLength) ==
    LET from == Larger(startFrom - w.curWritePos, 0)
        bytes == IF maxLength = 0 THEN 0 ELSE Smaller(size - from, maxLength - w.writeLength)
    IN
    CASE w.curWritePos + size < startFrom -> [w EXCEPT !.curWritePos = @ + size]
      [] w.curWritePos + size >= startFrom /\ maxLength # 0 /\ w.writeLength >= maxLength ->
            [w EXCEPT !.writeLength = @ + size]
      [] OTHER ->
            IF size <= from THEN [w EXCEPT !.curWritePos = @ + from]
            ELSE [w EXCEPT !.curWritePos = @ + from + bytes, !.writeLength = @ + bytes,
                           !.output = @ \o AttachmentStream(file, from, bytes)]

(* The stream of a rebuilt text, an attachment in it having its contents and what *)
(* is stored of them.                                                       *)
Streamed(text, startFrom, maxLength) ==
    LET Write(w, piece) ==
          IF piece[1] = "attachment"
          THEN Piped(w, Len(piece[2]), piece[3], startFrom, maxLength)
          ELSE WritePiece(w, piece, startFrom, maxLength)
        written[i \in 0 .. Len(text)] ==
          IF i = 0 THEN [output |-> <<>>, curWritePos |-> 0, writeLength |-> 0]
          ELSE Write(written[i - 1], text[i])
    IN  written[Len(text)].output

-----------------------------------------------------------------------------
(* getLength.  Every append but the first has a line break before it. *)

HeaderLength(node) == Len(TextOf(node.header)) + 2

AppendedOf(node, inner) ==
    LET size == BodySize(node)
        parts[i \in 0 .. Len(node.kids)] ==
          IF i = 0 THEN 0
          ELSE parts[i - 1] + HeaderLength(node.kids[i]) + inner[node.kids[i]]
    IN  (IF size = 0 THEN 0 ELSE IF node.boundary = "" THEN size + 1 ELSE size)
        + (IF node.boundary = "" THEN 0
           ELSE 2 + parts[Len(node.kids)] + 2 * Larger(Len(node.kids) - 1, 0) + 3)

AppendedOver(inner) == [node \in NodesOver(DOMAIN inner) |-> AppendedOf(node, inner)]

Appended[n \in Nat] == IF n = 0 THEN <<>> ELSE AppendedOver(Appended[n - 1])

Length(n, node, textOnly) ==
    Larger((IF textOnly THEN 0 ELSE HeaderLength(node)) + Appended[n][node] - 1, 0)

-----------------------------------------------------------------------------
(* resolveNode: the node of a path in a sequence of one, or none. *)
Resolve(tree, path) ==
    LET Child(found, k) ==
          IF found # <<>> /\ k \in DOMAIN found[1].kids THEN <<found[1].kids[k]>> ELSE <<>>
        found[i \in 0 .. Len(path)] == IF i = 0 THEN <<tree>> ELSE Child(found[i - 1], path[i])
    IN  IF tree.kids = <<>> /\ path = <<1>> THEN <<tree>> ELSE found[Len(path)]
=============================================================================
