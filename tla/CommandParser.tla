------------------------------ MODULE CommandParser ------------------------------
(***************************************************************************)
(* imapCommandParser: the arguments of an IMAP command, read one character    *)
(* at a time into a tree of nodes (TokenParser), which getAttributes turns    *)
(* into the arguments that the handlers get.                                 *)
(*                                                                          *)
(* The input is a sequence of symbols: a special character, a letter ("a"),    *)
(* a digit, or a word the parser or FETCH looks for.  Letters are lower      *)
(* case.  The stream handler has taken the literals out: where a line ends     *)
(* in {n}, n > 0, the input has a CRLF, and the next of the literals goes      *)
(* with it (imapCommand.addLine).  A literal is known by its number.          *)
(*                                                                          *)
(* Jumping over the spaces after a closed node (checkSP) is left out: a space *)
(* does nothing in the state NORMAL.  The response codes of OK, NO, BAD, BYE    *)
(* and PREAUTH (lines 211-251, 562-577) are not modelled: no command of        *)
(* commandList has such a name.                                              *)
(***************************************************************************)
EXTENDS Integers, SequencesExt

CONSTANTS
    Symbol,      \* what a client types
    MaxInput,    \* the length of the inputs made of any symbols
    Typed        \* longer inputs

ASSUME ParserAssumption == MaxInput \in Nat

VARIABLES
    input,    \* what has been read
    parser,   \* TokenParser
    args,     \* response.attributes, once the command is parsed
    read      \* history: what a reader of the input has seen, for ParsedAsTyped

parserVars == <<input, parser, args, read>>

NoArgs == [ok |-> FALSE, value |-> <<>>]

TypedSymbol == UNION {Range(t) : t \in Typed}
Char == Symbol \cup TypedSymbol

Digits == {"0", "1", "2", "3", "4", "5"}
Words == {"BODY", "TEXT", "HEADER", "NIL", "a"}
AtomChars == Digits \cup Words \cup {"[", "<", ">", "}", ":", ",", "."}

(* imapFormalSyntax.DIGIT: its second range is that of the lower-case letters. *)
DIGIT == Digits \cup {"a"}

-----------------------------------------------------------------------------
(* An argument: what an atom, a list or the like became, with the section and   *)
(* the partial (none, or one) that came after it.  A literal is its number.    *)
Argument(type, value, literal, items) ==
    [type |-> type, value |-> value, literal |-> literal, items |-> items,
     section |-> FALSE, sections |-> <<>>, partial |-> <<>>]

WithSection(a, items) == [a EXCEPT !.section = TRUE, !.sections = items]
WithPartial(a, value) == [a EXCEPT !.partial = <<value>>]

(* Nodes.  The stack holds the open nodes, from the tree's root to the current *)
(* one.  A node that is left becomes a child of the one below, which keeps of    *)
(* its children what getAttributes makes of them: the arguments, and whether    *)
(* they are all closed.                                                     *)

Node(type, value, closed) ==
    [type |-> type, value |-> value, literal |-> 0, closed |-> closed,
     items |-> <<>>, whole |-> TRUE]

Start == [state |-> "NORMAL", stack |-> <<Node("TREE", <<>>, TRUE)>>,
          literals |-> 0, error |-> FALSE]

Star(node) == node.type = "SEQUENCE" /\ node.value = <<"*">>
Whole(node) == node.whole /\ (node.closed \/ Star(node))

Added(list, node) ==
    CASE node.type = "LIST" -> Append(list, Argument("LIST", <<>>, 0, node.items))
      [] node.type = "SECTION" -> Append(Front(list), WithSection(Last(list), node.items))
      [] node.type = "PARTIAL" -> Append(Front(list), WithPartial(Last(list), node.value))
      [] node.type = "LITERAL" -> Append(list, Argument("LITERAL", <<>>, node.literal, <<>>))
      [] node.type = "ATOM" /\ node.value = <<"NIL">> -> Append(list, Argument("NIL", <<>>, 0, <<>>))
      [] Star(node) /\ ~ node.closed -> Append(list, Argument("ATOM", node.value, 0, <<>>))
      [] OTHER -> Append(list, Argument(node.type, node.value, 0, <<>>))

WithChild(node, child) ==
    [node EXCEPT !.items = Added(@, child), !.whole = @ /\ Whole(child)]

Current(p) == Last(p.stack)
Parent(p) == Last(Front(p.stack))

Open(p, node, state) ==
    [p EXCEPT !.stack = Append(@, node), !.state = state]

Change(p, node) == [p EXCEPT !.stack = Append(Front(@), node)]
Take(p, c) == Change(p, [Current(p) EXCEPT !.value = Append(@, c)])

LeaveAs(p, node) ==
    [p EXCEPT !.state = "NORMAL",
              !.stack = Append(Front(Front(@)), WithChild(Parent(p), node))]

Leave(p) == LeaveAs(p, Current(p))
Close(p) == LeaveAs(p, [Current(p) EXCEPT !.closed = TRUE])
Throw(p) == [p EXCEPT !.error = TRUE]

Ends(value, set) == value # <<>> /\ Last(value) \in set

-----------------------------------------------------------------------------
(* processString: one character in each state.  An operator marked Mutant is a *)
(* bug this code could have had.                                             *)

Normal(p, c) ==
    LET partial == c = "<" /\ Ends(input, {"]"}) IN
    CASE c = "\"" -> Open(p, Node("STRING", <<>>, FALSE), "STRING")
      [] c = "(" -> Open(p, Node("LIST", <<>>, FALSE), "NORMAL")
      [] c = ")" -> IF Current(p).type = "LIST" THEN Close(p) ELSE Throw(p)
      [] c = "]" -> IF Current(p).type = "SECTION" THEN Close(p) ELSE Throw(p)
      [] partial -> Open(p, Node("PARTIAL", <<>>, FALSE), "PARTIAL")
      [] c = "{" -> Open(p, Node("LITERAL", <<>>, FALSE), "LITERAL")
      [] c = "*" -> Open(p, Node("SEQUENCE", <<c>>, FALSE), "SEQUENCE")
      [] c = " " -> p
      [] c \in AtomChars \cup {"\\", "%"} /\ ~ partial -> Open(p, Node("ATOM", <<c>>, TRUE), "ATOM")
      [] OTHER -> Throw(p)

ClosesParent(p, c) ==
    \/ c = ")" /\ Parent(p).type = "LIST"
    \/ c = "]" /\ Parent(p).type = "SECTION"

Atom(p, c) ==
    LET value == Current(p).value
        separates == c \in {",", ":"} /\ Range(value) \subseteq Digits
        allowed == \/ c \in (AtomChars \ {"<", "["}) \cup {"]"} /\ value # <<"\\", "*">>
                   \/ c = "*" /\ value = <<"\\">>
    IN
    CASE c = " " -> Leave(p)
      [] ClosesParent(p, c) -> Close(Leave(p))
      [] separates ->
            [Change(p, [Current(p) EXCEPT !.type = "SEQUENCE", !.value = Append(@, c)])
                EXCEPT !.state = "SEQUENCE"]
      [] c = "[" -> IF value = <<"BODY">>
                    THEN Open(Leave(p), Node("SECTION", <<>>, FALSE), "NORMAL")
                    ELSE Throw(p)
      [] allowed /\ ~ separates /\ ~ ClosesParent(p, c) -> Take(p, c)
      [] OTHER -> Throw(p)

(* Mutant: the escaped character is looked at as any other. *)
StringUnescaped(p, c) ==
    CASE c = "\"" -> Close(p)
      [] c = "\\" -> p
      [] OTHER -> Take(p, c)

(* After a backslash the state is ESCAPE: whatever comes is taken. *)
String(p, c) ==
    CASE p.state = "ESCAPE" -> [Take(p, c) EXCEPT !.state = "STRING"]
      [] p.state = "STRING" /\ c = "\"" -> Close(p)
      [] p.state = "STRING" /\ c = "\\" -> [p EXCEPT !.state = "ESCAPE"]
      [] OTHER -> Take(p, c)

Partial(p, c) ==
    LET value == Current(p).value
        zero == Ends(value, {"0"})
                  /\ (Len(value) = 1 \/ value[Len(value) - 1] = ".")
    IN
    CASE c = ">" -> IF Ends(value, {"."}) THEN Throw(p) ELSE Close(p)
      [] c = "." /\ value # <<>> /\ "." \notin Range(value) -> Take(p, c)
      [] c \in DIGIT /\ ~ zero -> Take(p, c)
      [] OTHER -> Throw(p)

(* The digits, then } and a line end, for which the state is LITERAL END. The   *)
(* parser takes the next literal, or none for the length 0 (Number is NaN, so   *)
(* also 0, when there is a letter).                                          *)
Literal(p, c) ==
    LET size == Current(p).value
        given == Range(size) \subseteq Digits /\ size # <<"0">>
        next == p.literals + 1
    IN
    CASE p.state = "LITERAL END" /\ c # "CRLF" -> Throw(p)
      [] p.state = "LITERAL END" /\ c = "CRLF" ->
            IF given
            THEN [LeaveAs(p, [Current(p) EXCEPT !.closed = TRUE, !.literal = next])
                     EXCEPT !.literals = next]
            ELSE Close(p)
      [] p.state = "LITERAL" /\ c = "}" /\ size # <<>> -> [p EXCEPT !.state = "LITERAL END"]
      [] p.state = "LITERAL" /\ c \in DIGIT /\ size # <<"0">> -> Take(p, c)
      [] OTHER -> Throw(p)

Sequence(p, c) ==
    LET value == Current(p).value
        number == Ends(value, Digits)
        wild == Ends(value, {"*"})
        open == wild /\ Len(value) > 1 /\ value[Len(value) - 1] # ":"
    IN
    CASE c = " " -> IF (number \/ wild) /\ ~ open THEN Close(p) ELSE Throw(p)
      [] c = "]" /\ Parent(p).type = "SECTION" -> Close(Leave(p))
      [] \/ c = ":" /\ (number \/ wild)
         \/ c = "*" /\ Ends(value, {",", ":"})
         \/ c = "," /\ (number \/ wild) /\ (wild => Len(value) > 1 /\ ~ open)
         \/ c \in Digits /\ ~ wild -> Take(p, c)
      [] OTHER -> Throw(p)

Step(p, c) ==
    CASE p.state = "NORMAL" -> Normal(p, c)
      [] p.state = "ATOM" -> Atom(p, c)
      [] p.state \in {"STRING", "ESCAPE"} -> String(p, c)
      [] p.state = "PARTIAL" -> Partial(p, c)
      [] p.state \in {"LITERAL", "LITERAL END"} -> Literal(p, c)
      [] p.state = "SEQUENCE" -> Sequence(p, c)

(* The end of the input leaves the nodes that are still open.  A list or a       *)
(* section that is one of them is refused, whatever is in it.                 *)
Tree(p) == IF Len(p.stack) = 1 THEN p.stack[1] ELSE WithChild(p.stack[1], p.stack[2])

-----------------------------------------------------------------------------
(* Reading the input from left to right, where all that is to be known of what   *)
(* came before is whether a string or a literal's size is open: its text with    *)
(* the spaces, the needless escapes and the literals' sizes left out, how many   *)
(* literals were announced, and whether one was within a string.               *)

NothingRead == [in |-> "text", text |-> <<>>, announced |-> 0, broken |-> FALSE]

Escaped(s) ==
    FlattenSeq([i \in DOMAIN s |-> IF s[i] \in {"\"", "\\"} THEN <<"\\", s[i]>> ELSE <<s[i]>>])

ReadText(r, c) ==
    CASE c = " " -> r
      [] c = "{" -> [r EXCEPT !.in = "size"]
      [] c = "\"" -> [r EXCEPT !.in = "string", !.text = Append(@, c)]
      [] OTHER -> [r EXCEPT !.text = Append(@, c)]

ReadString(r, c) ==
    CASE c = "\\" -> [r EXCEPT !.in = "escape"]
      [] c = "\"" -> [r EXCEPT !.in = "text", !.text = Append(@, c)]
      [] OTHER -> [r EXCEPT !.text = Append(@, c), !.broken = @ \/ c = "CRLF"]

ReadSize(r, c) ==
    IF c = "CRLF" THEN [r EXCEPT !.in = "text", !.text = Append(@, "literal")] ELSE r

Read(r, c) ==
    LET next == CASE r.in = "text" -> ReadText(r, c)
                  [] r.in = "string" -> ReadString(r, c)
                  [] r.in = "escape" -> [r EXCEPT !.in = "string", !.text = @ \o Escaped(<<c>>)]
                  [] r.in = "size" -> ReadSize(r, c)
    IN  IF c = "CRLF" THEN [next EXCEPT !.announced = @ + 1] ELSE next

-----------------------------------------------------------------------------
(* The command's lines come in, and finished() has them parsed. *)

ParserInit ==
    /\ input = <<>>
    /\ parser = Start
    /\ args = NoArgs
    /\ read = NothingRead

Parsing == ~ parser.error /\ parser.state # "PARSED"

(* addLine ends a line in {n}, n > 0, with a CRLF; there is no other CRLF.  The *)
(* one space before the arguments is gone, and a second one is refused.      *)
AnnouncesLiteral(s) ==
    \E k \in 1 .. Len(s) :
        /\ s[k] = "{" /\ Last(s) = "}" /\ k + 1 < Len(s)
        /\ \A j \in k + 1 .. Len(s) - 1 : s[j] \in Digits
        /\ \E j \in k + 1 .. Len(s) - 1 : s[j] # "0"

Feed(c) ==
    /\ Parsing
    /\ LET s == Append(input, c) IN
          \/ Len(s) <= MaxInput /\ Range(s) \subseteq Symbol
          \/ \E t \in Typed : IsPrefix(s, t)
    /\ c = "CRLF" => AnnouncesLiteral(input)
    /\ c = " " => input # <<>>
    /\ input' = Append(input, c)
    /\ parser' = Step(parser, c)
    /\ read' = Read(read, c)
    /\ UNCHANGED args

Parsed ==
    /\ Parsing
    /\ ~ AnnouncesLiteral(input)
    /\ IF parser.state # "ESCAPE" /\ Whole(Tree(parser))
       THEN /\ args' = [ok |-> TRUE, value |-> Tree(parser).items]
            /\ parser' = [parser EXCEPT !.state = "PARSED"]
       ELSE parser' = Throw(parser) /\ UNCHANGED args
    /\ UNCHANGED <<input, read>>

ParserNext == Parsed \/ \E c \in Char : Feed(c)

ParserSpec == ParserInit /\ [][ParserNext]_parserVars

-----------------------------------------------------------------------------
(* Properties *)

(* How arguments are written, without the spaces between them, and the literals *)
(* among them as they come.  Written[n] takes lists nested less than n deep.    *)

ArgumentsOver(lists) ==
    [type : {"LIST", "STRING", "LITERAL", "NIL", "ATOM", "SEQUENCE"}, value : Seq(Char),
     literal : Nat, items : lists, section : BOOLEAN, sections : lists,
     partial : Seq(Seq(Char))]

ArgumentText(a, inner) ==
    LET text == CASE a.type = "LIST" -> <<"(">> \o inner[a.items].text \o <<")">>
                  [] a.type = "STRING" -> <<"\"">> \o Escaped(a.value) \o <<"\"">>
                  [] a.type = "LITERAL" -> <<"literal">>
                  [] a.type = "NIL" -> <<"NIL">>
                  [] OTHER -> a.value
    IN  text \o (IF a.section THEN <<"[">> \o inner[a.sections].text \o <<"]">> ELSE <<>>)
             \o (IF a.partial # <<>> THEN <<"<">> \o a.partial[1] \o <<">">> ELSE <<>>)

ArgumentLiterals(a, inner) ==
    (IF a.literal = 0 THEN <<>> ELSE <<a.literal>>)
        \o inner[a.items].literals \o inner[a.sections].literals

WrittenOver(inner) ==
    [list \in Seq(ArgumentsOver(DOMAIN inner)) |->
        [text |-> FlattenSeq([i \in DOMAIN list |-> ArgumentText(list[i], inner)]),
         literals |-> FlattenSeq([i \in DOMAIN list |-> ArgumentLiterals(list[i], inner)])]]

Written[n \in Nat] ==
    IF n = 0 THEN [list \in {<<>>} |-> [text |-> <<>>, literals |-> <<>>]]
    ELSE WrittenOver(Written[n - 1])

(* What the parser accepts it has understood: its arguments, written out, are   *)
(* the command that was typed, with every list, section and string closed as   *)
(* it was opened; and every literal the client announced goes to the argument   *)
(* it was sent for, unless the client announces one inside of a quoted string. *)
ParsedAsTyped ==
    args.ok =>
        LET written == Written[Len(input) + 1][args.value] IN
        /\ written.text = read.text
        /\ ~ read.broken => written.literals = [k \in 1 .. read.announced |-> k]
=============================================================================
