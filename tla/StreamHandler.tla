----------------------------- MODULE StreamHandler -----------------------------
(***************************************************************************)
(* How the IMAP server cuts the TCP stream of a connection into commands     *)
(* (streamHandler.ts).  A command is a line, or several lines with a literal *)
(* between two of them; a line before a literal ends in the literal's size.  *)
(* TCP delivers what the client sends in chunks of any size.                 *)
(*                                                                          *)
(* What travels is a sequence of symbols, each of which says where in which   *)
(* command it comes from: <<"text", k, j, x>> is the x-th piece of text of    *)
(* line j of command k, "size" the {n} at its end, "crlf" its end and "byte"  *)
(* a byte of the literal before it.                                          *)
(***************************************************************************)
EXTENDS Integers, Sequences

CONSTANTS
    Sessions,   \* what a client may do in a connection, see SessionAssumption
    MaxLine     \* MAX_LINE_LENGTH

(* The commands a client sends, each of some width and with some literals;     *)
(* whether it sends one before the last is answered; and whether TCP cuts the  *)
(* stream where a literal ends.                                              *)
ASSUME SessionAssumption ==
    /\ MaxLine \in Nat
    /\ \A s \in Sessions :
          /\ s.script \in Seq([width : Nat \ {0}, literals : Seq(Nat)])
          /\ s.pipelining \in BOOLEAN /\ s.cutAfterLiteral \in BOOLEAN

VARIABLES
    session,     \* what the client does in this connection
    next,        \* the line the client sends next: <<command, line>>
    prompted,    \* continuations and answers the client has seen since
    wire,        \* symbols on their way
    remaining,   \* start of a line whose end has not come yet
    command,     \* existingCommand, or NoCommand
    expected,    \* expectedLiterals
    chunks,      \* literalChunks
    finished     \* the commands handed to finished()

server == <<remaining, command, expected, chunks>>
vars == <<session, next, prompted, wire, server, finished>>

Sym(kind, k, j, x) == <<kind, k, j, x>>
Kind(s) == s[1]
Script == session.script
NoCommand == [lines |-> <<>>, literals |-> <<>>]

Lines(k) == Len(Script[k].literals) + 1
Text(k, j) == [x \in 1 .. Script[k].width |-> Sym("text", k, j, x)]
Size(k, j) == IF j < Lines(k)
              THEN <<Sym("size", k, j, Script[k].literals[j])>>
              ELSE <<>>
Literal(k, j) == [x \in 1 .. Script[k].literals[j] |-> Sym("byte", k, j, x)]

(* What the client sends at a time: a line, with the literal before it. *)
Burst(k, j) ==
    (IF j = 1 THEN <<>> ELSE Literal(k, j - 1))
      \o Text(k, j) \o Size(k, j) \o <<Sym("crlf", k, j, 0)>>

(* The command as the client means it. *)
Meant(k) == [lines |-> [j \in 1 .. Lines(k) |-> Text(k, j) \o Size(k, j)],
             literals |-> [j \in 1 .. Lines(k) - 1 |-> Literal(k, j)]]

Init ==
    /\ session \in Sessions
    /\ next = <<1, 1>>
    /\ prompted = TRUE
    /\ wire = <<>>
    /\ remaining = <<>>
    /\ command = NoCommand
    /\ expected = 0
    /\ chunks = <<>>
    /\ finished = <<>>

-----------------------------------------------------------------------------
(* The client sends a command's first line when it may, and each later line   *)
(* with the literal it was prompted for.                                     *)
Send ==
    LET k == next[1]
        j == next[2]
    IN  /\ k <= Len(Script)
        /\ prompted \/ (session.pipelining /\ j = 1)
        /\ wire' = wire \o Burst(k, j)
        /\ next' = IF j < Lines(k) THEN <<k, j + 1>> ELSE <<k + 1, 1>>
        /\ prompted' = FALSE
        /\ UNCHANGED <<session, server, finished>>

(* A refused command: the client does not send the rest of it. *)
Skip(k) == IF next[1] = k /\ next[2] > 1 THEN <<k + 1, 1>> ELSE next

-----------------------------------------------------------------------------
(* The server.  An operator marked Mutant is a bug this code could have had.  *)

EndOfLine(data) == {i \in DOMAIN data : Kind(data[i]) = "crlf"}
HasLiteral(line) == line # <<>> /\ Kind(line[Len(line)]) = "size"
FirstLine == command.lines = <<>>

(* addLine finds a tag and a known command in the first line.  The tail of a  *)
(* line is the client's own text: it may or may not look like a command.     *)
Acceptable(line) ==
    IF FirstLine /\ line # <<>> /\ line[1][4] # 1 THEN BOOLEAN
    ELSE {FirstLine => line # <<>>}

Reset ==
    /\ command' = NoCommand
    /\ expected' = 0
    /\ chunks' = <<>>

(* Line too long: everything read so far is dropped. *)
TooLong ==
    /\ Reset
    /\ remaining' = <<>>
    /\ prompted' = TRUE
    /\ next' = Skip(next[1])
    /\ UNCHANGED finished

(* Mutant: a chunk with no line end in it is lost. *)
NoLineEndLoses(data, literals, left) ==
    /\ remaining' = <<>>
    /\ command' = [command EXCEPT !.literals = literals]
    /\ expected' = 0
    /\ chunks' = left
    /\ UNCHANGED <<next, prompted, finished>>

NoLineEnd(data, literals, left) ==
    /\ remaining' = data
    /\ command' = [command EXCEPT !.literals = literals]
    /\ expected' = 0
    /\ chunks' = left
    /\ UNCHANGED <<next, prompted, finished>>

(* Mutant: no continuation request. *)
LiteralAnnouncedSilently(line, literals, left) ==
    /\ command' = [lines |-> Append(command.lines, line), literals |-> literals]
    /\ expected' = line[Len(line)][4]
    /\ chunks' = left
    /\ remaining' = <<>>
    /\ UNCHANGED <<next, prompted, finished>>

(* A line that announces a literal: "+ Go ahead". *)
LiteralAnnounced(line, literals, left) ==
    /\ command' = [lines |-> Append(command.lines, line), literals |-> literals]
    /\ expected' = line[Len(line)][4]
    /\ chunks' = left
    /\ remaining' = <<>>
    /\ prompted' = TRUE
    /\ UNCHANGED <<next, finished>>

(* The last line of a command; finished() answers it in the background. *)
LineEnded(line, literals, left) ==
    /\ finished' = Append(finished, [lines |-> Append(command.lines, line),
                                     literals |-> literals])
    /\ command' = NoCommand
    /\ expected' = 0
    /\ chunks' = left
    /\ remaining' = <<>>
    /\ prompted' = TRUE
    /\ UNCHANGED next

(* addLine refuses the line and has answered BAD. *)
Refused(line, left) ==
    /\ command' = NoCommand
    /\ expected' = 0
    /\ chunks' = IF HasLiteral(line) THEN <<>> ELSE left
    /\ remaining' = <<>>
    /\ prompted' = TRUE
    /\ next' = IF HasLiteral(line) THEN Skip(line[1][2]) ELSE next
    /\ UNCHANGED finished

(* read() when no literal is expected, given the literals and chunks so far:  *)
(* one line is taken, and what follows its CRLF is dropped.                  *)
ReadLine(data, literals, left) ==
    IF EndOfLine(data) = {}
    THEN NoLineEnd(data, literals, left)
    ELSE LET end == CHOOSE i \in EndOfLine(data) : \A j \in EndOfLine(data) : i <= j
             line == SubSeq(data, 1, end - 1)
         IN  \E ok \in Acceptable(line) :
                \/ ~ ok /\ Refused(line, left)
                \/ ok /\ HasLiteral(line) /\ LiteralAnnounced(line, literals, left)
                \/ ok /\ ~ HasLiteral(line) /\ LineEnded(line, literals, left)

(* Mutant: the chunks of the literal are kept for the next. *)
ReadLiteralKeepsChunks(data) ==
    IF Len(data) > expected
    THEN LET literal == chunks \o SubSeq(data, 1, expected)
         IN  ReadLine(SubSeq(data, expected + 1, Len(data)),
                      Append(command.literals, literal), literal)
    ELSE /\ expected' = expected - Len(data)
         /\ chunks' = chunks \o data
         /\ remaining' = <<>>
         /\ UNCHANGED <<next, prompted, command, finished>>

(* read() inside a literal: it ends only when a byte after it has come. *)
ReadLiteral(data) ==
    IF Len(data) > expected
    THEN ReadLine(SubSeq(data, expected + 1, Len(data)),
                  Append(command.literals, chunks \o SubSeq(data, 1, expected)),
                  <<>>)
    ELSE /\ expected' = expected - Len(data)
         /\ chunks' = chunks \o data
         /\ remaining' = <<>>
         /\ UNCHANGED <<next, prompted, command, finished>>

(* Where TCP may cut: anywhere, or anywhere but at the end of a literal. *)
Cut(n) ==
    \/ session.cutAfterLiteral
    \/ n = Len(wire)
    \/ ~ (Kind(wire[n]) = "byte" /\ Kind(wire[n + 1]) # "byte")

(* _write and read. *)
Write(n) ==
    /\ n \in 1 .. Len(wire)
    /\ Cut(n)
    /\ wire' = SubSeq(wire, n + 1, Len(wire))
    /\ UNCHANGED session
    /\ LET data == remaining \o SubSeq(wire, 1, n) IN
          \/ Len(data) > MaxLine /\ TooLong
          \/ Len(data) <= MaxLine /\ expected > 0 /\ ReadLiteral(data)
          \/ /\ Len(data) <= MaxLine /\ expected = 0
             /\ ReadLine(data, command.literals, chunks)

Next == Send \/ \E n \in 1 .. Len(wire) : Write(n)

(* TCP delivers and the client goes on when it may. *)
Fairness == WF_vars(Send) /\ WF_vars(\E n \in 1 .. Len(wire) : Write(n))

Spec == Init /\ [][Next]_vars /\ Fairness

-----------------------------------------------------------------------------
(* Properties *)

Symbols == Seq({"text", "size", "crlf", "byte"} \X Nat \X Nat \X Nat)
CommandType == [lines : Seq(Symbols), literals : Seq(Symbols)]

TypeOK ==
    /\ session \in Sessions
    /\ next \in Nat \X Nat
    /\ prompted \in BOOLEAN
    /\ wire \in Symbols
    /\ remaining \in Symbols /\ Len(remaining) <= MaxLine
    /\ command \in CommandType
    /\ expected \in Nat
    /\ chunks \in Symbols
    /\ finished \in Seq(CommandType)

AsSent == \A k \in DOMAIN finished : k <= Len(Script) /\ finished[k] = Meant(k)

(* A client that waits for each answer, sends no line that is too long, and    *)
(* whose literals are not empty and never end where a chunk does.            *)
Careful ==
    /\ ~ session.pipelining /\ ~ session.cutAfterLiteral
    /\ \A k \in DOMAIN Script :
          /\ \A j \in 1 .. Lines(k) : Len(Burst(k, j)) <= MaxLine
          /\ \A j \in DOMAIN Script[k].literals : Script[k].literals[j] > 0

(* What is handed on is what a careful client sent, in its order, wherever     *)
(* else TCP cuts its lines and literals.                                     *)
ExtractedAsSent == Careful => AsSent

(* A careful client gets through its script: each line it sends is answered    *)
(* or prompted for more, however it is cut.                                  *)
AllExtracted == <>(Careful => Len(finished) = Len(Script))

(* Wherever a symbol can be: in a command that was handed on, in the current   *)
(* one, kept for it, or on its way.                                          *)
Everything == finished \o <<command, [lines |-> <<chunks, remaining, wire>>,
                                      literals |-> <<>>]>>

(* However the stream is cut, pipelined or too long, no piece of it is used    *)
(* twice: a dropped or misplaced piece is never also executed or kept.  (The    *)
(* types come with it, and that no line outgrows MAX_LINE_LENGTH.)            *)
NothingTwice ==
    /\ TypeOK
    /\ LET all == Everything IN
       \A i, j \in DOMAIN all : \A f, g \in {"lines", "literals"} :
          \A p \in DOMAIN all[i][f], q \in DOMAIN all[j][g] :
             \A x \in DOMAIN all[i][f][p], y \in DOMAIN all[j][g][q] :
                all[i][f][p][x] = all[j][g][q][y]
                  => i = j /\ f = g /\ p = q /\ x = y

-----------------------------------------------------------------------------
(* What a comment claims and the code does not keep *)

(* streamHandler.ts:14-15: the handler "correctly extracts the command lines   *)
(* and literals", without conditions.                                        *)
CorrectlyExtracts == AsSent
=============================================================================
