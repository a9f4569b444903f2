--------------------------- MODULE ImapServerProofs ---------------------------
(***************************************************************************)
(* Theorems about ImapServer, for any connections, users, mailboxes, copies of *)
(* mails, and any number of commands that clients keep outstanding.            *)
(***************************************************************************)
EXTENDS ImapServer, TLAPS, FiniteSetTheorems, FunctionTheorems, SequenceTheorems,
        WellFoundedInduction

-----------------------------------------------------------------------------
(* The inductive invariant *)

Running ==
    {Idle} \cup [op : {"login"}, user : User] \cup SelectCommand
    \cup [op : {"fetch"}, step : {"read", "stream"},
          box : Mailbox \cup {NoBox}, of : Mailbox \cup {NoBox}]

(* What TypeOK says, but for the order of a sequence. *)
Shape ==
    /\ stage \in [Copy -> [at : {"none", "read", "announced", "stored"}, uid : Nat]]
    /\ published \subseteq Notice
    /\ link \in [Conn -> {"new", "open", "closing", "closed"}]
    /\ connections = {c \in Conn : link[c] \in {"open", "closing"}}
    /\ authenticated \in [User -> SUBSET Conn]
    /\ state \in [Conn -> {"NOTAUTH", "AUTH", "SELECTED", "LOGOUT"}]
    /\ sessions \in [Conn -> Seq(SessionObject)]
    /\ current \in [Conn -> Nat]
    /\ DOMAIN selected = Conn /\ selected = [c \in Conn |-> selected[c]]
    /\ \A c \in Conn :
          /\ selected[c].name \in Mailbox \cup {NoBox}
          /\ selected[c] = [name |-> selected[c].name, sequence |-> selected[c].sequence,
                            highestModSeq |-> selected[c].highestModSeq]
    /\ pending \in [Conn -> Seq(Notice)]
    /\ running \in [Conn -> [Tag -> Running]]

(* The sessions of a connection, and commands that hold one, keep to mailboxes *)
(* of their user; so does what is selected.                                 *)
Owned(c) ==
    /\ current[c] <= Len(sessions[c])
    /\ \A i \in 1 .. Len(sessions[c]) :
          sessions[c][i].box # NoBox => Owner[sessions[c][i].box] = sessions[c][i].user
    /\ \A t \in Tag : running[c][t].op = "select" =>
          /\ running[c][t].session <= Len(sessions[c])
          /\ Owner[running[c][t].box] = sessions[c][running[c][t].session].user
          /\ running[c][t].step \in {"list", "listed"} =>
                sessions[c][running[c][t].session].box # NoBox
    /\ selected[c].name # NoBox =>
          current[c] # 0 /\ Owner[selected[c].name] = Session(c).user

Usable(c) ==
    state[c] = "SELECTED" =>
        selected[c].name # NoBox /\ current[c] # 0 /\ Session(c).box # NoBox

(* Until it closes a connection has one session at most, and nothing before. *)
Young(c) ==
    link[c] \in {"new", "open"} =>
        /\ Len(sessions[c]) <= 1 /\ current[c] = Len(sessions[c])
        /\ state[c] # "NOTAUTH" => current[c] # 0
        /\ current[c] # 0 =>
              /\ c \in authenticated[Session(c).user]
              /\ \A i \in DOMAIN pending[c] :
                    Owner[BoxOf[pending[c][i].copy]] = Session(c).user
              /\ \A t \in Tag : running[c][t].op = "fetch" =>
                    Owner[running[c][t].box] = Session(c).user
        /\ current[c] = 0 =>
              /\ pending[c] = <<>>
              /\ \A t \in Tag : running[c][t].op # "fetch"

Good(c) == Owned(c) /\ Usable(c) /\ Young(c)

ServerInv == Shape /\ \A c \in Conn : Good(c)

-----------------------------------------------------------------------------
(* Shape *)

(* A mailbox has finitely many messages. *)
LEMMA FeedCounts ==
    ASSUME NEW b
    PROVE  Total(b) \in Nat
<1>1. StoredIn(b) \subseteq Copy
  BY DEF StoredIn
<1>2. IsFiniteSet(StoredIn(b))
  BY <1>1, FS_Subset, ServerAssumption
<1>3. Cardinality(StoredIn(b)) \in Nat
  BY <1>2, FS_CardinalityType
<1>. QED
  BY <1>3 DEF Total

(* The feed of stored mail keeps its types. *)
LEMMA FeedShape ==
    ASSUME Shape, FeedNext
    PROVE  /\ stage' \in [Copy -> [at : {"none", "read", "announced", "stored"}, uid : Nat]]
           /\ published' \subseteq Notice
<1>0. /\ stage \in [Copy -> [at : {"none", "read", "announced", "stored"}, uid : Nat]]
      /\ published \subseteq Notice
  BY DEF Shape
<1>1. ASSUME NEW i \in Copy
      PROVE  /\ stage[i].uid \in Nat
             /\ NoticeOf(i, "transaction") \in Notice /\ NoticeOf(i, "handler") \in Notice
  <2>1. stage[i] \in [at : {"none", "read", "announced", "stored"}, uid : Nat]
    BY <1>0
  <2>. QED
    BY <2>1 DEF NoticeOf, Notice
<1>2. PICK i \in Copy : ReadCounters(i) \/ Announce(i) \/ Store(i) \/ Abort(i)
                        \/ AnnounceAgain(i)
  BY DEF FeedNext
<1>3. CASE ReadCounters(i)
  <2>1. Total(BoxOf[i]) + 1 \in Nat
    BY FeedCounts
  <2>. QED
    BY <1>0, <1>3, <2>1 DEF ReadCounters
<1>4. CASE Announce(i)
  BY <1>0, <1>1, <1>4 DEF Announce
<1>5. CASE Store(i)
  BY <1>0, <1>5 DEF Store
<1>6. CASE Abort(i)
  BY <1>0, <1>6 DEF Abort
<1>7. CASE AnnounceAgain(i)
  BY <1>0, <1>1, <1>7 DEF AnnounceAgain
<1>. QED
  BY <1>2, <1>3, <1>4, <1>5, <1>6, <1>7

(* What is selected of a connection, as Shape has it. *)
IsData(data) ==
    /\ data.name \in Mailbox \cup {NoBox}
    /\ data = [name |-> data.name, sequence |-> data.sequence,
               highestModSeq |-> data.highestModSeq]

(* Notices move only the sequence of what is selected. *)
LEMMA PushedData ==
    ASSUME NEW data, NEW ns, IsData(data)
    PROVE  IsData(Pushed(data, ns)) /\ Pushed(data, ns).name = data.name
<1> DEFINE seq == data.sequence \o [i \in DOMAIN ns |-> ns[i].uid]
           high == Max({data.highestModSeq} \cup {ns[i].uid : i \in DOMAIN ns})
<1>1. Pushed(data, ns) =
          [[data EXCEPT !.sequence = seq] EXCEPT !.highestModSeq = high]
  BY DEF Pushed, IsData
<1> HIDE DEF seq, high
<1>2. Pushed(data, ns) = [name |-> data.name, sequence |-> seq, highestModSeq |-> high]
  BY <1>1 DEF IsData
<1>. QED
  BY <1>2 DEF IsData

(* finished() after a handler: pending notices go to the sequence, or stay. *)
LEMMA NotifyMoves ==
    ASSUME Shape, NEW c \in Conn, Notify(c) \/ UNCHANGED <<selected, pending>>
    PROVE  /\ DOMAIN selected' = Conn /\ selected' = [d \in Conn |-> selected'[d]]
           /\ \A d \in Conn : IsData(selected'[d]) /\ selected'[d].name = selected[d].name
           /\ pending' \in [Conn -> Seq(Notice)]
           /\ \A d \in Conn : pending'[d] = pending[d] \/ pending'[d] = <<>>
<1>0. /\ DOMAIN selected = Conn /\ selected = [d \in Conn |-> selected[d]]
      /\ \A d \in Conn : IsData(selected[d])
      /\ pending \in [Conn -> Seq(Notice)]
  BY DEF Shape, IsData
<1>1. CASE UNCHANGED <<selected, pending>>
  BY <1>0, <1>1
<1>2. CASE /\ selected' = [selected EXCEPT ![c] = Pushed(selected[c], pending[c])]
           /\ pending' = [pending EXCEPT ![c] = <<>>]
  <2>1. /\ IsData(Pushed(selected[c], pending[c]))
        /\ Pushed(selected[c], pending[c]).name = selected[c].name
    BY <1>0, PushedData
  <2>2. <<>> \in Seq(Notice)
    OBVIOUS
  <2>3. pending' \in [Conn -> Seq(Notice)] /\ \A d \in Conn : pending'[d] \in {pending[d], <<>>}
    BY <1>0, <1>2, <2>2
  <2>4. /\ DOMAIN selected' = Conn /\ selected' = [d \in Conn |-> selected'[d]]
        /\ \A d \in Conn : selected'[d] = IF d = c THEN Pushed(selected[c], pending[c])
                                          ELSE selected[d]
    BY <1>0, <1>2
  <2>. QED
    BY <1>0, <2>1, <2>3, <2>4
<1>. QED
  BY <1>1, <1>2 DEF Notify

(* The commands that can be at an await. *)
LEMMA Commands ==
    ASSUME Shape, NEW c \in Conn, NEW t \in Tag
    PROVE  /\ running[c][t].op = "login" => running[c][t] \in [op : {"login"}, user : User]
           /\ running[c][t].op = "select" => running[c][t] \in SelectCommand
           /\ running[c][t].op = "fetch" =>
                 running[c][t] \in [op : {"fetch"}, step : {"read", "stream"},
                                    box : Mailbox \cup {NoBox}, of : Mailbox \cup {NoBox}]
           /\ running[c][t] # Idle => running[c][t].op \in {"login", "select", "fetch"}
           /\ Idle \in Running /\ Idle.op = "none"
<1>1. running[c][t] \in Running
  BY DEF Shape
<1>. QED
  BY <1>1 DEF Running, Idle, SelectCommand

(* A step of one command leaves the others. *)
LEMMA RunMoves ==
    ASSUME Shape, NEW c \in Conn, NEW t \in Tag, NEW cmd \in Running,
           running' = [running EXCEPT ![c][t] = cmd]
    PROVE  /\ running' \in [Conn -> [Tag -> Running]]
           /\ running'[c][t] = cmd
           /\ \A s \in Tag \ {t} : running'[c][s] = running[c][s]
           /\ \A d \in Conn \ {c} : running'[d] = running[d]
<1>1. running \in [Conn -> [Tag -> Running]]
  BY DEF Shape
<1>. QED
  BY <1>1

(* What each command step makes of its command. *)
LEMMA CommandMoves ==
    ASSUME Shape, NEW c \in Conn, Owned(c), Usable(c), NEW t \in Tag,
           Command(c, t) \/ Resume(c, t) \/ StreamEnd(c, t)
    PROVE  \/ UNCHANGED running
           \/ \E cmd \in Running : running' = [running EXCEPT ![c][t] = cmd]
<1>0. /\ running \in [Conn -> [Tag -> Running]] /\ Idle \in Running
      /\ selected[c].name \in Mailbox \cup {NoBox}
      /\ current[c] \in Nat /\ sessions[c] \in Seq(SessionObject)
  BY DEF Shape, Running
<1>1. ASSUME NEW u \in User, LoginStart(c, t, u)
      PROVE  \E cmd \in Running : running' = [running EXCEPT ![c][t] = cmd]
  <2>1. [op |-> "login", user |-> u] \in Running
    BY DEF Running
  <2>. QED
    BY <1>1, <2>1 DEF LoginStart, Run
<1>2. ASSUME NEW b \in Mailbox, SelectStart(c, t, b)
      PROVE  \E cmd \in Running : running' = [running EXCEPT ![c][t] = cmd]
  <2> DEFINE cmd == [op |-> "select", step |-> "find", box |-> b,
                     session |-> current[c], modifyIndex |-> 0, uids |-> {}]
  <2>1. cmd \in SelectCommand
    BY <1>0, <1>2 DEF SelectStart, SelectCommand
  <2>2. cmd \in Running /\ running' = [running EXCEPT ![c][t] = cmd]
    BY <1>2, <2>1 DEF SelectStart, Run, Running
  <2>. QED
    BY <2>2
<1>4. ASSUME Finish(c, t)
      PROVE  \E cmd \in Running : running' = [running EXCEPT ![c][t] = cmd]
  BY <1>0, <1>4 DEF Finish, Run
<1>5. CASE FindMailbox(c, t)
  <2> DEFINE cmd == [running[c][t] EXCEPT !.step = "found",
                                          !.modifyIndex = Total(running[c][t].box)]
  <2>1. running[c][t] \in SelectCommand
    BY <1>5, Commands DEF FindMailbox, Selecting
  <2>2. Total(running[c][t].box) \in Nat
    BY FeedCounts
  <2>3. cmd \in SelectCommand
    BY <2>1, <2>2 DEF SelectCommand
  <2>4. running' = [running EXCEPT ![c][t] = cmd]
    BY <1>5 DEF FindMailbox
  <2>. QED
    BY <2>3, <2>4 DEF Running
<1>6. CASE OpenMailbox(c, t)
  <2> DEFINE cmd == [running[c][t] EXCEPT !.step = "list"]
  <2>1. running[c][t] \in SelectCommand
    BY <1>6, Commands DEF OpenMailbox, Selecting
  <2>2. cmd \in SelectCommand
    BY <2>1 DEF SelectCommand
  <2>3. running' = [running EXCEPT ![c][t] = cmd]
    BY <1>6 DEF OpenMailbox
  <2>. QED
    BY <2>2, <2>3 DEF Running
<1>7. CASE ListMessages(c, t)
  <2> DEFINE cmd == [running[c][t] EXCEPT !.step = "listed",
                                          !.uids = Uids(running[c][t].box)]
  <2>1. running[c][t] \in SelectCommand
    BY <1>7, Commands DEF ListMessages, Selecting
  <2>2. Uids(running[c][t].box) \subseteq Nat
    BY DEF Uids, StoredIn, Shape
  <2>3. cmd \in SelectCommand
    BY <2>1, <2>2 DEF SelectCommand
  <2>4. running' = [running EXCEPT ![c][t] = cmd]
    BY <1>7 DEF ListMessages
  <2>. QED
    BY <2>3, <2>4 DEF Running
<1>8. CASE StreamStart(c, t)
  <2> DEFINE cmd == [running[c][t] EXCEPT !.step = "stream"]
  <2>1. running[c][t] \in [op : {"fetch"}, step : {"read", "stream"},
                           box : Mailbox \cup {NoBox}, of : Mailbox \cup {NoBox}]
    BY <1>8, Commands DEF StreamStart, Fetching
  <2>2. cmd \in Running
    BY <2>1 DEF Running
  <2>3. running' = [running EXCEPT ![c][t] = cmd]
    BY <1>8 DEF StreamStart
  <2>. QED
    BY <2>2, <2>3
<1>9. CASE LoginOk(c, t) \/ LoginFails(c, t)
  BY <1>4, <1>9 DEF LoginOk, LoginFails
<1>10. CASE SelectOk(c, t) \/ SelectFails(c, t)
  BY <1>4, <1>10 DEF SelectOk, SelectFails
<1>11. CASE FetchEnd(c, t) \/ StreamEnd(c, t)
  BY <1>4, <1>11 DEF FetchEnd, StreamEnd
<1>12. CASE Refresh(c, t) \/ Unselect(c, t) \/ Logout(c, t)
  BY <1>12 DEF Refresh, Unselect, Logout
<1>3. CASE FetchStart(c, t)
  <2> SUFFICES [op |-> "fetch", step |-> "read", box |-> Session(c).box,
                of |-> selected[c].name] \in Running
    BY <1>3 DEF FetchStart, Run
  <2>1. Session(c) \in SessionObject
    BY <1>0, <1>3 DEF FetchStart, Usable, Owned, Session
  <2>2. Session(c).box \in Mailbox \cup {NoBox}
    BY <2>1 DEF SessionObject
  <2>. QED
    BY <1>0, <2>2 DEF Running
<1>. QED
  BY <1>1, <1>2, <1>3, <1>5, <1>6, <1>7, <1>8, <1>9, <1>10, <1>11, <1>12 DEF Command, Resume

(* Every session that is made, or moves to a mailbox, is a session. *)
LEMMA SessionsMove ==
    ASSUME Shape, NEW c \in Conn, NEW s \in Seq(SessionObject),
           sessions' = [sessions EXCEPT ![c] = s]
    PROVE  /\ sessions' \in [Conn -> Seq(SessionObject)] /\ sessions'[c] = s
           /\ \A d \in Conn \ {c} : sessions'[d] = sessions[d]
<1>1. sessions \in [Conn -> Seq(SessionObject)]
  BY DEF Shape
<1>. QED
  BY <1>1

(* What a new session does to a connection's. *)
LEMMA SetSessionMoves ==
    ASSUME Shape, NEW c \in Conn, NEW u \in User, SetSession(c, u)
    PROVE  /\ sessions' \in [Conn -> Seq(SessionObject)] /\ current' \in [Conn -> Nat]
           /\ \A d \in Conn \ {c} : sessions'[d] = sessions[d] /\ current'[d] = current[d]
           /\ \/ /\ current[c] # 0 /\ sessions'[c] = sessions[c] /\ current'[c] = current[c]
              \/ /\ current[c] = 0 /\ current'[c] = Len(sessions[c]) + 1
                 /\ Len(sessions'[c]) = Len(sessions[c]) + 1
                 /\ \A i \in 1 .. Len(sessions[c]) : sessions'[c][i] = sessions[c][i]
                 /\ sessions'[c][Len(sessions[c]) + 1] = [user |-> u, box |-> NoBox]
<1> DEFINE new == [user |-> u, box |-> NoBox]
<1>0. /\ sessions \in [Conn -> Seq(SessionObject)] /\ current \in [Conn -> Nat]
      /\ sessions[c] \in Seq(SessionObject)
  BY DEF Shape
<1>1. CASE current[c] # 0
  BY <1>0, <1>1 DEF SetSession
<1>2. CASE current[c] = 0
  <2>1. new \in SessionObject
    BY DEF SessionObject
  <2>2. /\ sessions' = [sessions EXCEPT ![c] = Append(sessions[c], new)]
        /\ current' = [current EXCEPT ![c] = Len(sessions[c]) + 1]
    BY <1>2 DEF SetSession
  <2> HIDE DEF new
  <2>3. /\ Append(sessions[c], new) \in Seq(SessionObject) /\ Len(sessions[c]) \in Nat
        /\ Len(Append(sessions[c], new)) = Len(sessions[c]) + 1
        /\ \A i \in 1 .. Len(sessions[c]) : Append(sessions[c], new)[i] = sessions[c][i]
        /\ Append(sessions[c], new)[Len(sessions[c]) + 1] = new
    BY <1>0, <2>1
  <2>4. /\ sessions' \in [Conn -> Seq(SessionObject)]
        /\ sessions'[c] = Append(sessions[c], new)
        /\ \A d \in Conn \ {c} : sessions'[d] = sessions[d]
    BY <2>2, <2>3, SessionsMove
  <2>5. /\ current' \in [Conn -> Nat] /\ current'[c] = Len(sessions[c]) + 1
        /\ \A d \in Conn \ {c} : current'[d] = current[d]
    BY <1>0, <2>2, <2>3
  <2>. QED
    BY <1>2, <2>3, <2>4, <2>5 DEF new
<1>. QED
  BY <1>1, <1>2

(* What select does to the session it holds. *)
LEMMA OpenMoves ==
    ASSUME Shape, NEW c \in Conn, Owned(c), NEW t \in Tag, OpenMailbox(c, t)
    PROVE  LET k == running[c][t].session IN
           /\ sessions' \in [Conn -> Seq(SessionObject)]
           /\ \A d \in Conn \ {c} : sessions'[d] = sessions[d]
           /\ k \in 1 .. Len(sessions[c]) /\ Len(sessions'[c]) = Len(sessions[c])
           /\ \A i \in 1 .. Len(sessions[c]) :
                 /\ sessions'[c][i].user = sessions[c][i].user
                 /\ i # k => sessions'[c][i] = sessions[c][i]
           /\ sessions'[c][k].box = running[c][t].box /\ running[c][t].box \in Mailbox
<1> DEFINE k == running[c][t].session
           s == [sessions[c] EXCEPT ![k].box = running[c][t].box]
<1>0. /\ sessions \in [Conn -> Seq(SessionObject)] /\ sessions[c] \in Seq(SessionObject)
      /\ Len(sessions[c]) \in Nat
  BY DEF Shape
<1>1. running[c][t] \in SelectCommand /\ k <= Len(sessions[c])
  BY Commands DEF OpenMailbox, Selecting, Owned
<1>2. k \in 1 .. Len(sessions[c]) /\ running[c][t].box \in Mailbox
  BY <1>0, <1>1 DEF SelectCommand
<1>3. sessions' = [sessions EXCEPT ![c] = s]
  BY DEF OpenMailbox
<1>4. sessions[c][k] \in SessionObject
  BY <1>0, <1>2
<1>5. [sessions[c][k] EXCEPT !.box = running[c][t].box] \in SessionObject
  BY <1>2, <1>4 DEF SessionObject
<1>6. s \in Seq(SessionObject) /\ Len(s) = Len(sessions[c])
  BY <1>0, <1>2, <1>5
<1>7. \A i \in 1 .. Len(sessions[c]) :
          s[i] = IF i = k THEN [sessions[c][k] EXCEPT !.box = running[c][t].box]
                 ELSE sessions[c][i]
  BY <1>0, <1>2
<1>8. /\ s[k].box = running[c][t].box /\ s[k].user = sessions[c][k].user
  BY <1>2, <1>4, <1>7 DEF SessionObject
<1> HIDE DEF s
<1>9. /\ sessions' \in [Conn -> Seq(SessionObject)] /\ sessions'[c] = s
      /\ \A d \in Conn \ {c} : sessions'[d] = sessions[d]
  BY <1>3, <1>6, SessionsMove
<1>. QED
  BY <1>2, <1>6, <1>7, <1>8, <1>9

(* What does not change keeps its shape. *)
LEMMA ShapeStep ==
    ASSUME ServerInv, [Next]_vars
    PROVE  Shape'
<1>0. /\ stage \in [Copy -> [at : {"none", "read", "announced", "stored"}, uid : Nat]]
      /\ published \subseteq Notice
      /\ link \in [Conn -> {"new", "open", "closing", "closed"}]
      /\ connections = {c \in Conn : link[c] \in {"open", "closing"}}
      /\ authenticated \in [User -> SUBSET Conn]
      /\ state \in [Conn -> {"NOTAUTH", "AUTH", "SELECTED", "LOGOUT"}]
      /\ sessions \in [Conn -> Seq(SessionObject)]
      /\ current \in [Conn -> Nat]
      /\ DOMAIN selected = Conn /\ selected = [c \in Conn |-> selected[c]]
      /\ \A c \in Conn : IsData(selected[c])
      /\ pending \in [Conn -> Seq(Notice)]
      /\ running \in [Conn -> [Tag -> Running]]
      /\ Shape /\ \A c \in Conn : Owned(c) /\ Usable(c)
  BY DEF ServerInv, Shape, IsData, Good
<1>1. CASE UNCHANGED vars
  BY <1>0, <1>1 DEF vars, conns, feed, Shape, IsData
<1>2. CASE FeedNext /\ UNCHANGED <<conns, taken>>
  BY <1>0, <1>2, FeedShape DEF conns, Shape, IsData
<1>3. ASSUME NEW c \in Conn, Connect(c) \/ Close(c) \/ Closed(c) \/ HangUp(c)
      PROVE  Shape'
  <2>1. UNCHANGED <<feed, authenticated, state, sessions, current, selected, pending, running>>
    BY <1>3 DEF Connect, Close, Closed, HangUp, OnClose
  <2>2. CASE Connect(c)
    <3>1. /\ link[c] = "new" /\ link' = [link EXCEPT ![c] = "open"]
          /\ connections' = connections \cup {c}
      BY <2>2 DEF Connect
    <3>2. connections' = {d \in Conn : link'[d] \in {"open", "closing"}}
      BY <1>0, <3>1
    <3>. QED
      BY <1>0, <2>1, <3>1, <3>2 DEF feed, Shape, IsData
  <2>3. CASE Close(c)
    <3>1. /\ link[c] = "open" /\ link' = [link EXCEPT ![c] = "closing"]
          /\ connections' = connections
      BY <2>3 DEF Close
    <3>2. connections' = {d \in Conn : link'[d] \in {"open", "closing"}}
      BY <1>0, <3>1
    <3>. QED
      BY <1>0, <2>1, <3>1, <3>2 DEF feed, Shape, IsData
  <2>4. CASE Closed(c) \/ HangUp(c)
    <3>1. link' = [link EXCEPT ![c] = "closed"] /\ connections' = connections \ {c}
      BY <2>4 DEF Closed, HangUp, OnClose
    <3>2. connections' = {d \in Conn : link'[d] \in {"open", "closing"}}
      BY <1>0, <3>1
    <3>. QED
      BY <1>0, <2>1, <3>1, <3>2 DEF feed, Shape, IsData
  <2>. QED
    BY <1>3, <2>2, <2>3, <2>4
<1>4. ASSUME NEW c \in Conn, NEW t \in Tag,
             Command(c, t) \/ Resume(c, t) \/ StreamEnd(c, t)
      PROVE  Shape'
  <2>1. running' \in [Conn -> [Tag -> Running]]
    <3>1. \/ UNCHANGED running
          \/ \E cmd \in Running : running' = [running EXCEPT ![c][t] = cmd]
      BY <1>0, <1>4, CommandMoves
    <3>2. ASSUME NEW cmd \in Running, running' = [running EXCEPT ![c][t] = cmd]
          PROVE  running' \in [Conn -> [Tag -> Running]]
      BY <1>0, <3>2, RunMoves
    <3>. QED
      BY <1>0, <3>1, <3>2
  <2>2. CASE \/ \E u \in User : LoginStart(c, t, u)
             \/ \E b \in Mailbox : SelectStart(c, t, b)
             \/ FetchStart(c, t)
             \/ LoginFails(c, t) \/ FindMailbox(c, t) \/ ListMessages(c, t) \/ StreamStart(c, t)
    <3>1. UNCHANGED <<feed, link, connections, authenticated, state, sessions,
                      current, selected, pending>>
      BY <2>2 DEF LoginStart, SelectStart, FetchStart, LoginFails, FindMailbox,
                  ListMessages, StreamStart
    <3>. QED
      BY <1>0, <2>1, <3>1 DEF feed, Shape, IsData
  <2>3. CASE Refresh(c, t) \/ FetchEnd(c, t) \/ StreamEnd(c, t)
    <3>1. /\ UNCHANGED <<feed, link, connections, authenticated, state, sessions, current>>
          /\ Notify(c) \/ UNCHANGED <<selected, pending>>
      BY <2>3 DEF Refresh, FetchEnd, StreamEnd
    <3>2. /\ DOMAIN selected' = Conn /\ selected' = [d \in Conn |-> selected'[d]]
          /\ \A d \in Conn : IsData(selected'[d])
          /\ pending' \in [Conn -> Seq(Notice)]
      BY <1>0, <3>1, NotifyMoves
    <3>. QED
      BY <1>0, <2>1, <3>1, <3>2 DEF feed, Shape, IsData
  <2>4. CASE Unselect(c, t) \/ SelectFails(c, t) \/ Logout(c, t)
    <3>1. /\ UNCHANGED <<feed, connections, sessions, pending>>
          /\ selected' = [selected EXCEPT ![c] = NoData]
      BY <2>4 DEF Unselect, SelectFails, Logout, ResetSelectedState
    <3>2. /\ authenticated' \in [User -> SUBSET Conn]
          /\ state' \in [Conn -> {"NOTAUTH", "AUTH", "SELECTED", "LOGOUT"}]
          /\ current' \in [Conn -> Nat]
      <4>1. CASE Logout(c, t)
        <5>1. /\ authenticated' = [authenticated EXCEPT ![Session(c).user] = @ \ {c}]
              /\ state' = [state EXCEPT ![c] = "LOGOUT"]
              /\ current' = [current EXCEPT ![c] = 0]
          BY <4>1 DEF Logout
        <5>2. authenticated' \in [User -> SUBSET Conn]
          BY <1>0, <5>1
        <5>. QED
          BY <1>0, <5>1, <5>2
      <4>2. CASE Unselect(c, t) \/ SelectFails(c, t)
        <5>1. /\ UNCHANGED <<authenticated, current>>
              /\ state' = [state EXCEPT ![c] = "AUTH"]
          BY <4>2 DEF Unselect, SelectFails, ResetSelectedState
        <5>. QED
          BY <1>0, <5>1
      <4>. QED
        BY <2>4, <4>1, <4>2
    <3>3. /\ link' \in [Conn -> {"new", "open", "closing", "closed"}]
          /\ connections' = {d \in Conn : link'[d] \in {"open", "closing"}}
      <4>1. CASE Logout(c, t)
        <5>1. link[c] \in {"open", "closing"} /\ link' = [link EXCEPT ![c] = "closing"]
          BY <4>1 DEF Logout, Free
        <5>. QED
          BY <1>0, <3>1, <5>1
      <4>2. CASE ~ Logout(c, t)
        BY <1>0, <2>4, <4>2 DEF Unselect, SelectFails
      <4>. QED
        BY <4>1, <4>2
    <3>4. IsData(NoData)
      BY DEF IsData, NoData
    <3> HIDE DEF NoData
    <3>5. /\ DOMAIN selected' = Conn /\ selected' = [d \in Conn |-> selected'[d]]
          /\ \A d \in Conn : IsData(selected'[d])
      BY <1>0, <3>1, <3>4
    <3>. QED
      BY <1>0, <2>1, <3>1, <3>2, <3>3, <3>5 DEF feed, Shape, IsData
  <2>5. CASE LoginOk(c, t)
    <3>1. running[c][t].user \in User
      BY <1>0, <2>5, Commands DEF LoginOk
    <3>2. sessions' \in [Conn -> Seq(SessionObject)] /\ current' \in [Conn -> Nat]
      BY <1>0, <2>5, <3>1, SetSessionMoves DEF LoginOk
    <3>3. /\ authenticated' \in [User -> SUBSET Conn]
          /\ state' \in [Conn -> {"NOTAUTH", "AUTH", "SELECTED", "LOGOUT"}]
          /\ UNCHANGED <<feed, link, connections, selected, pending>>
      BY <1>0, <2>5 DEF LoginOk, AddAuthenticated
    <3>. QED
      BY <1>0, <2>1, <3>2, <3>3 DEF feed, Shape, IsData
  <2>6. CASE OpenMailbox(c, t)
    <3>1. /\ sessions' \in [Conn -> Seq(SessionObject)]
          /\ UNCHANGED <<feed, link, connections, authenticated, state, current,
                         selected, pending>>
      BY <1>0, <2>6, OpenMoves DEF OpenMailbox
    <3>. QED
      BY <1>0, <2>1, <3>1 DEF feed, Shape, IsData
  <2>7. CASE SelectOk(c, t)
    <3> DEFINE cmd == running[c][t]
               data == [name |-> cmd.box, sequence |-> Ascending(cmd.uids),
                        highestModSeq |-> cmd.modifyIndex]
    <3>1. cmd \in SelectCommand
      BY <1>0, <2>7, Commands DEF SelectOk, Selecting
    <3>2. IsData(data)
      BY <3>1 DEF IsData, SelectCommand
    <3>3. /\ selected' = [selected EXCEPT ![c] = Pushed(data, pending[c])]
          /\ current' = [current EXCEPT ![c] = cmd.session]
          /\ state' = [state EXCEPT ![c] = "SELECTED"]
          /\ pending' = [pending EXCEPT ![c] = <<>>]
          /\ UNCHANGED <<feed, link, connections, authenticated, sessions>>
      BY <2>7 DEF SelectOk
    <3> HIDE DEF data
    <3>4. IsData(Pushed(data, pending[c]))
      BY <3>2, PushedData
    <3>5. /\ DOMAIN selected' = Conn /\ selected' = [d \in Conn |-> selected'[d]]
          /\ \A d \in Conn : IsData(selected'[d])
      BY <1>0, <3>3, <3>4
    <3>6. <<>> \in Seq(Notice)
      OBVIOUS
    <3>7. /\ pending' \in [Conn -> Seq(Notice)] /\ current' \in [Conn -> Nat]
          /\ state' \in [Conn -> {"NOTAUTH", "AUTH", "SELECTED", "LOGOUT"}]
      BY <1>0, <3>1, <3>3, <3>6 DEF SelectCommand
    <3>. QED
      BY <1>0, <2>1, <3>3, <3>5, <3>7 DEF feed, Shape, IsData
  <2>. QED
    BY <1>4, <2>2, <2>3, <2>4, <2>5, <2>6, <2>7 DEF Command, Resume
<1>5. ASSUME NEW n \in published, Deliver(n) \/ Lose(n)
      PROVE  Shape'
  <2>1. UNCHANGED <<feed, link, connections, authenticated, state, sessions,
                    current, selected, running>>
    BY <1>5 DEF Deliver, Lose, conns
  <2>2. \A d \in Conn : Append(pending[d], n) \in Seq(Notice)
    BY <1>0
  <2>3. pending' \in [Conn -> Seq(Notice)]
    <3>1. CASE Deliver(n)
      BY <1>0, <2>2, <3>1 DEF Deliver
    <3>2. CASE Lose(n)
      BY <1>0, <3>2 DEF Lose, conns
    <3>. QED
      BY <1>5, <3>1, <3>2
  <2>. QED
    BY <1>0, <2>1, <2>3 DEF feed, Shape, IsData
<1>. QED
  BY <1>1, <1>2, <1>3, <1>4, <1>5 DEF Next

-----------------------------------------------------------------------------
(* Sessions, states and what is selected *)

(* The variables of one connection. *)
Of(c) == <<link[c], state[c], sessions[c], current[c], selected[c], pending[c], running[c]>>

(* What other connections do leaves a connection as good as it was. *)
LEMMA OthersGood ==
    ASSUME NEW d \in Conn, Good(d), UNCHANGED Of(d),
           \A u : d \in authenticated[u] => d \in authenticated'[u]
    PROVE  Good(d)'
<1>1. Session(d)' = Session(d)
  BY DEF Session, Of
<1>2. Owned(d)' /\ Usable(d)'
  BY <1>1 DEF Good, Owned, Usable, Of
<1>3. Young(d)'
  BY <1>1 DEF Good, Young, Of
<1>. QED
  BY <1>2, <1>3 DEF Good

(* A command that starts, goes on or ends, with a notify or without. *)
LEMMA RunGood ==
    ASSUME NEW c \in Conn, NEW t \in Tag, Good(c),
           link'[c] = link[c], state'[c] = state[c], sessions'[c] = sessions[c],
           current'[c] = current[c], selected'[c].name = selected[c].name,
           pending'[c] = pending[c] \/ pending'[c] = <<>>, authenticated' = authenticated,
           \A s \in Tag \ {t} : running'[c][s] = running[c][s],
           running'[c][t].op = "select" =>
              /\ running'[c][t].session <= Len(sessions[c])
              /\ Owner[running'[c][t].box] = sessions[c][running'[c][t].session].user
              /\ running'[c][t].step \in {"list", "listed"} =>
                    sessions[c][running'[c][t].session].box # NoBox,
           running'[c][t].op = "fetch" /\ link[c] \in {"new", "open"} =>
              current[c] # 0 /\ Owner[running'[c][t].box] = Session(c).user
    PROVE  Good(c)'
<1>1. Session(c)' = Session(c)
  BY DEF Session
<1>2. Owned(c)' /\ Usable(c)'
  BY <1>1 DEF Good, Owned, Usable
<1>3. Young(c)'
  BY <1>1 DEF Good, Young
<1>. QED
  BY <1>2, <1>3 DEF Good

(* Types of one connection. *)
LEMMA OneShape ==
    ASSUME Shape, NEW c \in Conn
    PROVE  /\ sessions[c] \in Seq(SessionObject) /\ Len(sessions[c]) \in Nat
           /\ current[c] \in Nat /\ selected[c].name \in Mailbox \cup {NoBox}
           /\ state[c] \in {"NOTAUTH", "AUTH", "SELECTED", "LOGOUT"}
           /\ pending[c] \in Seq(Notice) /\ running[c] \in [Tag -> Running]
           /\ \A i \in 1 .. Len(sessions[c]) : sessions[c][i] \in SessionObject
           /\ NoBox \notin Mailbox
BY ServerAssumption DEF Shape

(* The commands that wait, or have nothing to wait for. *)
LEMMA WaitingGood ==
    ASSUME ServerInv, NEW c \in Conn, NEW t \in Tag,
           \/ \E u \in User : LoginStart(c, t, u)
           \/ \E b \in Mailbox : SelectStart(c, t, b)
           \/ FetchStart(c, t)
           \/ LoginFails(c, t) \/ FindMailbox(c, t) \/ ListMessages(c, t) \/ StreamStart(c, t)
           \/ Refresh(c, t) \/ FetchEnd(c, t) \/ StreamEnd(c, t)
    PROVE  Good(c)'
<1>0. /\ Shape /\ Good(c) /\ Owned(c) /\ Usable(c) /\ Young(c)
      /\ running \in [Conn -> [Tag -> Running]]
      /\ current[c] \in Nat /\ Len(sessions[c]) \in Nat
  BY OneShape DEF ServerInv, Good, Shape
<1>1. /\ UNCHANGED <<link, state, sessions, current, authenticated>>
      /\ Notify(c) \/ UNCHANGED <<selected, pending>>
  BY DEF LoginStart, SelectStart, FetchStart, LoginFails, FindMailbox, ListMessages,
         StreamStart, Refresh, FetchEnd, StreamEnd
<1>2. /\ selected'[c].name = selected[c].name
      /\ pending'[c] = pending[c] \/ pending'[c] = <<>>
  BY <1>0, <1>1, NotifyMoves
<1> SUFFICES
      /\ \A s \in Tag \ {t} : running'[c][s] = running[c][s]
      /\ running'[c][t].op = "select" =>
            /\ running'[c][t].session <= Len(sessions[c])
            /\ Owner[running'[c][t].box] = sessions[c][running'[c][t].session].user
            /\ running'[c][t].step \in {"list", "listed"} =>
                  sessions[c][running'[c][t].session].box # NoBox
      /\ running'[c][t].op = "fetch" /\ link[c] \in {"new", "open"} =>
            current[c] # 0 /\ Owner[running'[c][t].box] = Session(c).user
  BY <1>0, <1>1, <1>2, RunGood
<1>3. ASSUME NEW u \in User, LoginStart(c, t, u)
      PROVE  /\ \A s \in Tag \ {t} : running'[c][s] = running[c][s]
             /\ running'[c][t].op = "login"
  BY <1>0, <1>3 DEF LoginStart, Run
<1>4. ASSUME NEW b \in Mailbox, SelectStart(c, t, b)
      PROVE  /\ \A s \in Tag \ {t} : running'[c][s] = running[c][s]
             /\ running'[c][t].op = "select" /\ running'[c][t].step = "find"
             /\ running'[c][t].session <= Len(sessions[c])
             /\ Owner[running'[c][t].box] = sessions[c][running'[c][t].session].user
  BY <1>0, <1>4 DEF SelectStart, Run, Owned, Session
<1>5. CASE FetchStart(c, t)
  <2>1. /\ \A s \in Tag \ {t} : running'[c][s] = running[c][s]
        /\ running'[c][t].op = "fetch" /\ running'[c][t].box = Session(c).box
        /\ state[c] = "SELECTED"
    BY <1>0, <1>5 DEF FetchStart, Run
  <2>2. /\ current[c] # 0 /\ Session(c).box # NoBox
        /\ Owner[Session(c).box] = Session(c).user
    BY <1>0, <2>1 DEF Usable, Owned, Session
  <2>. QED
    BY <2>1, <2>2
<1>6. CASE LoginFails(c, t) \/ FetchEnd(c, t) \/ StreamEnd(c, t)
  <2>1. running' = [running EXCEPT ![c][t] = Idle]
    BY <1>6 DEF LoginFails, FetchEnd, StreamEnd, Finish, Run
  <2>. QED
    BY <1>0, <2>1 DEF Idle
<1>7. CASE Refresh(c, t)
  BY <1>0, <1>7 DEF Refresh, Owned, Young
<1>8. CASE FindMailbox(c, t)
  <2>1. running[c][t] \in SelectCommand /\ running[c][t].op = "select"
    BY <1>0, <1>8, Commands DEF FindMailbox, Selecting
  <2>2. /\ \A s \in Tag \ {t} : running'[c][s] = running[c][s]
        /\ running'[c][t].op = "select" /\ running'[c][t].step = "found"
        /\ running'[c][t].session = running[c][t].session
        /\ running'[c][t].box = running[c][t].box
    BY <1>0, <1>8, <2>1 DEF FindMailbox, SelectCommand
  <2>. QED
    BY <1>0, <2>1, <2>2 DEF Owned
<1>9. CASE ListMessages(c, t)
  <2>1. /\ running[c][t] \in SelectCommand /\ running[c][t].op = "select"
        /\ running[c][t].step = "list"
    BY <1>0, <1>9, Commands DEF ListMessages, Selecting
  <2>2. /\ \A s \in Tag \ {t} : running'[c][s] = running[c][s]
        /\ running'[c][t].op = "select"
        /\ running'[c][t].session = running[c][t].session
        /\ running'[c][t].box = running[c][t].box
    BY <1>0, <1>9, <2>1 DEF ListMessages, SelectCommand
  <2>. QED
    BY <1>0, <2>1, <2>2 DEF Owned
<1>10. CASE StreamStart(c, t)
  <2>1. /\ running[c][t] \in [op : {"fetch"}, step : {"read", "stream"},
                              box : Mailbox \cup {NoBox}, of : Mailbox \cup {NoBox}]
        /\ running[c][t].op = "fetch"
    BY <1>0, <1>10, Commands DEF StreamStart, Fetching
  <2>2. /\ \A s \in Tag \ {t} : running'[c][s] = running[c][s]
        /\ running'[c][t].op = "fetch" /\ running'[c][t].box = running[c][t].box
    BY <1>0, <1>10, <2>1 DEF StreamStart
  <2>. QED
    BY <1>0, <2>1, <2>2 DEF Young
<1>. QED
  BY <1>3, <1>4, <1>5, <1>6, <1>7, <1>8, <1>9, <1>10

(* The connection comes, closes or goes. *)
LEMMA LinkGood ==
    ASSUME ServerInv, NEW c \in Conn, Connect(c) \/ Close(c) \/ Closed(c) \/ HangUp(c)
    PROVE  Good(c)'
<1>0. /\ Good(c) /\ link \in [Conn -> {"new", "open", "closing", "closed"}]
  BY DEF ServerInv, Shape
<1>1. /\ UNCHANGED <<state, sessions, current, authenticated, selected, pending, running>>
      /\ link'[c] \in {"new", "open"} => link[c] \in {"new", "open"}
  BY <1>0 DEF Connect, Close, Closed, HangUp, OnClose
<1>2. Session(c)' = Session(c)
  BY <1>1 DEF Session
<1>. QED
  BY <1>0, <1>1, <1>2 DEF Good, Owned, Usable, Young

(* A login makes a session for a connection that has none. *)
LEMMA LoginGood ==
    ASSUME ServerInv, NEW c \in Conn, NEW t \in Tag, LoginOk(c, t)
    PROVE  Good(c)'
<1> DEFINE u == running[c][t].user
           n == Len(sessions[c])
<1>0. /\ Shape /\ Owned(c) /\ Usable(c) /\ Young(c) /\ u \in User
      /\ running \in [Conn -> [Tag -> Running]]
      /\ authenticated \in [User -> SUBSET Conn]
      /\ state \in [Conn -> {"NOTAUTH", "AUTH", "SELECTED", "LOGOUT"}]
      /\ current[c] \in Nat /\ n \in Nat
  BY OneShape, Commands DEF LoginOk, ServerInv, Good, Shape
<1>1. /\ UNCHANGED <<link, selected, pending>> /\ state'[c] = "AUTH"
      /\ c \in authenticated'[u] /\ \A v \in User : authenticated[v] \subseteq authenticated'[v]
      /\ running'[c][t] = Idle /\ \A s \in Tag \ {t} : running'[c][s] = running[c][s]
      /\ SetSession(c, u)
  BY <1>0 DEF LoginOk, AddAuthenticated, Finish, Run
<1>2. \A s \in Tag : running'[c][s].op \in {"select", "fetch"} => running'[c][s] = running[c][s]
  BY <1>1 DEF Idle
<1>3. Usable(c)'
  BY <1>1 DEF Usable
<1>4. CASE current[c] # 0
  <2>1. sessions'[c] = sessions[c] /\ current'[c] = current[c] /\ Session(c)' = Session(c)
    BY <1>0, <1>1, <1>4, SetSessionMoves DEF Session
  <2>2. Session(c).user \in User
    BY <1>0, <1>4, OneShape DEF Owned, Session, SessionObject
  <2>3. Owned(c)'
    BY <1>0, <1>1, <1>2, <2>1 DEF Owned
  <2>4. Young(c)'
    BY <1>0, <1>1, <1>2, <1>4, <2>1, <2>2 DEF Young
  <2>. QED
    BY <1>3, <2>3, <2>4 DEF Good
<1>5. CASE current[c] = 0
  <2>1. /\ current'[c] = n + 1 /\ Len(sessions'[c]) = n + 1
        /\ \A i \in 1 .. n : sessions'[c][i] = sessions[c][i]
        /\ sessions'[c][n + 1] = [user |-> u, box |-> NoBox]
    BY <1>0, <1>1, <1>5, SetSessionMoves
  <2>2. \A i \in 1 .. n + 1 : i \in 1 .. n \/ i = n + 1
    BY <1>0
  <2>3. \A i \in 1 .. Len(sessions'[c]) :
            sessions'[c][i].box # NoBox => Owner[sessions'[c][i].box] = sessions'[c][i].user
    BY <1>0, <2>1, <2>2 DEF Owned
  <2>4. selected'[c].name = NoBox
    BY <1>0, <1>1, <1>5 DEF Owned
  <2>5. ASSUME NEW s \in Tag, running'[c][s].op = "select"
        PROVE  /\ running'[c][s].session <= n + 1
               /\ sessions'[c][running'[c][s].session] = sessions[c][running[c][s].session]
               /\ running'[c][s] = running[c][s]
    <3>1. running'[c][s] = running[c][s] /\ running[c][s] \in SelectCommand
      BY <1>0, <1>2, <2>5, Commands
    <3>2. running[c][s].session <= n /\ running[c][s].session \in Nat \ {0}
      BY <1>0, <2>5, <3>1 DEF Owned, SelectCommand
    <3>3. running[c][s].session \in 1 .. n
      BY <1>0, <3>2
    <3>. QED
      BY <1>0, <2>1, <3>1, <3>2, <3>3
  <2>6. Owned(c)'
    <3>1. current'[c] <= Len(sessions'[c])
      BY <1>0, <2>1
    <3>2. \A s \in Tag : running'[c][s].op = "select" =>
              /\ running'[c][s].session <= Len(sessions'[c])
              /\ Owner[running'[c][s].box] = sessions'[c][running'[c][s].session].user
              /\ running'[c][s].step \in {"list", "listed"} =>
                    sessions'[c][running'[c][s].session].box # NoBox
      BY <1>0, <2>1, <2>5 DEF Owned
    <3>. QED
      BY <2>3, <2>4, <3>1, <3>2 DEF Owned
  <2>7. Session(c)' = [user |-> u, box |-> NoBox]
    BY <2>1 DEF Session
  <2>8. Young(c)'
    <3> SUFFICES ASSUME link'[c] \in {"new", "open"}
                 PROVE  /\ n = 0 /\ pending'[c] = <<>>
                        /\ \A s \in Tag : running'[c][s].op # "fetch"
      BY <1>0, <1>1, <2>1, <2>7 DEF Young
    <3>1. link[c] \in {"new", "open"}
      BY <1>1
    <3>. QED
      BY <1>0, <1>1, <1>2, <1>5, <3>1 DEF Young
  <2>. QED
    BY <1>3, <2>6, <2>8 DEF Good
<1>. QED
  BY <1>4, <1>5

(* select moves the session it holds to a mailbox of the session's user. *)
LEMMA OpenGood ==
    ASSUME ServerInv, NEW c \in Conn, NEW t \in Tag, OpenMailbox(c, t)
    PROVE  Good(c)'
<1> DEFINE k == running[c][t].session
           n == Len(sessions[c])
<1>0. /\ Shape /\ Owned(c) /\ Usable(c) /\ Young(c)
      /\ running \in [Conn -> [Tag -> Running]]
      /\ current[c] \in Nat /\ n \in Nat /\ NoBox \notin Mailbox
      /\ running[c][t] \in SelectCommand /\ running[c][t].op = "select"
  BY OneShape, Commands DEF OpenMailbox, Selecting, ServerInv, Good, Shape
<1>1. /\ UNCHANGED <<link, authenticated, state, current, selected, pending>>
      /\ \A s \in Tag \ {t} : running'[c][s] = running[c][s]
      /\ running'[c][t].op = "select" /\ running'[c][t].session = k
      /\ running'[c][t].box = running[c][t].box
  BY <1>0 DEF OpenMailbox, SelectCommand
<1>2. /\ k \in 1 .. n /\ Len(sessions'[c]) = n
      /\ \A i \in 1 .. n : /\ sessions'[c][i].user = sessions[c][i].user
                           /\ i # k => sessions'[c][i] = sessions[c][i]
      /\ sessions'[c][k].box = running[c][t].box /\ running[c][t].box \in Mailbox
  BY <1>0, OpenMoves
<1> HIDE DEF k, n
<1>3. \A s \in Tag : running'[c][s].op = "select" =>
          /\ running[c][s].op = "select" /\ running'[c][s].session = running[c][s].session
          /\ running'[c][s].box = running[c][s].box
          /\ running'[c][s].session \in 1 .. n
          /\ s # t => running'[c][s] = running[c][s]
  <2>1. ASSUME NEW s \in Tag \ {t}, running'[c][s].op = "select"
        PROVE  running[c][s].session \in 1 .. n
    <3>1. running[c][s] \in SelectCommand
      BY <1>0, <1>1, <2>1, Commands
    <3>2. running[c][s].session <= n /\ running[c][s].session \in Nat \ {0}
      BY <1>0, <1>1, <2>1, <3>1 DEF Owned, SelectCommand, n
    <3>. QED
      BY <1>0, <3>2
  <2>. QED
    BY <1>0, <1>1, <1>2, <2>1 DEF k
<1>4. \A i \in 1 .. n : sessions[c][i].box # NoBox => sessions'[c][i].box # NoBox
  BY <1>0, <1>2
<1>5. Owner[running[c][t].box] = sessions[c][k].user
  BY <1>0 DEF Owned, k
<1>6. \A i \in 1 .. n :
          sessions'[c][i].box # NoBox => Owner[sessions'[c][i].box] = sessions'[c][i].user
  BY <1>0, <1>2, <1>5 DEF Owned, n
<1>7. current[c] # 0 => current[c] \in 1 .. n
  BY <1>0 DEF Owned, n
<1>8. Session(c)'.user = Session(c).user \/ current[c] = 0
  BY <1>1, <1>2, <1>7 DEF Session
<1>9. \A s \in Tag : running'[c][s].op = "select" =>
          /\ running'[c][s].session <= n
          /\ Owner[running'[c][s].box] = sessions'[c][running'[c][s].session].user
          /\ running'[c][s].step \in {"list", "listed"} =>
                sessions'[c][running'[c][s].session].box # NoBox
  <2> SUFFICES ASSUME NEW s \in Tag, running'[c][s].op = "select"
               PROVE  /\ running'[c][s].session <= n
                      /\ Owner[running'[c][s].box] = sessions'[c][running'[c][s].session].user
                      /\ running'[c][s].step \in {"list", "listed"} =>
                            sessions'[c][running'[c][s].session].box # NoBox
    OBVIOUS
  <2>1. running'[c][s].session <= n
    BY <1>0, <1>3
  <2>2. Owner[running'[c][s].box] = sessions'[c][running'[c][s].session].user
    <3>1. /\ running[c][s].op = "select" /\ running'[c][s].session = running[c][s].session
          /\ running'[c][s].box = running[c][s].box /\ running[c][s].session \in 1 .. n
      BY <1>3
    <3>2. Owner[running[c][s].box] = sessions[c][running[c][s].session].user
      BY <1>0, <3>1 DEF Owned
    <3>3. sessions'[c][running[c][s].session].user = sessions[c][running[c][s].session].user
      BY <1>2, <3>1
    <3>. QED
      BY <3>1, <3>2, <3>3
  <2>3. CASE s = t
    BY <1>0, <1>1, <1>2, <2>1, <2>2, <2>3
  <2>4. CASE s # t
    BY <1>0, <1>3, <1>4, <2>1, <2>2, <2>4 DEF Owned
  <2>. QED
    BY <2>3, <2>4
<1>10. Owned(c)'
  BY <1>0, <1>1, <1>2, <1>6, <1>8, <1>9 DEF Owned, n
<1>11. Usable(c)'
  BY <1>0, <1>1, <1>4, <1>7 DEF Usable, Session
<1>12. Young(c)'
  <2>1. \A s \in Tag : running'[c][s].op = "fetch" => running'[c][s] = running[c][s]
    BY <1>1
  <2>. QED
    BY <1>0, <1>1, <1>2, <1>8, <2>1 DEF Young, n
<1>. QED
  BY <1>10, <1>11, <1>12 DEF Good

(* A SELECT that succeeds makes its session the connection's. *)
LEMMA SelectGood ==
    ASSUME ServerInv, NEW c \in Conn, NEW t \in Tag, SelectOk(c, t)
    PROVE  Good(c)'
<1> DEFINE cmd == running[c][t]
           data == [name |-> cmd.box, sequence |-> Ascending(cmd.uids),
                    highestModSeq |-> cmd.modifyIndex]
<1>0. /\ Shape /\ Owned(c) /\ Usable(c) /\ Young(c)
      /\ running \in [Conn -> [Tag -> Running]] /\ DOMAIN selected = Conn
      /\ selected = [d \in Conn |-> selected[d]]
      /\ current \in [Conn -> Nat] /\ pending \in [Conn -> Seq(Notice)]
      /\ state \in [Conn -> {"NOTAUTH", "AUTH", "SELECTED", "LOGOUT"}]
      /\ Len(sessions[c]) \in Nat /\ NoBox \notin Mailbox
      /\ cmd \in SelectCommand /\ cmd.op = "select" /\ cmd.step = "listed"
  BY OneShape, Commands DEF SelectOk, Selecting, ServerInv, Good, Shape
<1>1. /\ cmd.box \in Mailbox /\ cmd.session \in Nat \ {0}
      /\ cmd.session <= Len(sessions[c])
      /\ sessions[c][cmd.session].box # NoBox
      /\ Owner[cmd.box] = sessions[c][cmd.session].user
  BY <1>0 DEF Owned, SelectCommand
<1>2. IsData(data) /\ data.name = cmd.box
  BY <1>1 DEF IsData
<1>3. /\ selected' = [selected EXCEPT ![c] = Pushed(data, pending[c])]
      /\ UNCHANGED <<link, authenticated, sessions>>
      /\ current'[c] = cmd.session /\ state'[c] = "SELECTED" /\ pending'[c] = <<>>
      /\ running'[c][t] = Idle /\ \A s \in Tag \ {t} : running'[c][s] = running[c][s]
  BY <1>0 DEF SelectOk, Finish, Run
<1> HIDE DEF data
<1>4. selected'[c].name = cmd.box
  <2>1. Pushed(data, pending[c]).name = cmd.box
    BY <1>2, PushedData
  <2>. QED
    BY <1>0, <1>3, <2>1
<1> HIDE DEF cmd
<1>5. Session(c)' = sessions[c][cmd.session]
  BY <1>3 DEF Session
<1>6. \A s \in Tag : running'[c][s].op \in {"select", "fetch"} => running'[c][s] = running[c][s]
  BY <1>3 DEF Idle
<1>7. Owned(c)'
  BY <1>0, <1>1, <1>3, <1>4, <1>5, <1>6 DEF Owned
<1>8. Usable(c)'
  BY <1>0, <1>1, <1>3, <1>4, <1>5 DEF Usable
<1>9. Young(c)'
  <2>1. CASE link[c] \in {"new", "open"}
    <3>1. /\ current[c] = cmd.session /\ current'[c] = current[c]
          /\ Session(c)' = Session(c) /\ current[c] # 0
      BY <1>0, <1>1, <1>3, <1>5, <2>1 DEF Young, Session
    <3>. QED
      BY <1>0, <1>3, <1>6, <2>1, <3>1 DEF Young
  <2>2. CASE link[c] \notin {"new", "open"}
    BY <1>3, <2>2 DEF Young
  <2>. QED
    BY <2>1, <2>2
<1>. QED
  BY <1>7, <1>8, <1>9 DEF Good

(* What deselects a mailbox leaves the session. *)
LEMMA DeselectGood ==
    ASSUME ServerInv, NEW c \in Conn, NEW t \in Tag,
           Unselect(c, t) \/ SelectFails(c, t) \/ Logout(c, t)
    PROVE  Good(c)'
<1>0. /\ Shape /\ Owned(c) /\ Usable(c) /\ Young(c)
      /\ running \in [Conn -> [Tag -> Running]] /\ DOMAIN selected = Conn
      /\ selected = [d \in Conn |-> selected[d]]
      /\ link \in [Conn -> {"new", "open", "closing", "closed"}]
      /\ current \in [Conn -> Nat] /\ Len(sessions[c]) \in Nat
      /\ state \in [Conn -> {"NOTAUTH", "AUTH", "SELECTED", "LOGOUT"}]
      /\ NoData.name = NoBox
  BY OneShape DEF ServerInv, Good, Shape, NoData
<1>1. /\ selected'[c].name = NoBox /\ UNCHANGED <<sessions, pending>>
      /\ running'[c][t] \in {running[c][t], Idle}
      /\ \A s \in Tag \ {t} : running'[c][s] = running[c][s]
  BY <1>0 DEF Unselect, SelectFails, Logout, ResetSelectedState, Finish, Run
<1>2. \A s \in Tag : running'[c][s].op \in {"select", "fetch"} => running'[c][s] = running[c][s]
  BY <1>1 DEF Idle
<1>3. CASE Logout(c, t)
  <2>1. current'[c] = 0 /\ state'[c] = "LOGOUT" /\ link'[c] = "closing"
    BY <1>0, <1>3 DEF Logout
  <2>2. Usable(c)' /\ Young(c)'
    BY <2>1 DEF Usable, Young
  <2>3. Owned(c)'
    BY <1>0, <1>1, <1>2, <2>1 DEF Owned
  <2>. QED
    BY <2>2, <2>3 DEF Good
<1>4. CASE Unselect(c, t) \/ SelectFails(c, t)
  <2>1. UNCHANGED <<link, authenticated, current>> /\ state'[c] = "AUTH"
    BY <1>0, <1>4 DEF Unselect, SelectFails, ResetSelectedState
  <2>2. Session(c)' = Session(c)
    BY <1>1, <2>1 DEF Session
  <2>3. Usable(c)'
    BY <2>1 DEF Usable
  <2>4. Owned(c)'
    BY <1>0, <1>1, <1>2, <2>1 DEF Owned
  <2>5. link[c] \in {"new", "open"} => current[c] # 0
    <3>1. CASE Unselect(c, t)
      BY <1>0, <3>1 DEF Unselect, Usable
    <3>2. CASE SelectFails(c, t)
      <4>1. running[c][t] \in SelectCommand /\ running[c][t].session <= Len(sessions[c])
        BY <1>0, <3>2, Commands DEF SelectFails, Owned
      <4>2. Len(sessions[c]) # 0
        BY <1>0, <4>1 DEF SelectCommand
      <4>. QED
        BY <1>0, <4>2 DEF Young
    <3>. QED
      BY <1>4, <3>1, <3>2
  <2>6. Young(c)'
    BY <1>0, <1>1, <1>2, <2>1, <2>2, <2>5 DEF Young
  <2>. QED
    BY <2>3, <2>4, <2>6 DEF Good
<1>. QED
  BY <1>3, <1>4

(* A notice waits only at connections of its mailbox's owner. *)
LEMMA NoticeGood ==
    ASSUME ServerInv, NEW n \in published, Deliver(n) \/ Lose(n), NEW c \in Conn
    PROVE  Good(c)'
<1>0. /\ Shape /\ Owned(c) /\ Usable(c) /\ Young(c) /\ n \in Notice
      /\ pending[c] \in Seq(Notice) /\ current[c] \in Nat /\ Len(sessions[c]) \in Nat
  BY OneShape DEF ServerInv, Good, Shape
<1>1. /\ UNCHANGED <<link, authenticated, state, sessions, current, selected, running>>
      /\ \/ pending'[c] = pending[c]
         \/ Hears(c, n) /\ pending'[c] = Append(pending[c], n)
  <2>1. CASE Deliver(n)
    BY <2>1 DEF Deliver
  <2>2. CASE Lose(n)
    BY <2>2 DEF Lose, conns
  <2>. QED
    BY <2>1, <2>2
<1>2. Session(c)' = Session(c)
  BY <1>1 DEF Session
<1>3. Owned(c)' /\ Usable(c)'
  BY <1>0, <1>1, <1>2 DEF Owned, Usable
<1>4. CASE pending'[c] = pending[c]
  BY <1>0, <1>1, <1>2, <1>3, <1>4 DEF Young, Good
<1>5. CASE Hears(c, n) /\ pending'[c] = Append(pending[c], n)
  <2>1. current[c] # 0 /\ Session(c).box = BoxOf[n.copy] /\ state[c] = "SELECTED"
    BY <1>5 DEF Hears
  <2>2. Owner[BoxOf[n.copy]] = Session(c).user
    BY <1>0, <2>1 DEF Usable, Owned, Session
  <2>3. \A i \in DOMAIN pending'[c] :
            \/ pending'[c][i] = n
            \/ i \in DOMAIN pending[c] /\ pending'[c][i] = pending[c][i]
    BY <1>0, <1>5
  <2>4. Young(c)'
    BY <1>0, <1>1, <1>2, <2>1, <2>2, <2>3 DEF Young
  <2>. QED
    BY <1>3, <2>4 DEF Good
<1>. QED
  BY <1>1, <1>4, <1>5

(* What a step of one connection leaves of the others. *)
LEMMA OthersStay ==
    ASSUME ServerInv, NEW c \in Conn, NEW d \in Conn \ {c},
           \/ Connect(c) \/ Close(c) \/ Closed(c) \/ HangUp(c)
           \/ \E t \in Tag : Command(c, t) \/ Resume(c, t) \/ StreamEnd(c, t)
    PROVE  /\ UNCHANGED Of(d)
           /\ \A u : d \in authenticated[u] => d \in authenticated'[u]
<1>0. /\ Shape /\ Good(d) /\ Owned(c) /\ Usable(c)
      /\ link \in [Conn -> {"new", "open", "closing", "closed"}]
      /\ authenticated \in [User -> SUBSET Conn]
      /\ state \in [Conn -> {"NOTAUTH", "AUTH", "SELECTED", "LOGOUT"}]
      /\ sessions \in [Conn -> Seq(SessionObject)] /\ current \in [Conn -> Nat]
      /\ DOMAIN selected = Conn /\ selected = [e \in Conn |-> selected[e]]
      /\ pending \in [Conn -> Seq(Notice)] /\ running \in [Conn -> [Tag -> Running]]
  BY DEF ServerInv, Good, Shape
<1>1. CASE Connect(c) \/ Close(c) \/ Closed(c) \/ HangUp(c)
  BY <1>0, <1>1 DEF Connect, Close, Closed, HangUp, OnClose, Of
<1>2. ASSUME NEW t \in Tag, Command(c, t) \/ Resume(c, t) \/ StreamEnd(c, t)
      PROVE  /\ UNCHANGED Of(d)
             /\ \A u : d \in authenticated[u] => d \in authenticated'[u]
  <2>1. running'[d] = running[d]
    <3>1. \/ UNCHANGED running
          \/ \E cmd \in Running : running' = [running EXCEPT ![c][t] = cmd]
      BY <1>0, <1>2, CommandMoves
    <3>2. ASSUME NEW cmd \in Running, running' = [running EXCEPT ![c][t] = cmd]
          PROVE  running'[d] = running[d]
      BY <1>0, <3>2
    <3>. QED
      BY <3>1, <3>2
  <2>2. CASE \/ \E u \in User : LoginStart(c, t, u)
             \/ \E b \in Mailbox : SelectStart(c, t, b)
             \/ FetchStart(c, t)
             \/ LoginFails(c, t) \/ FindMailbox(c, t) \/ ListMessages(c, t) \/ StreamStart(c, t)
    <3>1. UNCHANGED <<link, authenticated, state, sessions, current, selected, pending>>
      BY <2>2 DEF LoginStart, SelectStart, FetchStart, LoginFails, FindMailbox,
                  ListMessages, StreamStart
    <3>. QED
      BY <2>1, <3>1 DEF Of
  <2>3. CASE Refresh(c, t) \/ FetchEnd(c, t) \/ StreamEnd(c, t)
    <3>1. /\ UNCHANGED <<link, authenticated, state, sessions, current>>
          /\ Notify(c) \/ UNCHANGED <<selected, pending>>
      BY <2>3 DEF Refresh, FetchEnd, StreamEnd
    <3>2. selected'[d] = selected[d] /\ pending'[d] = pending[d]
      BY <1>0, <3>1 DEF Notify
    <3>. QED
      BY <2>1, <3>1, <3>2 DEF Of
  <2>4. CASE Unselect(c, t) \/ SelectFails(c, t)
    BY <1>0, <2>1, <2>4 DEF Unselect, SelectFails, ResetSelectedState, Of
  <2>5. CASE Logout(c, t)
    <3>1. \A u : d \in authenticated[u] => d \in authenticated'[u]
      BY <1>0, <2>5 DEF Logout
    <3>. QED
      BY <1>0, <2>1, <2>5, <3>1 DEF Logout, Of
  <2>6. CASE LoginOk(c, t)
    <3>1. \A u : d \in authenticated[u] => d \in authenticated'[u]
      BY <1>0, <2>6 DEF LoginOk, AddAuthenticated
    <3>2. sessions'[d] = sessions[d] /\ current'[d] = current[d]
      BY <1>0, <2>6 DEF LoginOk, SetSession
    <3>. QED
      BY <1>0, <2>1, <2>6, <3>1, <3>2 DEF LoginOk, Of
  <2>7. CASE OpenMailbox(c, t)
    BY <1>0, <2>1, <2>7 DEF OpenMailbox, Of
  <2>8. CASE SelectOk(c, t)
    <3>1. /\ selected'[d] = selected[d] /\ current'[d] = current[d]
          /\ state'[d] = state[d] /\ pending'[d] = pending[d]
      BY <1>0, <2>8 DEF SelectOk
    <3>. QED
      BY <2>1, <2>8, <3>1 DEF SelectOk, Of
  <2>. QED
    BY <1>2, <2>2, <2>3, <2>4, <2>5, <2>6, <2>7, <2>8 DEF Command, Resume
<1>. QED
  BY <1>1, <1>2

(* A step of one connection keeps what the others have. *)
LEMMA StepOfOne ==
    ASSUME ServerInv, NEW c \in Conn, NEW d \in Conn \ {c},
           \/ Connect(c) \/ Close(c) \/ Closed(c) \/ HangUp(c)
           \/ \E t \in Tag : Command(c, t) \/ Resume(c, t) \/ StreamEnd(c, t)
    PROVE  Good(d)'
BY OthersStay, OthersGood DEF ServerInv

(* Every connection stays good. *)
LEMMA GoodStep ==
    ASSUME ServerInv, [Next]_vars, NEW d \in Conn
    PROVE  Good(d)'
<1>0. Good(d)
  BY DEF ServerInv
<1>1. CASE \/ UNCHANGED vars
           \/ (FeedNext /\ UNCHANGED <<conns, taken>>)
  <2>1. UNCHANGED conns
    BY <1>1 DEF vars
  <2>. QED
    BY <1>0, <2>1, OthersGood DEF conns, Of
<1>2. ASSUME NEW c \in Conn, Connect(c) \/ Close(c) \/ Closed(c) \/ HangUp(c)
      PROVE  Good(d)'
  <2>1. CASE c = d
    BY <1>2, <2>1, LinkGood
  <2>2. CASE c # d
    BY <1>2, <2>2, StepOfOne
  <2>. QED
    BY <2>1, <2>2
<1>3. ASSUME NEW c \in Conn, NEW t \in Tag,
             Command(c, t) \/ Resume(c, t) \/ StreamEnd(c, t)
      PROVE  Good(d)'
  <2>1. CASE c = d
    BY <1>3, <2>1, WaitingGood, LoginGood, OpenGood, SelectGood, DeselectGood
    DEF Command, Resume
  <2>2. CASE c # d
    BY <1>3, <2>2, StepOfOne
  <2>. QED
    BY <2>1, <2>2
<1>4. ASSUME NEW n \in published, Deliver(n) \/ Lose(n)
      PROVE  Good(d)'
  BY <1>4, NoticeGood
<1>. QED
  BY <1>1, <1>2, <1>3, <1>4 DEF Next

(* At first no connection is there. *)
LEMMA ServerInvInit == Init => ServerInv
<1> SUFFICES ASSUME Init PROVE ServerInv
  OBVIOUS
<1>1. /\ \A c \in Conn : /\ link[c] = "new" /\ state[c] = "NOTAUTH" /\ sessions[c] = <<>>
                         /\ current[c] = 0 /\ selected[c] = NoData /\ pending[c] = <<>>
                         /\ \A t \in Tag : running[c][t] = Idle
      /\ NoData.name = NoBox /\ Idle.op = "none" /\ Len(<<>>) = 0
  BY DEF Init, NoData, Idle
<1>2. Shape
  <2>1. /\ stage \in [Copy -> [at : {"none", "read", "announced", "stored"}, uid : Nat]]
        /\ published \subseteq Notice
    BY DEF Init, FeedInit
  <2>2. <<>> \in Seq(SessionObject) /\ <<>> \in Seq(Notice) /\ Idle \in Running
    BY DEF Running
  <2>3. /\ DOMAIN selected = Conn /\ selected = [c \in Conn |-> selected[c]]
        /\ \A c \in Conn : IsData(selected[c])
    BY DEF Init, IsData, NoData
  <2>4. connections = {c \in Conn : link[c] \in {"open", "closing"}}
    BY <1>1 DEF Init
  <2>. QED
    BY <2>1, <2>2, <2>3, <2>4 DEF Init, Shape, IsData
<1>3. ASSUME NEW c \in Conn
      PROVE  Good(c)
  BY <1>1 DEF Good, Owned, Usable, Young
<1>. QED
  BY <1>2, <1>3 DEF ServerInv

-----------------------------------------------------------------------------
(* Theorems.  Clients may have any number of commands outstanding. *)

(* ServerInv holds in every reachable state. *)
THEOREM ServerInvariance == Spec => []ServerInv
<1>1. ServerInv /\ [Next]_vars => ServerInv'
  BY ShapeStep, GoodStep DEF ServerInv
<1>. QED
  BY <1>1, ServerInvInit, PTL DEF Spec

(* A connection that is in use is found under its session's user. *)
THEOREM RegistryCorrect == Spec => []RegistrySound
<1>1. ASSUME ServerInv
      PROVE  RegistrySound
  BY <1>1 DEF ServerInv, Good, Young, RegistrySound
<1>. QED
  BY <1>1, ServerInvariance, PTL

(* What a connection selects, hears of and fetches from is its user's. *)
THEOREM MailboxesOwned == Spec => []OwnMailboxesOnly
<1>1. ASSUME ServerInv
      PROVE  OwnMailboxesOnly
  <2> SUFFICES ASSUME NEW c \in Conn, current[c] # 0
               PROVE  LET Mine(b) == Owner[b] = Session(c).user IN
                        /\ selected[c].name # NoBox => Mine(selected[c].name)
                        /\ Session(c).box # NoBox => Mine(Session(c).box)
                        /\ link[c] = "open" =>
                              /\ \A i \in DOMAIN pending[c] :
                                    Mine(BoxOf[pending[c][i].copy])
                              /\ \A t \in Tag : running[c][t].op = "fetch" =>
                                    Mine(running[c][t].box)
    BY DEF OwnMailboxesOnly
  <2>1. /\ Owned(c) /\ Young(c) /\ current[c] \in Nat /\ Len(sessions[c]) \in Nat
    BY <1>1, OneShape DEF ServerInv, Good
  <2>2. current[c] \in 1 .. Len(sessions[c])
    BY <2>1 DEF Owned
  <2>. QED
    BY <2>1, <2>2 DEF Owned, Young, Session
<1>. QED
  BY <1>1, ServerInvariance, PTL

(* A connection in the state SELECTED has what its handlers dereference. *)
THEOREM SelectedCorrect == Spec => []SelectedIsUsable
<1>1. ASSUME ServerInv
      PROVE  SelectedIsUsable
  BY <1>1 DEF ServerInv, Good, Usable, SelectedIsUsable
<1>. QED
  BY <1>1, ServerInvariance, PTL

-----------------------------------------------------------------------------
(* Sets of numbers and sequences *)

(* A set of numbers has a least one. *)
LEMMA Least ==
    ASSUME NEW S, S \subseteq Nat, S # {}
    PROVE  \E n \in S : \A m \in S : n <= m
<1>1. PICK R : IsWellFoundedOn(R, Nat) /\ \A x, y \in Nat : x < y => <<x, y>> \in R
  <2> DEFINE R == OpToRel(<, Nat)
  <2>1. IsWellFoundedOn(R, Nat)
    BY NatLessThanWellFounded
  <2>2. \A x, y \in Nat : x < y => <<x, y>> \in R
    BY DEF OpToRel
  <2> HIDE DEF R
  <2>. QED
    BY <2>1, <2>2
<1>2. IsWellFoundedOn(R, Nat)
  BY <1>1
<1>3. PICK x \in S : \A y \in S : ~ (<<y, x>> \in R)
  BY <1>2, WFMin, Zenon
<1>4. \A m \in S : x <= m
  <2> SUFFICES ASSUME NEW m \in S, ~ (x <= m) PROVE FALSE
    OBVIOUS
  <2>1. m \in Nat /\ x \in Nat
    OBVIOUS
  <2>2. m < x
    BY <2>1
  <2>3. <<m, x>> \in R
    BY <1>1, <2>1, <2>2, Zenon
  <2>. QED
    BY <2>3, <1>3, Zenon
<1>. QED
  BY <1>4

(* The greatest element of S. *)
Top(S, m) == m \in S /\ \A y \in S : y <= m

(* A finite one has a greatest one. *)
LEMMA Greatest ==
    ASSUME NEW T, T \subseteq Nat, IsFiniteSet(T), T # {}
    PROVE  Top(T, Max(T))
<1> DEFINE bad == {n \in Nat : \E S \in SUBSET Nat :
                      /\ IsFiniteSet(S) /\ Cardinality(S) = n /\ S # {}
                      /\ ~ \E m : Top(S, m)}
<1>1. bad = {}
  <2> SUFFICES ASSUME bad # {} PROVE FALSE
    OBVIOUS
  <2>1. PICK n \in bad : \A k \in bad : n <= k
    BY Least
  <2>2. PICK S \in SUBSET Nat :
           /\ IsFiniteSet(S) /\ Cardinality(S) = n /\ S # {}
           /\ ~ \E m : Top(S, m)
    OBVIOUS
  <2>3. PICK x \in S : TRUE
    BY <2>2
  <2> DEFINE R == S \ {x}
  <2>4. IsFiniteSet(R) /\ Cardinality(R) = n - 1
    BY <2>2, FS_RemoveElement
  <2>5. n \in Nat /\ n - 1 \in Nat
    BY <2>4, FS_CardinalityType
  <2>6. n - 1 \notin bad
    BY <2>1, <2>5
  <2>7. R = {} \/ \E m : Top(R, m)
    BY <2>4, <2>5, <2>6
  <2>8. CASE R = {}
    <3>1. S = {x} /\ x \in Nat
      BY <2>8
    <3>2. Top(S, x)
      BY <3>1 DEF Top
    <3>. QED
      BY <2>2, <3>2
  <2>9. CASE \E m : Top(R, m)
    <3>1. PICK m : Top(R, m)
      BY <2>9
    <3>2. m \in Nat /\ x \in Nat /\ \A y \in S : y \in R \/ y = x
      BY <3>1 DEF Top
    <3>3. CASE m <= x
      <4>1. \A y \in R : y \in Nat /\ y <= m
        BY <3>1 DEF Top
      <4>2. Top(S, x)
        BY <3>2, <3>3, <4>1 DEF Top
      <4>. QED
        BY <2>2, <4>2
    <3>4. CASE ~ (m <= x)
      <4>1. Top(S, m)
        BY <3>1, <3>2, <3>4 DEF Top
      <4>. QED
        BY <2>2, <4>1
    <3>. QED
      BY <3>3, <3>4
  <2>. QED
    BY <2>7, <2>8, <2>9
<1>2. Cardinality(T) \in Nat
  BY FS_CardinalityType
<1>3. \E m : Top(T, m)
  BY <1>1, <1>2
<1> HIDE DEF bad
<1>4. PICK m \in T : \A y \in T : m >= y
  BY <1>3 DEF Top
<1>5. \A y \in T : Max(T) >= y /\ Max(T) \in T
  BY <1>4 DEF Max
<1>. QED
  BY <1>4, <1>5 DEF Top

(* s lists S from the least to the greatest. *)
Lists(s, S) ==
    /\ s \in [1 .. Cardinality(S) -> S]
    /\ \A i, j \in DOMAIN s : i < j => s[i] < s[j]

(* A finite set of numbers can be listed so. *)
LEMMA Listing ==
    ASSUME NEW T, T \subseteq Nat, IsFiniteSet(T)
    PROVE  Lists(Ascending(T), T)
<1> DEFINE bad == {n \in Nat : \E S \in SUBSET Nat :
                      /\ IsFiniteSet(S) /\ Cardinality(S) = n
                      /\ ~ \E s : Lists(s, S)}
<1>1. bad = {}
  <2> SUFFICES ASSUME bad # {} PROVE FALSE
    OBVIOUS
  <2>1. PICK n \in bad : \A k \in bad : n <= k
    BY Least
  <2>2. PICK S \in SUBSET Nat :
           /\ IsFiniteSet(S) /\ Cardinality(S) = n
           /\ ~ \E s : Lists(s, S)
    OBVIOUS
  <2>3. S # {}
    <3> SUFFICES ASSUME S = {} PROVE FALSE
      OBVIOUS
    <3>1. Cardinality(S) = 0
      BY FS_EmptySet
    <3>2. [i \in 1 .. 0 |-> 0] \in [1 .. Cardinality(S) -> S]
      BY <3>1
    <3>3. DOMAIN [i \in 1 .. 0 |-> 0] = {}
      OBVIOUS
    <3>4. Lists([i \in 1 .. 0 |-> 0], S)
      BY <3>2, <3>3 DEF Lists
    <3>. QED
      BY <2>2, <3>4
  <2>4. Top(S, Max(S))
    BY <2>2, <2>3, Greatest
  <2>5. PICK m \in S : \A y \in S : y <= m
    BY <2>4 DEF Top
  <2> DEFINE R == S \ {m}
  <2>6. IsFiniteSet(R) /\ Cardinality(R) = n - 1 /\ R \in SUBSET Nat
    BY <2>2, FS_RemoveElement
  <2>7. n \in Nat /\ n - 1 \in Nat
    BY <2>6, FS_CardinalityType
  <2>8. n - 1 \notin bad
    BY <2>1, <2>7
  <2>9. PICK r : Lists(r, R)
    BY <2>6, <2>7, <2>8
  <2>10. /\ r \in [1 .. n - 1 -> R]
         /\ \A i, j \in 1 .. n - 1 : i < j => r[i] < r[j]
    BY <2>6, <2>9 DEF Lists
  <2>11. \A y \in R : y \in Nat /\ m \in Nat /\ y < m /\ y \in S
    BY <2>5
  <2> HIDE DEF bad, R
  <2> DEFINE s == [i \in 1 .. n |-> IF i = n THEN m ELSE r[i]]
  <2>12. /\ DOMAIN s = 1 .. n
         /\ \A i \in 1 .. n : s[i] = IF i = n THEN m ELSE r[i]
         /\ s = [i \in 1 .. n |-> s[i]]
    OBVIOUS
  <2> HIDE DEF s
  <2>13. \A i \in 1 .. n : i # n => i \in 1 .. n - 1
    BY <2>7
  <2>14. \A i \in 1 .. n : s[i] \in S
    BY <2>10, <2>11, <2>12, <2>13
  <2>15. ASSUME NEW i \in 1 .. n, NEW j \in 1 .. n, i < j
         PROVE  s[i] < s[j]
    <3>1. i # n /\ i \in 1 .. n - 1
      BY <2>7, <2>15
    <3>2. s[i] = r[i] /\ r[i] \in R
      BY <2>10, <2>12, <3>1
    <3>3. CASE j = n
      BY <2>11, <2>12, <3>2, <3>3
    <3>4. CASE j # n
      BY <2>10, <2>12, <2>13, <2>15, <3>1, <3>2, <3>4
    <3>. QED
      BY <3>3, <3>4
  <2>16. s \in [1 .. Cardinality(S) -> S]
    BY <2>2, <2>12, <2>14
  <2>17. Lists(s, S)
    BY <2>12, <2>15, <2>16 DEF Lists
  <2>. QED
    BY <2>2, <2>17
<1>2. Cardinality(T) \in Nat
  BY FS_CardinalityType
<1>3. \E s : Lists(s, T)
  BY <1>1, <1>2
<1> HIDE DEF bad
<1>4. PICK s \in [1 .. Cardinality(T) -> T] : \A i, j \in DOMAIN s : i < j => s[i] < s[j]
  BY <1>3 DEF Lists
<1>5. /\ Ascending(T) \in [1 .. Cardinality(T) -> T]
      /\ \A i, j \in DOMAIN Ascending(T) : i < j => Ascending(T)[i] < Ascending(T)[j]
  BY <1>4 DEF Ascending
<1>. QED
  BY <1>5 DEF Lists

(* A function on 1 .. n is a sequence of length n. *)
LEMMA AsSeq ==
    ASSUME NEW S, NEW n \in Nat, NEW f \in [1 .. n -> S]
    PROVE  f \in Seq(S) /\ Len(f) = n
<1>1. f \in Seq(S)
  BY SeqDef
<1>2. Len(f) \in Nat /\ DOMAIN f = 1 .. Len(f) /\ DOMAIN f = 1 .. n
  BY <1>1
<1>. QED
  BY <1>1, <1>2

(* What is added at the end of a sequence is a suffix of it; *)
LEMMA SuffixOfConcat ==
    ASSUME NEW S, NEW s \in Seq(S), NEW u \in Seq(S)
    PROVE  IsSuffix(u, s \o u)
<1> DEFINE w == s \o u
           ru == Reverse(u)
           rw == Reverse(w)
           n == Len(u)
<1>1. /\ w \in Seq(S) /\ Len(w) = Len(s) + n /\ n \in Nat /\ Len(s) \in Nat
      /\ \A i \in 1 .. n : w[Len(s) + i] = u[i]
  OBVIOUS
<1> HIDE DEF w, n
<1>2. /\ \A i \in 1 .. n : u[n - i + 1] \in S
      /\ \A i \in 1 .. Len(w) : w[Len(w) - i + 1] \in S
  BY <1>1 DEF n
<1>3. /\ ru = [i \in 1 .. n |-> u[n - i + 1]]
      /\ rw = [i \in 1 .. Len(w) |-> w[Len(w) - i + 1]]
  BY DEF Reverse, n
<1> HIDE DEF ru, rw
<1>4. /\ ru \in Seq(S) /\ rw \in Seq(S) /\ Len(ru) = n /\ Len(rw) = Len(w)
  <2>1. ru \in [1 .. n -> S] /\ rw \in [1 .. Len(w) -> S] /\ Len(w) \in Nat
    BY <1>1, <1>2, <1>3
  <2>. QED
    BY <1>1, <2>1, AsSeq
<1>5. \A i \in 1 .. n : ru[i] = rw[i]
  <2> SUFFICES ASSUME NEW i \in 1 .. n PROVE ru[i] = rw[i]
    OBVIOUS
  <2>1. i \in 1 .. Len(w) /\ n - i + 1 \in 1 .. n
    BY <1>1
  <2>2. Len(w) - i + 1 = Len(s) + (n - i + 1)
    BY <1>1
  <2>3. w[Len(w) - i + 1] = u[n - i + 1]
    BY <1>1, <2>1, <2>2
  <2>. QED
    BY <1>3, <2>1, <2>3
<1>6. SubSeq(ru, 1, n) = SubSeq(rw, 1, n)
  <2>1. SubSeq(ru, 1, n) = [i \in 1 .. n |-> ru[i]] /\ SubSeq(rw, 1, n) = [i \in 1 .. n |-> rw[i]]
    BY <1>1, <1>4, SubSeqProperties
  <2>. QED
    BY <1>5, <2>1
<1>7. IsPrefix(ru, rw)
  BY <1>1, <1>4, <1>6 DEF IsPrefix
<1>. QED
  BY <1>7 DEF IsSuffix, ru, rw, w

(* what it had before, a prefix. *)
LEMMA PrefixOfAppend ==
    ASSUME NEW S, NEW s \in Seq(S), NEW x \in S
    PROVE  IsPrefix(s, Append(s, x))
<1>1. Len(s) \in Nat /\ Len(Append(s, x)) = Len(s) + 1 /\ Append(s, x) \in Seq(S)
  OBVIOUS
<1>2. \A i \in 1 .. Len(s) : Append(s, x)[i] = s[i]
  OBVIOUS
<1>3. /\ SubSeq(s, 1, Len(s)) = [i \in 1 .. Len(s) |-> s[i]]
      /\ SubSeq(Append(s, x), 1, Len(s)) = [i \in 1 .. Len(s) |-> Append(s, x)[i]]
  BY <1>1, SubSeqProperties
<1>. QED
  BY <1>1, <1>2, <1>3 DEF IsPrefix

(* What a function on a finite set returns is a finite set. *)
LEMMA FiniteImage ==
    ASSUME NEW D, NEW R, IsFiniteSet(D), NEW f \in [D -> R],
           \A y \in R : \E x \in D : f[x] = y
    PROVE  IsFiniteSet(R)
<1>1. f \in Surjection(D, R)
  BY Fun_IsSurj
<1>. QED
  BY <1>1, FS_Surjection

(* What notices make of a sequence of UIDs. *)
LEMMA PushedTyped ==
    ASSUME NEW data \in SelectedData, NEW ns \in Seq(Notice)
    PROVE  /\ Pushed(data, ns) \in SelectedData
           /\ Pushed(data, ns).name = data.name
           /\ IsSuffix([i \in DOMAIN ns |-> ns[i].uid], Pushed(data, ns).sequence)
<1> DEFINE u == [i \in DOMAIN ns |-> ns[i].uid]
           seq == data.sequence \o u
           S == {data.highestModSeq} \cup {ns[i].uid : i \in DOMAIN ns}
<1>1. /\ Len(ns) \in Nat /\ DOMAIN ns = 1 .. Len(ns)
      /\ \A i \in DOMAIN ns : ns[i] \in Notice
  OBVIOUS
<1>2. \A i \in DOMAIN ns : ns[i].uid \in Nat
  BY <1>1 DEF Notice
<1>3. u \in Seq(Nat)
  <2>1. u \in [1 .. Len(ns) -> Nat]
    BY <1>1, <1>2
  <2>. QED
    BY <1>1, <2>1, AsSeq
<1>4. /\ data.sequence \in Seq(Nat) /\ data.highestModSeq \in Nat
      /\ data.name \in Mailbox \cup {NoBox}
  BY DEF SelectedData
<1>5. seq \in Seq(Nat) /\ IsSuffix(u, seq)
  <2> HIDE DEF u
  <2>. QED
    BY <1>3, <1>4, SuffixOfConcat
<1>6. Max(S) \in Nat
  <2>1. S \subseteq Nat /\ S # {}
    BY <1>2, <1>4
  <2>2. IsFiniteSet(DOMAIN ns)
    BY <1>1, FS_Interval
  <2>3. IsFiniteSet({ns[i].uid : i \in DOMAIN ns})
    <3> DEFINE R == {ns[i].uid : i \in DOMAIN ns}
    <3>1. u \in [DOMAIN ns -> R] /\ \A y \in R : \E i \in DOMAIN ns : u[i] = y
      OBVIOUS
    <3> HIDE DEF u, R
    <3>. QED
      BY <2>2, <3>1, FiniteImage DEF R
  <2>4. IsFiniteSet(S)
    <3> DEFINE R == {ns[i].uid : i \in DOMAIN ns}
    <3>1. S = R \cup {data.highestModSeq}
      OBVIOUS
    <3>2. IsFiniteSet(R)
      BY <2>3
    <3> HIDE DEF S, R
    <3>3. IsFiniteSet(R \cup {data.highestModSeq})
      BY <3>2, FS_AddElement
    <3>. QED
      BY <3>1, <3>3
  <2> HIDE DEF S
  <2>5. Top(S, Max(S))
    BY <2>1, <2>4, Greatest
  <2>. QED
    BY <2>1, <2>5 DEF Top
<1>7. Pushed(data, ns) = [[data EXCEPT !.sequence = seq] EXCEPT !.highestModSeq = Max(S)]
  BY DEF Pushed, SelectedData
<1> HIDE DEF seq, S
<1>8. Pushed(data, ns) = [name |-> data.name, sequence |-> seq, highestModSeq |-> Max(S)]
  BY <1>7 DEF SelectedData
<1>. QED
  BY <1>4, <1>5, <1>6, <1>8 DEF SelectedData

-----------------------------------------------------------------------------
(* Notices *)

(* What is selected is typed, and a SELECT has read finitely many UIDs. *)
Counted(c) ==
    /\ selected[c] \in SelectedData
    /\ \A t \in Tag : running[c][t].op = "select" => IsFiniteSet(running[c][t].uids)

CountedInv == ServerInv /\ \A c \in Conn : Counted(c)

(* What is selected changes when notices are added or the mailbox is left. *)
SelectionMove(c) ==
    \/ selected'[c] \in {selected[c], NoData} /\ pending'[c] = pending[c]
    \/ /\ \E data \in SelectedData :
             data.name # NoBox /\ selected'[c] = Pushed(data, pending[c])
       /\ pending'[c] = <<>>

(* Notifying does so, *)
LEMMA NotifySelection ==
    ASSUME ServerInv, NEW c \in Conn, Counted(c),
           Notify(c) \/ UNCHANGED <<selected, pending>>
    PROVE  SelectionMove(c)
<1>0. /\ DOMAIN selected = Conn /\ selected = [e \in Conn |-> selected[e]]
      /\ pending \in [Conn -> Seq(Notice)] /\ Usable(c) /\ selected[c] \in SelectedData
  BY DEF ServerInv, Shape, Good, Counted
<1>1. CASE state[c] = "SELECTED" /\ Notify(c)
  <2>1. selected'[c] = Pushed(selected[c], pending[c]) /\ pending'[c] = <<>>
    BY <1>0, <1>1 DEF Notify
  <2>. QED
    BY <1>0, <1>1, <2>1 DEF SelectionMove, Usable
<1>2. CASE UNCHANGED <<selected, pending>>
  BY <1>2 DEF SelectionMove
<1>. QED
  BY <1>1, <1>2 DEF Notify

(* so does SELECT, *)
LEMMA SelectSelection ==
    ASSUME ServerInv, NEW c \in Conn, Counted(c), NEW t \in Tag, SelectOk(c, t)
    PROVE  SelectionMove(c)
<1> DEFINE cmd == running[c][t]
           data == [name |-> cmd.box, sequence |-> Ascending(cmd.uids),
                    highestModSeq |-> cmd.modifyIndex]
<1>0. /\ DOMAIN selected = Conn /\ selected = [e \in Conn |-> selected[e]]
      /\ pending \in [Conn -> Seq(Notice)]
      /\ cmd \in SelectCommand /\ cmd.op = "select" /\ NoBox \notin Mailbox
  BY Commands, ServerAssumption DEF ServerInv, Shape, SelectOk, Selecting
<1>1. /\ cmd.uids \subseteq Nat /\ IsFiniteSet(cmd.uids) /\ cmd.box \in Mailbox
      /\ cmd.modifyIndex \in Nat
  BY <1>0 DEF SelectCommand, Counted
<1>2. Ascending(cmd.uids) \in Seq(Nat)
  <2> DEFINE U == cmd.uids
  <2> HIDE DEF cmd
  <2>1. Cardinality(U) \in Nat
    BY <1>1, FS_CardinalityType
  <2>2. Ascending(U) \in [1 .. Cardinality(U) -> Nat]
    BY <1>1, Listing DEF Lists
  <2>. QED
    BY <2>1, <2>2, AsSeq
<1>3. data \in SelectedData /\ data.name # NoBox
  BY <1>0, <1>1, <1>2 DEF SelectedData
<1>4. /\ selected' = [selected EXCEPT ![c] = Pushed(data, pending[c])]
      /\ pending' = [pending EXCEPT ![c] = <<>>]
  BY DEF SelectOk
<1> HIDE DEF data
<1>5. selected'[c] = Pushed(data, pending[c]) /\ pending'[c] = <<>>
  BY <1>0, <1>4
<1>. QED
  BY <1>3, <1>5 DEF SelectionMove

(* and every other command. *)
LEMMA CommandSelection ==
    ASSUME ServerInv, NEW c \in Conn, Counted(c), NEW t \in Tag,
           Command(c, t) \/ Resume(c, t) \/ StreamEnd(c, t)
    PROVE  SelectionMove(c)
<1>0. DOMAIN selected = Conn /\ selected = [e \in Conn |-> selected[e]]
  BY DEF ServerInv, Shape
<1>1. CASE \/ \E u \in User : LoginStart(c, t, u)
           \/ \E b \in Mailbox : SelectStart(c, t, b)
           \/ FetchStart(c, t)
           \/ LoginOk(c, t) \/ LoginFails(c, t) \/ FindMailbox(c, t)
           \/ OpenMailbox(c, t) \/ ListMessages(c, t) \/ StreamStart(c, t)
  <2>1. UNCHANGED <<selected, pending>>
    BY <1>1 DEF LoginStart, SelectStart, FetchStart, LoginOk, LoginFails, FindMailbox,
                OpenMailbox, ListMessages, StreamStart
  <2>. QED
    BY <2>1, NotifySelection
<1>2. CASE Refresh(c, t) \/ FetchEnd(c, t) \/ StreamEnd(c, t)
  <2>1. Notify(c) \/ UNCHANGED <<selected, pending>>
    BY <1>2 DEF Refresh, FetchEnd, StreamEnd
  <2>. QED
    BY <2>1, NotifySelection
<1>3. CASE Unselect(c, t) \/ SelectFails(c, t) \/ Logout(c, t)
  <2>1. selected' = [selected EXCEPT ![c] = NoData] /\ pending' = pending
    BY <1>3 DEF Unselect, SelectFails, Logout, ResetSelectedState
  <2>. QED
    BY <1>0, <2>1 DEF SelectionMove
<1>4. CASE SelectOk(c, t)
  BY <1>4, SelectSelection
<1>. QED
  BY <1>1, <1>2, <1>3, <1>4 DEF Command, Resume

(* A command has UIDs when SELECT has listed them. *)
LEMMA CommandCounts ==
    ASSUME ServerInv, NEW c \in Conn, Counted(c), NEW t \in Tag,
           Command(c, t) \/ Resume(c, t) \/ StreamEnd(c, t), NEW s \in Tag,
           running'[c][s].op = "select"
    PROVE  IsFiniteSet(running'[c][s].uids)
<1>0. /\ Shape /\ running \in [Conn -> [Tag -> Running]] /\ Owned(c) /\ Usable(c)
  BY DEF ServerInv, Shape, Good
<1>1. CASE running'[c][s] = running[c][s]
  BY <1>1 DEF Counted
<1>2. CASE running'[c][s] # running[c][s]
  <2>1. s = t
    <3>1. \/ UNCHANGED running
          \/ \E cmd \in Running : running' = [running EXCEPT ![c][t] = cmd]
      BY <1>0, CommandMoves
    <3>. QED
      BY <1>0, <1>2, <3>1
  <2>2. running' # running
    BY <1>2
  <2>3. CASE Finish(c, t)
    BY <1>0, <2>1, <2>3 DEF Finish, Run, Idle
  <2>4. ASSUME NEW u \in User, LoginStart(c, t, u)
        PROVE  FALSE
    BY <1>0, <2>1, <2>4 DEF LoginStart, Run
  <2>5. ASSUME NEW b \in Mailbox, SelectStart(c, t, b)
        PROVE  IsFiniteSet(running'[c][s].uids)
    <3>1. running'[c][s].uids = {}
      BY <1>0, <2>1, <2>5 DEF SelectStart, Run
    <3>. QED
      BY <3>1, FS_EmptySet
  <2>6. CASE FetchStart(c, t)
    BY <1>0, <2>1, <2>6 DEF FetchStart, Run
  <2>7. CASE FindMailbox(c, t) \/ OpenMailbox(c, t)
    <3>1. running[c][t] \in SelectCommand /\ running[c][t].op = "select"
      BY <1>0, <2>7, Commands DEF FindMailbox, OpenMailbox, Selecting
    <3>2. running'[c][t].uids = running[c][t].uids
      BY <1>0, <2>7, <3>1 DEF FindMailbox, OpenMailbox, SelectCommand
    <3>. QED
      BY <2>1, <3>1, <3>2 DEF Counted
  <2>8. CASE ListMessages(c, t)
    <3> DEFINE b == running[c][t].box
    <3>1. running[c][t] \in SelectCommand
      BY <1>0, <2>8, Commands DEF ListMessages, Selecting
    <3>2. running'[c][t].uids = Uids(b)
      BY <1>0, <2>8, <3>1 DEF ListMessages, SelectCommand
    <3> HIDE DEF b
    <3>3. StoredIn(b) \subseteq Copy /\ IsFiniteSet(StoredIn(b))
      <4>1. StoredIn(b) \subseteq Copy
        BY DEF StoredIn
      <4>. QED
        BY <4>1, FS_Subset, ServerAssumption
    <3>4. IsFiniteSet(Uids(b))
      <4> DEFINE f == [i \in StoredIn(b) |-> stage[i].uid]
      <4>1. f \in [StoredIn(b) -> Uids(b)] /\ \A y \in Uids(b) : \E i \in StoredIn(b) : f[i] = y
        BY DEF Uids
      <4> HIDE DEF f
      <4>. QED
        BY <3>3, <4>1, FiniteImage
    <3>. QED
      BY <2>1, <3>2, <3>4
  <2>9. CASE StreamStart(c, t)
    <3>1. running[c][t].op = "fetch"
      BY <2>9 DEF StreamStart, Fetching
    <3>2. running'[c][t].op = "fetch"
      BY <1>0, <2>9, <3>1, Commands DEF StreamStart
    <3>. QED
      BY <2>1, <3>2
  <2>10. CASE Refresh(c, t) \/ Unselect(c, t) \/ Logout(c, t)
    BY <2>2, <2>10 DEF Refresh, Unselect, Logout
  <2>11. CASE \/ LoginOk(c, t) \/ LoginFails(c, t) \/ SelectOk(c, t) \/ SelectFails(c, t)
              \/ FetchEnd(c, t) \/ StreamEnd(c, t)
    BY <2>3, <2>11 DEF LoginOk, LoginFails, SelectOk, SelectFails, FetchEnd, StreamEnd
  <2>. QED
    BY <2>4, <2>5, <2>6, <2>7, <2>8, <2>9, <2>10, <2>11 DEF Command, Resume
<1>. QED
  BY <1>1, <1>2

(* A selection that moves keeps its type. *)
LEMMA SelectionTyped ==
    ASSUME ServerInv, NEW c \in Conn, Counted(c), SelectionMove(c)
    PROVE  selected'[c] \in SelectedData
<1>1. NoData \in SelectedData
  <2>1. <<>> \in Seq(Nat)
    OBVIOUS
  <2>. QED
    BY <2>1 DEF NoData, SelectedData
<1>2. pending[c] \in Seq(Notice)
  BY DEF ServerInv, Shape
<1>3. ASSUME NEW data \in SelectedData, selected'[c] = Pushed(data, pending[c])
      PROVE  selected'[c] \in SelectedData
  BY <1>2, <1>3, PushedTyped
<1>. QED
  BY <1>1, <1>3 DEF SelectionMove, Counted

(* Every connection's selection stays typed. *)
LEMMA CountedStep ==
    ASSUME CountedInv, [Next]_vars, NEW d \in Conn
    PROVE  Counted(d)'
<1>0. ServerInv /\ Counted(d)
  BY DEF CountedInv
<1>1. CASE UNCHANGED <<selected, running>>
  BY <1>0, <1>1 DEF Counted
<1>2. ASSUME NEW c \in Conn, NEW t \in Tag,
             Command(c, t) \/ Resume(c, t) \/ StreamEnd(c, t)
      PROVE  Counted(d)'
  <2>1. CASE c = d
    <3>1. selected'[d] \in SelectedData
      BY <1>0, <1>2, <2>1, CommandSelection, SelectionTyped
    <3>2. \A s \in Tag : running'[d][s].op = "select" => IsFiniteSet(running'[d][s].uids)
      BY <1>0, <1>2, <2>1, CommandCounts
    <3>. QED
      BY <3>1, <3>2 DEF Counted
  <2>2. CASE c # d
    <3>1. UNCHANGED Of(d)
      BY <1>0, <1>2, <2>2, OthersStay
    <3>. QED
      BY <1>0, <3>1 DEF Of, Counted
  <2>. QED
    BY <2>1, <2>2
<1>3. CASE \/ UNCHANGED vars \/ (FeedNext /\ UNCHANGED <<conns, taken>>)
           \/ \E c \in Conn : Connect(c) \/ Close(c) \/ Closed(c) \/ HangUp(c)
           \/ \E n \in published : Deliver(n) \/ Lose(n)
  <2>1. UNCHANGED <<selected, running>>
    BY <1>3 DEF vars, conns, Connect, Close, Closed, HangUp, OnClose, Deliver, Lose
  <2>. QED
    BY <1>1, <2>1
<1>. QED
  BY <1>2, <1>3 DEF Next

(* CountedInv holds at first, is kept, *)
LEMMA CountedInit == Init => CountedInv
<1> SUFFICES ASSUME Init PROVE CountedInv
  OBVIOUS
<1>1. <<>> \in Seq(Nat)
  OBVIOUS
<1>2. \A c \in Conn : Counted(c)
  BY <1>1 DEF Init, Counted, NoData, SelectedData, Idle
<1>. QED
  BY <1>2, ServerInvInit DEF CountedInv

(* A step keeps it, *)
LEMMA CountedNext == CountedInv /\ [Next]_vars => CountedInv'
  BY CountedStep, ShapeStep, GoodStep DEF CountedInv, ServerInv

(* and holds in every reachable state. *)
LEMMA CountedInvariance == Spec => []CountedInv
  BY CountedInit, CountedNext, PTL DEF Spec

(* How the list of notices that wait for a connection may change. *)
NoticesKept ==
    \A c \in Conn : pending'[c] # pending[c] =>
       \/ IsPrefix(pending[c], pending'[c])
       \/ /\ pending'[c] = <<>>
          /\ selected'[c].name # NoBox
          /\ IsSuffix([i \in DOMAIN pending[c] |-> pending[c][i].uid],
                      selected'[c].sequence)

(* No step drops a notice. *)
LEMMA NoticesStep ==
    ASSUME CountedInv, [Next]_vars
    PROVE  NoticesKept
<1>0. ServerInv /\ \A c \in Conn : Counted(c) /\ pending[c] \in Seq(Notice)
  BY DEF CountedInv, ServerInv, Shape
<1> SUFFICES ASSUME NEW d \in Conn, pending'[d] # pending[d]
             PROVE  \/ IsPrefix(pending[d], pending'[d])
                    \/ /\ pending'[d] = <<>>
                       /\ selected'[d].name # NoBox
                       /\ IsSuffix([i \in DOMAIN pending[d] |-> pending[d][i].uid],
                                   selected'[d].sequence)
  BY DEF NoticesKept
<1>1. ASSUME NEW c \in Conn, NEW t \in Tag,
             Command(c, t) \/ Resume(c, t) \/ StreamEnd(c, t)
      PROVE  /\ pending'[d] = <<>>
             /\ selected'[d].name # NoBox
             /\ IsSuffix([i \in DOMAIN pending[d] |-> pending[d][i].uid],
                         selected'[d].sequence)
  <2>1. c = d
    <3> SUFFICES ASSUME c # d PROVE FALSE
      OBVIOUS
    <3>1. UNCHANGED Of(d)
      BY <1>0, <1>1, OthersStay
    <3>. QED
      BY <3>1 DEF Of
  <2>2. SelectionMove(d)
    BY <1>0, <1>1, <2>1, CommandSelection
  <2>3. PICK data \in SelectedData :
           /\ data.name # NoBox /\ selected'[d] = Pushed(data, pending[d])
           /\ pending'[d] = <<>>
    BY <2>2 DEF SelectionMove
  <2>. QED
    BY <1>0, <2>3, PushedTyped
<1>2. ASSUME NEW n \in published, Deliver(n) \/ Lose(n)
      PROVE  IsPrefix(pending[d], pending'[d])
  <2>1. pending'[d] = Append(pending[d], n)
    BY <1>2 DEF Deliver, Lose, conns
  <2>2. n \in Notice
    BY <1>0 DEF ServerInv, Shape
  <2>. QED
    BY <1>0, <2>1, <2>2, PrefixOfAppend
<1>3. CASE \/ UNCHANGED vars \/ (FeedNext /\ UNCHANGED <<conns, taken>>)
           \/ \E c \in Conn : Connect(c) \/ Close(c) \/ Closed(c) \/ HangUp(c)
  <2>1. UNCHANGED pending
    BY <1>3 DEF vars, conns, Connect, Close, Closed, HangUp, OnClose
  <2>. QED
    BY <2>1
<1>. QED
  BY <1>1, <1>2, <1>3 DEF Next

(* A notice that waits for a connection leaves the list only into the message *)
(* sequence of its mailbox.                                                 *)
THEOREM NoticesNotDropped == Spec => NoNoticeDropped
<1>1. CountedInv /\ [Next]_vars => NoticesKept \/ UNCHANGED vars
  BY NoticesStep
<1>. QED
  BY <1>1, CountedInvariance, PTL DEF Spec, NoNoticeDropped, NoticesKept

-----------------------------------------------------------------------------
(* The connections of ImapServer go through the states of RFC 3501, and fetch  *)
(* from the mailbox they have selected, if their clients wait for each answer *)
(* before they send the next command.                                       *)

(* A client has one tag at a time. *)
Waiting == \A c \in Conn : \A s, t \in Pipeline[c] : s = t

(* Then a command runs alone, in a state that nothing changes until it ends. *)
InTurn(c) ==
    /\ \A t \in Tag : running[c][t] # Idle => t \in Pipeline[c]
    /\ \A t \in Tag : running[c][t].op = "login" => state[c] = "NOTAUTH"
    /\ \A t \in Tag : running[c][t].op = "select" =>
          state[c] \in {"AUTH", "SELECTED"} /\ running[c][t].session = current[c]
    /\ selected[c].name # NoBox => state[c] = "SELECTED"
    /\ current[c] # 0 <=> state[c] \in {"AUTH", "SELECTED"}

TurnInv == ServerInv /\ \A c \in Conn : InTurn(c)

(* What ImapStates sees of a connection. *)
UserOf(c) == IF current[c] = 0 THEN 0 ELSE Session(c).user
View(c) == <<state[c], UserOf(c), selected[c].name>>

(* The steps of ImapStates, for one connection. *)
LoginMove(c) ==
    /\ state[c] = "NOTAUTH" /\ state'[c] = "AUTH"
    /\ UserOf(c)' \in User
    /\ selected'[c].name = selected[c].name

SelectMove(c) ==
    /\ state[c] \in {"AUTH", "SELECTED"} /\ state'[c] = "SELECTED"
    /\ UserOf(c)' = UserOf(c)
    /\ selected'[c].name \in Mailbox /\ Owner[selected'[c].name] = UserOf(c)

UnselectMove(c) ==
    /\ state[c] = "SELECTED" /\ state'[c] = "AUTH"
    /\ UserOf(c)' = UserOf(c)
    /\ selected'[c].name = NoBox

LogoutMove(c) ==
    /\ state[c] \in {"AUTH", "SELECTED"} /\ state'[c] = "LOGOUT"
    /\ UserOf(c)' = 0
    /\ selected'[c].name = NoBox

Move(c) ==
    \/ UNCHANGED View(c)
    \/ LoginMove(c) \/ SelectMove(c) \/ UnselectMove(c) \/ LogoutMove(c)

-----------------------------------------------------------------------------
(* A move of one connection is a step of ImapStates. *)
LEMMA MoveIsStep ==
    ASSUME Shape, Shape', NEW c \in Conn, Move(c),
           \A d \in Conn \ {c} : UNCHANGED View(d)
    PROVE  [Rfc3501!Next]_(Rfc3501!vars)
<1> DEFINE users == [d \in Conn |-> UserOf(d)]
           boxes == [d \in Conn |-> selected[d].name]
<1>0. /\ state = [d \in Conn |-> state[d]] /\ state' = [d \in Conn |-> state'[d]]
      /\ state \in [Conn -> {"NOTAUTH", "AUTH", "SELECTED", "LOGOUT"}]
      /\ state' \in [Conn -> {"NOTAUTH", "AUTH", "SELECTED", "LOGOUT"}]
  BY DEF Shape
<1>1. /\ users = [d \in Conn |-> users[d]] /\ users' = [d \in Conn |-> users'[d]]
      /\ boxes = [d \in Conn |-> boxes[d]] /\ boxes' = [d \in Conn |-> boxes'[d]]
      /\ \A d \in Conn : users[d] = UserOf(d) /\ users'[d] = UserOf(d)'
                         /\ boxes[d] = selected[d].name /\ boxes'[d] = selected'[d].name
  OBVIOUS
<1>2. /\ users = [d \in Conn |-> IF current[d] = 0 THEN 0 ELSE Session(d).user]
      /\ users' = [d \in Conn |-> IF current'[d] = 0 THEN 0 ELSE (Session(d).user)']
  BY DEF UserOf
<1>3. \A d \in Conn \ {c} :
          state'[d] = state[d] /\ users'[d] = users[d] /\ boxes'[d] = boxes[d]
  BY <1>1 DEF View
<1>4. CASE UNCHANGED View(c)
  <2>1. state'[c] = state[c] /\ users'[c] = users[c] /\ boxes'[c] = boxes[c]
    BY <1>1, <1>4 DEF View
  <2> HIDE DEF users, boxes
  <2>2. state' = state /\ users' = users /\ boxes' = boxes
    BY <1>0, <1>1, <1>3, <2>1
  <2> USE DEF users, boxes
  <2>. QED
    BY <1>2, <2>2 DEF Rfc3501!vars
<1> HIDE DEF users, boxes
<1>5. CASE LoginMove(c)
  <2>1. /\ state' = [state EXCEPT ![c] = "AUTH"]
        /\ users' = [users EXCEPT ![c] = users'[c]]
        /\ boxes' = boxes
    BY <1>0, <1>1, <1>3, <1>5 DEF LoginMove
  <2>2. users'[c] \in User
    BY <1>1, <1>5 DEF LoginMove
  <2>3. \E u \in User : users' = [users EXCEPT ![c] = u]
    BY <2>1, <2>2
  <2>4. Rfc3501!Login(c)
    BY <1>5, <2>1, <2>3 DEF users, boxes, UserOf, LoginMove, Rfc3501!Login
  <2>. QED
    BY <2>4 DEF Rfc3501!Next
<1>6. CASE SelectMove(c)
  <2>1. /\ state' = [state EXCEPT ![c] = "SELECTED"]
        /\ users' = users
        /\ boxes' = [boxes EXCEPT ![c] = boxes'[c]]
    BY <1>0, <1>1, <1>3, <1>6 DEF SelectMove
  <2>2. boxes'[c] \in Mailbox /\ Owner[boxes'[c]] = users[c]
    BY <1>1, <1>6 DEF SelectMove
  <2>3. \E b \in Mailbox : Owner[b] = users[c] /\ boxes' = [boxes EXCEPT ![c] = b]
    BY <2>1, <2>2
  <2>4. Rfc3501!Select(c)
    BY <1>6, <2>1, <2>3 DEF users, boxes, UserOf, SelectMove, Rfc3501!Select
  <2>. QED
    BY <2>4 DEF Rfc3501!Next
<1>7. CASE UnselectMove(c)
  <2>1. /\ state' = [state EXCEPT ![c] = "AUTH"]
        /\ users' = users
        /\ boxes' = [boxes EXCEPT ![c] = NoBox]
    BY <1>0, <1>1, <1>3, <1>7 DEF UnselectMove
  <2>2. Rfc3501!Unselect(c)
    BY <1>7, <2>1 DEF users, boxes, UserOf, UnselectMove, Rfc3501!Unselect
  <2>. QED
    BY <2>2 DEF Rfc3501!Next
<1>8. CASE LogoutMove(c)
  <2>1. /\ state' = [state EXCEPT ![c] = "LOGOUT"]
        /\ users' = [users EXCEPT ![c] = 0]
        /\ boxes' = [boxes EXCEPT ![c] = NoBox]
    BY <1>0, <1>1, <1>3, <1>8 DEF LogoutMove
  <2>2. Rfc3501!Logout(c)
    BY <1>8, <2>1 DEF users, boxes, UserOf, LogoutMove, Rfc3501!Logout
  <2>. QED
    BY <2>2 DEF Rfc3501!Next
<1>. QED
  BY <1>4, <1>5, <1>6, <1>7, <1>8 DEF Move

(* While one command runs the client sends no other. *)
LEMMA Alone ==
    ASSUME Waiting, NEW c \in Conn, InTurn(c), NEW t \in Tag
    PROVE  /\ Free(c, t) => \A s \in Tag : running[c][s] = Idle
           /\ running[c][t] # Idle => \A s \in Tag \ {t} : running[c][s] = Idle
BY DEF Waiting, InTurn, Free

(* A connection whose view stays is in turn as long as what runs was running,  *)
(* or needs no particular state.                                            *)
LEMMA SameView ==
    ASSUME NEW c \in Conn, InTurn(c),
           state'[c] = state[c], current'[c] = current[c],
           selected'[c].name = selected[c].name,
           \A t \in Tag :
              \/ running'[c][t] = running[c][t]
              \/ /\ running'[c][t] # Idle => t \in Pipeline[c]
                 /\ running'[c][t].op = "login" => state[c] = "NOTAUTH"
                 /\ running'[c][t].op = "select" =>
                       /\ state[c] \in {"AUTH", "SELECTED"}
                       /\ running'[c][t].session = current[c]
    PROVE  InTurn(c)'
BY DEF InTurn

(* One connection's own steps. *)
LEMMA LinkTurn ==
    ASSUME NEW c \in Conn, InTurn(c),
           Connect(c) \/ Close(c) \/ Closed(c) \/ HangUp(c)
    PROVE  InTurn(c)' /\ UNCHANGED View(c)
<1>1. UNCHANGED <<state, sessions, current, selected, running>>
  BY DEF Connect, Close, Closed, HangUp, OnClose
<1>. QED
  BY <1>1 DEF InTurn, View, UserOf, Session

(* A step that changes no state and no session keeps the turn. *)
LEMMA WaitingTurn ==
    ASSUME ServerInv, NEW c \in Conn, InTurn(c), NEW t \in Tag,
           \/ \E u \in User : LoginStart(c, t, u)
           \/ \E b \in Mailbox : SelectStart(c, t, b)
           \/ FetchStart(c, t) \/ Refresh(c, t)
           \/ LoginFails(c, t) \/ FindMailbox(c, t) \/ ListMessages(c, t)
           \/ StreamStart(c, t) \/ FetchEnd(c, t) \/ StreamEnd(c, t)
    PROVE  InTurn(c)' /\ UNCHANGED View(c)
<1>0. /\ Shape /\ running \in [Conn -> [Tag -> Running]] /\ t \in Tag
  BY DEF ServerInv, Shape
<1>1. UNCHANGED <<state, sessions, current>>
  BY DEF LoginStart, SelectStart, FetchStart, Refresh, LoginFails, FindMailbox,
         ListMessages, StreamStart, FetchEnd, StreamEnd
<1>2. selected'[c].name = selected[c].name
  <2>1. UNCHANGED selected \/ Notify(c) \/ UNCHANGED <<selected, pending>>
    BY DEF LoginStart, SelectStart, FetchStart, Refresh, LoginFails, FindMailbox,
           ListMessages, StreamStart, FetchEnd, StreamEnd
  <2>. QED
    BY <1>0, <2>1, NotifyMoves
<1>3. \A s \in Tag \ {t} : running'[c][s] = running[c][s]
  BY <1>0 DEF LoginStart, SelectStart, FetchStart, Refresh, LoginFails, FindMailbox,
              ListMessages, StreamStart, FetchEnd, StreamEnd, Run, Finish
<1>4. \/ running'[c][t] = running[c][t]
      \/ /\ running'[c][t] # Idle => t \in Pipeline[c]
         /\ running'[c][t].op = "login" => state[c] = "NOTAUTH"
         /\ running'[c][t].op = "select" =>
               /\ state[c] \in {"AUTH", "SELECTED"}
               /\ running'[c][t].session = current[c]
  <2>1. CASE \/ \E u \in User : LoginStart(c, t, u)
             \/ \E b \in Mailbox : SelectStart(c, t, b)
             \/ FetchStart(c, t)
    BY <1>0, <2>1 DEF LoginStart, SelectStart, FetchStart, Run, Free
  <2>2. CASE LoginFails(c, t) \/ FetchEnd(c, t) \/ StreamEnd(c, t)
    BY <1>0, <2>2 DEF LoginFails, FetchEnd, StreamEnd, Finish, Run, Idle
  <2>3. CASE Refresh(c, t)
    BY <2>3 DEF Refresh
  <2>4. CASE FindMailbox(c, t) \/ ListMessages(c, t)
    <3>1. /\ running[c][t] \in SelectCommand /\ running[c][t].op = "select"
      BY <1>0, <2>4, Commands DEF FindMailbox, ListMessages, Selecting
    <3>2. /\ running'[c][t].op = "select" /\ running'[c][t].session = running[c][t].session
      BY <1>0, <2>4, <3>1 DEF FindMailbox, ListMessages, SelectCommand
    <3>3. running[c][t] # Idle
      BY <3>1 DEF Idle
    <3>. QED
      BY <3>1, <3>2, <3>3 DEF InTurn
  <2>5. CASE StreamStart(c, t)
    <3>1. /\ running[c][t] # Idle /\ running[c][t].op = "fetch"
      BY <2>5 DEF StreamStart, Fetching, Idle
    <3>2. running'[c][t].op = "fetch"
      BY <1>0, <2>5, <3>1, Commands DEF StreamStart
    <3>. QED
      BY <3>1, <3>2 DEF InTurn
  <2>. QED
    BY <2>1, <2>2, <2>3, <2>4, <2>5
<1>5. InTurn(c)'
  BY <1>1, <1>2, <1>3, <1>4, SameView
<1>. QED
  BY <1>1, <1>2, <1>5 DEF View, UserOf, Session

(* A login takes the connection from NOTAUTH to AUTH. *)
LEMMA LoginTurn ==
    ASSUME Waiting, ServerInv, NEW c \in Conn, InTurn(c), NEW t \in Tag, LoginOk(c, t)
    PROVE  InTurn(c)' /\ LoginMove(c)
<1> DEFINE u == running[c][t].user
<1>0. /\ Shape /\ running \in [Conn -> [Tag -> Running]]
      /\ state \in [Conn -> {"NOTAUTH", "AUTH", "SELECTED", "LOGOUT"}]
      /\ current \in [Conn -> Nat] /\ sessions \in [Conn -> Seq(SessionObject)]
      /\ running[c][t].op = "login" /\ running[c][t] # Idle
  BY DEF ServerInv, Shape, LoginOk, Idle
<1>1. /\ state[c] = "NOTAUTH" /\ current[c] = 0 /\ selected[c].name = NoBox
      /\ \A s \in Tag \ {t} : running[c][s] = Idle
  BY <1>0, Alone DEF InTurn
<1>2. u \in User
  BY <1>0, Commands
<1> HIDE DEF u
<1>3. /\ sessions' = [sessions EXCEPT ![c] = Append(@, [user |-> u, box |-> NoBox])]
      /\ current' = [current EXCEPT ![c] = Len(sessions[c]) + 1]
  BY <1>0, <1>1 DEF LoginOk, SetSession, u
<1>4. /\ state'[c] = "AUTH" /\ selected' = selected
      /\ running'[c][t] = Idle /\ \A s \in Tag \ {t} : running'[c][s] = Idle
  BY <1>0, <1>1 DEF LoginOk, Finish, Run
<1>5. current'[c] # 0 /\ UserOf(c)' = u
  <2>1. /\ Len(sessions[c]) \in Nat /\ sessions[c] \in Seq(SessionObject)
        /\ [user |-> u, box |-> NoBox] \in SessionObject
    <3>1. [user |-> u, box |-> NoBox] \in SessionObject
      BY <1>2 DEF SessionObject
    <3>. QED
      BY <1>0, <3>1, OneShape
  <2>2. /\ sessions'[c] = Append(sessions[c], [user |-> u, box |-> NoBox])
        /\ current'[c] = Len(sessions[c]) + 1
    BY <1>0, <1>3
  <2>3. sessions'[c][current'[c]] = [user |-> u, box |-> NoBox]
    BY <2>1, <2>2
  <2>. QED
    BY <2>1, <2>2, <2>3 DEF UserOf, Session
<1>. QED
  BY <1>1, <1>2, <1>4, <1>5 DEF InTurn, LoginMove, Idle

(* Opening the mailbox comes within a SELECT. *)
LEMMA OpenTurn ==
    ASSUME ServerInv, NEW c \in Conn, InTurn(c), NEW t \in Tag, OpenMailbox(c, t)
    PROVE  InTurn(c)' /\ UNCHANGED View(c)
<1>0. /\ Shape /\ Owned(c) /\ running \in [Conn -> [Tag -> Running]]
      /\ running[c][t] \in SelectCommand /\ running[c][t].op = "select"
      /\ current[c] \in Nat /\ sessions \in [Conn -> Seq(SessionObject)]
  BY Commands DEF ServerInv, Good, Shape, OpenMailbox, Selecting
<1>1. UNCHANGED <<state, current, selected>>
  BY DEF OpenMailbox
<1>2. /\ \A s \in Tag \ {t} : running'[c][s] = running[c][s]
      /\ running'[c][t].op = "select" /\ running'[c][t].session = running[c][t].session
  BY <1>0 DEF OpenMailbox, SelectCommand
<1>3. running[c][t] # Idle
  BY <1>0 DEF Idle
<1>4. InTurn(c)'
  BY <1>0, <1>1, <1>2, <1>3, SameView DEF InTurn
<1>5. UserOf(c)' = UserOf(c)
  <2>1. \A i \in 1 .. Len(sessions[c]) : sessions'[c][i].user = sessions[c][i].user
    BY <1>0, OpenMoves
  <2>2. current[c] # 0 => current[c] \in 1 .. Len(sessions[c])
    BY <1>0, OneShape DEF Owned
  <2>. QED
    BY <1>1, <2>1, <2>2 DEF UserOf, Session
<1>. QED
  BY <1>1, <1>4, <1>5 DEF View

(* A SELECT ends in SELECTED. *)
LEMMA SelectTurn ==
    ASSUME Waiting, ServerInv, NEW c \in Conn, InTurn(c), NEW t \in Tag, SelectOk(c, t)
    PROVE  InTurn(c)' /\ SelectMove(c)
<1> DEFINE cmd == running[c][t]
           data == [name |-> cmd.box, sequence |-> Ascending(cmd.uids),
                    highestModSeq |-> cmd.modifyIndex]
<1>0. /\ Shape /\ Owned(c) /\ running \in [Conn -> [Tag -> Running]]
      /\ DOMAIN selected = Conn /\ selected = [d \in Conn |-> selected[d]]
      /\ state \in [Conn -> {"NOTAUTH", "AUTH", "SELECTED", "LOGOUT"}]
      /\ current \in [Conn -> Nat]
      /\ cmd \in SelectCommand /\ cmd.op = "select" /\ cmd # Idle
  BY Commands DEF ServerInv, Good, Shape, SelectOk, Selecting, Idle
<1>1. /\ cmd.box \in Mailbox /\ cmd.session = current[c] /\ current[c] # 0
      /\ Owner[cmd.box] = Session(c).user
      /\ state[c] \in {"AUTH", "SELECTED"}
      /\ \A s \in Tag \ {t} : running[c][s] = Idle
  BY <1>0, Alone DEF InTurn, Owned, SelectCommand, Session
<1>2. IsData(data) /\ data.name = cmd.box
  BY <1>0 DEF IsData, SelectCommand
<1>3. /\ selected' = [selected EXCEPT ![c] = Pushed(data, pending[c])]
      /\ sessions' = sessions /\ current'[c] = current[c] /\ state'[c] = "SELECTED"
      /\ running'[c][t] = Idle /\ \A s \in Tag \ {t} : running'[c][s] = running[c][s]
  BY <1>0, <1>1 DEF SelectOk, Finish, Run
<1> HIDE DEF data
<1>4. selected'[c].name = cmd.box
  <2>1. Pushed(data, pending[c]).name = cmd.box
    BY <1>2, PushedData
  <2>. QED
    BY <1>0, <1>3, <2>1
<1>5. UserOf(c)' = UserOf(c) /\ UserOf(c) = Session(c).user
  BY <1>1, <1>3 DEF UserOf, Session
<1>. QED
  BY <1>1, <1>3, <1>4, <1>5 DEF InTurn, SelectMove, Idle

(* A SELECT that fails, an UNSELECT and a LOGOUT go back, or on to LOGOUT. *)
LEMMA DeselectTurn ==
    ASSUME Waiting, ServerInv, NEW c \in Conn, InTurn(c), NEW t \in Tag,
           Unselect(c, t) \/ SelectFails(c, t) \/ Logout(c, t)
    PROVE  InTurn(c)' /\ Move(c)
<1>0. /\ Shape /\ Usable(c) /\ running \in [Conn -> [Tag -> Running]]
      /\ DOMAIN selected = Conn /\ selected = [d \in Conn |-> selected[d]]
      /\ state \in [Conn -> {"NOTAUTH", "AUTH", "SELECTED", "LOGOUT"}]
      /\ current \in [Conn -> Nat] /\ NoData.name = NoBox
  BY DEF ServerInv, Good, Shape, NoData
<1>1. /\ selected'[c].name = NoBox /\ sessions' = sessions
      /\ \A s \in Tag : running'[c][s] = Idle
  <2>1. CASE SelectFails(c, t)
    <3>1. running[c][t] # Idle
      BY <2>1 DEF SelectFails, Idle
    <3>. QED
      BY <1>0, <2>1, <3>1, Alone DEF SelectFails, ResetSelectedState, Finish, Run
  <2>2. CASE Unselect(c, t) \/ Logout(c, t)
    <3>1. \A s \in Tag : running[c][s] = Idle
      BY <2>2, Alone DEF Unselect, Logout
    <3>. QED
      BY <1>0, <2>2, <3>1 DEF Unselect, Logout, ResetSelectedState
  <2>. QED
    BY <2>1, <2>2
<1>2. CASE Logout(c, t)
  <2>1. current'[c] = 0 /\ state'[c] = "LOGOUT" /\ current[c] # 0
    BY <1>0, <1>2 DEF Logout
  <2>. QED
    BY <1>1, <2>1 DEF InTurn, Move, LogoutMove, UserOf, Idle
<1>3. CASE Unselect(c, t) \/ SelectFails(c, t)
  <2>1. /\ state'[c] = "AUTH" /\ current' = current
        /\ state[c] \in {"AUTH", "SELECTED"}
    <3>1. CASE Unselect(c, t)
      BY <1>0, <3>1 DEF Unselect, ResetSelectedState
    <3>2. CASE SelectFails(c, t)
      BY <1>0, <3>2 DEF SelectFails, ResetSelectedState, InTurn
    <3>. QED
      BY <1>3, <3>1, <3>2
  <2>2. UserOf(c)' = UserOf(c)
    BY <1>1, <2>1 DEF UserOf, Session
  <2>3. InTurn(c)'
    BY <1>1, <2>1 DEF InTurn, Idle
  <2>4. state[c] = "AUTH" => selected[c].name = NoBox
    BY DEF InTurn
  <2>. QED
    BY <1>1, <2>1, <2>2, <2>3, <2>4 DEF Move, UnselectMove, View
<1>. QED
  BY <1>2, <1>3

(* A step of a connection is a step of ImapStates, or none. *)
LEMMA TurnOfOne ==
    ASSUME Waiting, TurnInv, Shape', NEW c \in Conn,
           \/ Connect(c) \/ Close(c) \/ Closed(c) \/ HangUp(c)
           \/ \E t \in Tag : Command(c, t) \/ Resume(c, t) \/ StreamEnd(c, t)
    PROVE  /\ \A d \in Conn : InTurn(d)'
           /\ [Rfc3501!Next]_(Rfc3501!vars)
<1>0. ServerInv /\ Shape /\ \A d \in Conn : InTurn(d)
  BY DEF TurnInv, ServerInv
<1>1. \A d \in Conn \ {c} : InTurn(d)' /\ UNCHANGED View(d)
  <2> SUFFICES ASSUME NEW d \in Conn \ {c}
               PROVE  InTurn(d)' /\ UNCHANGED View(d)
    OBVIOUS
  <2>1. UNCHANGED Of(d)
    BY <1>0, OthersStay
  <2>. QED
    BY <1>0, <2>1 DEF Of, InTurn, View, UserOf, Session
<1>2. InTurn(c)' /\ Move(c)
  <2>1. CASE Connect(c) \/ Close(c) \/ Closed(c) \/ HangUp(c)
    BY <1>0, <2>1, LinkTurn DEF Move
  <2>2. ASSUME NEW t \in Tag, Command(c, t) \/ Resume(c, t) \/ StreamEnd(c, t)
        PROVE  InTurn(c)' /\ Move(c)
    BY <1>0, <2>2, WaitingTurn, LoginTurn, OpenTurn, SelectTurn, DeselectTurn
    DEF Command, Resume, Move
  <2>. QED
    BY <2>1, <2>2
<1>. QED
  BY <1>0, <1>1, <1>2, MoveIsStep

(* Every step keeps the turn and is one of RFC 3501, or a stutter. *)
LEMMA TurnStep ==
    ASSUME Waiting, TurnInv, [Next]_vars
    PROVE  TurnInv' /\ [Rfc3501!Next]_(Rfc3501!vars)
<1>0. ServerInv /\ Shape /\ \A d \in Conn : InTurn(d)
  BY DEF TurnInv, ServerInv
<1>1. ServerInv' /\ Shape'
  BY <1>0, ShapeStep, GoodStep DEF ServerInv
<1>2. CASE \/ UNCHANGED vars \/ (FeedNext /\ UNCHANGED <<conns, taken>>)
           \/ \E n \in published : Deliver(n) \/ Lose(n)
  <2>1. UNCHANGED <<state, sessions, current, selected, running>>
    BY <1>2 DEF vars, conns, Deliver, Lose
  <2>2. \A d \in Conn : InTurn(d)'
    BY <1>0, <2>1 DEF InTurn
  <2>3. UNCHANGED Rfc3501!vars
    BY <2>1 DEF Rfc3501!vars, Session
  <2>. QED
    BY <1>1, <2>2, <2>3 DEF TurnInv
<1>3. CASE \E c \in Conn : \/ Connect(c) \/ Close(c) \/ Closed(c) \/ HangUp(c)
                          \/ \E t \in Tag : Command(c, t) \/ Resume(c, t) \/ StreamEnd(c, t)
  BY <1>1, <1>3, TurnOfOne DEF TurnInv
<1>. QED
  BY <1>2, <1>3 DEF Next

(* The turn holds at the start, which is that of RFC 3501. *)
LEMMA TurnInit == Init => TurnInv /\ Rfc3501!Init
<1> SUFFICES ASSUME Init PROVE TurnInv /\ Rfc3501!Init
  OBVIOUS
<1>1. \A c \in Conn : /\ state[c] = "NOTAUTH" /\ current[c] = 0
                      /\ selected[c].name = NoBox
                      /\ \A t \in Tag : running[c][t] = Idle
  BY DEF Init, NoData
<1>2. \A c \in Conn : InTurn(c)
  BY <1>1 DEF InTurn, Idle
<1>3. Rfc3501!Init
  BY <1>1 DEF Init, Rfc3501!Init
<1>. QED
  BY <1>2, <1>3, ServerInvInit DEF TurnInv

-----------------------------------------------------------------------------
(* Clients that wait for each answer see the states of RFC 3501. *)
THEOREM StatesFollowed ==
    ASSUME Waiting
    PROVE  Spec => FollowsRfc3501
<1>1. TurnInv /\ [Next]_vars => TurnInv' /\ [Rfc3501!Next]_(Rfc3501!vars)
  BY TurnStep
<1>. QED
  BY <1>1, TurnInit, PTL DEF Spec, FollowsRfc3501, Rfc3501!Spec

-----------------------------------------------------------------------------
(* What a FETCH reads *)

(* The session is in the mailbox that is selected, unless a SELECT has moved   *)
(* it and is not done; a FETCH has one mailbox.                             *)
Moved(c, t) == running[c][t].op = "select" /\ running[c][t].step \in {"list", "listed"}

Synced(c) ==
    /\ \A t \in Tag : running[c][t].op = "fetch" =>
          running[c][t].box = running[c][t].of /\ running[c][t].box # NoBox
    /\ \A t \in Tag : Moved(c, t) => Session(c).box = running[c][t].box
    /\ state[c] = "SELECTED" /\ (\A t \in Tag : ~ Moved(c, t)) =>
          Session(c).box = selected[c].name

SyncedInv == TurnInv /\ CountedInv /\ taken \subseteq published /\ \A c \in Conn : Synced(c)

(* A command that keeps to its mailbox. *)
Keeps(c, t) ==
    \/ running'[c][t] = running[c][t]
    \/ /\ Moved(c, t)' <=> Moved(c, t)
       /\ Moved(c, t) => running'[c][t].box = running[c][t].box
       /\ running'[c][t].op = "fetch" =>
             running'[c][t].box = running'[c][t].of /\ running'[c][t].box # NoBox

(* A connection whose session and selection stay is in sync as long as its      *)
(* commands keep to their mailboxes.                                        *)
LEMMA SameSession ==
    ASSUME NEW c \in Conn, Synced(c),
           sessions'[c] = sessions[c], current'[c] = current[c],
           state'[c] = state[c] \/ state'[c] # "SELECTED",
           selected'[c].name = selected[c].name,
           \A t \in Tag : Keeps(c, t)
    PROVE  Synced(c)'
<1>1. Session(c)' = Session(c)
  BY DEF Session
<1>2. \A t \in Tag : /\ Moved(c, t)' <=> Moved(c, t)
                     /\ Moved(c, t) => running'[c][t].box = running[c][t].box
  BY DEF Moved, Keeps
<1>3. \A t \in Tag : running'[c][t].op = "fetch" =>
          running'[c][t].box = running'[c][t].of /\ running'[c][t].box # NoBox
  BY DEF Synced, Keeps
<1>4. \A t \in Tag : Moved(c, t)' => Session(c)'.box = running'[c][t].box
  BY <1>1, <1>2 DEF Synced
<1>5. state'[c] = "SELECTED" /\ (\A t \in Tag : ~ Moved(c, t)') =>
          Session(c)'.box = selected'[c].name
  BY <1>1, <1>2 DEF Synced
<1>. QED
  BY <1>3, <1>4, <1>5 DEF Synced

(* A command that starts, goes on or ends without touching the session. *)
LEMMA WaitingSynced ==
    ASSUME Waiting, ServerInv, NEW c \in Conn, InTurn(c), Synced(c), NEW t \in Tag,
           \/ \E u \in User : LoginStart(c, t, u)
           \/ \E b \in Mailbox : SelectStart(c, t, b)
           \/ FetchStart(c, t) \/ Refresh(c, t)
           \/ LoginFails(c, t) \/ FindMailbox(c, t) \/ ListMessages(c, t)
           \/ StreamStart(c, t) \/ FetchEnd(c, t) \/ StreamEnd(c, t)
    PROVE  Synced(c)'
<1>0. /\ Shape /\ running \in [Conn -> [Tag -> Running]] /\ Usable(c)
  BY DEF ServerInv, Shape, Good
<1>1. UNCHANGED <<state, sessions, current>>
  BY DEF LoginStart, SelectStart, FetchStart, Refresh, LoginFails, FindMailbox,
         ListMessages, StreamStart, FetchEnd, StreamEnd
<1>2. selected'[c].name = selected[c].name
  <2>1. UNCHANGED selected \/ Notify(c) \/ UNCHANGED <<selected, pending>>
    BY DEF LoginStart, SelectStart, FetchStart, Refresh, LoginFails, FindMailbox,
           ListMessages, StreamStart, FetchEnd, StreamEnd
  <2>. QED
    BY <1>0, <2>1, NotifyMoves
<1>3. \A s \in Tag \ {t} : running'[c][s] = running[c][s]
  BY <1>0 DEF LoginStart, SelectStart, FetchStart, Refresh, LoginFails, FindMailbox,
              ListMessages, StreamStart, FetchEnd, StreamEnd, Run, Finish
<1>4. ASSUME \/ \E u \in User : LoginStart(c, t, u)
           \/ \E b \in Mailbox : SelectStart(c, t, b)
      PROVE  Keeps(c, t)
  <2>1. running[c][t] = Idle
    BY <1>4 DEF LoginStart, SelectStart, Free
  <2>2. ~ Moved(c, t)
    BY <2>1 DEF Moved, Idle
  <2>3. ~ Moved(c, t)' /\ running'[c][t].op # "fetch"
    BY <1>0, <1>4 DEF LoginStart, SelectStart, Run, Moved
  <2>. QED
    BY <2>2, <2>3 DEF Keeps
<1>5. ASSUME FetchStart(c, t)
      PROVE  Keeps(c, t)
  <2>1. \A s \in Tag : running[c][s] = Idle
    BY <1>5, Alone DEF FetchStart
  <2>2. \A s \in Tag : ~ Moved(c, s)
    BY <2>1 DEF Moved, Idle
  <2>3. Session(c).box = selected[c].name /\ Session(c).box # NoBox
    BY <1>0, <1>5, <2>2 DEF FetchStart, Synced, Usable
  <2>4. running'[c][t] = [op |-> "fetch", step |-> "read", box |-> Session(c).box,
                          of |-> selected[c].name]
    BY <1>0, <1>5 DEF FetchStart, Run
  <2>5. ~ Moved(c, t)'
    BY <2>4 DEF Moved
  <2>. QED
    BY <2>2, <2>3, <2>4, <2>5 DEF Keeps
<1>6. ASSUME Refresh(c, t)
      PROVE  Keeps(c, t)
  BY <1>6 DEF Refresh, Keeps
<1>7. ASSUME LoginFails(c, t) \/ FetchEnd(c, t) \/ StreamEnd(c, t)
      PROVE  Keeps(c, t)
  <2>1. running[c][t].op # "select" /\ running'[c][t] = Idle
    BY <1>0, <1>7 DEF LoginFails, FetchEnd, StreamEnd, Fetching, Finish, Run
  <2>. QED
    BY <2>1 DEF Moved, Idle, Keeps
<1>8. ASSUME FindMailbox(c, t) \/ ListMessages(c, t)
      PROVE  Keeps(c, t)
  <2>1. running[c][t] \in SelectCommand
    BY <1>0, <1>8, Commands DEF FindMailbox, ListMessages, Selecting
  <2>2. /\ running'[c][t].op = "select" /\ running'[c][t].box = running[c][t].box
        /\ running[c][t].op = "select"
    BY <1>0, <1>8, <2>1 DEF FindMailbox, ListMessages, SelectCommand
  <2>3. CASE FindMailbox(c, t)
    BY <1>0, <2>1, <2>2, <2>3 DEF FindMailbox, Selecting, Moved, SelectCommand, Keeps
  <2>4. CASE ListMessages(c, t)
    BY <1>0, <2>1, <2>2, <2>4 DEF ListMessages, Selecting, Moved, SelectCommand, Keeps
  <2>. QED
    BY <1>8, <2>3, <2>4
<1>9. ASSUME StreamStart(c, t)
      PROVE  Keeps(c, t)
  <2>1. /\ running[c][t].op = "fetch"
        /\ running[c][t] \in [op : {"fetch"}, step : {"read", "stream"},
                              box : Mailbox \cup {NoBox}, of : Mailbox \cup {NoBox}]
    BY <1>0, <1>9, Commands DEF StreamStart, Fetching
  <2>2. /\ running'[c][t].op = "fetch" /\ running'[c][t].box = running[c][t].box
        /\ running'[c][t].of = running[c][t].of
    BY <1>0, <1>9, <2>1 DEF StreamStart
  <2>. QED
    BY <2>1, <2>2 DEF Moved, Synced, Keeps
<1>10. Keeps(c, t)
  BY <1>4, <1>5, <1>6, <1>7, <1>8, <1>9
<1>11. \A s \in Tag : Keeps(c, s)
  BY <1>3, <1>10 DEF Keeps
<1>. QED
  BY <1>1, <1>2, <1>11, SameSession

(* SELECT moves the session, *)
LEMMA OpenSynced ==
    ASSUME Waiting, ServerInv, NEW c \in Conn, InTurn(c), Synced(c), NEW t \in Tag,
           OpenMailbox(c, t)
    PROVE  Synced(c)'
<1>0. /\ Shape /\ Owned(c) /\ running \in [Conn -> [Tag -> Running]]
      /\ running[c][t] \in SelectCommand /\ running[c][t].op = "select"
      /\ running[c][t] # Idle /\ running[c][t].session = current[c]
  BY Commands DEF ServerInv, Good, Shape, OpenMailbox, Selecting, InTurn, Idle
<1>1. \A s \in Tag \ {t} : running[c][s] = Idle /\ running'[c][s] = Idle
  BY <1>0, Alone DEF OpenMailbox
<1>2. running'[c][t].op = "select" /\ running'[c][t].box = running[c][t].box
      /\ running'[c][t].step = "list" /\ current' = current
  BY <1>0 DEF OpenMailbox, SelectCommand
<1>3. sessions'[c][current[c]].box = running[c][t].box
  BY <1>0, OpenMoves
<1>4. Session(c)'.box = running[c][t].box
  BY <1>2, <1>3 DEF Session
<1>5. \A s \in Tag : running'[c][s].op = "fetch" => FALSE
  BY <1>1, <1>2 DEF Idle
<1>6. \A s \in Tag : Moved(c, s)' => s = t
  BY <1>1 DEF Moved, Idle
<1>7. Moved(c, t)'
  BY <1>2 DEF Moved
<1>. QED
  BY <1>2, <1>4, <1>5, <1>6, <1>7 DEF Synced

(* and selects its mailbox, *)
LEMMA SelectSynced ==
    ASSUME Waiting, ServerInv, NEW c \in Conn, InTurn(c), Synced(c), NEW t \in Tag,
           SelectOk(c, t)
    PROVE  Synced(c)'
<1> DEFINE cmd == running[c][t]
           data == [name |-> cmd.box, sequence |-> Ascending(cmd.uids),
                    highestModSeq |-> cmd.modifyIndex]
<1>0. /\ Shape /\ running \in [Conn -> [Tag -> Running]] /\ current \in [Conn -> Nat]
      /\ DOMAIN selected = Conn /\ selected = [d \in Conn |-> selected[d]]
      /\ cmd \in SelectCommand /\ cmd.op = "select" /\ cmd # Idle
      /\ cmd.session = current[c] /\ Moved(c, t)
  BY Commands DEF ServerInv, Good, Shape, SelectOk, Selecting, Idle, InTurn, Moved
<1>1. \A s \in Tag : running'[c][s] = Idle
  BY <1>0, Alone DEF SelectOk, Finish, Run
<1>2. IsData(data) /\ data.name = cmd.box
  BY <1>0 DEF IsData, SelectCommand
<1>3. /\ selected' = [selected EXCEPT ![c] = Pushed(data, pending[c])]
      /\ sessions' = sessions /\ current'[c] = current[c]
  BY <1>0 DEF SelectOk
<1> HIDE DEF data
<1>4. selected'[c].name = cmd.box
  <2>1. Pushed(data, pending[c]).name = cmd.box
    BY <1>2, PushedData
  <2>. QED
    BY <1>0, <1>3, <2>1
<1>5. Session(c)' = Session(c) /\ Session(c).box = cmd.box
  BY <1>0, <1>3 DEF Session, Synced
<1>. QED
  BY <1>1, <1>4, <1>5 DEF Synced, Moved, Idle

(* and what leaves SELECTED, or was never there, needs none. *)
LEMMA DeselectSynced ==
    ASSUME Waiting, ServerInv, NEW c \in Conn, InTurn(c), Synced(c), NEW t \in Tag,
           Unselect(c, t) \/ SelectFails(c, t) \/ Logout(c, t) \/ LoginOk(c, t)
    PROVE  Synced(c)'
<1>0. /\ Shape /\ running \in [Conn -> [Tag -> Running]]
      /\ state \in [Conn -> {"NOTAUTH", "AUTH", "SELECTED", "LOGOUT"}]
  BY DEF ServerInv, Shape
<1>1. \A s \in Tag : running'[c][s] = Idle
  <2>1. CASE SelectFails(c, t) \/ LoginOk(c, t)
    <3>1. running[c][t] # Idle
      BY <2>1 DEF SelectFails, LoginOk, Idle
    <3>. QED
      BY <1>0, <2>1, <3>1, Alone DEF SelectFails, LoginOk, Finish, Run
  <2>2. CASE Unselect(c, t) \/ Logout(c, t)
    <3>1. \A s \in Tag : running[c][s] = Idle
      BY <2>2, Alone DEF Unselect, Logout
    <3>. QED
      BY <1>0, <2>2, <3>1 DEF Unselect, Logout
  <2>. QED
    BY <2>1, <2>2
<1>2. state'[c] # "SELECTED"
  BY <1>0 DEF Unselect, SelectFails, Logout, LoginOk, ResetSelectedState
<1>. QED
  BY <1>1, <1>2 DEF Synced, Moved, Idle

(* Every step keeps session and selection in sync. *)
LEMMA SyncedStep ==
    ASSUME Waiting, TurnInv, [Next]_vars, NEW d \in Conn, Synced(d)
    PROVE  Synced(d)'
<1>0. ServerInv /\ Shape /\ \A c \in Conn : InTurn(c)
  BY DEF TurnInv, ServerInv
<1>1. CASE \/ UNCHANGED vars \/ (FeedNext /\ UNCHANGED <<conns, taken>>)
           \/ \E n \in published : Deliver(n) \/ Lose(n)
           \/ \E c \in Conn : Connect(c) \/ Close(c) \/ Closed(c) \/ HangUp(c)
  <2>1. UNCHANGED <<state, sessions, current, selected, running>>
    BY <1>1 DEF vars, conns, Deliver, Lose, Connect, Close, Closed, HangUp, OnClose
  <2>. QED
    BY <2>1 DEF Synced, Moved, Session
<1>2. ASSUME NEW c \in Conn, NEW t \in Tag,
             Command(c, t) \/ Resume(c, t) \/ StreamEnd(c, t)
      PROVE  Synced(d)'
  <2>1. CASE c = d
    BY <1>0, <1>2, <2>1, WaitingSynced, OpenSynced, SelectSynced, DeselectSynced
    DEF Command, Resume
  <2>2. CASE c # d
    <3>1. UNCHANGED Of(d)
      BY <1>0, <1>2, <2>2, OthersStay
    <3>. QED
      BY <3>1 DEF Of, Synced, Moved, Session
  <2>. QED
    BY <2>1, <2>2
<1>. QED
  BY <1>1, <1>2 DEF Next

(* Notices are only taken when they are published. *)
LEMMA TakenStep ==
    ASSUME taken \subseteq published, [Next]_vars
    PROVE  taken' \subseteq published'
<1>1. CASE UNCHANGED vars
  BY <1>1 DEF vars, feed
<1>2. CASE FeedNext /\ UNCHANGED <<conns, taken>>
  BY <1>2 DEF FeedNext, ReadCounters, Announce, Store, Abort, AnnounceAgain
<1>3. CASE \E c \in Conn : Connect(c) \/ Close(c) \/ Closed(c) \/ HangUp(c)
  BY <1>3 DEF Connect, Close, Closed, HangUp, OnClose, feed
<1>4. ASSUME NEW c \in Conn, NEW t \in Tag, Command(c, t)
      PROVE  UNCHANGED <<feed, taken>>
  BY <1>4 DEF Command, LoginStart, SelectStart, FetchStart, Refresh, Unselect, Logout
<1>5. ASSUME NEW c \in Conn, NEW t \in Tag, Resume(c, t) \/ StreamEnd(c, t)
      PROVE  UNCHANGED <<feed, taken>>
  BY <1>5 DEF Resume, LoginOk, LoginFails, FindMailbox, OpenMailbox, ListMessages,
              SelectOk, SelectFails, StreamStart, FetchEnd, StreamEnd
<1>6. ASSUME NEW n \in published, Deliver(n) \/ Lose(n)
      PROVE  taken' \subseteq published'
  BY <1>6 DEF Deliver, Lose, feed
<1>. QED
  BY <1>1, <1>2, <1>3, <1>4, <1>5, <1>6 DEF Next, feed

(* SyncedInv holds in every reachable state. *)
LEMMA SyncedInvariance ==
    ASSUME Waiting
    PROVE  Spec => []SyncedInv
<1>1. Init => SyncedInv
  <2> SUFFICES ASSUME Init PROVE SyncedInv
    OBVIOUS
  <2>1. taken \subseteq published /\ \A c \in Conn : Synced(c)
    BY DEF Init, Synced, Moved, Idle
  <2>2. CountedInv
    BY CountedInit
  <2>. QED
    BY <2>1, <2>2, TurnInit DEF SyncedInv
<1>2. SyncedInv /\ [Next]_vars => SyncedInv'
  <2> SUFFICES ASSUME SyncedInv, [Next]_vars PROVE SyncedInv'
    OBVIOUS
  <2>1. TurnInv' /\ taken' \subseteq published' /\ \A c \in Conn : Synced(c)'
    BY TurnStep, TakenStep, SyncedStep DEF SyncedInv
  <2>2. CountedInv'
    BY CountedNext DEF SyncedInv
  <2>. QED
    BY <2>1, <2>2 DEF SyncedInv
<1>. QED
  BY <1>1, <1>2, PTL DEF Spec

(* SyncedInv has what TypeOK says. *)
LEMMA SyncedTypes == SyncedInv => TypeOK
<1> SUFFICES ASSUME SyncedInv PROVE TypeOK
  OBVIOUS
<1>1. /\ Shape /\ \A c \in Conn : Owned(c) /\ Counted(c) /\ Synced(c)
      /\ taken \subseteq published
  BY DEF SyncedInv, TurnInv, ServerInv, Good, CountedInv
<1>2. \A c \in Conn : current[c] \in 0 .. Len(sessions[c])
  <2> SUFFICES ASSUME NEW c \in Conn PROVE current[c] \in 0 .. Len(sessions[c])
    OBVIOUS
  <2>. QED
    BY <1>1, OneShape DEF Owned
<1>3. selected \in [Conn -> SelectedData]
  <2>1. selected = [c \in Conn |-> selected[c]]
    BY <1>1 DEF Shape
  <2>2. \A c \in Conn : selected[c] \in SelectedData
    BY <1>1 DEF Counted
  <2>. QED
    BY <2>1, <2>2
<1>4. ASSUME NEW c \in Conn, NEW t \in Tag
      PROVE  \/ running[c][t] \in {Idle} \cup [op : {"login"}, user : User]
                                \cup [op : {"fetch"}, step : {"read", "stream"},
                                      box : Mailbox, of : Mailbox]
             \/ /\ running[c][t] \in SelectCommand
                /\ running[c][t].session \in 1 .. Len(sessions[c])
  <2>1. CASE running[c][t].op = "select"
    <3>1. /\ running[c][t] \in SelectCommand /\ running[c][t].session <= Len(sessions[c])
          /\ Len(sessions[c]) \in Nat
      BY <1>1, <2>1, Commands, OneShape DEF Owned
    <3>. QED
      BY <3>1 DEF SelectCommand
  <2>2. CASE running[c][t].op = "fetch"
    <3>1. /\ running[c][t] \in [op : {"fetch"}, step : {"read", "stream"},
                                box : Mailbox \cup {NoBox}, of : Mailbox \cup {NoBox}]
          /\ running[c][t].box # NoBox /\ running[c][t].box = running[c][t].of
      BY <1>1, <2>2, Commands DEF Synced
    <3>. QED
      BY <3>1
  <2>3. CASE running[c][t].op \notin {"select", "fetch"}
    BY <1>1, <2>3, Commands
  <2>. QED
    BY <2>1, <2>2, <2>3
<1>. QED
  BY <1>1, <1>2, <1>3, <1>4 DEF TypeOK, Shape

(* A client that waits for each answer fetches from the mailbox its UIDs are of. *)
THEOREM FetchCorrect ==
    ASSUME Waiting
    PROVE  Spec => []FetchReadsSelected
<1>1. SyncedInv => FetchReadsSelected
  BY SyncedTypes DEF SyncedInv, Synced, FetchReadsSelected
<1>. QED
  BY <1>1, SyncedInvariance, PTL
=============================================================================
