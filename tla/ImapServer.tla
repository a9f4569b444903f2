------------------------------ MODULE ImapServer ------------------------------
(***************************************************************************)
(* The IMAP server (src/imapv4) with its services (imapFastifyPlugin.ts):    *)
(* connections that log in, select a mailbox, fetch, and leave; and the      *)
(* notices of new mail that reach them from Redis while they do.             *)
(*                                                                          *)
(* StreamHandler does not wait for a command before it reads the next, so a  *)
(* connection can have several commands in flight: Pipeline gives each one   *)
(* the tags its client keeps outstanding.  A command's handler is atomic     *)
(* between two awaits; the reads that MongoDB does for it are steps of their *)
(* own, since notices and other commands run between a read and its resume.  *)
(***************************************************************************)
EXTENDS MailFeed, SequencesExt

CONSTANTS
    Conn,      \* connections; an id is never used twice
    User,
    Mailbox,
    Owner,     \* the user a mailbox belongs to
    Tag,       \* command tags
    Pipeline,  \* the tags a connection's client may have outstanding
    Lossy,     \* whether Redis may lose a notice (publish is at-most-once)
    NoBox      \* stands for null where a mailbox is looked for

ASSUME ServerAssumption ==
    /\ IsFiniteSet(Copy) /\ BoxOf \in [Copy -> Mailbox]
    /\ Owner \in [Mailbox -> User]
    /\ Pipeline \in [Conn -> SUBSET Tag]
    /\ Lossy \in BOOLEAN
    /\ NoBox \notin Mailbox

VARIABLES
    link,          \* _closing and _closed of each connection
    connections,   \* the server's map of live connections
    authenticated, \* authenticatedConnections: connection ids by user
    state,         \* State of rfc3501 section 3
    sessions,      \* the session objects login made for a connection
    current,       \* which of them is conn.session, 0 for null
    selected,      \* selectedMailboxData
    pending,       \* updatedMessageNotification
    running,       \* commands whose handler is at an await
    taken          \* notices that Redis has delivered or lost

conns == <<link, connections, authenticated, state, sessions, current,
           selected, pending, running>>
vars == <<feed, conns, taken>>

Idle == [op |-> "none"]
NoData == [name |-> NoBox, sequence |-> <<>>, highestModSeq |-> 0]

Init ==
    /\ FeedInit
    /\ link = [c \in Conn |-> "new"]
    /\ connections = {}
    /\ authenticated = [u \in User |-> {}]
    /\ state = [c \in Conn |-> "NOTAUTH"]
    /\ sessions = [c \in Conn |-> <<>>]
    /\ current = [c \in Conn |-> 0]
    /\ selected = [c \in Conn |-> NoData]
    /\ pending = [c \in Conn |-> <<>>]
    /\ running = [c \in Conn |-> [t \in Tag |-> Idle]]
    /\ taken = {}

-----------------------------------------------------------------------------
(* Helpers.  An operator marked Mutant is a bug this code could have had; it  *)
(* stands in for the definition that follows it to show a property can fail. *)

Session(c) == sessions[c][current[c]]

(* The client can send a command under the tag t. *)
Free(c, t) ==
    /\ link[c] \in {"open", "closing"}
    /\ t \in Pipeline[c]
    /\ running[c][t] = Idle

Run(c, t, cmd) == running' = [running EXCEPT ![c][t] = cmd]
Finish(c, t) == Run(c, t, Idle)

(* messagesObj's UIDs, sorted. *)
Ascending(S) ==
    CHOOSE s \in [1 .. Cardinality(S) -> S] : \A i, j \in DOMAIN s : i < j => s[i] < s[j]

(* notify: each pending notice adds its UID to the message sequence. *)
Pushed(data, ns) ==
    [data EXCEPT
        !.sequence = @ \o [i \in DOMAIN ns |-> ns[i].uid],
        !.highestModSeq = Max({@} \cup {ns[i].uid : i \in DOMAIN ns})]

(* Mutant: the list is reset whatever state the connection is in. *)
NotifyResetsAlways(c) ==
    /\ pending' = [pending EXCEPT ![c] = <<>>]
    /\ selected' = IF state[c] = "SELECTED"
                   THEN [selected EXCEPT ![c] = Pushed(@, pending[c])]
                   ELSE selected

(* What finished() does after a handler that leaves state[c] alone. *)
Notify(c) ==
    IF state[c] = "SELECTED"
    THEN /\ selected' = [selected EXCEPT ![c] = Pushed(@, pending[c])]
         /\ pending' = [pending EXCEPT ![c] = <<>>]
    ELSE UNCHANGED <<selected, pending>>

ResetSelectedState(c) ==
    /\ state' = [state EXCEPT ![c] = "AUTH"]
    /\ selected' = [selected EXCEPT ![c] = NoData]

-----------------------------------------------------------------------------
(* The connection *)

(* _connectSecure and the constructor. *)
Connect(c) ==
    /\ link[c] = "new"
    /\ link' = [link EXCEPT ![c] = "open"]
    /\ connections' = connections \cup {c}
    /\ UNCHANGED <<feed, authenticated, state, sessions, current, selected,
                   pending, running, taken>>

(* close(false): a socket error, a failed write or the idle timeout. *)
Close(c) ==
    /\ link[c] = "open"
    /\ link' = [link EXCEPT ![c] = "closing"]
    /\ UNCHANGED <<feed, connections, authenticated, state, sessions, current,
                   selected, pending, running, taken>>

(* _onClose; authenticatedConnections is not touched. *)
OnClose(c) ==
    /\ link' = [link EXCEPT ![c] = "closed"]
    /\ connections' = connections \ {c}
    /\ UNCHANGED <<feed, authenticated, state, sessions, current, selected,
                   pending, running, taken>>

(* Mutant: the timer spares a connection that has a command running. *)
ClosedWhenIdle(c) ==
    /\ link[c] = "closing"
    /\ \A t \in Tag : running[c][t] = Idle
    /\ OnClose(c)

(* The socket's close event, or the 1.5 s timer that destroys the socket. *)
Closed(c) == link[c] = "closing" /\ OnClose(c)

(* The client ends or drops the connection first. *)
HangUp(c) == link[c] = "open" /\ OnClose(c)

-----------------------------------------------------------------------------
(* The commands *)

LoginStart(c, t, u) ==
    /\ Free(c, t)
    /\ state[c] = "NOTAUTH"
    /\ Run(c, t, [op |-> "login", user |-> u])
    /\ UNCHANGED <<feed, link, connections, authenticated, state, sessions,
                   current, selected, pending, taken>>

(* Mutant: a second login replaces the session. *)
SetSessionAlways(c, u) ==
    /\ sessions' = [sessions EXCEPT ![c] = Append(@, [user |-> u, box |-> NoBox])]
    /\ current' = [current EXCEPT ![c] = Len(sessions[c]) + 1]

SetSession(c, u) ==
    IF current[c] = 0
    THEN /\ sessions' = [sessions EXCEPT ![c] = Append(@, [user |-> u, box |-> NoBox])]
         /\ current' = [current EXCEPT ![c] = Len(sessions[c]) + 1]
    ELSE UNCHANGED <<sessions, current>>

(* Mutant: the user's list is replaced by one with this connection only. *)
AddAuthenticatedReplaces(c, u) ==
    authenticated' = [authenticated EXCEPT ![u] = {c}]

AddAuthenticated(c, u) ==
    authenticated' = [authenticated EXCEPT ![u] = @ \cup {c}]

LoginOk(c, t) ==
    /\ running[c][t].op = "login"
    /\ SetSession(c, running[c][t].user)
    /\ state' = [state EXCEPT ![c] = "AUTH"]
    /\ AddAuthenticated(c, running[c][t].user)
    /\ Finish(c, t)
    /\ UNCHANGED <<feed, link, connections, selected, pending, taken>>

(* Wrong credentials or an error: the answer is all that happens. *)
LoginFails(c, t) ==
    /\ running[c][t].op = "login"
    /\ Finish(c, t)
    /\ UNCHANGED <<feed, link, connections, authenticated, state, sessions,
                   current, selected, pending, taken>>

(* The service looks names up among the mailboxes of the session's user; a   *)
(* name it does not find fails later (SelectFails), and so does, without      *)
(* effect, a SELECT that finds the session gone after a LOGOUT.              *)
SelectStart(c, t, b) ==
    /\ Free(c, t)
    /\ state[c] \in {"AUTH", "SELECTED"}
    /\ current[c] # 0
    /\ Owner[b] = Session(c).user
    /\ Run(c, t, [op |-> "select", step |-> "find", box |-> b,
                  session |-> current[c], modifyIndex |-> 0, uids |-> {}])
    /\ UNCHANGED <<feed, link, connections, authenticated, state, sessions,
                   current, selected, pending, taken>>

Selecting(c, t, step) ==
    running[c][t].op = "select" /\ running[c][t].step = step

(* MongoDB answers findMailboxes. *)
FindMailbox(c, t) ==
    /\ Selecting(c, t, "find")
    /\ running' = [running EXCEPT ![c][t].step = "found",
                                  ![c][t].modifyIndex = Total(running[c][t].box)]
    /\ UNCHANGED <<feed, link, connections, authenticated, state, sessions,
                   current, selected, pending, taken>>

(* select resumes: it updates the session before it reads the messages. *)
OpenMailbox(c, t) ==
    /\ Selecting(c, t, "found")
    /\ sessions' = [sessions EXCEPT
                       ![c][running[c][t].session].box = running[c][t].box]
    /\ running' = [running EXCEPT ![c][t].step = "list"]
    /\ UNCHANGED <<feed, link, connections, authenticated, state, current,
                   selected, pending, taken>>

(* MongoDB answers findMessages. *)
ListMessages(c, t) ==
    /\ Selecting(c, t, "list")
    /\ running' = [running EXCEPT ![c][t].step = "listed",
                                  ![c][t].uids = Uids(running[c][t].box)]
    /\ UNCHANGED <<feed, link, connections, authenticated, state, sessions,
                   current, selected, pending, taken>>

(* The handler fills the connection's state, then finished() notifies. *)
SelectOk(c, t) ==
    /\ Selecting(c, t, "listed")
    /\ LET cmd == running[c][t] IN
          /\ selected' = [selected EXCEPT ![c] =
                Pushed([name |-> cmd.box, sequence |-> Ascending(cmd.uids),
                        highestModSeq |-> cmd.modifyIndex], pending[c])]
          /\ current' = [current EXCEPT ![c] = cmd.session]
    /\ state' = [state EXCEPT ![c] = "SELECTED"]
    /\ pending' = [pending EXCEPT ![c] = <<>>]
    /\ Finish(c, t)
    /\ UNCHANGED <<feed, link, connections, authenticated, sessions, taken>>

(* Mutant: the previous mailbox stays selected. *)
SelectFailsKeeps(c, t) ==
    /\ running[c][t].op = "select"
    /\ Finish(c, t)
    /\ UNCHANGED <<feed, link, connections, authenticated, state, selected,
                   sessions, current, pending, taken>>

(* No such mailbox, or one of the two reads fails. *)
SelectFails(c, t) ==
    /\ running[c][t].op = "select"
    /\ ResetSelectedState(c)
    /\ Finish(c, t)
    /\ UNCHANGED <<feed, link, connections, authenticated, sessions, current,
                   pending, taken>>

(* FETCH takes UIDs from the connection's sequence and the mailbox from the   *)
(* session, in one stretch; then it streams what its cursor finds.           *)
FetchStart(c, t) ==
    /\ Free(c, t)
    /\ state[c] = "SELECTED"
    /\ Run(c, t, [op |-> "fetch", step |-> "read", box |-> Session(c).box,
                  of |-> selected[c].name])
    /\ UNCHANGED <<feed, link, connections, authenticated, state, sessions,
                   current, selected, pending, taken>>

Fetching(c, t, step) ==
    running[c][t].op = "fetch" /\ running[c][t].step = step

(* streamDataResponse pipes the message's literals into a socket that it has  *)
(* found writable.                                                          *)
StreamStart(c, t) ==
    /\ Fetching(c, t, "read")
    /\ link[c] = "open"
    /\ running' = [running EXCEPT ![c][t].step = "stream"]
    /\ UNCHANGED <<feed, link, connections, authenticated, state, sessions,
                   current, selected, pending, taken>>

(* Mutant: streamDataResponse does not look whether the socket is writable,  *)
(* and waits for a stream that nobody reads.                                 *)
FetchEndIfWritable(c, t) ==
    /\ Fetching(c, t, "read")
    /\ link[c] = "open"
    /\ Finish(c, t)
    /\ Notify(c)
    /\ UNCHANGED <<feed, link, connections, authenticated, state, sessions,
                   current, taken>>

(* UID FETCH notifies when it ends; FETCH, and a fetch that fails, do not.    *)
(* The socket's not being writable is one way to fail.                       *)
FetchEnd(c, t) ==
    /\ Fetching(c, t, "read")
    /\ Finish(c, t)
    /\ Notify(c) \/ UNCHANGED <<selected, pending>>
    /\ UNCHANGED <<feed, link, connections, authenticated, state, sessions,
                   current, taken>>

(* The literals have been read to their end.  A socket that goes away while   *)
(* one is piped ends nothing: the handler then waits for good.               *)
StreamEnd(c, t) ==
    /\ Fetching(c, t, "stream")
    /\ Finish(c, t)
    /\ Notify(c) \/ UNCHANGED <<selected, pending>>
    /\ UNCHANGED <<feed, link, connections, authenticated, state, sessions,
                   current, taken>>

(* A command with no other effect than the notify that follows it: NOOP,      *)
(* CHECK, LIST, STATUS, ...                                                  *)
Refresh(c, t) ==
    /\ Free(c, t)
    /\ Notify(c)
    /\ UNCHANGED <<feed, link, connections, authenticated, state, sessions,
                   current, running, taken>>

(* CLOSE and UNSELECT; every mailbox is selected read-only. *)
Unselect(c, t) ==
    /\ Free(c, t)
    /\ state[c] = "SELECTED"
    /\ ResetSelectedState(c)
    /\ UNCHANGED <<feed, link, connections, authenticated, sessions, current,
                   pending, running, taken>>

(* Mutant: the session goes, the state stays. *)
LogoutKeepsState(c, t) ==
    /\ Free(c, t)
    /\ current[c] # 0
    /\ authenticated' = [authenticated EXCEPT ![Session(c).user] = @ \ {c}]
    /\ current' = [current EXCEPT ![c] = 0]
    /\ link' = [link EXCEPT ![c] = "closing"]
    /\ UNCHANGED <<feed, connections, state, selected, sessions, pending,
                   running, taken>>

(* Mutant: resetSelectedState comes last and undoes setState. *)
LogoutResetsLast(c, t) ==
    /\ Free(c, t)
    /\ current[c] # 0
    /\ authenticated' = [authenticated EXCEPT ![Session(c).user] = @ \ {c}]
    /\ current' = [current EXCEPT ![c] = 0]
    /\ ResetSelectedState(c)
    /\ link' = [link EXCEPT ![c] = "closing"]
    /\ UNCHANGED <<feed, connections, sessions, pending, running, taken>>

(* Without a session the handler throws and nothing changes. *)
Logout(c, t) ==
    /\ Free(c, t)
    /\ current[c] # 0
    /\ authenticated' = [authenticated EXCEPT ![Session(c).user] = @ \ {c}]
    /\ current' = [current EXCEPT ![c] = 0]
    /\ state' = [state EXCEPT ![c] = "LOGOUT"]
    /\ selected' = [selected EXCEPT ![c] = NoData]
    /\ link' = [link EXCEPT ![c] = "closing"]
    /\ UNCHANGED <<feed, connections, sessions, pending, running, taken>>

-----------------------------------------------------------------------------
(* Notices *)

(* newMessageAdded finds the connection and addNotifications wants it. *)
Hears(c, n) ==
    /\ c \in authenticated[Owner[BoxOf[n.copy]]]
    /\ c \in connections
    /\ state[c] = "SELECTED"
    /\ current[c] # 0
    /\ Session(c).box = BoxOf[n.copy]

Deliver(n) ==
    /\ n \in published \ taken
    /\ taken' = taken \cup {n}
    /\ pending' = [c \in Conn |->
                      IF Hears(c, n) THEN Append(pending[c], n) ELSE pending[c]]
    /\ UNCHANGED <<feed, link, connections, authenticated, state, sessions,
                   current, selected, running>>

(* Redis keeps nothing for a subscriber that is away. *)
Lose(n) ==
    /\ Lossy
    /\ n \in published \ taken
    /\ taken' = taken \cup {n}
    /\ UNCHANGED <<feed, conns>>

-----------------------------------------------------------------------------
Command(c, t) ==
    \/ \E u \in User : LoginStart(c, t, u)
    \/ \E b \in Mailbox : SelectStart(c, t, b)
    \/ FetchStart(c, t)
    \/ Refresh(c, t)
    \/ Unselect(c, t)
    \/ Logout(c, t)

Resume(c, t) ==
    \/ LoginOk(c, t)
    \/ LoginFails(c, t)
    \/ FindMailbox(c, t)
    \/ OpenMailbox(c, t)
    \/ ListMessages(c, t)
    \/ SelectOk(c, t)
    \/ SelectFails(c, t)
    \/ StreamStart(c, t)
    \/ FetchEnd(c, t)

Next ==
    \/ FeedNext /\ UNCHANGED <<conns, taken>>
    \/ \E c \in Conn : Connect(c) \/ Close(c) \/ Closed(c) \/ HangUp(c)
    \/ \E c \in Conn, t \in Tag : Command(c, t) \/ Resume(c, t) \/ StreamEnd(c, t)
    \/ \E n \in published : Deliver(n) \/ Lose(n)

(* Awaited calls return, timers fire and Redis delivers.  Clients and senders *)
(* of mail owe nothing: a client need not read what is streamed to it, and     *)
(* SOCKET_TIMEOUT does not close it as long as it sends something.            *)
Fairness ==
    /\ \A c \in Conn : WF_vars(Closed(c))
    /\ \A c \in Conn, t \in Tag : WF_vars(Resume(c, t))
    /\ WF_vars(\E n \in published : Deliver(n))

Spec == Init /\ [][Next]_vars /\ Fairness

-----------------------------------------------------------------------------
(* Properties *)

Notice == [copy : Copy, uid : Nat, from : {"transaction", "handler"}]
SessionObject == [user : User, box : Mailbox \cup {NoBox}]
SelectedData == [name : Mailbox \cup {NoBox}, sequence : Seq(Nat), highestModSeq : Nat]
SelectCommand == [op : {"select"}, step : {"find", "found", "list", "listed"},
                  box : Mailbox, session : Nat \ {0}, modifyIndex : Nat,
                  uids : SUBSET Nat]

TypeOK ==
    /\ stage \in [Copy -> [at : {"none", "read", "announced", "stored"}, uid : Nat]]
    /\ published \subseteq Notice
    /\ taken \subseteq published
    /\ link \in [Conn -> {"new", "open", "closing", "closed"}]
    /\ connections = {c \in Conn : link[c] \in {"open", "closing"}}
    /\ authenticated \in [User -> SUBSET Conn]
    /\ state \in [Conn -> {"NOTAUTH", "AUTH", "SELECTED", "LOGOUT"}]
    /\ sessions \in [Conn -> Seq(SessionObject)]
    /\ \A c \in Conn : current[c] \in 0 .. Len(sessions[c])
    /\ selected \in [Conn -> SelectedData]
    /\ pending \in [Conn -> Seq(Notice)]
    /\ \A c \in Conn, t \in Tag :
          \/ running[c][t] \in {Idle} \cup [op : {"login"}, user : User]
                                \cup [op : {"fetch"}, step : {"read", "stream"},
                                      box : Mailbox, of : Mailbox]
          \/ /\ running[c][t] \in SelectCommand
             /\ running[c][t].session \in 1 .. Len(sessions[c])

(* A connection in use is where newMessageAdded looks for it: under the user  *)
(* of its session, whatever other connections of that user came or left.     *)
RegistrySound ==
    \A c \in Conn :
        link[c] = "open" /\ state[c] \in {"AUTH", "SELECTED"} =>
            current[c] # 0 /\ c \in authenticated[Session(c).user]

(* Overlapping logins, selects and logouts never let a connection hold, or    *)
(* fetch from, a mailbox of a user other than its session's.                 *)
OwnMailboxesOnly ==
    \A c \in Conn : current[c] # 0 =>
        LET Mine(b) == Owner[b] = Session(c).user IN
            /\ selected[c].name # NoBox => Mine(selected[c].name)
            /\ Session(c).box # NoBox => Mine(Session(c).box)
            /\ link[c] = "open" =>
                  /\ \A i \in DOMAIN pending[c] : Mine(BoxOf[pending[c][i].copy])
                  /\ \A t \in Tag : running[c][t].op = "fetch" =>
                        Mine(running[c][t].box)

(* notify, CLOSE and FETCH dereference selectedMailboxData and the session    *)
(* after checking the state only: in every overlap they are there.           *)
SelectedIsUsable ==
    \A c \in Conn : state[c] = "SELECTED" =>
        /\ selected[c].name # NoBox
        /\ current[c] # 0
        /\ Session(c).box # NoBox

(* Against a client that waits for each answer, FETCH looks its UIDs up in    *)
(* the mailbox they are from, although the select service moves the session  *)
(* to the new mailbox before it knows whether the SELECT succeeds.  (The types, *)
(* and that connections holds those that are not closed, come with it.)      *)
FetchReadsSelected ==
    /\ TypeOK
    /\ \A c \in Conn, t \in Tag :
          running[c][t].op = "fetch" => running[c][t].box = running[c][t].of

(* A queued notice leaves the list only into the message sequence. *)
NoNoticeDropped ==
    [][\A c \in Conn : pending'[c] # pending[c] =>
          \/ IsPrefix(pending[c], pending'[c])
          \/ /\ pending'[c] = <<>>
             /\ selected'[c].name # NoBox
             /\ IsSuffix([i \in DOMAIN pending[c] |-> pending[c][i].uid],
                         selected'[c].sequence)]_vars

(* Every command ends, whatever overlaps it, however it fails and whenever    *)
(* the connection goes, but for a FETCH that has begun to send a literal: when  *)
(* that ends, and whether it ever does, is up to the client.                  *)
CommandsEnd ==
    \A c \in Conn, t \in Tag :
        (running[c][t] # Idle) ~>
            (running[c][t] = Idle \/ Fetching(c, t, "stream"))

(* A closing connection leaves the server's map, with or without the client. *)
ClosingEnds ==
    \A c \in Conn : (link[c] = "closing") ~> (c \notin connections)

(* With a client that waits for each answer, a connection goes through the    *)
(* states of RFC 3501 although login, select and logout set state, session    *)
(* and selected mailbox in pieces.                                           *)
Rfc3501 == INSTANCE ImapStates WITH
    NoUser <- 0,
    user <- [c \in Conn |-> IF current[c] = 0 THEN 0 ELSE Session(c).user],
    box <- [c \in Conn |-> selected[c].name]

FollowsRfc3501 == Rfc3501!Spec

-----------------------------------------------------------------------------
(* What comments claim and the code does not keep *)

AtRest(c) ==
    /\ link[c] = "open" /\ state[c] = "SELECTED"
    /\ \A t \in Tag : running[c][t] = Idle
    /\ pending[c] = <<>>
    /\ published = taken
    /\ \A i \in StoredIn(selected[c].name) : \E n \in published : n.copy = i

(* types.ts:168: messageSequence "should be an ordered list of uids of all     *)
(* messages in the mailbox", at least for a connection at rest that has been  *)
(* notified of everything (imapConnection.ts:89-91: notices it ignores do not *)
(* matter, "the entire updated list be freshly fetched on SELECT").          *)
SequenceIsMailbox ==
    \A c \in Conn :
        AtRest(c) => selected[c].sequence = Ascending(Uids(selected[c].name))
=============================================================================
