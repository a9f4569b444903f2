# A verification of imapSmtp

imapSmtp is a mail server: Haraka receives and sends SMTP, a Node service
stores mail in MongoDB and serves HTTP and IMAP. This directory holds TLA+
models of the parts of it that run concurrently or keep state between steps,
the TLC configurations that check them on small instances, and proofs, checked
by TLAPS, about the most important of them. All paths below are relative to
the repository's root; modules, configurations and properties are named in
`monospace`.

## 1. The system

### 1.1 Components

| Component | Code | State it keeps | Operations | Module |
|---|---|---|---|---|
| Saving mail | `src/transactions/messageTransactions.ts`, `transact.ts`, `src/proto/grpcPlugin.ts` (saveInbound), `src/handlers/messageHandlers.ts` (outboundMessage), `src/services/{mailboxe,thread,message}Service.ts` | mailbox counters (`uidNext`, `modifyIndex`, `stats.total`), threads, messages | accept, read counters, transaction (thread, counters, message), commit/abort, answer | `MessageTX`, `MailboxStore`, `MessageTXProofs` |
| Notices of new mail | `src/messageNotifier.ts`, `src/PubSub.ts`, Redis | none (publish/subscribe, at most once) | publish, deliver | `MailFeed`, `MessageTX`, `ImapServer`, `MessageTXProofs` |
| IMAP server | `src/imapv4/imapServer.ts`, `imapConnection.ts`, `imapCommand.ts`, `handlers/` | connections, authenticated connections by user, state, session, selected mailbox, pending notices | connect, close, LOGIN, SELECT, FETCH, NOOP..., CLOSE, UNSELECT, LOGOUT, notify | `ImapServer`, `ImapStates`, `ImapServerProofs` |
| IMAP services | `src/imapFastifyPlugin.ts` | the session object it updates | login, select, list, status, fetch, createReadStream | `ImapServer` (login, select, fetch), `MimeTree` (createReadStream) |
| IMAP stream handler | `src/imapv4/streamHandler.ts` | rest of a line, current command, missing bytes and chunks of a literal | `_write`/`read` | `StreamHandler`, `StreamHandlerProofs` |
| SMTP inbound plugin | `mail-server/plugins/bizgaze.js`, `src/proto/grpcPlugin.ts` (checkValidity) | transaction notes: recipients, running uploads, stored attachments, errors, held callback | hook_mail, hook_rcpt, hook_data, start_att, hook_data_post, hook_queue | `AttachmentUpload`, `SmtpRoundTrip`, `SmtpRoundTripProofs` |
| Attachment storage | `src/proto/grpcPlugin.ts` (uploadAttachment), `src/db/gridFS.ts` | GridFS files | upload, delete an incomplete file | `AttachmentUpload` |
| Start-up documents and accounts | `src/index.ts`, `src/services/initDbDocsPlugin.ts` and the role, privilege, resource, access, user, address and bucket services, `src/transactions/userTransaction.ts`, `src/hooks/authHooks.ts` | default documents, super admin, cached accesses; an account's address, mailboxes, bucket and user | fork, find or save defaults, find or create the super admin, authorize, create a user, exit | `AccountSetup`, `AccountSetupProofs` |
| Paged reading over HTTP | `src/db/paginate.ts`, `src/services/messageService.ts` (getPaginatedMessages) | none on the server; the page a browser shows | first, next, previous page | `MailboxPages`, `MailboxPagesProofs` |
| IMAP command parser | `src/imapv4/imapCommandParser.ts`, `imapFormalSyntax.ts`, `imapCommand.ts` (finished) | position, state and open nodes of the parser | parse a command's arguments | `CommandParser`, `CommandParserProofs` |
| IMAP FETCH and its response | `src/imapv4/handlers/fetch.ts`, `src/imapUtils.ts`, `imapStreamCommandCompiler.ts` | queries, the literals being streamed | check and compile the arguments, read a message, announce and stream literals, end | `FetchMessage`, `FetchMessageProofs` |
| MIME library | `rfc822/` | parser position and MIME tree; counters of a rebuild | parse, extract attachments, rebuild (whole or a window), measure, find a part | `MimeTree`, `FetchMessageProofs` |
| SMTP outbound plugin | `mail-server/plugins/bizgazeOutbound.js`, `src/handlers/messageHandlers.ts` (sendMail), `src/proto/grpcPlugin.ts` (updateSavedMessage) | `metadata.outboundStatus` of a message; Haraka's deliveries | check the sender, deferred, bounced, delivered, record a status | `OutboundDelivery`, `SmtpRoundTrip`, `SmtpRoundTripProofs` |
| IMAP LIST, STATUS, ID, CAPABILITY | `src/imapv4/handlers/`, `src/imapFastifyPlugin.ts` | none | answers without a change of state | no |
| HTTP routes, schemas, other handlers | `src/routes/`, other `src/handlers/` | none | request handling | no |
| Configuration, logging, certificates, scripts | `config/`, `src/logger.ts`, `scripts/`, ... | none | | no |

### 1.2 How they interact

An SMTP mail enters through Haraka. The plugin uploads attachments over gRPC
while DATA arrives, holds the transaction until they are stored, and calls
saveInbound. A browser's mail enters through HTTP (outboundMessage), is stored
in Sent Mail, and is handed to Haraka (sendMail). There bizgazeOutbound checks
the sender, and reports what becomes of each delivery back to updateSavedMessage,
which pushes it to the messages of that Message-ID. A delivery to this server's
own domain is an SMTP mail that comes in again through bizgaze.js. Both saveInbound
and outboundMessage call `MessageTX.saveEmail`, once per recipient: a MongoDB
transaction that files the mail in a thread, increments the mailbox's counters,
inserts the message, and publishes a notice on Redis. Each IMAP server subscribes to
these notices and hands them to the connections that have the mailbox selected; a
connection applies them between two commands. What a connection knows of its mailbox
is a sequence of UIDs: the one SELECT read, extended by notices.

An IMAP command comes as TCP chunks, which the stream handler cuts into lines and
literals; imapCommandParser makes arguments of them, and the FETCH handler queries
of those. getQueriedContents finds each query's part in the stored MIME tree,
getLength tells how long its text will be, rebuild streams it, taking attachments
out of GridFS, and the response compiler announces the length and passes on so
many bytes.

### 1.3 What is hard here

Node runs one callback at a time, so the unit of interleaving is the stretch
between two `await`s. That is where the hazards are; `PROJECT.json` lists each
with its line:

- counters read before a transaction and used inside it, notices published
  before the commit they announce, conflicts that abort without a retry, lost
  commit answers;
- IMAP commands that are not awaited and so overlap over one connection's
  state, notices that arrive between a read and its resume, sockets that close
  in the middle of anything;
- TCP chunks that end anywhere in a line or literal;
- uploads that end, fail or time out in any order around the hook that waits
  for them;
- recipients whose address check ends after they were answered;
- hooks of both plugins that Haraka stops waiting for after 150 s, while their gRPC
  calls have no deadline and take effect later;
- statuses that are pushed to several copies of a mail one after the other, while
  another push goes on, a copy is stored, or the push stops between two copies;
- a parser of a dozen states, read one character at a time, in which any character
  may come in any state, and literals that were taken out of the line before;
- a length that is announced by one algorithm for the text that another one
  streams, both over a tree that a third one made; options that one query leaves
  to the next; a stream whose error nobody hears;
- workers that start together over a database that is empty, half filled by
  another worker, or left so by one that died;
- pages read while messages are stored in another order than that of their dates.

## 2. The modules

### 2.1 `MessageTX`: storing a mail

Every client is a submitter that waits for one mail's answer before it sends
the next (an SMTP session or a browser tab). `pc` is the position of its handler,
one label per stretch between awaits:

| Label / action | Code |
|---|---|
| `Accept` | saveInbound or outboundMessage is called |
| `Lookup` | `findMailboxes`, outside any transaction: `snap` gets the counters |
| `Begin` | `startTransaction` and the first read, which fixes the snapshot (`view`) |
| `CreateThread`, `UpdateThread`, `NoExistingThread` | `_createOrUpdateThread` |
| `UpdateCounters` | `updateMailboxes` with its `$inc` |
| `CreateMessage` | `createMessage`, then `notifyNewMessage` |
| `Commit`, `CommitLost`, `WriteConflict`, `Fail` | `transact`: commit, commit whose answer is lost, a refused write, any rejected await or a crash |
| `NotifyAgain`, `Queue` | the tail of outboundMessage |

MongoDB is external. It is modelled as snapshot isolation with first-writer-wins
conflicts: `view[p]` is the snapshot, `wrote[p]` the documents written, `stale[p]`
what others committed since. A write to a document in `stale[p]` or in another's
`wrote` is refused; `Apply` computes the committed value from the snapshot, so
that "no update is lost" (`NoLostUpdate`, `CountersMatch`) is a consequence of the
conflict rule and not of the way the model writes. The server process crashing
is `Fail` at any label: the transaction vanishes, the sender gets no "ok".

`MailboxStore` is what storing promises: one atomic `Deliver`, with a UID that is
at most the mailbox's `uidNext` (the code promises no more: it can be one already
in use). `MailFeed` is what the IMAP server sees of it: copies that take a UID,
are announced, and then stored or aborted. `MessageTX` is shown to implement both
(`ImplementsStore`, `ImplementsFeed`).

### 2.2 `ImapServer`: connections, sessions and notices

It extends `MailFeed` (its environment) with connections. Each action is one
handler, or one stretch of a handler between two awaits, together with the
`notify` that `finished()` runs after it. `running[c][t]` is the command the
connection's client has outstanding under tag `t`; `Pipeline[c]` is the set of
tags it keeps going at a time, so one tag is a client that waits for every answer.
SELECT has four awaits' worth of steps (`FindMailbox`, `OpenMailbox`,
`ListMessages`, `SelectOk`), because the session changes in the second and the
connection's state only in the last. `Session(c)` is an object shared by the
service and the connection, as in the code: `sessions[c]` keeps the objects login
made and `current[c]` which one `conn.session` refers to.
`ImapStates` is the diagram of RFC 3501 section 3, and `FollowsRfc3501` the
refinement that maps a connection's pieces of state to it.

### 2.3 `AttachmentUpload`: one SMTP transaction

`asked` is the address whose `checkValidity` call Haraka waits for, and `unheeded` are
those with a call that goes on after Haraka's answer (`overtaken`, for the rest of the
transaction). `targets` is the set in the transaction notes that the calls' answers
fill, `accepted` what Haraka was told OK. They differ in two cases, both `Overtake`:

- `hook_rcpt` refuses an address with a `*` at once, has no `return`, and goes on to
  check it; and the schema of user creation accepts any string of four characters or
  more as a username;
- a check that takes longer than `bizgaze.timeout`, 150 s, is answered DENYSOFT by
  Haraka (`RcptTimesOut`), and the gRPC call has no deadline.

When such an address is a user's, the answer adds it to `targets` after the refusal
(`bizgaze.js:114`), and the mail is saved for a recipient whom the sender was told is
not one. `RecipientsServed` says exactly how far this goes: nobody who was told OK is
left out, and nobody else is served but those two kinds. The time-out ends the other
hooks too (`DataPostTimesOut`, `Saved`); `notes.next` stays set, so that the last upload
calls it once more, for nobody. The time-out of `hook_queue` leaves a saveInbound call
that may store the mail yet: the sender is told to retry a mail that arrived.

`upload[i]` follows the i-th MIME part's gRPC call; `todo_count`, `attachments`,
`errors` and `waiting` are the transaction notes of the same names. `Proceed` is
`next()` of `start_att`, called by every upload that ends.

### 2.4 `StreamHandler`: cutting the stream into commands

What travels is a sequence of symbols that say where they come from (piece x of
line j of command k), never characters: a literal's bytes, the text of a line, its
`{n}` and its CRLF. TCP hands `Write` any prefix of what is on the wire. Since a
symbol knows its place, `ExtractedAsSent` can say that a finished command is
exactly what the client meant, and `NothingTwice` that no byte is used twice.
A session says which commands the client sends, whether it waits for answers, and
whether a chunk may end exactly where a literal does.

### 2.5 `AccountSetup`: workers that start, accounts that are created

A process is a worker of the cluster or a request to create a user; `pc` is
its position. A worker goes through the four collections (`List`, for roles a
second time in `ListAgain`, as the service does; then `Save` one document after
the other if there were none), then looks for the super admin and creates it if
there is none. Its exit in a failed start-up, and its new start, are `SaveRefused`,
`WriteRefused`, `Crash` and `Fork`. Requests come to a worker that is up; `Receive` is
the authorization hook, which reads the accesses cached at start-up.
`createNewUser` is shared by both: the checks outside and inside the transaction
(`Check`, `FindAddress`), four writes, `Commit`. MongoDB's part is as in `MessageTX`.

Assumed: the unique indexes are built when the first document is saved. Mongoose
builds them in the background and nothing in the code waits. Not promised, hence
not stated: a worker that starts while another saves the roles caches, and creates
accesses for, the roles it found, so an access for a role can be missing for good.

### 2.6 `MailboxPages`: reading page by page

`Take` reads the date of a mail, `Settle` ends its transaction, so that messages
come to be stored in another order than that of their dates. A browser asks for
the first page, or for the one after or before the page it shows, with any limit.
One operator per function of `paginate.ts`; `Paginate` is the set of all answers,
since MongoDB may order messages of one date in any way. `walked`, `since` and `left`
are history for the properties. The query option `ascending`, documented in
`src/routes/routeSchemas.ts:115`, is not passed on by `messageService.ts`, so `SortAsc`
depends on the direction alone, as the code does.

### 2.7 `OutboundDelivery` and `SmtpRoundTrip`: a mail on its way out, and in again

`request` is where outboundMessage is (`Save` stands for all of `MessageTX`),
`submission` the transaction in which Haraka takes the mail from sendMail, and
`delivery[d]` what Haraka does with the mail's delivery to one domain. The plugin's
hooks are the actions that `Report` (`Succeed`, `Bounce`, `Defer`); the gRPC call a hook
makes is an element of `calls` until `CallEnds`. In between, updateMany (`Push`) gives
the status to one document at a time, the Sent copy or a recipient's, in any order:
MongoDB updates documents atomically, and an updateMany not. Between two of them another
call pushes, or a copy is stored, which may be reached or not; and the call can end
before all are updated, since the update can fail and nothing repeats it. `pushed` is
what each call has updated. Haraka waits 150 s for a hook (`HookTimesOut`,
`SenderUnchecked`) and then goes on; the call does not end with that, nor when only its
answer is lost (`AnswerLost`), so that statuses arrive late and in another order. So no
two copies need have the same statuses, or in the same order. What is left is
`CopiesAgree`: they do not contradict each other, and repeat nothing. `late` and `lost`
are history: which deliveries had such a hook, and that Haraka's answer was lost.
`SmtpRoundTrip` composes this with `AttachmentUpload`: an attempt to deliver to this
server's domain is a run of that module's `Next` (`Receive`), after which `Disconnect`
drops the transaction notes, and the copy that saveInbound stores is one the reports
of its own delivery are pushed to. `unheard` counts the saveInbound calls that Haraka
stopped waiting for; each may store its copy at any later time (`LateSave`), next to
that of another attempt.

### 2.8 `CommandParser`: from characters to arguments

`parser` is the TokenParser: its state, the open nodes, the number of literals taken.
`Feed` is one character of processString (one operator per state), `Parsed` the end of
the line and getAttributes. A symbol is a special character, a letter, a digit or a
word that FETCH looks for; a literal is its number, and `CRLF` is what addLine leaves of
it. The parser's oddities are kept: DIGIT is two ranges, of which the second is that
of the lower-case letters, so that `<a>` and `{a}` parse; a `*` alone counts as closed.

The code keeps the whole tree and a pointer to the current node, and getAttributes walks
the tree at the end. The model keeps a stack of the nodes from the root to the current
one, and folds that walk into the place where a node is left: its parent keeps the
argument that getAttributes would make of it (`Added`), and whether all below it is
closed (`Whole`). So a node needs no children, the model no recursion over a tree, and
what has been read stands at any time in the stack, from left to right.

`ParsedAsTyped` compares the arguments, written out again (`Written`), with what a reader
of the input has seen who knows nothing of nodes (`Read`): one who sees only whether he
is in a string or a literal's size, drops spaces, and counts the literals.

### 2.9 `MimeTree`: what is stored of a mail, and given back

Pure operators: `Parse` (rfc822parser), `IsAttachment` (extractMailData), `Emitted` and
`Rebuilt` (the walk of rebuild), `Streamed` with `WritePiece`, `Piped` and `AttachmentStream`
(the same with bounds), `Length` (getLength) and `Resolve` (resolveNode). Text is a
sequence of pieces, a line or a line break, and lengths count pieces. That loses no
case of the bounds: every position of a bound relative to a write occurs.

The parser's tree is a stack of nodes too, from the root to the one that is being read. The
walks of rebuild and getLength are functions of the number of levels they go down:
`Emitted[n]` and `Appended[n]` are defined on the nodes of less than n levels
(`NodesOver`), from those of one level less. A mail has no more levels than it has lines,
and the root's, and `Depth` is that.

### 2.10 `FetchMessage`: one FETCH

It extends both: a command is typed and parsed (`Typing`), checked and made into
queries (`Handle`), answered from a mail (`ReadMessage`, which computes every
literal's announced size and content), and streamed (`SendLiteral`, `StreamFails`,
`Complete`) until the client stops reading or goes away (`StopsReading`). What the
properties except is what the code does otherwise, and nobody promises:

- a partial that starts after 0 is cut by rebuild and once more by the response
  compiler, because `createResp` hands on the whole stream's start with no mark that
  it is limited (`fetch.ts:419`); and it stays in `opts` for the queries that follow
  (`imapUtils.ts:221`). Its content is padding or later text. Its size is right as long
  as the partial starts within what the options leave of the text, its own and those of
  earlier items; beyond that the stream ends before it begins. In
  `1 (BODY[]<2.4> BODY[]<5>)` the second item's text is cut to four octets, the length
  left from the first, and then asked for from the fifth on: it is announced with a
  length that it does not get;
- in a window, an attachment is cut to one byte, since the data that `createReadStream`
  measures is an array of one document (`imapFastifyPlugin.ts:107`);
- an attachment stored decoded is shorter than announced, and padded;
- an empty part has no line break in getLength, and one in rebuild; a preamble without
  a blank line is joined to its delimiter, an epilogue comes first, and a multipart
  that nobody closed is closed;
- the error of a stream that is not yet being read has no listener: its literal never
  ends, and with it the FETCH (Node 13, `package.json:48`). `FetchSettles` excepts it:
  it is about errors that are heard;
- a client that does not read, or a connection that goes away in a literal, leaves the
  promise of `streamDataResponse` waiting for the stream's end (`imapConnection.ts:325`),
  and the FETCH with it. `FetchSettles` is about clients that read.

## 3. The runs

The types are checked as a conjunct of one invariant of each run (`IInv`,
`RegistrySound`, `HookAnsweredLast`, `OneVerdict`, `NothingTwice`, `AccountsWhole`,
`FlagsRight`). `CHECK_DEADLOCK FALSE`
everywhere: clients and senders may stop at any time, and a run's inputs are
finite, so every model legitimately ends.

| Run | Module / cfg | Instance | Shows |
|---|---|---|---|
| saving | `MCMessageTX` / `MessageTX.cfg` | 2 clients; 4 mails: one outbound, two replies that meet in its thread, one of them to both people, and one with a single reference header; 3 mailboxes of 2 people | the inductive invariant `IInv`, `CountersMatch`, `OwnUidsDistinct`, `CommittedIsAnnounced`, `OkMeansStored`, `NoLostUpdate`, `ThreadsMatchMessages`, that saving implements `MailboxStore` and `MailFeed`, and `EveryMailAnswered` |
| imap_sequential | `MCImapServer` / `ImapServer.cfg` | 2 connections, 2 users, 2 mailboxes, 1 copy arriving, clients that wait | `FetchReadsSelected`, `RegistrySound`, `NoNoticeDropped`, `FollowsRfc3501` |
| imap_overlap | `MCImapServer` / `ImapServerOverlap.cfg` | 1 connection with two commands in flight, 2 users with a mailbox each, an outgoing copy (two notices), Redis losing notices | `OwnMailboxesOnly`, `SelectedIsUsable`, `CommandsEnd`, `ClosingEnds` |
| smtp | `SmtpRoundTrip` | 2 parts; 2 addresses, one with a `*`; one domain, this server's; 2 retries | `HookAnsweredLast`, `OkMeansWhole`, `RecipientsServed`, `ToldAsQueued`, `OneVerdict`, `CopiesAgree`, `DeliveredMeansStored`, `MailSettles` |
| fetch | `MCFetchMessage` / `FetchMessage.cfg` | any 4 symbols, and some forty longer commands with sections and partials, of one item or two; mails of one to three levels, empty parts, preambles, epilogues, missing ends, attachments stored raw or decoded | `ParsedAsTyped`, `LiteralAsAnnounced`, `MailAsStored`, `FetchSettles` |
| framing | `MCStreamHandler` / `StreamHandler.cfg` | a careful session of five commands with up to three literals, and an adverse one: pipelining, any cut, an empty literal, a line over the limit | `ExtractedAsSent`, `AllExtracted`, `NothingTwice` |
| accounts | `MCAccountSetup` / `AccountSetup.cfg` | 2 workers over an empty database, 2 requests for one username, one crash, failure or lost answer | `AccountsWhole`, `SuccessMeansStored`, `DefaultsOnce`, `WorkersStart` |
| paging | `MCMailboxPages` / `MailboxPages.cfg` | 4 messages, 4 dates, several limits | `NothingSkipped`, `FlagsRight`, `BackAndForth` |

### 3.1 Runs that show the code and its documentation disagree

| Run | Property, and what it quotes | What the code does |
|---|---|---|
| unique_uids | `UniqueUids`: `src/Specs.md:220`, UID is the "Unique Identifier to be used by IMAP server" | two saves that overlap between `Lookup` and `Begin` use one `uidNext` (`grpcPlugin.ts:308`) |
| imap_sequence | `SequenceIsMailbox`: `imapv4/types.ts:168`, "an ordered list of uids of all messages in the mailbox" | the shortest case: a notice that arrives during SELECT is ignored (`imapConnection.ts:92`), after the message list was read and before it is used. Other ways to violate it, met while modelling: a notice of a transaction that then aborts; notices pushed in the order they arrive (`imapConnection.ts:118`, against `utils.ts:46`); notices queued for one mailbox and applied to the next (`imapConnection.ts:277`) |
| attachment_map | `PartsKeepTheirFiles`: `bizgaze.js:165-166` | parts whose uploads end out of order get each other's files (`bizgaze.js:157`) |
| framing_cut | `CorrectlyExtracts`: `streamHandler.ts:14-15` | a literal that ends where a chunk ends is never ended (`streamHandler.ts:89`) |

### 3.2 Bounds, and why they are enough

- *Two clients* for saving: every conflict is between two transactions, and the
  rules for a third are those for a second. Four mails give two updates of one
  thread plus its opener and an unrelated mail. The proofs of section 4 remove the
  bound for safety.
- *Two connections* for the registry: one user's and another's, or two of
  one user. *Two tags* for overlaps: each hazard is one command's stretch between
  another's two. One copy of a mail is enough for every notice to be before, during
  and after each step of a SELECT; the outgoing one is announced twice.
- *Two addresses* in an SMTP transaction: a user's, whose check may outlast the hook,
  and a user's with a `*`. Either check may also fail, as that of an address nobody has.
- *One domain* for outbound mail: deliveries share the status list alone, which
  `OneVerdict` and `CopiesAgree` look at per delivery; the proofs are for any number.
  *Two retries*: a first failure, one after a timed out hook, and the one that bounces.
  The attempts they allow store up to three copies, each in time, late or not, and two
  pushes under way at once meet on the Sent copy and on each of them.
- *Four symbols of any kind*: every character in every state of the parser, and the
  two before it that a state looks back at. The typed commands reach what takes more:
  paths, types, partials, lists of items, two literals, a literal inside a string.
- *Mails of up to three levels*: a part before, in and after a nested multipart; bodies
  that are empty, of one line, and of several with blank ones first or last.
- *Two workers*, two requests and few failures: one process ahead and one behind in
  every stretch of start-up and of createNewUser, one of them dying there.
- *Four messages on four dates*: pages of one and two with a page on either side, an
  extra message beyond the limit, late arrivals before and after every page, and
  messages of equal date at a boundary.
- *Two parts*: one upload that ends before the hook and one after it, in both orders
  (three in the run attachment_map).
- *Literals of 1 to 5 symbols* next to lines of 2 to 7, all cuts: every position
  of a chunk's end relative to a line end and to a literal's start, inside and
  end; `MaxLine = 10` is above everything the careful client buffers and below the
  long line.

### 3.3 Fairness

- `MessageTX`: `WF(Progress(p))`. A handler whose await settles is resumed; every
  call of it settles (success, conflict, refusal). Commits whose answers are lost,
  failures and new mail are not promised.
- `ImapServer`: `WF` of a command's next stretch, of the 1.5 s close timer, and of the
  delivery of some notice. Clients promise nothing, not even to read: what ends a
  FETCH that streams (`StreamEnd`) has no fairness, since `SOCKET_TIMEOUT`
  (`imapConnection.ts:79`) is for idle sockets, and a client that does not read can keep
  its own from being idle. So `CommandsEnd` says that a command ends or comes to stream
  a literal, and not that the literal ends.
- `SmtpRoundTrip`: sendMail and the database answer, Haraka runs the hooks of both
  plugins, for no longer than 150 s each, attempts a waiting delivery, and gives up an
  attempt that does not end by itself; the sending side of the transaction goes on
  with the message. No gRPC call has to end, neither an upload nor updateSavedMessage:
  `MailSettles` relies on the hooks' time alone.
- `FetchMessage`: `WF(Streaming)`: while the client reads (stage "sending"), Node passes
  on a stream that has data. The client may stop reading (`StopsReading`) or typing, and
  the database need not answer, so the promise starts with "sending" and is kept by
  "unread" too.
- `StreamHandler`: TCP delivers, and a client that may send goes on.
- `AccountSetup`: `WF` of a worker's start-up (the cluster forks again on every exit)
  and of every step of createNewUser. Crashes and failures are not promised, and
  nobody has to send a request. `WorkersStart` needs no more: a worker refused by
  another's document or transaction exits, and finds the document the next time.
- `MailboxPages` has safety properties only, and no fairness.

### 3.4 What the runs leave open

Some hazards bite in this code whatever a property says; the property next to them
excepts what the code does, and is about the rest:

- a FETCH waits for good for a client that does not read (`CommandsEnd`,
  `FetchSettles`), and for a literal whose stream failed unheard (`FetchSettles`);
- which commands of a client that pipelines are executed depends on how TCP cuts them:
  `ExtractedAsSent` and `AllExtracted` are about clients that wait, `NothingTwice` about
  all;
- partials beyond the text that the options leave, and partials over attachments, are
  announced with a length they do not get (`LiteralAsAnnounced` excepts them), and no
  property says what text a query gets after another one's partial;
- a literal announced inside a quoted string is taken for one (`ParsedAsTyped`);
- a notice that Redis loses is missing for good;
- pages of messages with one date may be cut in any way (`NothingSkipped`, `FlagsRight`);
- a check, a status or a save that takes effect after Haraka's time-out: the properties
  bound what it can do (`RecipientsServed`, `OneVerdict`, `CopiesAgree`), and do not say
  that it does nothing.

## 4. Proofs

`MessageTXProofs` proves, for any sets of clients, mails, mailboxes and headers
that satisfy the four assumptions of `MessageTX` (an outbound mail has both
reference headers or none and one mailbox; sentinels and document identities are
distinct): `Invariance` (`IInv`) and from it `TypeCorrect`, `CountersCorrect`,
`UidsBounded`, `SequentialUidsDistinct`, `UpdatesSurvive`, `StoredIsAnnounced`,
`ThreadsCorrect`, `OkCorrect`; `Refinement`, that saving implements `MailboxStore`;
and `FeedRefinement`, that it implements `MailFeed`, the source of mails and notices
that `ImapServer` is composed with.

The argument. None of the properties is inductive: that counters match, for
example, depends on a transaction's commit computing from the *current* counters
although it reads its snapshot. `IInv` adds what makes it so:

- `WriteSets` and `Snapshots` are snapshot isolation: a document that is not stale
  is in the snapshot as it is in the store, a written document is not stale, and
  no two open transactions have written the same. They give the main lemma,
  `ApplyEffect`: a commit bumps exactly its mailbox's current counters and adds
  exactly its references to its thread's current ones.
- `HandledOnce`: a mail is handled by one client, and stored at most once per
  mailbox, so a commit adds a message that was not there.
- `SnapBounds`: the counters a handler carries lie between its own last message's
  UID and the mailbox's current `uidNext`. This is all that is left of UID
  uniqueness, and gives `UidBounds` and `OwnUidsDistinct`.
- `ThreadOwners`: a transaction writes one thread, an existing one or its own.
- `Remaining`: a recipient is still to come, being saved, or served; with
  `left = {}` at the answer this is `OkMeansStored`.
- `Announced`: the notice precedes the commit.

`FeedRefinement` needs `Filed` beside it (`FeedInv`): every message went to a recipient
of its mail, and what outboundMessage announces once more is a stored copy with the
UID its handler still carries. Without that, the second notice of a mail would be one
that no step of the feed makes.

The proof that a step preserves `IInv` goes action by action, and conjunct by
conjunct where the action disturbs it.

`SmtpRoundTripProofs` proves, for any number of MIME parts,
any addresses (known ones, ones with a wildcard), any finite set of domains and any
number of retries, the properties of a mail's way through the two Haraka plugins. The
assumptions are that these sets are finite, that wild and known addresses are
addresses, that the sender's own report (`"sender"`) is not a domain, that Haraka
retries at least once, and that this server's domain is one of them. It begins with
one SMTP transaction by itself (`UploadSafe`) and takes the step lemmas over to the
composition, where `Disconnect` leads back to the initial state of a transaction
(`UploadInvAgain`) and every other step of `Receive` is one of the transaction's, and
proves `HookAnswered`, `MailsWhole`, `RecipientsCorrect`, `SenderTold`,
`VerdictsCorrect`, `DeliveriesStored` and `CopiesCorrect`. `RoundTripInv` is made of:

- `Counted`: `todo_count` is the number of uploads that run. It is why exactly the last
  one that ends calls `next()` (`LastEnds`): the count is 0 only when the set is empty.
- `Filed`: an attachment belongs to one upload that ended well, no two to the same; as
  many attachments as parts are then all the parts' (a counting argument, `PartSets`).
- `Waits`: which uploads have begun and ended in each phase, and that an answer given
  means that the hook waited for one.
- `Served`: accepted addresses are targets, the others among the targets were answered
  before their check ended, and the count an upload was given lies between the two.
- `SenderKnows` ties `request` (what outboundMessage is about to answer) to `submission`
  (what Haraka has): no delivery moves before the mail is relayed.
- `Ends`, `Once`, `Punctual`: a delivery is deferred at most once, and never both delivered
  and bounced; no status is twice in one document; and where no hook timed out one stage
  at most is reported, at which the delivery stands or has ended. They are about what is
  `Reported`: on the Sent copy, on any other, or still in a call. That is why it does not
  matter which documents a push reaches, in which order, or whether it reaches them all
  (`CallMoves`: a call reports nothing that was not reported before). `Once` compares
  each document with `pushed` (`OnceOn`): a call that is under way has not updated a
  document without its status. Together they bound a delivery's statuses: two different
  ones of three of which two exclude each other (`TwoAtMost`); and they give
  `CopiesCorrect`, since every status of every document is one that was reported
  (`StatusesAreReports`).
- `Kept`: a transaction that answered ok, or a delivery reported by this server's domain,
  has a stored copy.

`AccountSetupProofs` proves, for any workers, requests, usernames, default documents and
number of failures, `AccountsCorrect`, `SuccessCorrect` and `DefaultsCorrect`. The
assumptions: roles, privileges and resources have at least one default document each and
no two equal ones, the roles are the three of the code, workers and requests differ, and
the super admin's and every asked-for name are usernames. `AccountInv` adds:

- `Written`: what a transaction has written, by where it stands, so that a commit writes
  all the parts at once and an abort none.
- `Alone`: a username is held by one stored account or one open transaction that has
  written it. The unique index and the write conflict between open transactions are
  needed for the same conjunct: with the index alone two transactions could both write.
- `Cached`, `Saving`: a worker has cached, of every collection before the one it is at,
  documents that are stored; and what it saves is stored already or still to be saved. The
  accesses are saved for the *cached* roles, which is why `Cached` is needed for
  "an access only for a stored role".

`ImapServerProofs` proves, for any connections, users and mailboxes, finitely many copies
of mails, and *any* `Pipeline`, the tags a client keeps outstanding, `RegistryCorrect`,
`MailboxesOwned`, `SelectedCorrect` and `NoticesNotDropped`. `ServerInv` is `Shape`
(`TypeOK` but for the order of a message sequence) and, for each connection,

- `Owned`: every session object login ever made, the one `conn.session` points at or one a
  running command still holds, keeps to mailboxes of its user. A SELECT resumes with the
  session it *started* with, so the current one alone is not enough; and once it has found
  its mailbox that session has one, which is what makes the state SELECTED usable.
- `Usable`: what `SelectedIsUsable` says.
- `Young`: until it closes a connection makes one session at most, because `setSession`
  ignores a second. So overlapping logins leave it under the user it is registered for,
  and what it has heard of or fetches is that user's.

`NoticesNotDropped` adds `CountedInv`: what is selected is a sequence of UIDs, and a SELECT
has read finitely many of them. The lemma `Listing` shows that the ordered sequence of
such a set exists, so that `Ascending`, which takes it by CHOOSE, is what SELECT read.

`StatesFollowed`: if no client has two tags outstanding (`Waiting`)
the server implements `ImapStates`. `InTurn` says that a command then runs alone and finds
the state as it left it: nothing logs in twice, and a SELECT resumes with the current
session. `FetchCorrect` says under the same condition that a FETCH reads the mailbox the
client has selected; `SyncedInv` ties `session.mailbox` to `selectedMailbox.name` wherever
no SELECT is between the two assignments, and a FETCH to one mailbox from its first
stretch to its last. It has `TypeOK` as a consequence. `Waiting` is needed: of two overlapping commands a LOGOUT may be followed by the
end of a SELECT, which sets the state back to SELECTED.

`MailboxPagesProofs` proves, for finitely many messages, any dates up to any bound, any
limits and a `None` that is neither a date nor a page, `NothingIsSkipped`, `FlagsCorrect`
and `BackIsBack`. `PagesInv` says of the page that is shown, and of the one left for it:

- `Listing`: it lists messages of the mailbox as it was read, each once, in order, and
  its cursors are the dates of its ends. This holds for any dates.
- `Complete`, where all dates are distinct: every other message is beyond one of the
  ends, and the flags say beyond which there are any.
- `Walk`: of what was there at the first page, everything down to the end of this page
  has been listed, or a message of its date has. The exception is what `paginate.ts`
  loses, since the next page asks for dates *before* the cursor.
- `Follows`: what is later than this page is what was not earlier than the end of the
  page before. It speaks of the mailbox as this page was read from it, so that mail stored
  later does not disturb it.

`BackIsBack` is an action property: the page that comes back is the one that was left.
Both end at the same message (`SameEnd`), have as many messages, and one order by
distinct dates leaves one sequence (`OneOrder`).

`StreamHandlerProofs` proves, for any sessions and any MAX_LINE_LENGTH, `Extracted` and
`UsedOnce`, with an invariant each:

- `LockstepInv`, of careful clients: either nothing is on its way and the server waits
  for exactly the line that the client sends next (`AtRest`), or the client waits and the
  server has read the first c symbols of its last burst, which lie in the literal or in
  the line after it (`Underway`). The commands handed on, the lines and literals so far,
  the chunks, the rest of a line and the missing bytes are each a function of that place.
  It is inductive because the code drops what follows a line's CRLF and a careful client
  has sent nothing there, and because no chunk ends where a literal does: a literal
  that has come in full ends only with the next byte, with `expected` at 0 meanwhile.
- `OnceInv`, of every session: the commands handed on, the current one, the chunks, and
  what is left and to come of the stream repeat no symbol and share none (`Sound`), and
  all come from bursts before the next one, so that what is sent is new. Every branch of
  read() moves symbols from one of these to another or drops them.

`CommandParserProofs` proves `CommandParsedAsTyped`, that what the parser accepts it has
understood, for inputs of any length over any symbols. The only assumption is that
`MaxInput` is a number. `ParsedAsTyped` speaks of the end of the input alone; the
invariant `Good` says what holds after each character:

- the stack, written out from left to right, is what has been read (`Holding`): of each
  open node its opening mark and the arguments it has so far (`FrameText`), and of the
  current one the characters taken. The numbers of the literals in it are 1 to as many
  as were announced (`Count`).
- the nodes below the top are the root and open lists and sections, and a section stands
  behind a last argument that has none yet (`Fits`, `Nested`), so that closing it puts it
  where it was typed.
- the state says what kind of node is on top (`InLeaf`), and the reader agrees with it
  about being in a string, an escape or a size (`ReadIn`).
- `Behind` says what the last characters mean: after a `]` there is an argument that a
  partial can go to, and the size of a literal is what stands between the braces. So
  where addLine has announced a literal, the parser takes one, and nowhere else.

There is one lemma for each way a node is opened, taken further, left and closed, one for
each state (`NormalStep` and so on), and at the end `AcceptedAsRead`: if all is closed, the
stack is the root alone, or the root and a top that is an atom or the like, and its text
is that of the arguments. Written text is a function of the nesting depth (`Lists`), and
`Deeper` says that more depth changes nothing.

`FetchMessageProofs` proves `FetchParsedAsTyped`, and `LiteralsAnnounced`: for any mails,
with parts nested as deep as they like, any commands, and attachments stored in either
way, a literal is as long as announced. The assumption is that mails are sequences of
lines. `FetchInv` is `ParserInv`, queries whose bounds are numbers, and literals of which
each is right by itself (`LiteralGood`); the steps are short. What is long is that the
operators return what they should, since a size that getLength and a stream that rebuild
computes independently are compared:

- `ParseTyped`: the tree has at most one level more than the mail has lines, so that
  `Emitted` and `Appended` are defined on it (`RebuiltTyped`, `LengthTyped`). The stack of
  nodes of d levels, after i lines, is at most i + 2 - d high (`After`): a node that is
  closed makes the stack lower by one, and its parent higher by at most one level.
- `StreamedTyped`: of a text without attachments exactly the window of the options is
  written. The invariant of the writer is `WindowWritten`: its position is the number of
  pieces so far, and its output as long as what of them is in the window.
- `LimitedLength`: the limiter, which pads, gives what was expected of any stream that
  does not end before it starts.
- `QueryIsTyped`, from the arguments: the bounds of a partial and the path of a section are
  numbers, of whatever digits and full stops the parser let through.

That is what makes getLength and rebuild agree *in length* even where they disagree about
the text (an empty part, section 2.10): the limiter cuts or pads. The exceptions in
`LiteralAsAnnounced` are where it cannot.

Induction over data is needed in many places: a finite set of numbers has an ordered
sequence (`Listing`), a set of messages has only one (`OneOrder`), a recursive function
exists (`WrittenIs`, `NodesIs`, `RunnerExists`) and its values have a type (`TypedRun`). It is
done by the least counterexample, which needs no induction theorem: the library's `WFMin`
takes a relation, not an operator, and gives a set of numbers its least element
(`Least`, `AllNumbers`). The same lemma gives `StreamHandler` the first line end of what it
has read, and `PathEnd` the longest path a section begins with. A recursion over a
sequence is a step function and its runs (`Ran`), which `RunTyped` types once for all.

Only model-checked:

- liveness, which the prover does not reach: `EveryMailAnswered`, `CommandsEnd`,
  `ClosingEnds`, `MailSettles`, `AllExtracted`, `WorkersStart`, `FetchSettles`;
- `MailAsStored`, that a client gets the mail that was stored, line by line. It is stated
  for well-formed mails only, by the parts of the outer multipart, and an induction over
  all of them would need a grammar of mails, which neither the code nor the model has.

## 5. What is not modelled, and why

- Of FETCH: HEADER.FIELDS, MIME, FLAGS, UID and the RFC822 items, ENVELOPE and
  BODYSTRUCTURE, and the text of a response between its literals: no state, and no
  size that is announced apart from the text. Embedded messages (message/rfc822) in a
  mail, and the contents of headers.
- LIST, STATUS, ID and CAPABILITY: they read and answer; to `ImapServer` a NOOP.
- The response codes of the command parser, which no command has.
- The text of answers, addresses and headers; HTTP routes and schemas, and handlers
  that only read; the TLS handshake, logging, configuration, certificates, scripts.
- The background building of MongoDB's unique indexes (see 2.5).
- What Haraka does between hooks, and MongoDB's and Redis' own replication: used
  as external services with the guarantees the code relies on.

## 6. Plan

1. Done: `MessageTX` with `MailboxStore` and `MailFeed`; `ImapServer` and `ImapStates`;
   `AttachmentUpload`, `OutboundDelivery` and their composition `SmtpRoundTrip`;
   `StreamHandler`; `AccountSetup`; `MailboxPages`, all with their proofs; `CommandParser`,
   `MimeTree`, `FetchMessage`.
2. Proofs next: `MailAsStored`, over a grammar of well-formed mails.
3. Then: LIST and STATUS as reads of `ImapServer`'s environment; sequence sets
   (`imapv4/utils.ts`); BODYSTRUCTURE over `MimeTree`.
