------------------------------ MODULE MessageTX ------------------------------
(***************************************************************************)
(* How a mail is stored: the gRPC handler saveInbound (grpcPlugin.ts) and   *)
(* the HTTP handler outboundMessage (messageHandlers.ts) read a mailbox's   *)
(* counters, then call MessageTX.saveEmail, which runs one MongoDB          *)
(* transaction per recipient (transact.ts) that files the mail in a thread, *)
(* bumps the mailbox counters, inserts the message and announces it.        *)
(*                                                                          *)
(* A client is a submitter that waits for one mail's answer before it sends *)
(* the next: an SMTP session, or a browser.  Every `await` of the handlers  *)
(* is a step boundary, so the steps of several clients interleave.          *)
(*                                                                          *)
(* MongoDB (not under src/) is modelled from how the code uses it: reads of *)
(* a transaction see the snapshot of its first read; a write to a document  *)
(* that an open transaction has written, or that was committed after the    *)
(* snapshot, is refused; commit publishes all writes at once.               *)
(***************************************************************************)
EXTENDS Integers, FiniteSets

CONSTANTS
    Client,      \* sequential submitters of mail
    Mail,        \* the mails, one per submission (and per Message-ID)
    Outbound,    \* the mails submitted over HTTP; the others arrive by SMTP
    Mailbox,     \* the Inbox and Sent Mail mailboxes
    AddressOf,   \* the address a mailbox belongs to
    Rcpt,        \* the mailboxes a mail is to be stored in
    Headers,     \* which of In-Reply-To and References a mail carries
    Refs,        \* the mails these headers name
    Subject,     \* the cleaned subject of a mail
    NoSubject,   \* the empty subject
    NoMail, NoBox, NoThread  \* "no value yet"

(* The thread a mail opens in a mailbox is named by the two. *)
ThreadId == Mail \X Mailbox

HeaderKinds == {"none", "one", "both"}

ASSUME MailAssumption ==
    /\ Outbound \subseteq Mail
    /\ Rcpt \in [Mail -> (SUBSET Mailbox) \ {{}}]
    /\ Headers \in [Mail -> HeaderKinds]
    /\ Refs \in [Mail -> SUBSET Mail]
(* outboundMessage sets both headers or neither, and stores one copy. *)
ASSUME OutboundAssumption ==
    \A m \in Outbound : Headers[m] # "one" /\ \E b \in Mailbox : Rcpt[m] = {b}
ASSUME SentinelAssumption ==
    NoMail \notin Mail /\ NoBox \notin Mailbox /\ NoThread \notin ThreadId
(* Documents of the two collections have different identities. *)
ASSUME DocAssumption == Mailbox \cap ThreadId = {}

Counters == [uidNext : Nat, modifyIndex : Nat, total : Nat]
NewBox == [uidNext |-> 1, modifyIndex |-> 0, total |-> 0]
EmptyView == [boxes |-> [b \in Mailbox |-> NewBox],
              threads |-> [t \in ThreadId |-> {}]]

VARIABLES
    pc,        \* where each client's handler stands
    mail,      \* the mail it handles
    left,      \* the recipients it has still to store the mail for
    box,       \* the mailbox it is storing into
    snap,      \* the counters it read outside the transaction
    view,      \* the snapshot its open transaction reads from
    stale,     \* the documents others committed since that snapshot
    wrote,     \* the documents its open transaction has written
    thread,    \* the thread it filed the mail in
    boxes,     \* committed mailbox counters
    threads,   \* committed threads: the references each holds, {} if absent
    messages,  \* committed messages
    notices,   \* notifications published on Redis so far
    reply      \* what the submitter of each mail was told

local == <<mail, left, box, snap, thread>>
store == <<boxes, threads, messages>>
vars == <<pc, mail, left, box, snap, view, stale, wrote, thread,
          boxes, threads, messages, notices, reply>>

InTx == {"thread", "counters", "message", "commit"}
Pcs == {"idle", "lookup", "begin", "notify", "queue"} \cup InTx

Init ==
    /\ pc = [p \in Client |-> "idle"]
    /\ mail = [p \in Client |-> NoMail]
    /\ left = [p \in Client |-> {}]
    /\ box = [p \in Client |-> NoBox]
    /\ snap = [p \in Client |-> NewBox]
    /\ view = [p \in Client |-> EmptyView]
    /\ stale = [p \in Client |-> {}]
    /\ wrote = [p \in Client |-> {}]
    /\ thread = [p \in Client |-> NoThread]
    /\ boxes = EmptyView.boxes
    /\ threads = EmptyView.threads
    /\ messages = {}
    /\ notices = {}
    /\ reply = [m \in Mail |-> "none"]

-----------------------------------------------------------------------------
(* Helpers.  An operator marked Mutant is a bug this code could have had; it  *)
(* stands in for the definition that follows it to show a property can fail. *)

Goto(p, label) == pc' = [pc EXCEPT ![p] = label]

(* newReferenceArray: the mail's own id, and what its headers name when it   *)
(* has both.                                                                *)
NewRefs(m) == {m} \cup (IF Headers[m] = "both" THEN Refs[m] ELSE {})

(* What findThread returns inside the transaction. *)
Matches(p) ==
    {t \in ThreadId :
        /\ AddressOf[t[2]] = AddressOf[box[p]]
        /\ view[p].threads[t] \cap NewRefs(mail[p]) # {}
        /\ Subject[mail[p]] \in {NoSubject, Subject[t[1]]}}

(* MongoDB refuses a transaction's write to d. *)
Conflict(p, d) == d \in stale[p] \/ \E q \in Client \ {p} : d \in wrote[q]

(* Mutant: the $inc leaves uidNext out. *)
BumpWithoutUidNext(c) ==
    [c EXCEPT !.modifyIndex = @ + 1, !.total = @ + 1]

Bump(c) == [uidNext |-> c.uidNext + 1,
            modifyIndex |-> c.modifyIndex + 1,
            total |-> c.total + 1]

(* The IMessage document saveEmail completes: uid and modseq come from the   *)
(* counters the caller read before the transaction began.                   *)
Message(p) == [mail |-> mail[p], box |-> box[p], uid |-> snap[p].uidNext,
               modseq |-> snap[p].modifyIndex + 1,
               thread |-> thread[p], by |-> p]

(* Mutant: the notification is built before modseq is computed. *)
NoticeOldModseq(p, from) ==
    [mail |-> mail[p], box |-> box[p], uid |-> snap[p].uidNext,
     modseq |-> snap[p].modifyIndex, from |-> from]

Notice(p, from) == [mail |-> mail[p], box |-> box[p], uid |-> snap[p].uidNext,
                    modseq |-> snap[p].modifyIndex + 1, from |-> from]

(* The handler answers its submitter and is free for the next mail. *)
Answer(p, r) ==
    /\ reply' = [reply EXCEPT ![mail[p]] = r]
    /\ Goto(p, "idle")
    /\ mail' = [mail EXCEPT ![p] = NoMail]
    /\ left' = [left EXCEPT ![p] = {}]
    /\ box' = [box EXCEPT ![p] = NoBox]
    /\ snap' = [snap EXCEPT ![p] = NewBox]
    /\ thread' = [thread EXCEPT ![p] = NoThread]

-----------------------------------------------------------------------------
(* The handlers, one action per stretch between two awaits *)

Accept(p, m) ==
    /\ pc[p] = "idle"
    /\ reply[m] = "none"
    /\ reply' = [reply EXCEPT ![m] = "open"]
    /\ mail' = [mail EXCEPT ![p] = m]
    /\ left' = [left EXCEPT ![p] = Rcpt[m]]
    /\ Goto(p, "lookup")
    /\ UNCHANGED <<box, snap, view, stale, wrote, thread, store, notices>>

(* findMailboxes, outside any transaction. *)
Lookup(p) ==
    /\ pc[p] = "lookup"
    /\ \E b \in left[p] :
          /\ box' = [box EXCEPT ![p] = b]
          /\ left' = [left EXCEPT ![p] = @ \ {b}]
          /\ snap' = [snap EXCEPT ![p] = boxes[b]]
    /\ Goto(p, "begin")
    /\ UNCHANGED <<mail, view, stale, wrote, thread, store, notices, reply>>

(* Mutant: the transaction reuses the counters read before it began. *)
BeginFromSnap(p) ==
    /\ pc[p] = "begin"
    /\ view' = [view EXCEPT ![p] = [boxes |-> [boxes EXCEPT ![box[p]] = snap[p]],
                                    threads |-> threads]]
    /\ Goto(p, "thread")
    /\ UNCHANGED <<local, stale, wrote, store, notices, reply>>

(* startTransaction; its first read, findUsers, fixes the snapshot. *)
Begin(p) ==
    /\ pc[p] = "begin"
    /\ view' = [view EXCEPT ![p] = [boxes |-> boxes, threads |-> threads]]
    /\ Goto(p, "thread")
    /\ UNCHANGED <<local, stale, wrote, store, notices, reply>>

(* Mutant: createThread is not passed the session. *)
CreateThreadOutside(p) ==
    /\ pc[p] = "thread"
    /\ \/ Headers[mail[p]] = "none"
       \/ Headers[mail[p]] = "both" /\ Matches(p) = {}
    /\ thread' = [thread EXCEPT ![p] = <<mail[p], box[p]>>]
    /\ threads' = [threads EXCEPT ![<<mail[p], box[p]>>] = NewRefs(mail[p])]
    /\ Goto(p, "counters")
    /\ UNCHANGED <<mail, left, box, snap, view, stale, wrote, boxes, messages,
                   notices, reply>>

(* _createOrUpdateThread when there is nothing to look up or nothing found. *)
CreateThread(p) ==
    /\ pc[p] = "thread"
    /\ \/ Headers[mail[p]] = "none"
       \/ Headers[mail[p]] = "both" /\ Matches(p) = {}
    /\ thread' = [thread EXCEPT ![p] = <<mail[p], box[p]>>]
    /\ wrote' = [wrote EXCEPT ![p] = @ \cup {<<mail[p], box[p]>>}]
    /\ Goto(p, "counters")
    /\ UNCHANGED <<mail, left, box, snap, view, stale, store, notices, reply>>

(* Mutant: the $addToSet is written back from an earlier read. *)
UpdateThreadBlind(p) ==
    /\ pc[p] = "thread"
    /\ Headers[mail[p]] = "both"
    /\ \E t \in Matches(p) :
          /\ thread' = [thread EXCEPT ![p] = t]
          /\ wrote' = [wrote EXCEPT ![p] = @ \cup {t}]
    /\ Goto(p, "counters")
    /\ UNCHANGED <<mail, left, box, snap, view, stale, store, notices, reply>>

(* _createOrUpdateThread when findThread returned some threads. *)
UpdateThread(p) ==
    /\ pc[p] = "thread"
    /\ Headers[mail[p]] = "both"
    /\ \E t \in Matches(p) :
          /\ ~ Conflict(p, t)
          /\ thread' = [thread EXCEPT ![p] = t]
          /\ wrote' = [wrote EXCEPT ![p] = @ \cup {t}]
    /\ Goto(p, "counters")
    /\ UNCHANGED <<mail, left, box, snap, view, stale, store, notices, reply>>

(* Mutant: updateMailboxes is not passed the session. *)
UpdateCountersOutside(p) ==
    /\ pc[p] = "counters"
    /\ boxes' = [boxes EXCEPT ![box[p]] = Bump(@)]
    /\ Goto(p, "message")
    /\ UNCHANGED <<local, view, stale, wrote, threads, messages, notices, reply>>

(* Mutant: the counters are set to what was read plus one. *)
UpdateCountersBlind(p) ==
    /\ pc[p] = "counters"
    /\ wrote' = [wrote EXCEPT ![p] = @ \cup {box[p]}]
    /\ Goto(p, "message")
    /\ UNCHANGED <<local, view, stale, store, notices, reply>>

(* The $inc of uidNext, modifyIndex and stats. *)
UpdateCounters(p) ==
    /\ pc[p] = "counters"
    /\ ~ Conflict(p, box[p])
    /\ wrote' = [wrote EXCEPT ![p] = @ \cup {box[p]}]
    /\ Goto(p, "message")
    /\ UNCHANGED <<local, view, stale, store, notices, reply>>

(* Mutant: createMessage is not passed the session. *)
CreateMessageOutside(p) ==
    /\ pc[p] = "message"
    /\ messages' = messages \cup {Message(p)}
    /\ notices' = notices \cup {Notice(p, "transaction")}
    /\ Goto(p, "commit")
    /\ UNCHANGED <<local, view, stale, wrote, boxes, threads, reply>>

(* createMessage, then notifyNewMessage before the transaction commits. *)
CreateMessage(p) ==
    /\ pc[p] = "message"
    /\ notices' = notices \cup {Notice(p, "transaction")}
    /\ Goto(p, "commit")
    /\ UNCHANGED <<local, view, stale, wrote, store, reply>>

(* What commitTransaction makes visible. *)
Apply(p) ==
    /\ boxes' = [b \in Mailbox |->
                    IF b \in wrote[p] THEN Bump(view[p].boxes[b]) ELSE boxes[b]]
    /\ threads' = [t \in ThreadId |->
                      IF t \in wrote[p]
                      THEN view[p].threads[t] \cup NewRefs(mail[p])
                      ELSE threads[t]]
    /\ messages' = messages \cup {Message(p)}
    /\ stale' = [q \in Client |->
                    IF q # p /\ pc[q] \in InTx THEN stale[q] \cup wrote[p] ELSE {}]
    /\ view' = [view EXCEPT ![p] = EmptyView]
    /\ wrote' = [wrote EXCEPT ![p] = {}]

(* Nothing the transaction wrote survives. *)
Discard(p) ==
    /\ stale' = [stale EXCEPT ![p] = {}]
    /\ view' = [view EXCEPT ![p] = EmptyView]
    /\ wrote' = [wrote EXCEPT ![p] = {}]
    /\ UNCHANGED store

(* Mutant: saveInbound answers inside its loop over the recipients. *)
CommitAnswersEarly(p) ==
    /\ pc[p] = "commit"
    /\ Apply(p)
    /\ \/ mail[p] \in Outbound /\ Goto(p, "notify") /\ UNCHANGED <<local, reply>>
       \/ mail[p] \notin Outbound /\ Answer(p, "ok")
    /\ UNCHANGED notices

(* commitTransaction returns: the next recipient, the outbound handler's own *)
(* tail, or the answer.                                                      *)
Commit(p) ==
    /\ pc[p] = "commit"
    /\ Apply(p)
    /\ \/ /\ mail[p] \in Outbound
          /\ Goto(p, "notify")
          /\ UNCHANGED <<local, reply>>
       \/ /\ mail[p] \notin Outbound
          /\ left[p] # {}
          /\ Goto(p, "lookup")
          /\ UNCHANGED <<local, reply>>
       \/ /\ mail[p] \notin Outbound
          /\ left[p] = {}
          /\ Answer(p, "ok")
    /\ UNCHANGED notices

(* The commit takes effect but its caller gets an error (a lost answer). *)
CommitLost(p) ==
    /\ pc[p] = "commit"
    /\ Apply(p)
    /\ Answer(p, "deny")
    /\ UNCHANGED notices

(* outboundMessage announces the message a second time. *)
NotifyAgain(p) ==
    /\ pc[p] = "notify"
    /\ notices' = notices \cup {Notice(p, "handler")}
    /\ Goto(p, "queue")
    /\ UNCHANGED <<local, view, stale, wrote, store, reply>>

(* sendMail; the answer is 200 whether or not the mail could be queued. *)
Queue(p) ==
    /\ pc[p] = "queue"
    /\ Answer(p, "ok")
    /\ UNCHANGED <<view, stale, wrote, store, notices>>

(* Mutant: a refused counter update is neither retried nor reported. *)
WriteConflictSwallowed(p) ==
    /\ pc[p] = "thread"
    /\ Headers[mail[p]] = "both"
    /\ \E t \in Matches(p) : Conflict(p, t)
    /\ Discard(p)
    /\ Answer(p, "deny")
    /\ UNCHANGED notices

(* saveEmail's own failures: a refused write, and a mail with only one of    *)
(* the two reference headers, for which existingThread is undefined.  There  *)
(* is no retry.                                                              *)
WriteConflict(p) ==
    /\ \/ pc[p] = "counters" /\ Conflict(p, box[p])
       \/ /\ pc[p] = "thread"
          /\ Headers[mail[p]] = "both"
          /\ \E t \in Matches(p) : Conflict(p, t)
    /\ Discard(p)
    /\ Answer(p, "deny")
    /\ UNCHANGED notices

NoExistingThread(p) ==
    /\ pc[p] = "thread"
    /\ Headers[mail[p]] = "one"
    /\ Discard(p)
    /\ Answer(p, "deny")
    /\ UNCHANGED notices

(* Any awaited call rejects, or the server process goes away. *)
Fail(p) ==
    /\ pc[p] # "idle"
    /\ Discard(p)
    /\ Answer(p, "deny")
    /\ UNCHANGED notices

Progress(p) ==
    \/ Lookup(p)
    \/ Begin(p)
    \/ CreateThread(p)
    \/ UpdateThread(p)
    \/ UpdateCounters(p)
    \/ CreateMessage(p)
    \/ Commit(p)
    \/ NotifyAgain(p)
    \/ Queue(p)
    \/ WriteConflict(p)
    \/ NoExistingThread(p)

Next == \E p \in Client :
    \/ \E m \in Mail : Accept(p, m)
    \/ Progress(p)
    \/ CommitLost(p)
    \/ Fail(p)

(* A handler that runs is resumed after each await that settles; new mail,   *)
(* lost answers and failures are never promised.                            *)
Fairness == \A p \in Client : WF_vars(Progress(p))

Spec == Init /\ [][Next]_vars /\ Fairness

-----------------------------------------------------------------------------
(* Properties *)

NoticeSet == [mail : Mail, box : Mailbox, uid : Nat, modseq : Nat,
              from : {"transaction", "handler"}]
MessageSet == [mail : Mail, box : Mailbox, uid : Nat, modseq : Nat,
               thread : ThreadId, by : Client]

(* Every variable keeps its type. *)
TypeOK ==
    /\ pc \in [Client -> Pcs]
    /\ mail \in [Client -> Mail \cup {NoMail}]
    /\ left \in [Client -> SUBSET Mailbox]
    /\ box \in [Client -> Mailbox \cup {NoBox}]
    /\ snap \in [Client -> Counters]
    /\ view \in [Client -> [boxes : [Mailbox -> Counters],
                            threads : [ThreadId -> SUBSET Mail]]]
    /\ stale \in [Client -> SUBSET (Mailbox \cup ThreadId)]
    /\ wrote \in [Client -> SUBSET (Mailbox \cup ThreadId)]
    /\ thread \in [Client -> ThreadId \cup {NoThread}]
    /\ boxes \in [Mailbox -> Counters]
    /\ threads \in [ThreadId -> SUBSET Mail]
    /\ messages \in SUBSET MessageSet
    /\ notices \in SUBSET NoticeSet
    /\ reply \in [Mail -> {"none", "open", "ok", "deny"}]

(* A mailbox's counters say how many messages it holds, whatever failed,     *)
(* conflicted or lost its answer in saveEmail's transactions.                *)
CountersMatch ==
    \A b \in Mailbox :
        /\ boxes[b].total = Cardinality({d \in messages : d.box = b})
        /\ boxes[b].uidNext = boxes[b].total + 1
        /\ boxes[b].modifyIndex = boxes[b].total

(* uidNext stays above every UID in use and modifyIndex covers every modseq, *)
(* although both were read before the transaction that uses them.            *)
UidBounds ==
    \A d \in messages :
        /\ 1 <= d.uid /\ d.uid < boxes[d.box].uidNext
        /\ 1 <= d.modseq /\ d.modseq <= boxes[d.box].modifyIndex

(* Two messages stored by handlers that did not overlap (the same client's)  *)
(* never share a UID.                                                       *)
OwnUidsDistinct ==
    \A d, e \in messages :
        d # e /\ d.by = e.by /\ d.box = e.box => d.uid # e.uid

(* What a transaction has written still has its snapshot's value underneath: *)
(* no $inc or $addToSet of another save is lost at commit.                   *)
NoLostUpdate ==
    \A p \in Client :
        /\ \A b \in Mailbox : b \in wrote[p] => view[p].boxes[b] = boxes[b]
        /\ \A t \in ThreadId : t \in wrote[p] => view[p].threads[t] = threads[t]

(* Every stored message was announced with the UID and modseq it has. *)
CommittedIsAnnounced ==
    \A d \in messages :
        [mail |-> d.mail, box |-> d.box, uid |-> d.uid, modseq |-> d.modseq,
         from |-> "transaction"] \in notices

(* A stored message opened the thread. *)
Opened(t) == \E d \in messages : d.thread = t /\ <<d.mail, d.box>> = t

(* saveEmail's thread bookkeeping and its message commit together: a message *)
(* is referenced by its thread, in its own address, and no thread exists     *)
(* without the message that opened it.                                       *)
ThreadsMatchMessages ==
    /\ \A d \in messages :
          d.mail \in threads[d.thread] /\ AddressOf[d.thread[2]] = AddressOf[d.box]
    /\ \A t \in ThreadId : threads[t] # {} => Opened(t)

Stored(m, b) == \E d \in messages : d.mail = m /\ d.box = b

(* A submitter told "ok" has its mail stored for every recipient. *)
OkMeansStored ==
    \A m \in Mail : reply[m] = "ok" =>
        \A b \in Rcpt[m] : Stored(m, b)

(* Every submitted mail is answered: no conflict, missing thread or failed   *)
(* await leaves the handler waiting.                                         *)
EveryMailAnswered ==
    \A m \in Mail : (reply[m] = "open") ~> (reply[m] \in {"ok", "deny"})

-----------------------------------------------------------------------------
(* The strengthening that makes the invariants inductive *)

Saving == {"begin"} \cup InTx

(* Where a handler stands determines which of its locals hold values. *)
LocalsSet ==
    \A p \in Client :
        /\ pc[p] # "idle" => mail[p] \in Mail
        /\ pc[p] \in Saving => box[p] \in Mailbox /\ box[p] \notin left[p]
        /\ pc[p] \in {"notify", "queue"} => box[p] \in Mailbox
        /\ pc[p] \in InTx \ {"thread"} => thread[p] \in ThreadId

(* Snapshot isolation: what nobody else has committed since the snapshot is   *)
(* as the snapshot has it, and a written document has a single open writer.  *)
WriteSets ==
    \A p \in Client :
        /\ pc[p] \notin InTx => wrote[p] = {} /\ stale[p] = {}
        /\ pc[p] = "thread" => wrote[p] = {}
        /\ \A b \in Mailbox :
              b \in wrote[p] <=> pc[p] \in {"message", "commit"} /\ b = box[p]
        /\ wrote[p] \cap stale[p] = {}
        /\ \A q \in Client \ {p} : wrote[p] \cap wrote[q] = {}

Snapshots ==
    \A p \in Client : pc[p] \in InTx =>
        /\ \A b \in Mailbox \ stale[p] : view[p].boxes[b] = boxes[b]
        /\ \A t \in ThreadId \ stale[p] : view[p].threads[t] = threads[t]

(* A mail is handled once, and stored at most once per mailbox. *)
HandledOnce ==
    /\ \A p \in Client : pc[p] # "idle" => reply[mail[p]] = "open"
    /\ \A p, q \in Client :
          p # q /\ pc[p] # "idle" /\ pc[q] # "idle" => mail[p] # mail[q]
    /\ \A d \in messages : reply[d.mail] # "none"
    /\ \A p \in Client, d \in messages :
          pc[p] # "idle" /\ d.mail = mail[p] =>
              d.box \notin left[p] /\ (pc[p] \in Saving => d.box # box[p])
    /\ \A d, e \in messages : d.mail = e.mail /\ d.box = e.box => d = e

(* The counters a handler carries are some earlier value of the mailbox's,    *)
(* later than all its own messages there.                                    *)
SnapBounds ==
    \A p \in Client : pc[p] \in Saving =>
        /\ snap[p].uidNext = snap[p].modifyIndex + 1
        /\ 1 <= snap[p].uidNext /\ snap[p].uidNext <= boxes[box[p]].uidNext
        /\ \A d \in messages :
              d.by = p /\ d.box = box[p] => d.uid < snap[p].uidNext

(* A transaction writes one thread, the one it files its mail in: a thread    *)
(* that exists, or the mail's own, which nobody else can know of.            *)
ThreadOwners ==
    /\ \A p \in Client, t \in ThreadId :
          /\ view[p].threads[t] # {} \/ t \in stale[p] => Opened(t)
          /\ t \in wrote[p] =>
                /\ pc[p] \in InTx \ {"thread"}
                /\ t = thread[p]
                /\ Opened(t) \/ t = <<mail[p], box[p]>>
    /\ \A p \in Client : pc[p] \in InTx \ {"thread"} =>
          thread[p] \in wrote[p] /\ AddressOf[thread[p][2]] = AddressOf[box[p]]

(* Each recipient is still to be saved, being saved, or has its copy. *)
Remaining ==
    \A p \in Client : pc[p] # "idle" =>
        /\ left[p] \subseteq Rcpt[mail[p]]
        /\ pc[p] \in Saving => box[p] \in Rcpt[mail[p]]
        /\ pc[p] \in {"notify", "queue"} => left[p] = {}
        /\ \A b \in Rcpt[mail[p]] :
              \/ b \in left[p]
              \/ pc[p] \in Saving /\ b = box[p]
              \/ Stored(mail[p], b)

Announced ==
    \A p \in Client : pc[p] = "commit" => Notice(p, "transaction") \in notices

IInv ==
    /\ TypeOK
    /\ IsFiniteSet(messages)
    /\ LocalsSet
    /\ WriteSets
    /\ Snapshots
    /\ HandledOnce
    /\ CountersMatch
    /\ UidBounds
    /\ SnapBounds
    /\ OwnUidsDistinct
    /\ Announced
    /\ CommittedIsAnnounced
    /\ ThreadOwners
    /\ ThreadsMatchMessages
    /\ Remaining
    /\ OkMeansStored

-----------------------------------------------------------------------------
(* What the documents claim and the code does not keep *)

(* Specs.md:220: "Unique Identifier to be used by IMAP server". *)
UniqueUids ==
    \A d, e \in messages : d # e /\ d.box = e.box => d.uid # e.uid

-----------------------------------------------------------------------------
(* saveEmail implements an atomic mailbox store *)

Abstract == INSTANCE MailboxStore WITH
    messages <- {[mail |-> d.mail, box |-> d.box, uid |-> d.uid,
                  modseq |-> d.modseq] : d \in messages}

ImplementsStore == Abstract!Spec

(* saveEmail is the mail feed the IMAP server listens to: a copy's UID is one *)
(* more than the number of messages its mailbox had when its counters were   *)
(* read, copies of one mailbox are announced one at a time, and a notice     *)
(* precedes what it announces.                                              *)
SavingCopy(i) ==
    {p \in Client : pc[p] \in Saving /\ mail[p] = i[1] /\ box[p] = i[2]}

Stage(i) ==
    IF Stored(i[1], i[2])
    THEN [at |-> "stored",
          uid |-> (CHOOSE d \in messages : d.mail = i[1] /\ d.box = i[2]).uid]
    ELSE IF SavingCopy(i) # {}
    THEN LET p == CHOOSE p \in SavingCopy(i) : TRUE
         IN  [at |-> IF pc[p] = "commit" THEN "announced" ELSE "read",
              uid |-> snap[p].uidNext]
    ELSE [at |-> "none", uid |-> 0]

Copies == UNION {{m} \X Rcpt[m] : m \in Mail}

Feed == INSTANCE MailFeed WITH
    Copy <- Copies,
    BoxOf <- [i \in Copies |-> i[2]],
    Outgoing <- {i \in Copies : i[1] \in Outbound},
    stage <- [i \in Copies |-> Stage(i)],
    published <- {[copy |-> <<n.mail, n.box>>, uid |-> n.uid, from |-> n.from]
                    : n \in notices}

ImplementsFeed == Feed!FeedSpec
=============================================================================
