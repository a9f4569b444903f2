--------------------------- MODULE MessageTXProofs ---------------------------
(***************************************************************************)
(* Theorems about MessageTX, for every set of clients, mails and mailboxes. *)
(* IInv is the inductive invariant; each of its parts has a lemma, by cases *)
(* on the step, and each theorem is read off it.                            *)
(***************************************************************************)
EXTENDS MessageTX, TLAPS, FiniteSetTheorems, FunctionTheorems

-----------------------------------------------------------------------------
(* Operators *)

(* A mail and a mailbox name a thread. *)
LEMMA NewThreadId == ASSUME NEW m \in Mail, NEW b \in Mailbox PROVE <<m, b>> \in ThreadId
  BY DEF ThreadId

(* The reference array of a mail names mails. *)
LEMMA NewRefsType == ASSUME NEW m \in Mail PROVE NewRefs(m) \in SUBSET Mail
  BY MailAssumption DEF NewRefs

(* What createMessage is about to insert is a message. *)
LEMMA MessageType ==
  ASSUME TypeOK, LocalsSet, NEW p \in Client, pc[p] = "commit"
  PROVE  Message(p) \in MessageSet
<1>1. mail[p] \in Mail /\ box[p] \in Mailbox /\ thread[p] \in ThreadId
  BY DEF LocalsSet, InTx, Saving
<1>2. snap[p].uidNext \in Nat /\ snap[p].modifyIndex + 1 \in Nat
  BY DEF TypeOK, Counters
<1>3. QED
  BY <1>1, <1>2 DEF Message, MessageSet

(* A commit keeps the types of what it changes. *)
LEMMA ApplyType ==
  ASSUME TypeOK, LocalsSet, NEW p \in Client, pc[p] = "commit", Apply(p)
  PROVE  /\ view' \in [Client -> [boxes : [Mailbox -> Counters],
                                  threads : [ThreadId -> SUBSET Mail]]]
         /\ stale' \in [Client -> SUBSET (Mailbox \cup ThreadId)]
         /\ wrote' \in [Client -> SUBSET (Mailbox \cup ThreadId)]
         /\ boxes' \in [Mailbox -> Counters]
         /\ threads' \in [ThreadId -> SUBSET Mail]
         /\ messages' \in SUBSET MessageSet
<1>0. EmptyView \in [boxes : [Mailbox -> Counters], threads : [ThreadId -> SUBSET Mail]]
  BY DEF EmptyView, NewBox, Counters
<1>1. mail[p] \in Mail
  BY DEF LocalsSet
<1>2. \A c \in Counters : Bump(c) \in Counters
  BY DEF Counters, Bump
<1>3. messages' \in SUBSET MessageSet
  BY MessageType DEF Apply, TypeOK
<1>4. QED
  BY <1>0, <1>1, <1>2, <1>3, NewRefsType DEF Apply, TypeOK

(* Only a commit changes what is stored. *)
LEMMA StoreUnlessCommit ==
  ASSUME [Next]_vars
  PROVE  UNCHANGED store \/ \E p \in Client : pc[p] = "commit" /\ Apply(p)
  BY DEF Next, Progress, vars, store, Accept, Lookup, Begin, CreateThread, UpdateThread, UpdateCounters, CreateMessage, Commit, NotifyAgain, Queue, WriteConflict, NoExistingThread, CommitLost, Fail, Discard

-----------------------------------------------------------------------------
(* Handlers, their locals and their transactions *)

(* Every step keeps the types. *)
LEMMA TypeStep ==
  ASSUME TypeOK, LocalsSet, [Next]_vars
  PROVE  TypeOK'
<1> USE SentinelAssumption DEF TypeOK, LocalsSet, InTx, Pcs, Saving
<1>1. CASE UNCHANGED vars
  BY <1>1 DEF vars, local, store
<1>2. ASSUME NEW p \in Client, NEW m \in Mail, Accept(p, m)
      PROVE  TypeOK'
  BY <1>2, MailAssumption DEF Accept, Goto, store
<1>3. ASSUME NEW p \in Client, Lookup(p)
      PROVE  TypeOK'
  BY <1>3 DEF Lookup, Goto, store
<1>4. ASSUME NEW p \in Client, Begin(p)
      PROVE  TypeOK'
  BY <1>4 DEF Begin, Goto, local, store
<1>5. ASSUME NEW p \in Client, CreateThread(p)
      PROVE  TypeOK'
  <2>1. <<mail[p], box[p]>> \in ThreadId
    BY <1>5, NewThreadId DEF CreateThread
  <2>2. QED
    BY <1>5, <2>1 DEF CreateThread, Goto, store
<1>6. ASSUME NEW p \in Client, UpdateThread(p)
      PROVE  TypeOK'
  BY <1>6 DEF Matches, UpdateThread, Goto, store
<1>7. ASSUME NEW p \in Client, UpdateCounters(p)
      PROVE  TypeOK'
  BY <1>7 DEF UpdateCounters, Goto, local, store
<1>8. ASSUME NEW p \in Client, CreateMessage(p)
      PROVE  TypeOK'
  BY <1>8 DEF Notice, NoticeSet, Counters, CreateMessage, Goto, local, store
<1>9. ASSUME NEW p \in Client, Commit(p)
      PROVE  TypeOK'
  <2>1. Apply(p) /\ pc[p] = "commit" /\ UNCHANGED notices
    BY <1>9 DEF Commit
  <2>2. pc' \in [Client -> Pcs]
    BY <1>9 DEF Commit, Goto, Answer
  <2>3. /\ mail' \in [Client -> Mail \cup {NoMail}]
        /\ left' \in [Client -> SUBSET Mailbox]
        /\ box' \in [Client -> Mailbox \cup {NoBox}]
        /\ thread' \in [Client -> ThreadId \cup {NoThread}]
    BY <1>9 DEF Commit, Answer, local
  <2>4. snap' \in [Client -> Counters]
    <3>1. NewBox \in Counters
      BY DEF NewBox, Counters
    <3>2. snap' = snap \/ snap' = [snap EXCEPT ![p] = NewBox]
      BY <1>9 DEF Commit, Answer, local
    <3>3. QED
      BY <3>1, <3>2
  <2>5. reply' \in [Mail -> {"none", "open", "ok", "deny"}]
    BY <1>9 DEF Commit, Answer
  <2>6. QED
    BY <2>1, <2>2, <2>3, <2>4, <2>5, ApplyType
<1>10. ASSUME NEW p \in Client, NotifyAgain(p)
      PROVE  TypeOK'
  BY <1>10 DEF Notice, NoticeSet, Counters, NotifyAgain, Goto, local, store
<1>11. ASSUME NEW p \in Client, Queue(p)
      PROVE  TypeOK'
  BY <1>11 DEF EmptyView, NewBox, Counters, Queue, Goto, Answer, store
<1>12. ASSUME NEW p \in Client, WriteConflict(p)
      PROVE  TypeOK'
  BY <1>12 DEF EmptyView, NewBox, Counters, WriteConflict, Goto, Answer, Discard, store
<1>13. ASSUME NEW p \in Client, NoExistingThread(p)
      PROVE  TypeOK'
  BY <1>13 DEF EmptyView, NewBox, Counters, NoExistingThread, Goto, Answer, Discard, store
<1>14. ASSUME NEW p \in Client, CommitLost(p)
      PROVE  TypeOK'
  BY <1>14, ApplyType DEF CommitLost, Goto, Answer, NewBox, Counters
<1>15. ASSUME NEW p \in Client, Fail(p)
      PROVE  TypeOK'
  BY <1>15 DEF EmptyView, NewBox, Counters, Fail, Goto, Answer, Discard, store
<1>16. QED
  BY <1>1, <1>2, <1>3, <1>4, <1>5, <1>6, <1>7, <1>8, <1>9, <1>10, <1>11, <1>12, <1>13, <1>14, <1>15 DEF Next, Progress

(* Every step leaves each handler with the locals its place needs. *)
LEMMA LocalsStep ==
  ASSUME TypeOK, LocalsSet, [Next]_vars
  PROVE  LocalsSet'
<1> USE DEF TypeOK, LocalsSet, InTx, Pcs, Saving
<1>1. CASE UNCHANGED vars
  BY <1>1 DEF vars, local, store
<1>2. ASSUME NEW p \in Client, NEW m \in Mail, Accept(p, m)
      PROVE  LocalsSet'
  BY <1>2 DEF Accept, Goto, store
<1>3. ASSUME NEW p \in Client, Lookup(p)
      PROVE  LocalsSet'
  BY <1>3 DEF Lookup, Goto, store
<1>4. ASSUME NEW p \in Client, Begin(p)
      PROVE  LocalsSet'
  BY <1>4 DEF Begin, Goto, local, store
<1>5. ASSUME NEW p \in Client, CreateThread(p)
      PROVE  LocalsSet'
  BY <1>5, NewThreadId DEF CreateThread, Goto, store
<1>6. ASSUME NEW p \in Client, UpdateThread(p)
      PROVE  LocalsSet'
  BY <1>6 DEF Matches, UpdateThread, Goto, store
<1>7. ASSUME NEW p \in Client, UpdateCounters(p)
      PROVE  LocalsSet'
  BY <1>7 DEF UpdateCounters, Goto, local, store
<1>8. ASSUME NEW p \in Client, CreateMessage(p)
      PROVE  LocalsSet'
  BY <1>8 DEF CreateMessage, Goto, local, store
<1>9. ASSUME NEW p \in Client, Commit(p)
      PROVE  LocalsSet'
  BY <1>9 DEF Commit, Goto, Answer, Apply, local
<1>10. ASSUME NEW p \in Client, NotifyAgain(p)
      PROVE  LocalsSet'
  BY <1>10 DEF NotifyAgain, Goto, local, store
<1>11. ASSUME NEW p \in Client, Queue(p)
      PROVE  LocalsSet'
  BY <1>11 DEF Queue, Goto, Answer, store
<1>12. ASSUME NEW p \in Client, WriteConflict(p)
      PROVE  LocalsSet'
  BY <1>12 DEF WriteConflict, Goto, Answer, Discard, store
<1>13. ASSUME NEW p \in Client, NoExistingThread(p)
      PROVE  LocalsSet'
  BY <1>13 DEF NoExistingThread, Goto, Answer, Discard, store
<1>14. ASSUME NEW p \in Client, CommitLost(p)
      PROVE  LocalsSet'
  BY <1>14 DEF CommitLost, Goto, Answer, Apply
<1>15. ASSUME NEW p \in Client, Fail(p)
      PROVE  LocalsSet'
  BY <1>15 DEF Fail, Goto, Answer, Discard, store
<1>16. QED
  BY <1>1, <1>2, <1>3, <1>4, <1>5, <1>6, <1>7, <1>8, <1>9, <1>10, <1>11, <1>12, <1>13, <1>14, <1>15 DEF Next, Progress

(* Writing one more thread, which no other transaction has touched. *)
LEMMA WriteSetsThread ==
  ASSUME TypeOK, WriteSets, NEW p \in Client, NEW t \in ThreadId,
         pc[p] = "thread", pc' = [pc EXCEPT ![p] = "counters"],
         wrote' = [wrote EXCEPT ![p] = @ \cup {t}], UNCHANGED <<box, stale>>,
         t \notin stale[p], \A q \in Client \ {p} : t \notin wrote[q]
  PROVE  WriteSets'
<1>1. /\ wrote[p] = {} /\ wrote'[p] = {t} /\ pc'[p] = "counters"
      /\ \A q \in Client \ {p} : wrote'[q] = wrote[q] /\ pc'[q] = pc[q]
  BY DEF WriteSets, TypeOK
<1>2. t \notin Mailbox
  BY DocAssumption
<1>3. QED
  BY <1>1, <1>2 DEF WriteSets, InTx

(* An open transaction's writes stay its own. *)
LEMMA WriteSetsStep ==
  ASSUME TypeOK, LocalsSet, HandledOnce, ThreadOwners, WriteSets, [Next]_vars
  PROVE  WriteSets'
<1> USE DocAssumption DEF TypeOK, LocalsSet, WriteSets, InTx, Pcs, Saving, Matches, Conflict
<1>1. CASE UNCHANGED vars
  BY <1>1 DEF vars, local, store
<1>2. ASSUME NEW p \in Client, NEW m \in Mail, Accept(p, m)
      PROVE  WriteSets'
  BY <1>2 DEF Accept, Goto, store
<1>3. ASSUME NEW p \in Client, Lookup(p)
      PROVE  WriteSets'
  BY <1>3 DEF Lookup, Goto, store
<1>4. ASSUME NEW p \in Client, Begin(p)
      PROVE  WriteSets'
  BY <1>4 DEF Begin, Goto, local, store
<1>5. ASSUME NEW p \in Client, CreateThread(p)
      PROVE  WriteSets'
  <2>1. <<mail[p], box[p]>> \in ThreadId
    BY <1>5, NewThreadId DEF CreateThread
  <2>2. /\ \A q \in Client \ {p} : <<mail[p], box[p]>> \notin wrote[q]
        /\ <<mail[p], box[p]>> \notin stale[p]
    <3>1. ~ Opened(<<mail[p], box[p]>>)
      BY <1>5 DEF CreateThread, HandledOnce, Opened
    <3>2. \A q \in Client \ {p} : pc[q] # "idle" => <<mail[p], box[p]>> # <<mail[q], box[q]>>
      BY <1>5 DEF CreateThread, HandledOnce
    <3>3. QED
      BY <2>1, <3>1, <3>2 DEF ThreadOwners
  <2>3. /\ pc[p] = "thread" /\ pc' = [pc EXCEPT ![p] = "counters"]
        /\ wrote' = [wrote EXCEPT ![p] = @ \cup {<<mail[p], box[p]>>}]
        /\ UNCHANGED <<box, stale>>
    BY <1>5 DEF CreateThread, Goto
  <2>4. TypeOK /\ WriteSets
    OBVIOUS
  <2> HIDE DEF TypeOK, WriteSets
  <2>5. QED
    BY <2>1, <2>2, <2>3, <2>4, WriteSetsThread
<1>6. ASSUME NEW p \in Client, UpdateThread(p)
      PROVE  WriteSets'
  BY <1>6 DEF UpdateThread, Goto, store
<1>7. ASSUME NEW p \in Client, UpdateCounters(p)
      PROVE  WriteSets'
  BY <1>7 DEF UpdateCounters, Goto, local, store
<1>8. ASSUME NEW p \in Client, CreateMessage(p)
      PROVE  WriteSets'
  BY <1>8 DEF CreateMessage, Goto, local, store
<1>9. ASSUME NEW p \in Client, Commit(p)
      PROVE  WriteSets'
  BY <1>9 DEF Commit, Goto, Answer, Apply, local
<1>10. ASSUME NEW p \in Client, NotifyAgain(p)
      PROVE  WriteSets'
  BY <1>10 DEF NotifyAgain, Goto, local, store
<1>11. ASSUME NEW p \in Client, Queue(p)
      PROVE  WriteSets'
  BY <1>11 DEF Queue, Goto, Answer, store
<1>12. ASSUME NEW p \in Client, WriteConflict(p)
      PROVE  WriteSets'
  BY <1>12 DEF WriteConflict, Goto, Answer, Discard, store
<1>13. ASSUME NEW p \in Client, NoExistingThread(p)
      PROVE  WriteSets'
  BY <1>13 DEF NoExistingThread, Goto, Answer, Discard, store
<1>14. ASSUME NEW p \in Client, CommitLost(p)
      PROVE  WriteSets'
  BY <1>14 DEF CommitLost, Goto, Answer, Apply
<1>15. ASSUME NEW p \in Client, Fail(p)
      PROVE  WriteSets'
  BY <1>15 DEF Fail, Goto, Answer, Discard, store
<1>16. QED
  BY <1>1, <1>2, <1>3, <1>4, <1>5, <1>6, <1>7, <1>8, <1>9, <1>10, <1>11, <1>12, <1>13, <1>14, <1>15 DEF Next, Progress

(* What nobody committed meanwhile is as each snapshot has it. *)
LEMMA SnapshotsStep ==
  ASSUME TypeOK, LocalsSet, WriteSets, Snapshots, [Next]_vars
  PROVE  Snapshots'
<1> USE DEF TypeOK, LocalsSet, WriteSets, Snapshots, InTx, Pcs
<1>1. CASE UNCHANGED vars
  BY <1>1 DEF vars, local, store
<1>2. ASSUME NEW p \in Client, NEW m \in Mail, Accept(p, m)
      PROVE  Snapshots'
  BY <1>2 DEF Accept, Goto, store
<1>3. ASSUME NEW p \in Client, Lookup(p)
      PROVE  Snapshots'
  BY <1>3 DEF Lookup, Goto, store
<1>4. ASSUME NEW p \in Client, Begin(p)
      PROVE  Snapshots'
  BY <1>4 DEF Begin, Goto, local, store
<1>5. ASSUME NEW p \in Client, CreateThread(p)
      PROVE  Snapshots'
  BY <1>5 DEF CreateThread, Goto, store
<1>6. ASSUME NEW p \in Client, UpdateThread(p)
      PROVE  Snapshots'
  BY <1>6 DEF UpdateThread, Goto, store
<1>7. ASSUME NEW p \in Client, UpdateCounters(p)
      PROVE  Snapshots'
  BY <1>7 DEF UpdateCounters, Goto, local, store
<1>8. ASSUME NEW p \in Client, CreateMessage(p)
      PROVE  Snapshots'
  BY <1>8 DEF CreateMessage, Goto, local, store
<1>9. ASSUME NEW p \in Client, Commit(p)
      PROVE  Snapshots'
  BY <1>9 DEF Commit, Goto, Answer, Apply, local
<1>10. ASSUME NEW p \in Client, NotifyAgain(p)
      PROVE  Snapshots'
  BY <1>10 DEF NotifyAgain, Goto, local, store
<1>11. ASSUME NEW p \in Client, Queue(p)
      PROVE  Snapshots'
  BY <1>11 DEF Queue, Goto, Answer, store
<1>12. ASSUME NEW p \in Client, WriteConflict(p)
      PROVE  Snapshots'
  BY <1>12 DEF WriteConflict, Goto, Answer, Discard, store
<1>13. ASSUME NEW p \in Client, NoExistingThread(p)
      PROVE  Snapshots'
  BY <1>13 DEF NoExistingThread, Goto, Answer, Discard, store
<1>14. ASSUME NEW p \in Client, CommitLost(p)
      PROVE  Snapshots'
  BY <1>14 DEF CommitLost, Goto, Answer, Apply
<1>15. ASSUME NEW p \in Client, Fail(p)
      PROVE  Snapshots'
  BY <1>15 DEF Fail, Goto, Answer, Discard, store
<1>16. QED
  BY <1>1, <1>2, <1>3, <1>4, <1>5, <1>6, <1>7, <1>8, <1>9, <1>10, <1>11, <1>12, <1>13, <1>14, <1>15 DEF Next, Progress

(* A mail is handled by one client and stored once per mailbox. *)
LEMMA HandledStep ==
  ASSUME TypeOK, LocalsSet, HandledOnce, [Next]_vars
  PROVE  HandledOnce'
<1> USE SentinelAssumption DEF Message, TypeOK, LocalsSet, HandledOnce, InTx, Pcs, Saving
<1>1. CASE UNCHANGED vars
  BY <1>1 DEF vars, local, store
<1>2. ASSUME NEW p \in Client, NEW m \in Mail, Accept(p, m)
      PROVE  HandledOnce'
  BY <1>2 DEF Accept, Goto, store
<1>3. ASSUME NEW p \in Client, Lookup(p)
      PROVE  HandledOnce'
  BY <1>3 DEF Lookup, Goto, store
<1>4. ASSUME NEW p \in Client, Begin(p)
      PROVE  HandledOnce'
  BY <1>4 DEF Begin, Goto, local, store
<1>5. ASSUME NEW p \in Client, CreateThread(p)
      PROVE  HandledOnce'
  BY <1>5 DEF CreateThread, Goto, store
<1>6. ASSUME NEW p \in Client, UpdateThread(p)
      PROVE  HandledOnce'
  BY <1>6 DEF UpdateThread, Goto, store
<1>7. ASSUME NEW p \in Client, UpdateCounters(p)
      PROVE  HandledOnce'
  BY <1>7 DEF UpdateCounters, Goto, local, store
<1>8. ASSUME NEW p \in Client, CreateMessage(p)
      PROVE  HandledOnce'
  BY <1>8 DEF CreateMessage, Goto, local, store
<1>9. ASSUME NEW p \in Client, Commit(p)
      PROVE  HandledOnce'
  <2>1. /\ pc[p] = "commit"
        /\ messages' = messages \cup {Message(p)}
    BY <1>9 DEF Commit, Apply
  <2>2. /\ Message(p).mail = mail[p] /\ Message(p).box = box[p]
        /\ box[p] \notin left[p]
        /\ \A d \in messages : d.mail = mail[p] => d.box # box[p]
    BY <2>1
  <2>3. CASE UNCHANGED <<local, reply>> /\ pc'[p] \notin Saving
    <3>1. /\ pc'[p] # "idle" /\ UNCHANGED <<mail, left, box, reply>>
          /\ \A q \in Client \ {p} : pc'[q] = pc[q]
      BY <1>9, <2>3 DEF Commit, Goto, Answer, local
    <3>2. HandledOnce!1' /\ HandledOnce!2' /\ HandledOnce!3'
      BY <2>1, <2>2, <3>1
    <3>3. HandledOnce!4' /\ HandledOnce!5'
      BY <2>1, <2>2, <2>3, <3>1
    <3>4. QED
      BY <3>2, <3>3
  <2>4. CASE Answer(p, "ok")
    BY <2>1, <2>2, <2>4 DEF Goto, Answer
  <2>5. QED
    BY <1>9, <2>3, <2>4 DEF Commit, Goto
<1>10. ASSUME NEW p \in Client, NotifyAgain(p)
      PROVE  HandledOnce'
  BY <1>10 DEF NotifyAgain, Goto, local, store
<1>11. ASSUME NEW p \in Client, Queue(p)
      PROVE  HandledOnce'
  BY <1>11 DEF Queue, Goto, Answer, store
<1>12. ASSUME NEW p \in Client, WriteConflict(p)
      PROVE  HandledOnce'
  BY <1>12 DEF WriteConflict, Goto, Answer, Discard, store
<1>13. ASSUME NEW p \in Client, NoExistingThread(p)
      PROVE  HandledOnce'
  BY <1>13 DEF NoExistingThread, Goto, Answer, Discard, store
<1>14. ASSUME NEW p \in Client, CommitLost(p)
      PROVE  HandledOnce'
  BY <1>14 DEF CommitLost, Goto, Answer, Apply
<1>15. ASSUME NEW p \in Client, Fail(p)
      PROVE  HandledOnce'
  BY <1>15 DEF Fail, Goto, Answer, Discard, store
<1>16. QED
  BY <1>1, <1>2, <1>3, <1>4, <1>5, <1>6, <1>7, <1>8, <1>9, <1>10, <1>11, <1>12, <1>13, <1>14, <1>15 DEF Next, Progress

-----------------------------------------------------------------------------
(* What a commit does to the store *)

(* What a commit does to the store, said without snapshots: it increments the
   counters the mailbox has at that moment, and adds a message that is new.
   This is where first-writer-wins and single handling of a mail are used. *)
LEMMA ApplyEffect ==
  ASSUME TypeOK, LocalsSet, WriteSets, Snapshots, HandledOnce,
         NEW p \in Client, pc[p] = "commit", Apply(p)
  PROVE  /\ box[p] \in Mailbox
         /\ boxes' = [boxes EXCEPT ![box[p]] = Bump(@)]
         /\ messages' = messages \cup {Message(p)}
         /\ \A d \in messages : d.mail # mail[p] \/ d.box # box[p]
<1>1. box[p] \in Mailbox
  BY DEF LocalsSet, InTx, Saving
<1>2. \A b \in Mailbox : b \in wrote[p] <=> b = box[p]
  BY DEF WriteSets
<1>3. view[p].boxes[box[p]] = boxes[box[p]]
  BY <1>1, <1>2 DEF WriteSets, Snapshots, InTx
<1>4. boxes' = [boxes EXCEPT ![box[p]] = Bump(@)]
  BY <1>1, <1>2, <1>3 DEF Apply, TypeOK
<1>5. \A d \in messages : d.mail # mail[p] \/ d.box # box[p]
  BY DEF HandledOnce, InTx, Saving
<1>6. QED
  BY <1>1, <1>4, <1>5 DEF Apply

(* The counters follow the messages through every step. *)
LEMMA CountersStep ==
  ASSUME TypeOK, LocalsSet, WriteSets, Snapshots, HandledOnce,
         IsFiniteSet(messages), CountersMatch, [Next]_vars
  PROVE  IsFiniteSet(messages') /\ CountersMatch'
<1>1. CASE UNCHANGED store
  BY <1>1 DEF store, CountersMatch
<1>2. ASSUME NEW p \in Client, pc[p] = "commit", Apply(p)
      PROVE  IsFiniteSet(messages') /\ CountersMatch'
  <2> DEFINE In(b) == {d \in messages : d.box = b}
             New == Message(p)
  <2>1. /\ box[p] \in Mailbox
        /\ boxes' = [boxes EXCEPT ![box[p]] = Bump(@)]
        /\ messages' = messages \cup {New}
        /\ New \notin messages
        /\ New.box = box[p]
    BY <1>2, ApplyEffect DEF Message
  <2>2. IsFiniteSet(messages')
    BY <2>1, FS_AddElement
  <2>3. SUFFICES ASSUME NEW b \in Mailbox
                 PROVE /\ boxes'[b].total = Cardinality({d \in messages' : d.box = b})
                       /\ boxes'[b].uidNext = boxes'[b].total + 1
                       /\ boxes'[b].modifyIndex = boxes'[b].total
    BY <2>2 DEF CountersMatch
  <2>4. /\ boxes[b] \in Counters
        /\ boxes[b].total = Cardinality(In(b))
        /\ boxes[b].uidNext = boxes[b].total + 1
        /\ boxes[b].modifyIndex = boxes[b].total
    BY DEF CountersMatch, TypeOK
  <2>5. CASE b # box[p]
    <3>1. {d \in messages' : d.box = b} = In(b)
      BY <2>1, <2>5
    <3>2. boxes'[b] = boxes[b]
      BY <2>1, <2>5 DEF TypeOK
    <3>3. QED
      BY <3>1, <3>2, <2>4
  <2>6. CASE b = box[p]
    <3>1. {d \in messages' : d.box = b} = In(b) \cup {New}
      BY <2>1, <2>6
    <3>2. IsFiniteSet(In(b)) /\ New \notin In(b)
      BY <2>1, FS_Subset
    <3>3. Cardinality(In(b) \cup {New}) = Cardinality(In(b)) + 1
      BY <3>2, FS_AddElement
    <3>4. boxes'[b] = Bump(boxes[b])
      BY <2>1, <2>6 DEF TypeOK
    <3>5. /\ boxes'[b].total = boxes[b].total + 1
          /\ boxes'[b].uidNext = boxes[b].uidNext + 1
          /\ boxes'[b].modifyIndex = boxes[b].modifyIndex + 1
      BY <3>4 DEF Bump
    <3>6. QED
      BY <3>1, <3>3, <3>5, <2>4 DEF Counters
  <2>7. QED
    BY <2>5, <2>6
<1>3. QED
  BY <1>1, <1>2, StoreUnlessCommit

(* uidNext and modifyIndex stay ahead of what is stored. *)
LEMMA UidBoundsStep ==
  ASSUME TypeOK, LocalsSet, WriteSets, Snapshots, HandledOnce, CountersMatch,
         UidBounds, SnapBounds, [Next]_vars
  PROVE  UidBounds'
<1>1. CASE UNCHANGED store
  BY <1>1 DEF store, UidBounds
<1>2. ASSUME NEW p \in Client, pc[p] = "commit", Apply(p)
      PROVE  UidBounds'
  <2>1. /\ box[p] \in Mailbox
        /\ boxes' = [boxes EXCEPT ![box[p]] = Bump(@)]
        /\ messages' = messages \cup {Message(p)}
    BY <1>2, ApplyEffect
  <2>2. \A b \in Mailbox :
          /\ boxes[b].uidNext = boxes[b].modifyIndex + 1
          /\ boxes[b].uidNext \in Nat /\ boxes[b].modifyIndex \in Nat
          /\ boxes'[b].uidNext \in Nat /\ boxes'[b].modifyIndex \in Nat
          /\ boxes'[b].uidNext >= boxes[b].uidNext
          /\ boxes'[b].modifyIndex >= boxes[b].modifyIndex
          /\ b = box[p] =>
                /\ boxes'[b].uidNext = boxes[b].uidNext + 1
                /\ boxes'[b].modifyIndex = boxes[b].modifyIndex + 1
    <3>1. \A b \in Mailbox : boxes'[b] = IF b = box[p] THEN Bump(boxes[b]) ELSE boxes[b]
      BY <2>1 DEF TypeOK
    <3>2. \A b \in Mailbox : boxes[b].uidNext \in Nat /\ boxes[b].modifyIndex \in Nat
      BY DEF TypeOK, Counters
    <3>3. \A b \in Mailbox : boxes[b].uidNext = boxes[b].modifyIndex + 1
      BY <3>2 DEF CountersMatch
    <3>4. \A b \in Mailbox :
            /\ b = box[p] => /\ boxes'[b].uidNext = boxes[b].uidNext + 1
                             /\ boxes'[b].modifyIndex = boxes[b].modifyIndex + 1
            /\ b # box[p] => boxes'[b] = boxes[b]
      <4> SUFFICES ASSUME NEW b \in Mailbox
                   PROVE  /\ b = box[p] => /\ boxes'[b].uidNext = boxes[b].uidNext + 1
                                           /\ boxes'[b].modifyIndex = boxes[b].modifyIndex + 1
                          /\ b # box[p] => boxes'[b] = boxes[b]
        OBVIOUS
      <4>1. CASE b = box[p]
        <5>1. boxes'[b] = Bump(boxes[b])
          BY <3>1, <4>1
        <5>2. QED
          BY <4>1, <5>1 DEF Bump
      <4>2. CASE b # box[p]
        BY <3>1, <4>2
      <4>3. QED
        BY <4>1, <4>2
    <3>5. QED
      BY <3>2, <3>3, <3>4
  <2>3. /\ 1 <= snap[p].uidNext /\ snap[p].uidNext <= boxes[box[p]].uidNext
        /\ snap[p].uidNext = snap[p].modifyIndex + 1
        /\ snap[p].uidNext \in Nat /\ snap[p].modifyIndex \in Nat
    BY <1>2 DEF SnapBounds, Saving, InTx, TypeOK, Counters
  <2>4. ASSUME NEW d \in messages
        PROVE  /\ 1 <= d.uid /\ d.uid < boxes'[d.box].uidNext
               /\ 1 <= d.modseq /\ d.modseq <= boxes'[d.box].modifyIndex
    <3>1. d.box \in Mailbox /\ d.uid \in Nat /\ d.modseq \in Nat
      BY DEF TypeOK, MessageSet
    <3>2. /\ 1 <= d.uid /\ d.uid < boxes[d.box].uidNext
          /\ 1 <= d.modseq /\ d.modseq <= boxes[d.box].modifyIndex
      BY DEF UidBounds
    <3>3. /\ boxes[d.box].uidNext \in Nat /\ boxes[d.box].modifyIndex \in Nat
          /\ boxes'[d.box].uidNext \in Nat /\ boxes'[d.box].modifyIndex \in Nat
          /\ boxes'[d.box].uidNext >= boxes[d.box].uidNext
          /\ boxes'[d.box].modifyIndex >= boxes[d.box].modifyIndex
      BY <3>1, <2>2
    <3>4. QED
      BY <3>1, <3>2, <3>3
  <2>5. LET d == Message(p) IN
          /\ 1 <= d.uid /\ d.uid < boxes'[d.box].uidNext
          /\ 1 <= d.modseq /\ d.modseq <= boxes'[d.box].modifyIndex
    <3>1. /\ Message(p).box = box[p]
          /\ Message(p).uid = snap[p].uidNext
          /\ Message(p).modseq = snap[p].modifyIndex + 1
      BY DEF Message
    <3>2. /\ boxes[box[p]].uidNext \in Nat /\ boxes[box[p]].modifyIndex \in Nat
          /\ boxes[box[p]].uidNext = boxes[box[p]].modifyIndex + 1
          /\ boxes'[box[p]].uidNext = boxes[box[p]].uidNext + 1
          /\ boxes'[box[p]].modifyIndex = boxes[box[p]].modifyIndex + 1
      BY <2>1, <2>2
    <3>3. QED
      BY <3>1, <3>2, <2>3
  <2>6. QED
    BY <2>1, <2>4, <2>5 DEF UidBounds
<1>3. QED
  BY <1>1, <1>2, StoreUnlessCommit

(* A commit leaves the other handlers' counters within bounds. *)
LEMMA SnapBoundsApply ==
  ASSUME TypeOK, LocalsSet, WriteSets, Snapshots, HandledOnce, SnapBounds,
         NEW p \in Client, pc[p] = "commit", Apply(p),
         \A q \in Client : pc'[q] \in Saving =>
            q # p /\ pc[q] \in Saving /\ snap'[q] = snap[q] /\ box'[q] = box[q]
  PROVE  SnapBounds'
<1>1. SUFFICES ASSUME NEW q \in Client, q # p, pc[q] \in Saving,
                      snap'[q] = snap[q], box'[q] = box[q]
               PROVE  /\ snap[q].uidNext = snap[q].modifyIndex + 1
                      /\ 1 <= snap[q].uidNext
                      /\ snap[q].uidNext <= boxes'[box[q]].uidNext
                      /\ \A d \in messages' :
                            d.by = q /\ d.box = box[q] => d.uid < snap[q].uidNext
  BY DEF SnapBounds
<1>2. box[q] \in Mailbox /\ boxes[box[q]].uidNext \in Nat
  BY <1>1 DEF LocalsSet, TypeOK, Counters
<1>3. boxes'[box[q]].uidNext \in {boxes[box[q]].uidNext, boxes[box[q]].uidNext + 1}
  <2>1. boxes' = [boxes EXCEPT ![box[p]] = Bump(@)] /\ box[p] \in Mailbox
    BY ApplyEffect
  <2>2. QED
    BY <1>2, <2>1 DEF TypeOK, Bump
<1>4. messages' = messages \cup {Message(p)} /\ Message(p).by = p
  BY ApplyEffect DEF Message
<1>5. /\ snap[q].uidNext = snap[q].modifyIndex + 1
      /\ 1 <= snap[q].uidNext /\ snap[q].uidNext <= boxes[box[q]].uidNext
      /\ snap[q].uidNext \in Nat
      /\ \A d \in messages : d.by = q /\ d.box = box[q] => d.uid < snap[q].uidNext
  BY <1>1 DEF SnapBounds, TypeOK, Counters
<1>6. snap[q].uidNext <= boxes'[box[q]].uidNext
  BY <1>2, <1>3, <1>5
<1>7. QED
  BY <1>1, <1>4, <1>5, <1>6

(* A handler's counters stay between its own messages' UIDs and the mailbox's. *)
LEMMA SnapBoundsStep ==
  ASSUME TypeOK, LocalsSet, WriteSets, Snapshots, HandledOnce,
         CountersMatch, UidBounds, SnapBounds, [Next]_vars
  PROVE  SnapBounds'
<1> USE DEF TypeOK, SnapBounds, InTx, Saving
<1>1. CASE UNCHANGED vars
  BY <1>1 DEF vars, local, store
<1>2. ASSUME NEW p \in Client, NEW m \in Mail, Accept(p, m)
      PROVE  SnapBounds'
  BY <1>2 DEF Accept, Goto, store
<1>3. ASSUME NEW p \in Client, Lookup(p)
      PROVE  SnapBounds'
  <2>1. PICK b \in left[p] : /\ box' = [box EXCEPT ![p] = b]
                             /\ snap' = [snap EXCEPT ![p] = boxes[b]]
    BY <1>3 DEF Lookup
  <2>2. b \in Mailbox /\ boxes[b] \in Counters
    OBVIOUS
  <2>3. /\ boxes[b].uidNext = boxes[b].modifyIndex + 1
        /\ 1 <= boxes[b].uidNext /\ boxes[b].uidNext <= boxes[b].uidNext
    <3>1. /\ boxes[b].uidNext \in Nat /\ boxes[b].total \in Nat
      BY <2>2 DEF Counters
    <3>2. boxes[b].uidNext = boxes[b].total + 1 /\ boxes[b].modifyIndex = boxes[b].total
      BY <2>2 DEF CountersMatch
    <3>3. QED
      BY <3>1, <3>2
  <2>4. \A d \in messages : d.box = b => d.uid < boxes[b].uidNext
    BY <2>2 DEF UidBounds, Counters
  <2>5. UNCHANGED <<boxes, messages>> /\ pc' = [pc EXCEPT ![p] = "begin"]
    BY <1>3 DEF Lookup, Goto, store
  <2>6. QED
    BY <2>1, <2>2, <2>3, <2>4, <2>5
<1>4. ASSUME NEW p \in Client, Begin(p)
      PROVE  SnapBounds'
  BY <1>4 DEF Begin, Goto, local, store
<1>5. ASSUME NEW p \in Client, CreateThread(p)
      PROVE  SnapBounds'
  BY <1>5 DEF CreateThread, Goto, store
<1>6. ASSUME NEW p \in Client, UpdateThread(p)
      PROVE  SnapBounds'
  BY <1>6 DEF UpdateThread, Goto, store
<1>7. ASSUME NEW p \in Client, UpdateCounters(p)
      PROVE  SnapBounds'
  BY <1>7 DEF UpdateCounters, Goto, local, store
<1>8. ASSUME NEW p \in Client, CreateMessage(p)
      PROVE  SnapBounds'
  BY <1>8 DEF CreateMessage, Goto, local, store
<1>9. ASSUME NEW p \in Client, Commit(p)
      PROVE  SnapBounds'
  <2>1. pc[p] = "commit" /\ Apply(p)
    BY <1>9 DEF Commit
  <2>2. \A q \in Client : pc'[q] \in Saving =>
          q # p /\ pc[q] \in Saving /\ snap'[q] = snap[q] /\ box'[q] = box[q]
    BY <1>9 DEF Commit, Goto, Answer, local
  <2>3. QED
    BY <2>1, <2>2, SnapBoundsApply
<1>10. ASSUME NEW p \in Client, NotifyAgain(p)
      PROVE  SnapBounds'
  BY <1>10 DEF NotifyAgain, Goto, local, store
<1>11. ASSUME NEW p \in Client, Queue(p)
      PROVE  SnapBounds'
  BY <1>11 DEF Queue, Goto, Answer, store
<1>12. ASSUME NEW p \in Client, WriteConflict(p)
      PROVE  SnapBounds'
  BY <1>12 DEF WriteConflict, Goto, Answer, Discard, store
<1>13. ASSUME NEW p \in Client, NoExistingThread(p)
      PROVE  SnapBounds'
  BY <1>13 DEF NoExistingThread, Goto, Answer, Discard, store
<1>14. ASSUME NEW p \in Client, CommitLost(p)
      PROVE  SnapBounds'
  <2>1. pc[p] = "commit" /\ Apply(p)
    BY <1>14 DEF CommitLost
  <2>2. \A q \in Client : pc'[q] \in Saving =>
          q # p /\ pc[q] \in Saving /\ snap'[q] = snap[q] /\ box'[q] = box[q]
    BY <1>14 DEF CommitLost, Goto, Answer, local
  <2>3. QED
    BY <2>1, <2>2, SnapBoundsApply
<1>15. ASSUME NEW p \in Client, Fail(p)
      PROVE  SnapBounds'
  BY <1>15 DEF Fail, Goto, Answer, Discard, store
<1>16. QED
  BY <1>1, <1>2, <1>3, <1>4, <1>5, <1>6, <1>7, <1>8, <1>9, <1>10, <1>11, <1>12, <1>13, <1>14, <1>15 DEF Next, Progress

(* A client's own messages in a mailbox have distinct UIDs. *)
LEMMA OwnUidsStep ==
  ASSUME TypeOK, LocalsSet, WriteSets, Snapshots, HandledOnce,
         SnapBounds, OwnUidsDistinct, [Next]_vars
  PROVE  OwnUidsDistinct'
<1>1. CASE UNCHANGED store
  BY <1>1 DEF store, OwnUidsDistinct
<1>2. ASSUME NEW p \in Client, pc[p] = "commit", Apply(p)
      PROVE  OwnUidsDistinct'
  <2>1. messages' = messages \cup {Message(p)}
    BY <1>2, ApplyEffect
  <2>2. \A d \in messages : d.by = p /\ d.box = box[p] => d.uid # snap[p].uidNext
    BY <1>2 DEF SnapBounds, Saving, InTx, TypeOK, MessageSet, Counters
  <2>3. QED
    BY <2>1, <2>2 DEF OwnUidsDistinct, Message
<1>3. QED
  BY <1>1, <1>2, StoreUnlessCommit

(* createMessage announces before it lets the transaction commit. *)
LEMMA AnnouncedStep ==
  ASSUME TypeOK, LocalsSet, Announced, [Next]_vars
  PROVE  Announced'
<1> USE DEF TypeOK, LocalsSet, Announced, Notice
<1>1. CASE UNCHANGED vars
  BY <1>1 DEF vars, local, store
<1>2. ASSUME NEW p \in Client, NEW m \in Mail, Accept(p, m)
      PROVE  Announced'
  BY <1>2 DEF Accept, Goto, store
<1>3. ASSUME NEW p \in Client, Lookup(p)
      PROVE  Announced'
  BY <1>3 DEF Lookup, Goto, store
<1>4. ASSUME NEW p \in Client, Begin(p)
      PROVE  Announced'
  BY <1>4 DEF Begin, Goto, local, store
<1>5. ASSUME NEW p \in Client, CreateThread(p)
      PROVE  Announced'
  BY <1>5 DEF CreateThread, Goto, store
<1>6. ASSUME NEW p \in Client, UpdateThread(p)
      PROVE  Announced'
  BY <1>6 DEF UpdateThread, Goto, store
<1>7. ASSUME NEW p \in Client, UpdateCounters(p)
      PROVE  Announced'
  BY <1>7 DEF UpdateCounters, Goto, local, store
<1>8. ASSUME NEW p \in Client, CreateMessage(p)
      PROVE  Announced'
  BY <1>8 DEF CreateMessage, Goto, local, store
<1>9. ASSUME NEW p \in Client, Commit(p)
      PROVE  Announced'
  BY <1>9 DEF Commit, Goto, Answer, Apply, local
<1>10. ASSUME NEW p \in Client, NotifyAgain(p)
      PROVE  Announced'
  BY <1>10 DEF NotifyAgain, Goto, local, store
<1>11. ASSUME NEW p \in Client, Queue(p)
      PROVE  Announced'
  BY <1>11 DEF Queue, Goto, Answer, store
<1>12. ASSUME NEW p \in Client, WriteConflict(p)
      PROVE  Announced'
  BY <1>12 DEF WriteConflict, Goto, Answer, Discard, store
<1>13. ASSUME NEW p \in Client, NoExistingThread(p)
      PROVE  Announced'
  BY <1>13 DEF NoExistingThread, Goto, Answer, Discard, store
<1>14. ASSUME NEW p \in Client, CommitLost(p)
      PROVE  Announced'
  BY <1>14 DEF CommitLost, Goto, Answer, Apply
<1>15. ASSUME NEW p \in Client, Fail(p)
      PROVE  Announced'
  BY <1>15 DEF Fail, Goto, Answer, Discard, store
<1>16. QED
  BY <1>1, <1>2, <1>3, <1>4, <1>5, <1>6, <1>7, <1>8, <1>9, <1>10, <1>11, <1>12, <1>13, <1>14, <1>15 DEF Next, Progress

(* What a commit stores has been announced. *)
LEMMA CommittedIsAnnouncedStep ==
  ASSUME Announced, CommittedIsAnnounced, [Next]_vars
  PROVE  CommittedIsAnnounced'
<1>1. notices \subseteq notices'
  BY DEF Next, Progress, vars, store, Accept, Lookup, Begin, CreateThread, UpdateThread, UpdateCounters, CreateMessage, Commit, NotifyAgain, Queue, WriteConflict, NoExistingThread, CommitLost, Fail, Discard
<1>2. CASE UNCHANGED store
  BY <1>1, <1>2 DEF store, CommittedIsAnnounced
<1>3. ASSUME NEW p \in Client, pc[p] = "commit", Apply(p)
      PROVE  CommittedIsAnnounced'
  <2>1. messages' = messages \cup {Message(p)}
    BY <1>3 DEF Apply
  <2>2. [mail |-> Message(p).mail, box |-> Message(p).box, uid |-> Message(p).uid,
         modseq |-> Message(p).modseq, from |-> "transaction"] \in notices
    BY <1>3 DEF Announced, Message, Notice
  <2>3. QED
    BY <1>1, <2>1, <2>2 DEF CommittedIsAnnounced
<1>4. QED
  BY <1>2, <1>3, StoreUnlessCommit

-----------------------------------------------------------------------------
(* Threads and recipients *)

(* A thread that was opened stays opened, a stored copy stays stored. *)
LEMMA StoreGrows ==
  ASSUME [Next]_vars
  PROVE  /\ messages \subseteq messages'
         /\ \A t : Opened(t) => Opened(t)'
         /\ \A m, b : Stored(m, b) => Stored(m, b)'
<1>1. messages \subseteq messages'
  BY StoreUnlessCommit DEF store, Apply
<1>2. QED
  BY <1>1 DEF Opened, Stored

(* The open transactions of other clients, after a commit: the committed      *)
(* thread is one that was opened.                                            *)
LEMMA ThreadOwnersApply ==
  ASSUME TypeOK, LocalsSet, WriteSets, ThreadsMatchMessages, ThreadOwners,
         NEW p \in Client, pc[p] = "commit", Apply(p), pc'[p] \notin InTx,
         \A q \in Client \ {p} :
             /\ pc'[q] = pc[q] /\ thread'[q] = thread[q]
             /\ mail'[q] = mail[q] /\ box'[q] = box[q]
  PROVE  ThreadOwners'
<1>1. /\ messages' = messages \cup {Message(p)}
      /\ view' = [view EXCEPT ![p] = EmptyView]
      /\ wrote' = [wrote EXCEPT ![p] = {}]
      /\ stale' = [q \in Client |->
                     IF q # p /\ pc[q] \in InTx THEN stale[q] \cup wrote[p] ELSE {}]
  BY DEF Apply
<1>2. \A t : Opened(t) => Opened(t)'
  BY <1>1 DEF Opened
<1>3. \A t \in ThreadId : t \in wrote[p] => Opened(t)'
  <2> SUFFICES ASSUME NEW t \in ThreadId, t \in wrote[p] PROVE Opened(t)'
    OBVIOUS
  <2>1. t = thread[p] /\ (Opened(t) \/ t = <<mail[p], box[p]>>)
    BY DEF ThreadOwners
  <2>2. CASE t = <<mail[p], box[p]>>
    <3>1. /\ Message(p) \in messages' /\ Message(p).thread = t
          /\ <<Message(p).mail, Message(p).box>> = t
      BY <1>1, <2>1, <2>2 DEF Message
    <3>2. QED
      BY <3>1 DEF Opened
  <2>3. QED
    BY <1>2, <2>1, <2>2
<1>4. ASSUME NEW q \in Client, NEW t \in ThreadId
      PROVE  /\ view'[q].threads[t] # {} \/ t \in stale'[q] => Opened(t)'
             /\ t \in wrote'[q] =>
                  /\ pc'[q] \in InTx \ {"thread"}
                  /\ t = thread'[q]
                  /\ Opened(t)' \/ t = <<mail'[q], box'[q]>>
  <2>1. CASE q = p
    <3>1. view'[p] = EmptyView /\ stale'[p] = {} /\ wrote'[p] = {}
      BY <1>1 DEF TypeOK
    <3>2. QED
      BY <2>1, <3>1 DEF EmptyView
  <2>2. CASE q # p
    <3>1. /\ view'[q] = view[q] /\ wrote'[q] = wrote[q]
          /\ stale'[q] \subseteq stale[q] \cup wrote[p]
      BY <1>1, <2>2 DEF TypeOK
    <3>2. QED
      BY <2>2, <3>1, <1>2, <1>3 DEF ThreadOwners
  <2>3. QED
    BY <2>1, <2>2
<1>5. ASSUME NEW q \in Client, pc'[q] \in InTx \ {"thread"}
      PROVE  thread'[q] \in wrote'[q] /\ AddressOf[thread'[q][2]] = AddressOf[box'[q]]
  BY <1>1, <1>5 DEF ThreadOwners, TypeOK
<1>6. QED
  BY <1>4, <1>5 DEF ThreadOwners

(* And after an abort. *)
LEMMA ThreadOwnersDiscard ==
  ASSUME TypeOK, ThreadOwners, NEW p \in Client, Discard(p), pc'[p] = "idle",
         \A q \in Client \ {p} :
             /\ pc'[q] = pc[q] /\ thread'[q] = thread[q]
             /\ mail'[q] = mail[q] /\ box'[q] = box[q]
  PROVE  ThreadOwners'
<1>1. /\ view'[p] = EmptyView /\ stale'[p] = {} /\ wrote'[p] = {}
      /\ \A q \in Client \ {p} :
            view'[q] = view[q] /\ stale'[q] = stale[q] /\ wrote'[q] = wrote[q]
  BY DEF Discard, TypeOK
<1>2. \A t : Opened(t)' <=> Opened(t)
  BY DEF Discard, store, Opened
<1>3. \A t \in ThreadId : EmptyView.threads[t] = {}
  BY DEF EmptyView
<1>4. QED
  BY <1>1, <1>2, <1>3 DEF ThreadOwners, InTx

(* Nobody writes a thread but one that exists or the mail's own. *)
LEMMA ThreadOwnersStep ==
  ASSUME TypeOK, LocalsSet, WriteSets, ThreadsMatchMessages, ThreadOwners, [Next]_vars
  PROVE  ThreadOwners'
<1> USE DEF TypeOK, LocalsSet, WriteSets, ThreadOwners, Opened, InTx, Pcs, Saving
<1>1. CASE UNCHANGED vars
  BY <1>1 DEF vars, local, store
<1>2. ASSUME NEW p \in Client, NEW m \in Mail, Accept(p, m)
      PROVE  ThreadOwners'
  BY <1>2 DEF Accept, Goto, store
<1>3. ASSUME NEW p \in Client, Lookup(p)
      PROVE  ThreadOwners'
  BY <1>3 DEF Lookup, Goto, store
<1>4. ASSUME NEW p \in Client, Begin(p)
      PROVE  ThreadOwners'
  <2>1. /\ pc[p] = "begin" /\ pc' = [pc EXCEPT ![p] = "thread"]
        /\ view' = [view EXCEPT ![p] = [boxes |-> boxes, threads |-> threads]]
        /\ UNCHANGED <<stale, wrote, messages, mail, box, thread>>
    BY <1>4 DEF Begin, Goto, local, store
  <2>2. view'[p].threads = threads /\ \A q \in Client \ {p} : view'[q] = view[q]
    BY <2>1
  <2>3. \A t \in ThreadId : threads[t] # {} => Opened(t)
    BY DEF ThreadsMatchMessages
  <2>4. QED
    BY <2>1, <2>2, <2>3
<1>5. ASSUME NEW p \in Client, CreateThread(p)
      PROVE  ThreadOwners'
  BY <1>5 DEF CreateThread, Goto, store
<1>6. ASSUME NEW p \in Client, UpdateThread(p)
      PROVE  ThreadOwners'
  <2>1. PICK t \in Matches(p) : /\ thread' = [thread EXCEPT ![p] = t]
                                /\ wrote' = [wrote EXCEPT ![p] = @ \cup {t}]
    BY <1>6 DEF UpdateThread
  <2>2. /\ pc[p] = "thread" /\ pc' = [pc EXCEPT ![p] = "counters"]
        /\ UNCHANGED <<stale, view, messages, mail, box>>
    BY <1>6 DEF UpdateThread, Goto, store
  <2>3. t \in ThreadId /\ Opened(t) /\ AddressOf[t[2]] = AddressOf[box[p]]
    BY DEF Matches
  <2>4. /\ wrote'[p] = {t} /\ thread'[p] = t /\ pc'[p] = "counters"
        /\ \A q \in Client \ {p} :
              wrote'[q] = wrote[q] /\ thread'[q] = thread[q] /\ pc'[q] = pc[q]
    BY <2>1, <2>2
  <2>5. QED
    BY <2>2, <2>3, <2>4
<1>7. ASSUME NEW p \in Client, UpdateCounters(p)
      PROVE  ThreadOwners'
  <2>1. /\ pc[p] = "counters" /\ pc' = [pc EXCEPT ![p] = "message"]
        /\ wrote' = [wrote EXCEPT ![p] = @ \cup {box[p]}]
        /\ UNCHANGED <<stale, view, messages, mail, box, thread>>
    BY <1>7 DEF UpdateCounters, Goto, local, store
  <2>2. \A q \in Client, t \in ThreadId : t \in wrote'[q] <=> t \in wrote[q]
    BY <2>1, DocAssumption
  <2>3. QED
    BY <2>1, <2>2
<1>8. ASSUME NEW p \in Client, CreateMessage(p)
      PROVE  ThreadOwners'
  BY <1>8 DEF CreateMessage, Goto, local, store
<1>9. ASSUME NEW p \in Client, Commit(p)
      PROVE  ThreadOwners'
  <2>1. pc[p] = "commit" /\ Apply(p)
    BY <1>9 DEF Commit
  <2>2. \A q \in Client \ {p} :
            /\ pc'[q] = pc[q] /\ thread'[q] = thread[q]
            /\ mail'[q] = mail[q] /\ box'[q] = box[q]
    BY <1>9 DEF Commit, Goto, Answer, local
  <2>3. pc'[p] \notin InTx
    BY <1>9 DEF Commit, Goto, Answer
  <2>4. QED
    BY <2>1, <2>2, <2>3, ThreadOwnersApply
<1>10. ASSUME NEW p \in Client, NotifyAgain(p)
      PROVE  ThreadOwners'
  BY <1>10 DEF NotifyAgain, Goto, local, store
<1>11. ASSUME NEW p \in Client, Queue(p)
      PROVE  ThreadOwners'
  BY <1>11 DEF Queue, Goto, Answer, store
<1>12. ASSUME NEW p \in Client, WriteConflict(p)
      PROVE  ThreadOwners'
  <2>1. Discard(p)
    BY <1>12 DEF WriteConflict
  <2>2. \A q \in Client \ {p} :
            /\ pc'[q] = pc[q] /\ thread'[q] = thread[q]
            /\ mail'[q] = mail[q] /\ box'[q] = box[q]
    BY <1>12 DEF WriteConflict, Goto, Answer
  <2>3. pc'[p] = "idle"
    BY <1>12 DEF WriteConflict, Goto, Answer
  <2>4. QED
    BY <2>1, <2>2, <2>3, ThreadOwnersDiscard
<1>13. ASSUME NEW p \in Client, NoExistingThread(p)
      PROVE  ThreadOwners'
  <2>1. Discard(p)
    BY <1>13 DEF NoExistingThread
  <2>2. \A q \in Client \ {p} :
            /\ pc'[q] = pc[q] /\ thread'[q] = thread[q]
            /\ mail'[q] = mail[q] /\ box'[q] = box[q]
    BY <1>13 DEF NoExistingThread, Goto, Answer
  <2>3. pc'[p] = "idle"
    BY <1>13 DEF NoExistingThread, Goto, Answer
  <2>4. QED
    BY <2>1, <2>2, <2>3, ThreadOwnersDiscard
<1>14. ASSUME NEW p \in Client, CommitLost(p)
      PROVE  ThreadOwners'
  <2>1. pc[p] = "commit" /\ Apply(p)
    BY <1>14 DEF CommitLost
  <2>2. \A q \in Client \ {p} :
            /\ pc'[q] = pc[q] /\ thread'[q] = thread[q]
            /\ mail'[q] = mail[q] /\ box'[q] = box[q]
    BY <1>14 DEF CommitLost, Goto, Answer, local
  <2>3. pc'[p] \notin InTx
    BY <1>14 DEF CommitLost, Goto, Answer
  <2>4. QED
    BY <2>1, <2>2, <2>3, ThreadOwnersApply
<1>15. ASSUME NEW p \in Client, Fail(p)
      PROVE  ThreadOwners'
  <2>1. Discard(p)
    BY <1>15 DEF Fail
  <2>2. \A q \in Client \ {p} :
            /\ pc'[q] = pc[q] /\ thread'[q] = thread[q]
            /\ mail'[q] = mail[q] /\ box'[q] = box[q]
    BY <1>15 DEF Fail, Goto, Answer
  <2>3. pc'[p] = "idle"
    BY <1>15 DEF Fail, Goto, Answer
  <2>4. QED
    BY <2>1, <2>2, <2>3, ThreadOwnersDiscard
<1>16. QED
  BY <1>1, <1>2, <1>3, <1>4, <1>5, <1>6, <1>7, <1>8, <1>9, <1>10, <1>11, <1>12, <1>13, <1>14, <1>15 DEF Next, Progress

(* Threads and the messages they hold change together. *)
LEMMA ThreadsStep ==
  ASSUME TypeOK, LocalsSet, WriteSets, Snapshots, ThreadOwners,
         ThreadsMatchMessages, [Next]_vars
  PROVE  ThreadsMatchMessages'
<1>1. CASE UNCHANGED store
  BY <1>1 DEF store, ThreadsMatchMessages, Opened
<1>2. ASSUME NEW p \in Client, pc[p] = "commit", Apply(p)
      PROVE  ThreadsMatchMessages'
  <2>1. messages' = messages \cup {Message(p)}
    BY <1>2 DEF Apply
  <2>2. /\ thread[p] \in wrote[p] /\ thread[p] \in ThreadId
        /\ AddressOf[thread[p][2]] = AddressOf[box[p]]
    BY <1>2 DEF ThreadOwners, LocalsSet, InTx
  <2>3. \A t \in ThreadId : threads[t] \subseteq threads'[t]
    BY <1>2 DEF Apply, WriteSets, Snapshots, InTx
  <2>4. mail[p] \in threads'[thread[p]]
    BY <1>2, <2>2 DEF Apply, NewRefs
  <2>5. \A d \in messages' :
          d.mail \in threads'[d.thread] /\ AddressOf[d.thread[2]] = AddressOf[d.box]
    BY <2>1, <2>2, <2>3, <2>4 DEF ThreadsMatchMessages, Message, TypeOK, MessageSet
  <2>6. ASSUME NEW t \in ThreadId, threads'[t] # {}
        PROVE  Opened(t)'
    <3>1. CASE t \in wrote[p]
      <4>1. t = thread[p] /\ (Opened(t) \/ t = <<mail[p], box[p]>>)
        BY <3>1 DEF ThreadOwners
      <4>2. CASE Opened(t)
        BY <2>1, <4>2 DEF Opened
      <4>3. CASE t = <<mail[p], box[p]>>
        <5>1. /\ Message(p) \in messages' /\ Message(p).thread = t
              /\ <<Message(p).mail, Message(p).box>> = t
          BY <2>1, <4>1, <4>3 DEF Message
        <5>2. QED
          BY <5>1 DEF Opened
      <4>4. QED
        BY <4>1, <4>2, <4>3
    <3>2. CASE t \notin wrote[p]
      <4>1. threads'[t] = threads[t]
        BY <1>2, <3>2 DEF Apply
      <4>2. QED
        BY <2>1, <2>6, <4>1 DEF ThreadsMatchMessages, Opened
    <3>3. QED
      BY <3>1, <3>2
  <2>7. QED
    BY <2>5, <2>6 DEF ThreadsMatchMessages
<1>3. QED
  BY <1>1, <1>2, StoreUnlessCommit

(* A handler that answers leaves the others as they were. *)
LEMMA RemainingAnswer ==
  ASSUME TypeOK, Remaining, NEW p \in Client, NEW r, Answer(p, r),
         messages \subseteq messages'
  PROVE  Remaining'
<1>1. /\ pc'[p] = "idle"
      /\ \A q \in Client \ {p} :
             /\ pc'[q] = pc[q] /\ mail'[q] = mail[q]
             /\ left'[q] = left[q] /\ box'[q] = box[q]
  BY DEF Answer, Goto, TypeOK
<1>2. \A m, b : Stored(m, b) => Stored(m, b)'
  BY DEF Stored
<1>3. QED
  BY <1>1, <1>2 DEF Remaining, Saving, InTx

(* Each recipient of an open mail is pending or has its copy. *)
LEMMA RemainingStep ==
  ASSUME TypeOK, LocalsSet, Remaining, [Next]_vars
  PROVE  Remaining'
<1> USE DEF TypeOK, LocalsSet, Remaining, Stored, InTx, Pcs, Saving
<1>1. CASE UNCHANGED vars
  BY <1>1 DEF vars, local, store
<1>2. ASSUME NEW p \in Client, NEW m \in Mail, Accept(p, m)
      PROVE  Remaining'
  <2>1. /\ pc' = [pc EXCEPT ![p] = "lookup"] /\ mail' = [mail EXCEPT ![p] = m]
        /\ left' = [left EXCEPT ![p] = Rcpt[m]] /\ UNCHANGED <<box, messages>>
    BY <1>2 DEF Accept, Goto, store
  <2>2. Rcpt[m] \in SUBSET Mailbox
    BY MailAssumption
  <2>3. QED
    BY <2>1, <2>2
<1>3. ASSUME NEW p \in Client, Lookup(p)
      PROVE  Remaining'
  <2>1. PICK b \in left[p] : /\ box' = [box EXCEPT ![p] = b]
                             /\ left' = [left EXCEPT ![p] = @ \ {b}]
    BY <1>3 DEF Lookup
  <2>2. /\ pc[p] = "lookup" /\ pc' = [pc EXCEPT ![p] = "begin"]
        /\ UNCHANGED <<mail, messages>>
    BY <1>3 DEF Lookup, Goto, store
  <2>3. QED
    BY <2>1, <2>2
<1>4. ASSUME NEW p \in Client, Begin(p)
      PROVE  Remaining'
  BY <1>4 DEF Begin, Goto, local, store
<1>5. ASSUME NEW p \in Client, CreateThread(p)
      PROVE  Remaining'
  BY <1>5 DEF CreateThread, Goto, store
<1>6. ASSUME NEW p \in Client, UpdateThread(p)
      PROVE  Remaining'
  BY <1>6 DEF UpdateThread, Goto, store
<1>7. ASSUME NEW p \in Client, UpdateCounters(p)
      PROVE  Remaining'
  BY <1>7 DEF UpdateCounters, Goto, local, store
<1>8. ASSUME NEW p \in Client, CreateMessage(p)
      PROVE  Remaining'
  BY <1>8 DEF CreateMessage, Goto, local, store
<1>9. ASSUME NEW p \in Client, Commit(p)
      PROVE  Remaining'
  <2>1. /\ pc[p] = "commit" /\ messages' = messages \cup {Message(p)}
        /\ Message(p).mail = mail[p] /\ Message(p).box = box[p]
    BY <1>9 DEF Commit, Apply, Message
  <2>2. Message(p) \in messages' /\ messages \subseteq messages'
    BY <2>1
  <2>3. CASE mail[p] \in Outbound /\ Goto(p, "notify") /\ UNCHANGED local
    <3>1. left[p] = {}
      <4>1. PICK b \in Mailbox : Rcpt[mail[p]] = {b}
        BY <2>3, OutboundAssumption
      <4>2. left[p] \subseteq {b} /\ box[p] \in {b} /\ box[p] \notin left[p]
        BY <2>1, <4>1
      <4>3. QED
        BY <4>2
    <3>2. QED
      BY <2>1, <2>2, <2>3, <3>1 DEF Goto, local
  <2>4. CASE Goto(p, "lookup") /\ UNCHANGED local
    BY <2>1, <2>2, <2>4 DEF Goto, local
  <2>5. CASE Answer(p, "ok")
    BY <2>2, <2>5, RemainingAnswer
  <2>6. QED
    BY <1>9, <2>3, <2>4, <2>5 DEF Commit
<1>10. ASSUME NEW p \in Client, NotifyAgain(p)
      PROVE  Remaining'
  BY <1>10 DEF NotifyAgain, Goto, local, store
<1>11. ASSUME NEW p \in Client, Queue(p)
      PROVE  Remaining'
  BY <1>11, StoreGrows, RemainingAnswer DEF Queue
<1>12. ASSUME NEW p \in Client, WriteConflict(p)
      PROVE  Remaining'
  BY <1>12, StoreGrows, RemainingAnswer DEF WriteConflict
<1>13. ASSUME NEW p \in Client, NoExistingThread(p)
      PROVE  Remaining'
  BY <1>13, StoreGrows, RemainingAnswer DEF NoExistingThread
<1>14. ASSUME NEW p \in Client, CommitLost(p)
      PROVE  Remaining'
  BY <1>14, StoreGrows, RemainingAnswer DEF CommitLost
<1>15. ASSUME NEW p \in Client, Fail(p)
      PROVE  Remaining'
  BY <1>15, StoreGrows, RemainingAnswer DEF Fail
<1>16. QED
  BY <1>1, <1>2, <1>3, <1>4, <1>5, <1>6, <1>7, <1>8, <1>9, <1>10, <1>11, <1>12, <1>13, <1>14, <1>15 DEF Next, Progress

(* outboundMessage's tail runs when the copy is stored. *)
LEMMA AllStored ==
  ASSUME Remaining, NEW p \in Client, pc[p] = "queue"
  PROVE  \A b \in Rcpt[mail[p]] : Stored(mail[p], b)
<1>1. pc[p] # "idle" /\ pc[p] \notin Saving /\ pc[p] \in {"notify", "queue"}
  BY DEF Saving, InTx
<1>2. QED
  BY <1>1 DEF Remaining

(* When the last recipient's transaction commits, the others have their copy. *)
LEMMA LastIsStored ==
  ASSUME Remaining, NEW p \in Client, pc[p] = "commit", left[p] = {}
  PROVE  \A b \in Rcpt[mail[p]] : b = box[p] \/ Stored(mail[p], b)
<1>1. pc[p] # "idle"
  OBVIOUS
<1>2. QED
  BY <1>1 DEF Remaining

(* Answering ok is right once every copy is stored. *)
LEMMA OkAnswer ==
  ASSUME TypeOK, OkMeansStored, NEW m \in Mail,
         reply' = [reply EXCEPT ![m] = "ok"], messages \subseteq messages',
         \A b \in Rcpt[m] : \E d \in messages' : d.mail = m /\ d.box = b
  PROVE  OkMeansStored'
<1>1. \A n \in Mail \ {m} : reply'[n] = reply[n]
  BY DEF TypeOK
<1>2. QED
  BY <1>1 DEF OkMeansStored, Stored

(* A mail is answered ok once every recipient has its copy. *)
LEMMA OkStep ==
  ASSUME TypeOK, LocalsSet, HandledOnce, Remaining, OkMeansStored, [Next]_vars
  PROVE  OkMeansStored'
<1> USE DEF TypeOK, LocalsSet, HandledOnce, OkMeansStored, Stored
<1>1. CASE UNCHANGED vars
  BY <1>1 DEF vars, local, store
<1>2. ASSUME NEW p \in Client, NEW m \in Mail, Accept(p, m)
      PROVE  OkMeansStored'
  BY <1>2 DEF Accept, Goto, store
<1>3. ASSUME NEW p \in Client, Lookup(p)
      PROVE  OkMeansStored'
  BY <1>3 DEF Lookup, Goto, store
<1>4. ASSUME NEW p \in Client, Begin(p)
      PROVE  OkMeansStored'
  BY <1>4 DEF Begin, Goto, local, store
<1>5. ASSUME NEW p \in Client, CreateThread(p)
      PROVE  OkMeansStored'
  BY <1>5 DEF CreateThread, Goto, store
<1>6. ASSUME NEW p \in Client, UpdateThread(p)
      PROVE  OkMeansStored'
  BY <1>6 DEF UpdateThread, Goto, store
<1>7. ASSUME NEW p \in Client, UpdateCounters(p)
      PROVE  OkMeansStored'
  BY <1>7 DEF UpdateCounters, Goto, local, store
<1>8. ASSUME NEW p \in Client, CreateMessage(p)
      PROVE  OkMeansStored'
  BY <1>8 DEF CreateMessage, Goto, local, store
<1>9. ASSUME NEW p \in Client, Commit(p)
      PROVE  OkMeansStored'
  <2>1. /\ pc[p] = "commit" /\ messages' = messages \cup {Message(p)}
        /\ Message(p).mail = mail[p] /\ Message(p).box = box[p]
    BY <1>9 DEF Commit, Apply, Message
  <2>2. Message(p) \in messages' /\ messages \subseteq messages'
    BY <2>1
  <2>3. CASE UNCHANGED reply
    BY <2>2, <2>3
  <2>4. CASE left[p] = {} /\ Answer(p, "ok")
    <3>1. \A b \in Rcpt[mail[p]] : b = box[p] \/ Stored(mail[p], b)
      BY <2>1, <2>4, LastIsStored
    <3>2. \A b \in Rcpt[mail[p]] : \E d \in messages' : d.mail = mail[p] /\ d.box = b
      BY <2>1, <2>2, <3>1
    <3>3. reply' = [reply EXCEPT ![mail[p]] = "ok"] /\ mail[p] \in Mail
      BY <2>1, <2>4 DEF Answer
    <3>4. QED
      BY <2>2, <3>2, <3>3, OkAnswer
  <2>5. QED
    BY <1>9, <2>3, <2>4 DEF Commit
<1>10. ASSUME NEW p \in Client, NotifyAgain(p)
      PROVE  OkMeansStored'
  BY <1>10 DEF NotifyAgain, Goto, local, store
<1>11. ASSUME NEW p \in Client, Queue(p)
      PROVE  OkMeansStored'
  <2>1. pc[p] = "queue" /\ Answer(p, "ok") /\ UNCHANGED messages
    BY <1>11 DEF Queue, store
  <2>2. \A b \in Rcpt[mail[p]] : \E d \in messages : d.mail = mail[p] /\ d.box = b
    <3>1. \A b \in Rcpt[mail[p]] : Stored(mail[p], b)
      BY <2>1, AllStored
    <3>2. QED
      BY <3>1
  <2>3. /\ reply' = [reply EXCEPT ![mail[p]] = "ok"] /\ mail[p] \in Mail
    BY <2>1 DEF Answer
  <2>4. \A b \in Rcpt[mail[p]] : \E d \in messages' : d.mail = mail[p] /\ d.box = b
    BY <2>1, <2>2
  <2>5. TypeOK /\ OkMeansStored /\ messages \subseteq messages'
    BY <2>1
  <2> HIDE DEF TypeOK, OkMeansStored
  <2>6. QED
    BY <2>3, <2>4, <2>5, OkAnswer
<1>12. ASSUME NEW p \in Client, WriteConflict(p)
      PROVE  OkMeansStored'
  BY <1>12 DEF WriteConflict, Goto, Answer, Discard, store
<1>13. ASSUME NEW p \in Client, NoExistingThread(p)
      PROVE  OkMeansStored'
  BY <1>13 DEF NoExistingThread, Goto, Answer, Discard, store
<1>14. ASSUME NEW p \in Client, CommitLost(p)
      PROVE  OkMeansStored'
  BY <1>14 DEF CommitLost, Goto, Answer, Apply
<1>15. ASSUME NEW p \in Client, Fail(p)
      PROVE  OkMeansStored'
  BY <1>15 DEF Fail, Goto, Answer, Discard, store
<1>16. QED
  BY <1>1, <1>2, <1>3, <1>4, <1>5, <1>6, <1>7, <1>8, <1>9, <1>10, <1>11, <1>12, <1>13, <1>14, <1>15 DEF Next, Progress

-----------------------------------------------------------------------------
(* The inductive invariant *)

(* The invariant holds initially. *)
LEMMA InitInv == Init => IInv
<1> SUFFICES ASSUME Init PROVE IInv
  OBVIOUS
<1>1. TypeOK
  BY MailAssumption DEF Init, TypeOK, Pcs, NewBox, Counters, EmptyView
<1>2. IsFiniteSet(messages)
  BY FS_EmptySet DEF Init
<1>3. CountersMatch
  BY FS_EmptySet DEF Init, CountersMatch, EmptyView, NewBox
<1>4. LocalsSet /\ WriteSets /\ Snapshots /\ SnapBounds /\ Announced
  BY DEF Init, LocalsSet, WriteSets, Snapshots, SnapBounds, Announced, Saving, InTx
<1>5. HandledOnce /\ UidBounds /\ OwnUidsDistinct /\ CommittedIsAnnounced
  BY DEF Init, HandledOnce, UidBounds, OwnUidsDistinct, CommittedIsAnnounced
<1>6. ThreadOwners /\ ThreadsMatchMessages
  BY DEF Init, ThreadOwners, ThreadsMatchMessages, EmptyView, InTx
<1>7. Remaining /\ OkMeansStored
  BY DEF Init, Remaining, OkMeansStored
<1>8. QED
  BY <1>1, <1>2, <1>3, <1>4, <1>5, <1>6, <1>7 DEF IInv

(* Every step preserves the invariant. *)
LEMMA StepInv == IInv /\ [Next]_vars => IInv'
<1> SUFFICES ASSUME IInv, [Next]_vars PROVE IInv'
  OBVIOUS
<1> USE DEF IInv
<1>1. TypeOK' /\ LocalsSet' /\ WriteSets' /\ Snapshots' /\ HandledOnce'
  BY TypeStep, LocalsStep, WriteSetsStep, SnapshotsStep, HandledStep
<1>2. IsFiniteSet(messages') /\ CountersMatch' /\ UidBounds' /\ SnapBounds' /\ OwnUidsDistinct'
  BY CountersStep, UidBoundsStep, SnapBoundsStep, OwnUidsStep
<1>3. Announced' /\ CommittedIsAnnounced'
  BY AnnouncedStep, CommittedIsAnnouncedStep
<1>4. ThreadOwners' /\ ThreadsMatchMessages' /\ Remaining' /\ OkMeansStored'
  BY ThreadOwnersStep, ThreadsStep, RemainingStep, OkStep
<1>5. QED
  BY <1>1, <1>2, <1>3, <1>4

(* IInv is an invariant of saveEmail's callers. *)
THEOREM Invariance == Spec => []IInv
  BY InitInv, StepInv, PTL DEF Spec

-----------------------------------------------------------------------------
(* The theorems *)

(* Every variable keeps its type. *)
THEOREM TypeCorrect == Spec => []TypeOK
<1>1. IInv => TypeOK
  BY DEF IInv
<1>2. QED
  BY <1>1, Invariance, PTL

(* However the saves interleave, fail or lose their answers, a mailbox's      *)
(* counters are the count of its messages.                                   *)
THEOREM CountersCorrect == Spec => []CountersMatch
<1>1. IInv => CountersMatch
  BY DEF IInv
<1>2. QED
  BY <1>1, Invariance, PTL

(* uidNext and modifyIndex bound every UID and modseq in use. *)
THEOREM UidsBounded == Spec => []UidBounds
<1>1. IInv => UidBounds
  BY DEF IInv
<1>2. QED
  BY <1>1, Invariance, PTL

(* Saves that do not overlap get distinct UIDs. *)
THEOREM SequentialUidsDistinct == Spec => []OwnUidsDistinct
<1>1. IInv => OwnUidsDistinct
  BY DEF IInv
<1>2. QED
  BY <1>1, Invariance, PTL

(* No save overwrites another save's increment or thread references. *)
THEOREM UpdatesSurvive == Spec => []NoLostUpdate
<1>1. IInv => NoLostUpdate
  BY DEF IInv, WriteSets, Snapshots, NoLostUpdate
<1>2. QED
  BY <1>1, Invariance, PTL

(* Every stored message has been announced. *)
THEOREM StoredIsAnnounced == Spec => []CommittedIsAnnounced
<1>1. IInv => CommittedIsAnnounced
  BY DEF IInv
<1>2. QED
  BY <1>1, Invariance, PTL

(* Threads and messages refer to each other. *)
THEOREM ThreadsCorrect == Spec => []ThreadsMatchMessages
<1>1. IInv => ThreadsMatchMessages
  BY DEF IInv
<1>2. QED
  BY <1>1, Invariance, PTL

(* A mail that was answered ok is stored for every recipient. *)
THEOREM OkCorrect == Spec => []OkMeansStored
<1>1. IInv => OkMeansStored
  BY DEF IInv
<1>2. QED
  BY <1>1, Invariance, PTL

-----------------------------------------------------------------------------
(* saveEmail implements the atomic mailbox store: a commit is a delivery,     *)
(* every other step stutters.                                                *)

Stripped(d) == [mail |-> d.mail, box |-> d.box, uid |-> d.uid, modseq |-> d.modseq]

(* A commit delivers the mail. *)
LEMMA CommitDelivers ==
  ASSUME IInv, NEW p \in Client, pc[p] = "commit", Apply(p)
  PROVE  Abstract!Deliver(mail[p], box[p])
<1> DEFINE old == {Stripped(d) : d \in messages}
           new == {Stripped(d) : d \in messages'}
<1>1. /\ box[p] \in Mailbox
      /\ boxes' = [boxes EXCEPT ![box[p]] = Bump(@)]
      /\ messages' = messages \cup {Message(p)}
      /\ \A d \in messages : d.mail # mail[p] \/ d.box # box[p]
  BY ApplyEffect DEF IInv
<1>2. \A d \in old : d.mail # mail[p] \/ d.box # box[p]
  BY <1>1 DEF Stripped
<1>3. /\ snap[p].uidNext \in 1 .. boxes[box[p]].uidNext
      /\ snap[p].modifyIndex + 1 = snap[p].uidNext
  <2>1. /\ snap[p].uidNext = snap[p].modifyIndex + 1
        /\ 1 <= snap[p].uidNext /\ snap[p].uidNext <= boxes[box[p]].uidNext
    BY DEF IInv, SnapBounds, Saving, InTx
  <2>2. snap[p].uidNext \in Nat /\ snap[p].modifyIndex \in Nat
        /\ boxes[box[p]].uidNext \in Nat
    BY <1>1 DEF IInv, TypeOK, Counters
  <2>3. QED
    BY <2>1, <2>2
<1>4. new = old \cup {[mail |-> mail[p], box |-> box[p], uid |-> snap[p].uidNext,
                       modseq |-> snap[p].uidNext]}
  <2>1. Stripped(Message(p)) = [mail |-> mail[p], box |-> box[p],
                                uid |-> snap[p].uidNext, modseq |-> snap[p].uidNext]
    BY <1>3 DEF Stripped, Message
  <2>2. new = old \cup {Stripped(Message(p))}
    BY <1>1
  <2>3. QED
    BY <2>1, <2>2
<1>5. QED
  BY <1>1, <1>2, <1>3, <1>4 DEF Abstract!Deliver, Stripped, Bump

(* For every set of clients, mails and mailboxes, saveEmail's interleaved,    *)
(* failing transactions implement the atomic store.                          *)
THEOREM Refinement == Spec => ImplementsStore
<1>1. Init => Abstract!Init
  BY DEF Init, Abstract!Init, EmptyView, NewBox
<1>2. IInv /\ [Next]_vars => [Abstract!Next]_<<boxes, {Stripped(d) : d \in messages}>>
  <2> SUFFICES ASSUME IInv, [Next]_vars
               PROVE  [Abstract!Next]_<<boxes, {Stripped(d) : d \in messages}>>
    OBVIOUS
  <2>1. CASE UNCHANGED store
    BY <2>1 DEF store
  <2>2. ASSUME NEW p \in Client, pc[p] = "commit", Apply(p)
        PROVE  Abstract!Next
    <3>1. mail[p] \in Mail /\ box[p] \in Mailbox
      BY <2>2 DEF IInv, LocalsSet, Saving, InTx
    <3>2. Abstract!Deliver(mail[p], box[p])
      BY <2>2, CommitDelivers
    <3>3. QED
      BY <3>1, <3>2 DEF Abstract!Next, Abstract!Deliver
  <2>3. QED
    BY <2>1, <2>2, StoreUnlessCommit
<1>3. QED
  BY <1>1, <1>2, Invariance, PTL DEF Spec, ImplementsStore, Abstract!Spec, Stripped

-----------------------------------------------------------------------------
(* saveEmail is the mail feed of the IMAP server. *)

(* A message went to a recipient; what is announced again is an outbound mail, *)
(* stored with the UID its handler still carries.                           *)
Filed ==
    /\ \A d \in messages : d.box \in Rcpt[d.mail]
    /\ \A p \in Client : pc[p] = "notify" =>
          /\ mail[p] \in Outbound
          /\ \E d \in messages :
                d.mail = mail[p] /\ d.box = box[p] /\ d.uid = snap[p].uidNext

(* The invariant the feed needs. *)
FeedInv == IInv /\ Filed

(* A mail and one of its recipients name a copy. *)
LEMMA CopyNames ==
  /\ \A m \in Mail : \A b \in Rcpt[m] : <<m, b>> \in Copies
  /\ \A i \in Copies : i = <<i[1], i[2]>> /\ i[1] \in Mail /\ i[2] \in Rcpt[i[1]] /\ i[2] \in Mailbox
<1>1. \A m \in Mail : Rcpt[m] \subseteq Mailbox
  BY MailAssumption
<1>2. \A m \in Mail : \A b \in Rcpt[m] : <<m, b>> \in Copies
  BY DEF Copies
<1>3. \A i \in Copies : \E m \in Mail : i \in {m} \X Rcpt[m]
  BY DEF Copies
<1>. QED
  BY <1>1, <1>2, <1>3

(* What the feed shows of a copy: what is stored, *)
LEMMA StoredStage ==
  FeedInv => \A d \in messages :
      Stage(<<d.mail, d.box>>) = [at |-> "stored", uid |-> d.uid]
<1> SUFFICES ASSUME FeedInv, NEW d \in messages
             PROVE  Stage(<<d.mail, d.box>>) = [at |-> "stored", uid |-> d.uid]
  OBVIOUS
<1> DEFINE c == CHOOSE e \in messages : e.mail = d.mail /\ e.box = d.box
<1>1. c \in messages /\ c.mail = d.mail /\ c.box = d.box
  OBVIOUS
<1>2. c = d
  BY <1>1 DEF FeedInv, IInv, HandledOnce
<1> HIDE DEF c
<1>. QED
  BY <1>2 DEF Stage, Stored, c

(* what is being saved, *)
LEMMA SavingStage ==
  FeedInv => \A p \in Client : pc[p] \in Saving =>
      /\ Stage(<<mail[p], box[p]>>) =
            [at |-> IF pc[p] = "commit" THEN "announced" ELSE "read",
             uid |-> snap[p].uidNext]
      /\ <<mail[p], box[p]>> \in Copies
      /\ \A d \in messages : <<d.mail, d.box>> # <<mail[p], box[p]>>
      /\ \A q \in Client \ {p} : pc[q] \in Saving => mail[q] # mail[p]
<1> SUFFICES ASSUME FeedInv, NEW p \in Client, pc[p] \in Saving
             PROVE  /\ Stage(<<mail[p], box[p]>>) =
                          [at |-> IF pc[p] = "commit" THEN "announced" ELSE "read",
                           uid |-> snap[p].uidNext]
                    /\ <<mail[p], box[p]>> \in Copies
                    /\ \A d \in messages : <<d.mail, d.box>> # <<mail[p], box[p]>>
                    /\ \A q \in Client \ {p} : pc[q] \in Saving => mail[q] # mail[p]
  OBVIOUS
<1> DEFINE i == <<mail[p], box[p]>>
<1>0. /\ pc[p] # "idle" /\ \A q \in Client : pc[q] \in Saving => pc[q] # "idle"
      /\ mail[p] \in Mail /\ box[p] \in Rcpt[mail[p]]
  BY DEF Saving, InTx, FeedInv, IInv, LocalsSet, Remaining
<1>1. i \in Copies
  BY <1>0, CopyNames
<1>2. \A d \in messages : ~ (d.mail = mail[p] /\ d.box = box[p])
  BY <1>0 DEF FeedInv, IInv, HandledOnce
<1>3. \A q \in Client \ {p} : pc[q] \in Saving => mail[q] # mail[p]
  BY <1>0 DEF FeedInv, IInv, HandledOnce
<1>4. SavingCopy(i) = {p}
  BY <1>0, <1>3 DEF SavingCopy
<1>5. (CHOOSE q \in SavingCopy(i) : TRUE) = p
  BY <1>4
<1>6. ~ Stored(i[1], i[2])
  BY <1>2 DEF Stored
<1>7. Stage(i) = [at |-> IF pc[p] = "commit" THEN "announced" ELSE "read",
                  uid |-> snap[p].uidNext]
  BY <1>4, <1>5, <1>6 DEF Stage
<1>. QED
  BY <1>1, <1>2, <1>3, <1>7

(* and what is neither. *)
LEMMA NoStage ==
  FeedInv => \A i \in Copies :
      \/ \E d \in messages : i = <<d.mail, d.box>>
      \/ \E p \in Client : pc[p] \in Saving /\ i = <<mail[p], box[p]>>
      \/ Stage(i) = [at |-> "none", uid |-> 0]
<1> SUFFICES ASSUME FeedInv, NEW i \in Copies,
                    ~ \E d \in messages : i = <<d.mail, d.box>>,
                    ~ \E p \in Client : pc[p] \in Saving /\ i = <<mail[p], box[p]>>
             PROVE  Stage(i) = [at |-> "none", uid |-> 0]
  OBVIOUS
<1>1. i = <<i[1], i[2]>>
  BY CopyNames
<1>2. ~ Stored(i[1], i[2])
  BY <1>1 DEF Stored
<1>3. SavingCopy(i) = {}
  BY <1>1 DEF SavingCopy
<1>. QED
  BY <1>2, <1>3 DEF Stage

(* The copy that a message is, that a client saves, and the feed's stages. *)
CopyOf(d) == <<d.mail, d.box>>
At == [p \in Client |-> <<mail[p], box[p]>>]
Stages == [i \in Copies |-> Stage(i)]

(* What a reader of the stages can tell of messages and handlers. *)
Seen ==
    /\ \A d \in messages :
          /\ Stages[CopyOf(d)] = [at |-> "stored", uid |-> d.uid]
          /\ CopyOf(d) \in Copies
    /\ \A p \in Client : pc[p] \in Saving =>
          /\ Stages[At[p]] =
                [at |-> IF pc[p] = "commit" THEN "announced" ELSE "read",
                 uid |-> snap[p].uidNext]
          /\ At[p] \in Copies
          /\ \A d \in messages : CopyOf(d) # At[p]
          /\ \A q \in Client \ {p} : pc[q] \in Saving => mail[q] # mail[p]
    /\ \A i \in Copies :
          \/ \E d \in messages : i = CopyOf(d)
          \/ \E p \in Client : pc[p] \in Saving /\ i = At[p]
          \/ Stages[i] = [at |-> "none", uid |-> 0]

(* The feed's stages, looked at as a whole. *)
LEMMA FeedSeen == FeedInv => Seen
<1> SUFFICES ASSUME FeedInv PROVE Seen
  OBVIOUS
<1>1. \A d \in messages : d.mail \in Mail /\ d.box \in Rcpt[d.mail]
  BY DEF FeedInv, IInv, TypeOK, MessageSet, Filed
<1>2. \A d \in messages : CopyOf(d) \in Copies
  BY <1>1, CopyNames DEF CopyOf
<1>3. \A i \in Copies : Stages[i] = Stage(i)
  BY DEF Stages
<1>. QED
  BY <1>2, <1>3, StoredStage, SavingStage, NoStage DEF Seen, CopyOf, At

(* The same after a step. *)
LEMMA FeedSeenNext == FeedInv' => Seen'
  BY FeedSeen, PTL

(* What is published of the notices. *)
Published == {[copy |-> <<n.mail, n.box>>, uid |-> n.uid, from |-> n.from] : n \in notices}

(* Every copy has a stage. *)
LEMMA StagesDomain ==
  /\ Stages = [i \in Copies |-> Stages[i]]
  /\ Stages' = [i \in Copies |-> Stages'[i]]
BY DEF Stages, Copies

(* A mailbox has as many stored copies as messages. *)
LEMMA StoredCopies ==
  ASSUME FeedInv, Seen, NEW b \in Mailbox
  PROVE  Cardinality({i \in Copies : i[2] = b /\ Stages[i].at = "stored"}) + 1 = boxes[b].uidNext
<1> DEFINE D == {d \in messages : d.box = b}
           C == {i \in Copies : i[2] = b /\ Stages[i].at = "stored"}
           f == [d \in D |-> CopyOf(d)]
<1>1. IsFiniteSet(D)
  <2>1. D \subseteq messages /\ IsFiniteSet(messages)
    BY DEF FeedInv, IInv
  <2>. QED
    BY <2>1, FS_Subset
<1>2. /\ \A i : i \in C <=> i \in Copies /\ i[2] = b /\ Stages[i].at = "stored"
      /\ \A d : d \in D <=> d \in messages /\ d.box = b
      /\ DOMAIN f = D /\ f = [d \in D |-> f[d]]
      /\ \A d \in D : f[d] = CopyOf(d) /\ f[d] = <<d.mail, b>> /\ f[d][2] = b
  BY DEF CopyOf
<1> HIDE DEF D, C, f
<1>3. \A d \in D : f[d] \in C
  <2> SUFFICES ASSUME NEW d \in D PROVE f[d] \in C
    OBVIOUS
  <2>1. Stages[CopyOf(d)] = [at |-> "stored", uid |-> d.uid] /\ CopyOf(d) \in Copies
    BY <1>2 DEF Seen
  <2>. QED
    BY <1>2, <2>1
<1>4. ASSUME NEW i \in C
      PROVE  \E d \in D : f[d] = i
  <2>0. i \in Copies /\ i[2] = b /\ Stages[i].at = "stored"
    BY <1>2
  <2>1. CASE \E d \in messages : i = CopyOf(d)
    <3>1. PICK d \in messages : i = CopyOf(d)
      BY <2>1
    <3>2. d.box = b
      BY <2>0, <3>1 DEF CopyOf
    <3>. QED
      BY <1>2, <3>1, <3>2
  <2>2. CASE \E p \in Client : pc[p] \in Saving /\ i = At[p]
    <3>1. PICK p \in Client : pc[p] \in Saving /\ i = At[p]
      BY <2>2
    <3>2. Stages[i] = [at |-> IF pc[p] = "commit" THEN "announced" ELSE "read",
                       uid |-> snap[p].uidNext]
      BY <3>1 DEF Seen
    <3>. QED
      BY <2>0, <3>2
  <2>3. CASE Stages[i] = [at |-> "none", uid |-> 0]
    BY <2>0, <2>3
  <2>. QED
    BY <2>0, <2>1, <2>2, <2>3 DEF Seen
<1>5. \A d, e \in D : f[d] = f[e] => d = e
  <2>1. \A d, e \in D : d.mail = e.mail => d = e
    BY <1>2 DEF FeedInv, IInv, HandledOnce
  <2>2. \A d, e \in D : <<d.mail, b>> = <<e.mail, b>> => d.mail = e.mail
    OBVIOUS
  <2>. QED
    BY <1>2, <2>1, <2>2
<1>6. f \in Surjection(D, C) /\ f \in Injection(D, C)
  <2>1. f \in [D -> C]
    BY <1>2, <1>3
  <2>2. f \in Surjection(D, C)
    BY <1>4, <2>1, Fun_IsSurj
  <2>3. f \in Injection(D, C)
    BY <1>5, <2>1, Fun_IsInj
  <2>. QED
    BY <2>2, <2>3
<1>7. Cardinality(C) = Cardinality(D)
  BY <1>1, <1>6, FS_Surjection
<1>8. boxes[b].uidNext = Cardinality(D) + 1
  BY DEF D,  FeedInv, IInv, CountersMatch
<1>. QED
  BY <1>7, <1>8 DEF C

(* What the feed is told stays of copies other than the one a handler deals with. *)
LEMMA OtherCopies ==
  ASSUME Seen, Seen', NEW p \in Client, NEW i \in Copies,
         \A q \in Client \ {p} :
            pc'[q] = pc[q] /\ At'[q] = At[q] /\ snap'[q] = snap[q],
         pc[p] \in Saving => i # At[p],
         pc'[p] \in Saving => i # At'[p],
         messages \subseteq messages',
         \A d \in messages' : d \in messages \/ CopyOf(d) # i
  PROVE  Stages'[i] = Stages[i]
<1>1. CASE \E d \in messages : i = CopyOf(d)
  <2>1. PICK d \in messages : i = CopyOf(d)
    BY <1>1
  <2>2. Stages[i] = [at |-> "stored", uid |-> d.uid]
    BY <2>1 DEF Seen
  <2>3. Stages'[i] = [at |-> "stored", uid |-> d.uid]
    BY <2>1 DEF Seen
  <2>. QED
    BY <2>2, <2>3
<1>2. CASE \E q \in Client : pc[q] \in Saving /\ i = At[q]
  <2>1. PICK q \in Client : pc[q] \in Saving /\ i = At[q]
    BY <1>2
  <2>2. q # p
    BY <2>1
  <2>3. Stages[i] = [at |-> IF pc[q] = "commit" THEN "announced" ELSE "read",
                     uid |-> snap[q].uidNext]
    BY <2>1 DEF Seen
  <2>4. Stages'[i] = [at |-> IF pc'[q] = "commit" THEN "announced" ELSE "read",
                      uid |-> snap'[q].uidNext]
    BY <2>1, <2>2 DEF Seen
  <2>. QED
    BY <2>2, <2>3, <2>4
<1>3. CASE /\ ~ \E d \in messages : i = CopyOf(d)
           /\ ~ \E q \in Client : pc[q] \in Saving /\ i = At[q]
  <2>1. Stages[i] = [at |-> "none", uid |-> 0]
    BY <1>3 DEF Seen
  <2>2. ~ \E d \in messages' : i = CopyOf(d)
    BY <1>3
  <2>3. ~ \E q \in Client : pc'[q] \in Saving /\ i = At'[q]
    BY <1>3
  <2>4. Stages'[i] = [at |-> "none", uid |-> 0]
    BY <2>2, <2>3 DEF Seen
  <2>. QED
    BY <2>1, <2>4
<1>. QED
  BY <1>1, <1>2, <1>3

(* A step that the feed does not see. *)
LEMMA FeedStutters ==
  ASSUME Seen, Seen', NEW p \in Client,
         \A q \in Client \ {p} :
            pc'[q] = pc[q] /\ At'[q] = At[q] /\ snap'[q] = snap[q],
         UNCHANGED messages,
         \/ pc[p] \notin Saving /\ pc'[p] \notin Saving
         \/ /\ pc[p] \in Saving \ {"commit"} /\ pc'[p] \in Saving \ {"commit"}
            /\ At'[p] = At[p] /\ snap'[p] = snap[p]
  PROVE  Stages' = Stages
<1>1. ASSUME NEW i \in Copies
      PROVE  Stages'[i] = Stages[i]
  <2>1. CASE pc[p] \in Saving /\ i = At[p]
    <3>1. Stages[i] = [at |-> "read", uid |-> snap[p].uidNext]
      BY <2>1 DEF Seen
    <3>2. Stages'[i] = [at |-> "read", uid |-> snap'[p].uidNext]
      BY <2>1 DEF Seen
    <3>. QED
      BY <2>1, <3>1, <3>2
  <2>2. CASE ~ (pc[p] \in Saving /\ i = At[p])
    BY <2>2, OtherCopies
  <2>. QED
    BY <2>1, <2>2
<1>. QED
  BY <1>1, StagesDomain

(* A step that the feed sees of one copy. *)
LEMMA FeedMoves ==
  ASSUME Seen, Seen', NEW p \in Client, NEW i \in Copies,
         \A q \in Client \ {p} :
            pc'[q] = pc[q] /\ At'[q] = At[q] /\ snap'[q] = snap[q],
         pc[p] \in Saving => i = At[p],
         pc'[p] \in Saving => i = At'[p],
         messages \subseteq messages',
         \A d \in messages' : d \in messages \/ CopyOf(d) = i
  PROVE  Stages' = [Stages EXCEPT ![i] = Stages'[i]]
<1>1. ASSUME NEW j \in Copies \ {i}
      PROVE  Stages'[j] = Stages[j]
  BY OtherCopies
<1>. QED
  BY <1>1, StagesDomain

(* A step of a handler leaves the other handlers where they are. *)
Apart(p) ==
    \A q \in Client \ {p} :
       /\ pc'[q] = pc[q]
       /\ mail'[q] = mail[q]
       /\ box'[q] = box[q]
       /\ snap'[q] = snap[q]

(* Every action of a handler is its own. *)
LEMMA StepApart ==
  ASSUME TypeOK, NEW p \in Client,
         (\E m \in Mail : Accept(p, m)) \/ Progress(p) \/ CommitLost(p) \/ Fail(p)
  PROVE  Apart(p)
<1> USE DEF TypeOK, Apart, Goto, local
<1>1. CASE \E m \in Mail : Accept(p, m)
  BY <1>1 DEF Accept
<1>2. CASE Lookup(p) \/ Begin(p)
  BY <1>2 DEF Lookup, Begin
<1>3. CASE CreateThread(p) \/ UpdateThread(p)
  BY <1>3 DEF CreateThread, UpdateThread
<1>4. CASE UpdateCounters(p) \/ CreateMessage(p) \/ NotifyAgain(p)
  BY <1>4 DEF UpdateCounters, CreateMessage, NotifyAgain
<1>5. CASE \E r \in {"ok", "deny"} : Answer(p, r)
  BY <1>5 DEF Answer
<1>6. CASE Queue(p) \/ WriteConflict(p) \/ NoExistingThread(p) \/ CommitLost(p) \/ Fail(p)
  BY <1>5, <1>6 DEF Queue, WriteConflict, NoExistingThread, CommitLost, Fail
<1>7. CASE Commit(p)
  BY <1>5, <1>7 DEF Commit
<1>. QED
  BY <1>1, <1>2, <1>3, <1>4, <1>6, <1>7 DEF Progress

(* Every step keeps the messages with recipients, and the outbound mails that *)
(* are announced again among them.                                           *)
LEMMA FiledStep ==
  ASSUME IInv, Filed, [Next]_vars
  PROVE  Filed'
<1>1. CASE UNCHANGED vars
  BY <1>1 DEF vars, local, store, Filed
<1>2. ASSUME NEW p \in Client,
             (\E m \in Mail : Accept(p, m)) \/ Progress(p) \/ CommitLost(p) \/ Fail(p)
      PROVE  Filed'
  <2>1. Apart(p)
    BY <1>2, StepApart DEF IInv
  <2>2. \/ UNCHANGED messages
        \/ pc[p] = "commit" /\ messages' = messages \cup {Message(p)}
    BY <1>2, StoreUnlessCommit DEF Next, store, Apply, Progress, Commit, Accept, Lookup,
       Begin, CreateThread, UpdateThread, UpdateCounters, CreateMessage, NotifyAgain, Queue,
       WriteConflict, NoExistingThread, CommitLost, Fail, Discard
  <2>3. \A d \in messages' : d.box \in Rcpt[d.mail]
    <3>1. CASE UNCHANGED messages
      BY <3>1 DEF Filed
    <3>2. CASE pc[p] = "commit" /\ messages' = messages \cup {Message(p)}
      <4>1. box[p] \in Rcpt[mail[p]]
        BY <3>2 DEF IInv, Remaining, Saving, InTx
      <4>2. Message(p).box = box[p] /\ Message(p).mail = mail[p]
        BY DEF Message
      <4>. QED
        BY <3>2, <4>1, <4>2 DEF Filed
    <3>. QED
      BY <2>2, <3>1, <3>2
  <2>4. messages \subseteq messages'
    BY <2>2
  <2>5. ASSUME NEW q \in Client \ {p}, pc'[q] = "notify"
        PROVE  /\ mail'[q] \in Outbound
               /\ \E d \in messages' :
                     d.mail = mail'[q] /\ d.box = box'[q] /\ d.uid = snap'[q].uidNext
    <3>1. /\ pc[q] = "notify" /\ mail'[q] = mail[q] /\ box'[q] = box[q]
          /\ snap'[q] = snap[q]
      BY <2>1, <2>5 DEF Apart
    <3>2. PICK d \in messages : d.mail = mail[q] /\ d.box = box[q] /\ d.uid = snap[q].uidNext
      BY <3>1 DEF Filed
    <3>3. mail[q] \in Outbound
      BY <3>1 DEF Filed
    <3>. QED
      BY <2>4, <3>1, <3>2, <3>3
  <2>6. ASSUME pc'[p] = "notify"
        PROVE  /\ mail'[p] \in Outbound
               /\ \E d \in messages' :
                     d.mail = mail'[p] /\ d.box = box'[p] /\ d.uid = snap'[p].uidNext
    <3>0. pc \in [Client -> Pcs]
      BY DEF IInv, TypeOK
    <3>1. \A r \in {"ok", "deny"} : ~ Answer(p, r)
      BY <2>6, <3>0 DEF Answer, Goto
    <3>2. Commit(p)
      <4>1. ~ (\E m \in Mail : Accept(p, m)) /\ ~ Lookup(p) /\ ~ Begin(p)
            /\ ~ CreateThread(p) /\ ~ UpdateThread(p)
        BY <2>6, <3>0 DEF Accept, Lookup, Begin, CreateThread, UpdateThread, Goto
      <4>2. ~ UpdateCounters(p) /\ ~ CreateMessage(p) /\ ~ NotifyAgain(p)
        BY <2>6, <3>0 DEF UpdateCounters, CreateMessage, NotifyAgain, Goto
      <4>3. ~ Queue(p) /\ ~ WriteConflict(p) /\ ~ NoExistingThread(p)
            /\ ~ CommitLost(p) /\ ~ Fail(p)
        BY <3>1 DEF Queue, WriteConflict, NoExistingThread, CommitLost, Fail
      <4>. QED
        BY <1>2, <4>1, <4>2, <4>3 DEF Progress
    <3>3. /\ mail[p] \in Outbound
          /\ mail' = mail /\ box' = box /\ snap' = snap
      <4>1. ~ Goto(p, "lookup")
        BY <2>6, <3>0 DEF Goto
      <4>. QED
        BY <3>1, <3>2, <4>1 DEF Commit, local
    <3>4. Message(p) \in messages' /\ Message(p).mail = mail[p]
          /\ Message(p).box = box[p] /\ Message(p).uid = snap[p].uidNext
      BY <3>2 DEF Commit, Apply, Message
    <3>. QED
      BY <3>3, <3>4
  <2>7. \A q \in Client : pc'[q] = "notify" =>
           /\ mail'[q] \in Outbound
           /\ \E d \in messages' :
                 d.mail = mail'[q] /\ d.box = box'[q] /\ d.uid = snap'[q].uidNext
    BY <2>5, <2>6
  <2>. QED
    BY <2>3, <2>7 DEF Filed
<1>. QED
  BY <1>1, <1>2 DEF Next

(* IInv and Filed hold in every state of saveEmail's callers. *)
LEMMA FeedInvariance == Spec => []FeedInv
<1>1. Init => FeedInv
  <2>1. Init => Filed
    BY DEF Init, Filed
  <2>. QED
    BY <2>1, InitInv DEF FeedInv
<1>2. FeedInv /\ [Next]_vars => FeedInv'
  <2>1. FeedInv /\ [Next]_vars => IInv' /\ Filed'
    BY StepInv, FiledStep DEF FeedInv
  <2>. QED
    BY <2>1 DEF FeedInv
<1>. QED
  BY <1>1, <1>2, PTL DEF Spec

(* What the feed's actions say of the stages and of what is published. *)
StoredAt(b) == {j \in Copies : j[2] = b /\ Stages[j].at = "stored"}

(* The feed counts as MessageTX does. *)
LEMMA CardinalityOfFeed ==
  ASSUME NEW S
  PROVE  Feed!Cardinality(S) = Cardinality(S)
  BY DEF Feed!Cardinality, Cardinality

(* Reading the counters, *)
LEMMA FeedReads ==
  ASSUME NEW i \in Copies, Stages[i].at = "none", Published' = Published,
         Stages' = [Stages EXCEPT ![i] =
                       [at |-> "read", uid |-> Cardinality(StoredAt(i[2])) + 1]]
  PROVE  Feed!ReadCounters(i)
<1>1. Feed!StoredIn([j \in Copies |-> j[2]][i]) = StoredAt(i[2])
  BY DEF Feed!StoredIn, Feed!Stored, StoredAt, Stages
<1>2. Feed!Total([j \in Copies |-> j[2]][i]) = Cardinality(StoredAt(i[2]))
  BY <1>1, CardinalityOfFeed DEF Feed!Total
<1>. QED
  BY <1>2 DEF Feed!ReadCounters, Stages, Published

(* announcing, *)
LEMMA FeedAnnounces ==
  ASSUME NEW i \in Copies, Stages[i].at = "read",
         \A j \in Copies : Stages[j].at = "announced" => j[2] # i[2],
         Stages' = [Stages EXCEPT ![i].at = "announced"],
         Published' = Published \cup
            {[copy |-> i, uid |-> Stages[i].uid, from |-> "transaction"]}
  PROVE  Feed!Announce(i)
  BY DEF Feed!Announce, Feed!NoticeOf, Stages, Published

(* storing, *)
LEMMA FeedStores ==
  ASSUME NEW i \in Copies, Stages[i].at = "announced", Published' = Published,
         Stages' = [Stages EXCEPT ![i].at = "stored"]
  PROVE  Feed!Store(i)
  BY DEF Feed!Store, Stages, Published

(* giving up, *)
LEMMA FeedAborts ==
  ASSUME NEW i \in Copies, Stages[i].at \in {"read", "announced"}, Published' = Published,
         Stages' = [Stages EXCEPT ![i] = [at |-> "none", uid |-> 0]]
  PROVE  Feed!Abort(i)
  BY DEF Feed!Abort, Stages, Published

(* and announcing again. *)
LEMMA FeedAnnouncesAgain ==
  ASSUME NEW i \in Copies, i[1] \in Outbound, Stages[i].at = "stored", Stages' = Stages,
         Published' = Published \cup
            {[copy |-> i, uid |-> Stages[i].uid, from |-> "handler"]}
  PROVE  Feed!AnnounceAgain(i)
  BY DEF Feed!AnnounceAgain, Feed!NoticeOf, Feed!Stored, Stages, Published

(* The feed takes a step of its own, or none. *)
FeedSees == [Feed!FeedNext]_<<Stages, Published>>

(* Any of them is a step of the feed. *)
LEMMA FeedSteps ==
  ASSUME NEW i \in Copies,
         \/ Feed!ReadCounters(i) \/ Feed!Announce(i) \/ Feed!Store(i) \/ Feed!Abort(i)
         \/ Feed!AnnounceAgain(i)
  PROVE  FeedSees
  BY DEF FeedSees, Feed!FeedNext

(* Lookup is the feed's ReadCounters. *)
LEMMA LookupFeeds ==
  ASSUME FeedInv, FeedInv', NEW p \in Client, Lookup(p)
  PROVE  FeedSees
<1>0. Seen /\ Seen' /\ Apart(p)
  BY FeedSeen, FeedSeenNext, StepApart DEF FeedInv, IInv, Progress
<1>1. PICK b \in left[p] : /\ box' = [box EXCEPT ![p] = b]
                           /\ snap' = [snap EXCEPT ![p] = boxes[b]]
  BY DEF Lookup
<1>2. /\ pc[p] = "lookup" /\ pc'[p] = "begin" /\ mail' = mail
      /\ messages' = messages /\ notices' = notices
      /\ box'[p] = b /\ snap'[p] = boxes[b]
  BY <1>1 DEF Lookup, Goto, store, FeedInv, IInv, TypeOK
<1>3. mail[p] \in Mail /\ b \in Rcpt[mail[p]]
  BY <1>2 DEF FeedInv, IInv, LocalsSet, Remaining
<1> DEFINE i == <<mail[p], b>>
<1>4. i \in Copies /\ b \in Mailbox /\ i[1] = mail[p] /\ i[2] = b
  BY <1>3, CopyNames
<1>5. At'[p] = i
  BY <1>2 DEF At
<1>6. pc[p] \notin Saving /\ pc'[p] \in Saving
  BY <1>2 DEF Saving, InTx
<1>7. \A q \in Client \ {p} : pc'[q] = pc[q] /\ At'[q] = At[q] /\ snap'[q] = snap[q]
  BY <1>0 DEF Apart, At
<1>8. Stages[i].at = "none"
  <2>1. ~ \E d \in messages : i = CopyOf(d)
    <3>1. \A d \in messages : d.mail = mail[p] => d.box # b
      BY <1>2 DEF FeedInv, IInv, HandledOnce
    <3>. QED
      BY <3>1 DEF CopyOf
  <2>2. ~ \E q \in Client : pc[q] \in Saving /\ i = At[q]
    <3>1. \A q \in Client \ {p} : pc[q] \in Saving => mail[q] # mail[p]
      BY <1>0, <1>2, <1>6, <1>7 DEF Seen, Apart
    <3>. QED
      BY <1>6, <3>1 DEF At
  <2>. QED
    BY <1>0, <1>4, <2>1, <2>2 DEF Seen
<1>9. Stages'[i] = [at |-> "read", uid |-> boxes[b].uidNext]
  BY <1>0, <1>2, <1>5, <1>6 DEF Seen
<1>10. Stages' = [Stages EXCEPT ![i] = Stages'[i]]
  <2> HIDE DEF i
  <2>. QED
    BY <1>0, <1>2, <1>4, <1>5, <1>6, <1>7, FeedMoves
<1>11. Cardinality(StoredAt(b)) + 1 = boxes[b].uidNext
  BY <1>0, <1>4, StoredCopies DEF StoredAt
<1>12. Published' = Published
  BY <1>2 DEF Published
<1> HIDE DEF i
<1>13. Feed!ReadCounters(i)
  BY <1>4, <1>8, <1>9, <1>10, <1>11, <1>12, FeedReads
<1>. QED
  BY <1>4, <1>13, FeedSteps

(* CreateMessage is the feed's Announce. *)
LEMMA CreateMessageFeeds ==
  ASSUME FeedInv, FeedInv', NEW p \in Client, CreateMessage(p)
  PROVE  FeedSees
<1>0. Seen /\ Seen' /\ Apart(p)
  BY FeedSeen, FeedSeenNext, StepApart DEF FeedInv, IInv, Progress
<1>1. /\ pc[p] = "message" /\ pc'[p] = "commit"
      /\ mail' = mail /\ box' = box /\ snap' = snap /\ messages' = messages
      /\ notices' = notices \cup {Notice(p, "transaction")}
  BY DEF CreateMessage, Goto, local, store, FeedInv, IInv, TypeOK
<1>2. pc[p] \in Saving /\ pc'[p] \in Saving /\ At' = At
  BY <1>1 DEF Saving, InTx, At
<1>a. At[p] \in Copies
  BY <1>0, <1>2 DEF Seen
<1>b. PICK i \in Copies : i = At[p]
  BY <1>a
<1>3. Stages[i] = [at |-> "read", uid |-> snap[p].uidNext]
  BY <1>0, <1>1, <1>2, <1>b DEF Seen
<1>4. Stages'[i] = [at |-> "announced", uid |-> snap[p].uidNext]
  BY <1>0, <1>1, <1>2, <1>b DEF Seen
<1>5. i = <<mail[p], box[p]>>
  BY <1>b DEF At
<1>6. ASSUME NEW j \in Copies, Stages[j].at = "announced"
      PROVE  j[2] # i[2]
  <2>1. ~ \E d \in messages : j = CopyOf(d)
    <3>1. \A d \in messages : Stages[CopyOf(d)] = [at |-> "stored", uid |-> d.uid]
      BY <1>0 DEF Seen
    <3>2. ASSUME NEW d \in messages, j = CopyOf(d)
          PROVE  FALSE
      <4>1. Stages[j] = [at |-> "stored", uid |-> d.uid]
        BY <3>1, <3>2
      <4>. QED
        BY <1>6, <4>1
    <3>. QED
      BY <3>2
  <2>2. PICK q \in Client : pc[q] \in Saving /\ j = At[q]
    BY <1>0, <1>6, <2>1 DEF Seen
  <2>3. pc[q] = "commit"
    <3>1. Stages[j] = [at |-> IF pc[q] = "commit" THEN "announced" ELSE "read",
                       uid |-> snap[q].uidNext]
      BY <1>0, <2>2 DEF Seen
    <3>. QED
      BY <1>6, <3>1
  <2>4. box[p] \in Mailbox /\ box[q] \in Mailbox
    BY <1>2, <2>2 DEF FeedInv, IInv, LocalsSet
  <2>5. box[p] \in wrote[p] /\ box[q] \in wrote[q]
    BY <1>1, <2>3, <2>4 DEF FeedInv, IInv, WriteSets
  <2>6. q # p
    BY <1>1, <2>3
  <2>7. wrote[p] \cap wrote[q] = {}
    BY <2>6 DEF FeedInv, IInv, WriteSets
  <2>8. j[2] = box[q] /\ i[2] = box[p]
    BY <1>5, <2>2 DEF At
  <2>. QED
    BY <2>5, <2>7, <2>8
<1>7. \A q \in Client \ {p} : pc'[q] = pc[q] /\ At'[q] = At[q] /\ snap'[q] = snap[q]
  BY <1>0, <1>2 DEF Apart
<1>8. Stages' = [Stages EXCEPT ![i] = Stages'[i]]
  <2>1. At[p] = i /\ At'[p] = i
    BY <1>2, <1>b
  <2>. QED
    BY <1>0, <1>1, <1>3, <1>7, <2>1, FeedMoves
<1>9. Published' = Published \cup
         {[copy |-> i, uid |-> Stages[i].uid, from |-> "transaction"]}
  <2>1. Stages[i].uid = snap[p].uidNext
    BY <1>3
  <2>2. LET n == Notice(p, "transaction")
        IN  n.mail = mail[p] /\ n.box = box[p] /\ n.uid = snap[p].uidNext
            /\ n.from = "transaction"
    BY DEF Notice
  <2>. QED
    BY <1>1, <1>5, <2>1, <2>2 DEF Published
<1>10. Stages' = [Stages EXCEPT ![i].at = "announced"]
  <2>1. [Stages[i] EXCEPT !.at = "announced"] = Stages'[i]
    BY <1>3, <1>4
  <2>. QED
    BY <1>8, <2>1
<1>11. Stages[i].at = "read"
  BY <1>3
<1>12. Feed!Announce(i)
  BY <1>3, <1>6, <1>9, <1>10, <1>11, FeedAnnounces
<1>. QED
  BY <1>3, <1>12, FeedSteps

(* What a commit stores is the feed's Store, whether or not its caller is told. *)
LEMMA CommitFeeds ==
  ASSUME FeedInv, FeedInv', NEW p \in Client, Commit(p) \/ CommitLost(p)
  PROVE  FeedSees
<1>0. Seen /\ Seen' /\ Apart(p)
  BY FeedSeen, FeedSeenNext, StepApart DEF FeedInv, IInv, Progress
<1>1. pc[p] = "commit" /\ messages' = messages \cup {Message(p)} /\ notices' = notices
  BY DEF Commit, CommitLost, Apply
<1>2. pc'[p] \in {"notify", "lookup", "idle"}
  <2>1. pc \in [Client -> Pcs]
    BY DEF FeedInv, IInv, TypeOK
  <2>2. Goto(p, "notify") \/ Goto(p, "lookup") \/ Goto(p, "idle")
    BY DEF Commit, CommitLost, Answer
  <2>. QED
    BY <2>1, <2>2 DEF Goto
<1>3. pc[p] \in Saving /\ pc'[p] \notin Saving
  BY <1>1, <1>2 DEF Saving, InTx
<1> DEFINE i == At[p]
<1>4. i \in Copies /\ Stages[i] = [at |-> "announced", uid |-> snap[p].uidNext]
  BY <1>0, <1>1, <1>3 DEF Seen
<1>5. CopyOf(Message(p)) = i /\ Message(p).uid = snap[p].uidNext
  BY DEF CopyOf, Message, At
<1>6. Stages'[i] = [at |-> "stored", uid |-> snap[p].uidNext]
  <2>1. Message(p) \in messages'
    BY <1>1
  <2>2. \A d \in messages' : Stages'[CopyOf(d)] = [at |-> "stored", uid |-> d.uid]
    BY <1>0 DEF Seen
  <2>. QED
    BY <1>5, <2>1, <2>2
<1>7. \A q \in Client \ {p} : pc'[q] = pc[q] /\ At'[q] = At[q] /\ snap'[q] = snap[q]
  BY <1>0 DEF Apart, At
<1>8. /\ messages \subseteq messages'
      /\ \A d \in messages' : d \in messages \/ CopyOf(d) = i
  BY <1>1, <1>5
<1>9. At[p] = i
  OBVIOUS
<1> HIDE DEF i
<1>10. Stages' = [Stages EXCEPT ![i] = Stages'[i]]
  BY <1>0, <1>3, <1>4, <1>7, <1>8, <1>9, FeedMoves
<1>11. Stages' = [Stages EXCEPT ![i].at = "stored"]
  <2>1. [Stages[i] EXCEPT !.at = "stored"] = Stages'[i]
    BY <1>4, <1>6
  <2>. QED
    BY <1>10, <2>1
<1>12. Published' = Published
  BY <1>1 DEF Published
<1>13. Stages[i].at = "announced"
  BY <1>4
<1>14. Feed!Store(i)
  BY <1>4, <1>11, <1>12, <1>13, FeedStores
<1>. QED
  BY <1>4, <1>14, FeedSteps

(* A handler that gives up before its commit is the feed's Abort; one that    *)
(* gives up elsewhere is not seen.                                          *)
LEMMA GivingUpFeeds ==
  ASSUME FeedInv, FeedInv', NEW p \in Client, Apart(p),
         Answer(p, "deny"), UNCHANGED messages, UNCHANGED notices
  PROVE  FeedSees
<1>0. Seen /\ Seen'
  BY FeedSeen, FeedSeenNext
<1>1. pc'[p] = "idle"
  BY DEF Answer, Goto, FeedInv, IInv, TypeOK
<1>2. pc'[p] \notin Saving
  BY <1>1 DEF Saving, InTx
<1>3. \A q \in Client \ {p} : pc'[q] = pc[q] /\ At'[q] = At[q] /\ snap'[q] = snap[q]
  BY DEF Apart, At
<1>4. Published' = Published
  BY DEF Published
<1>5. CASE pc[p] \notin Saving
  <2>1. Stages' = Stages
    BY <1>0, <1>2, <1>3, <1>5, FeedStutters
  <2>. QED
    BY <1>4, <2>1 DEF FeedSees
<1>6. CASE pc[p] \in Saving
  <2> DEFINE i == At[p]
  <2>1. /\ i \in Copies /\ Stages[i].at \in {"read", "announced"}
        /\ \A d \in messages : CopyOf(d) # i
        /\ \A q \in Client \ {p} : pc[q] \in Saving => mail[q] # mail[p]
    <3>1. Stages[i] = [at |-> IF pc[p] = "commit" THEN "announced" ELSE "read",
                       uid |-> snap[p].uidNext]
      BY <1>0, <1>6 DEF Seen
    <3>2. Stages[i].at = IF pc[p] = "commit" THEN "announced" ELSE "read"
      BY <3>1
    <3>3. Stages[i].at \in {"read", "announced"}
      BY <3>2
    <3>4. /\ i \in Copies
          /\ \A d \in messages : CopyOf(d) # i
          /\ \A q \in Client \ {p} : pc[q] \in Saving => mail[q] # mail[p]
      BY <1>0, <1>6 DEF Seen
    <3>. QED
      BY <3>3, <3>4
  <2>2. \A q \in Client \ {p} : pc[q] \in Saving => At[q] # i
    BY <2>1 DEF At
  <2>3. At[p] = i
    OBVIOUS
  <2> HIDE DEF i
  <2>4. Stages'[i] = [at |-> "none", uid |-> 0]
    <3>1. ~ \E d \in messages' : i = CopyOf(d)
      BY <2>1
    <3>2. ~ \E q \in Client : pc'[q] \in Saving /\ i = At'[q]
      BY <1>2, <1>3, <2>2
    <3>. QED
      BY <1>0, <2>1, <3>1, <3>2 DEF Seen
  <2>5. Stages' = [Stages EXCEPT ![i] = Stages'[i]]
    BY <1>0, <1>2, <1>3, <2>1, <2>3, FeedMoves
  <2>6. Feed!Abort(i)
    BY <1>4, <2>1, <2>4, <2>5, FeedAborts
  <2>. QED
    BY <2>1, <2>6, FeedSteps
<1>. QED
  BY <1>5, <1>6

(* NotifyAgain is the feed's AnnounceAgain. *)
LEMMA NotifyAgainFeeds ==
  ASSUME FeedInv, FeedInv', NEW p \in Client, NotifyAgain(p)
  PROVE  FeedSees
<1>0. Seen /\ Seen' /\ Apart(p)
  BY FeedSeen, FeedSeenNext, StepApart DEF FeedInv, IInv, Progress
<1>1. /\ pc[p] = "notify" /\ pc'[p] = "queue"
      /\ mail' = mail /\ box' = box /\ snap' = snap /\ messages' = messages
      /\ notices' = notices \cup {Notice(p, "handler")}
  BY DEF NotifyAgain, Goto, local, store, FeedInv, IInv, TypeOK
<1>2. pc[p] \notin Saving /\ pc'[p] \notin Saving /\ At' = At
  BY <1>1 DEF Saving, InTx, At
<1>3. PICK d \in messages :
         d.mail = mail[p] /\ d.box = box[p] /\ d.uid = snap[p].uidNext
  BY <1>1 DEF FeedInv, Filed
<1>4. mail[p] \in Outbound
  BY <1>1 DEF FeedInv, Filed
<1> DEFINE i == CopyOf(d)
<1>5. i \in Copies /\ Stages[i] = [at |-> "stored", uid |-> snap[p].uidNext]
  BY <1>0, <1>3 DEF Seen
<1>6. i = <<mail[p], box[p]>> /\ i[1] \in Outbound
  BY <1>3, <1>4 DEF CopyOf
<1> HIDE DEF i
<1>7. \A q \in Client \ {p} : pc'[q] = pc[q] /\ At'[q] = At[q] /\ snap'[q] = snap[q]
  BY <1>0, <1>2 DEF Apart
<1>8. Stages' = Stages
  BY <1>0, <1>1, <1>2, <1>7, FeedStutters
<1>9. Published' = Published \cup
         {[copy |-> i, uid |-> Stages[i].uid, from |-> "handler"]}
  <2>1. Stages[i].uid = snap[p].uidNext
    BY <1>5
  <2>2. LET n == Notice(p, "handler")
        IN  n.mail = mail[p] /\ n.box = box[p] /\ n.uid = snap[p].uidNext
            /\ n.from = "handler"
    BY DEF Notice
  <2>. QED
    BY <1>1, <1>6, <2>1, <2>2 DEF Published
<1>10. Feed!AnnounceAgain(i)
  BY <1>5, <1>6, <1>8, <1>9, FeedAnnouncesAgain
<1>. QED
  BY <1>5, <1>10, FeedSteps

(* The steps between these are not seen. *)
LEMMA QuietSteps ==
  ASSUME FeedInv, FeedInv', NEW p \in Client,
         \/ \E m \in Mail : Accept(p, m)
         \/ Begin(p) \/ CreateThread(p) \/ UpdateThread(p) \/ UpdateCounters(p)
         \/ Queue(p)
  PROVE  FeedSees
<1>0. Seen /\ Seen' /\ Apart(p)
  BY FeedSeen, FeedSeenNext, StepApart DEF FeedInv, IInv, Progress
<1>1. \A q \in Client \ {p} : pc'[q] = pc[q] /\ At'[q] = At[q] /\ snap'[q] = snap[q]
  BY <1>0 DEF Apart, At
<1>2. pc \in [Client -> Pcs]
  BY DEF FeedInv, IInv, TypeOK
<1>3. CASE \E m \in Mail : Accept(p, m)
  <2>1. pc[p] \notin Saving /\ pc'[p] \notin Saving /\ messages' = messages
        /\ notices' = notices
    BY <1>2, <1>3 DEF Accept, Goto, Saving, InTx, store
  <2>. QED
    BY <1>0, <1>1, <2>1, FeedStutters DEF FeedSees, Published
<1>4. CASE Queue(p)
  <2>1. pc[p] \notin Saving /\ pc'[p] \notin Saving /\ messages' = messages
        /\ notices' = notices
    BY <1>2, <1>4 DEF Queue, Answer, Goto, Saving, InTx, store
  <2>. QED
    BY <1>0, <1>1, <2>1, FeedStutters DEF FeedSees, Published
<1>5. CASE Begin(p) \/ CreateThread(p) \/ UpdateThread(p) \/ UpdateCounters(p)
  <2>1. pc[p] \in Saving \ {"commit"} /\ pc'[p] \in Saving \ {"commit"}
    BY <1>2, <1>5 DEF Begin, CreateThread, UpdateThread, UpdateCounters, Goto, Saving, InTx
  <2>2. messages' = messages /\ notices' = notices
    BY <1>5 DEF Begin, CreateThread, UpdateThread, UpdateCounters, store
  <2>3. At' = At /\ snap' = snap
    BY <1>5 DEF Begin, CreateThread, UpdateThread, UpdateCounters, local, At
  <2>. QED
    BY <1>0, <1>1, <2>1, <2>2, <2>3, FeedStutters DEF FeedSees, Published
<1>. QED
  BY <1>3, <1>4, <1>5

(* Every step of saveEmail's callers is a step of the feed, or none of its. *)
LEMMA StepFeeds ==
  ASSUME FeedInv, FeedInv', [Next]_vars
  PROVE  FeedSees
<1>1. CASE UNCHANGED vars
  <2>1. UNCHANGED <<pc, mail, box, snap, messages, notices>>
    BY <1>1 DEF vars
  <2>2. UNCHANGED <<Stages, Published>>
    BY <2>1 DEF Stages, Copies, Stage, Stored, SavingCopy, Published
  <2>. QED
    BY <2>2 DEF FeedSees
<1>2. ASSUME NEW p \in Client,
             (\E m \in Mail : Accept(p, m)) \/ Progress(p) \/ CommitLost(p) \/ Fail(p)
      PROVE  FeedSees
  <2>1. Apart(p)
    BY <1>2, StepApart DEF FeedInv, IInv
  <2>2. CASE WriteConflict(p) \/ NoExistingThread(p) \/ Fail(p)
    <3>1. Answer(p, "deny") /\ UNCHANGED messages /\ UNCHANGED notices
      BY <2>2 DEF WriteConflict, NoExistingThread, Fail, Discard, store
    <3>. QED
      BY <2>1, <3>1, GivingUpFeeds
  <2>3. CASE Lookup(p)
    BY <2>3, LookupFeeds
  <2>4. CASE CreateMessage(p)
    BY <2>4, CreateMessageFeeds
  <2>5. CASE Commit(p) \/ CommitLost(p)
    BY <2>5, CommitFeeds
  <2>6. CASE NotifyAgain(p)
    BY <2>6, NotifyAgainFeeds
  <2>7. CASE \/ \E m \in Mail : Accept(p, m)
             \/ Begin(p) \/ CreateThread(p) \/ UpdateThread(p) \/ UpdateCounters(p)
             \/ Queue(p)
    BY <2>7, QuietSteps
  <2>. QED
    BY <1>2, <2>2, <2>3, <2>4, <2>5, <2>6, <2>7 DEF Progress
<1>. QED
  BY <1>1, <1>2 DEF Next

(* The mail feed the IMAP server runs on is what saveEmail gives it, for      *)
(* every set of clients, mails and mailboxes.                               *)
THEOREM FeedRefinement == Spec => ImplementsFeed
<1>1. Init => Feed!FeedInit
  <2> SUFFICES ASSUME Init PROVE Feed!FeedInit
    OBVIOUS
  <2>1. messages = {} /\ notices = {} /\ \A p \in Client : pc[p] \notin Saving
    BY DEF Init, Saving, InTx
  <2>2. \A i \in Copies : ~ Stored(i[1], i[2]) /\ SavingCopy(i) = {}
    BY <2>1 DEF Stored, SavingCopy
  <2>3. \A i \in Copies : Stage(i) = [at |-> "none", uid |-> 0]
    BY <2>2 DEF Stage
  <2>. QED
    BY <2>1, <2>3 DEF Feed!FeedInit
<1>2. FeedInv /\ FeedInv' /\ [Next]_vars => [Feed!FeedNext]_<<Stages, Published>>
  BY StepFeeds DEF FeedSees
<1>. QED
  BY <1>1, <1>2, FeedInvariance, PTL
     DEF Spec, ImplementsFeed, Feed!FeedSpec, Feed!feed, Stages, Published
=============================================================================
