------------------------------- MODULE MailFeed -------------------------------
(***************************************************************************)
(* What the IMAP server can rely on from the code that stores mail.  A copy  *)
(* of a mail takes the UID its handler read from the mailbox, is announced   *)
(* on Redis while its transaction is still open, and then is stored or       *)
(* vanishes; an outgoing copy is announced once more when it is stored.      *)
(* Counters are not state here: a mailbox's uidNext is one more than the     *)
(* number of messages stored in it, and a message's modseq is its UID.       *)
(*                                                                          *)
(* MessageTX implements this feed (MessageTX!ImplementsFeed), and ImapServer *)
(* runs on top of it.                                                       *)
(***************************************************************************)
EXTENDS Integers, FiniteSets

CONSTANTS
    Copy,      \* copies of mails, one per recipient mailbox
    BoxOf,     \* the mailbox a copy goes to
    Outgoing   \* the copies filed by outboundMessage

VARIABLES
    stage,     \* how far each copy has come, and the UID it has
    published  \* notices published on Redis so far

feed == <<stage, published>>

Stored(i) == stage[i].at = "stored"
StoredIn(b) == {i \in Copy : BoxOf[i] = b /\ Stored(i)}
Total(b) == Cardinality(StoredIn(b))
Uids(b) == {stage[i].uid : i \in StoredIn(b)}

NoticeOf(i, from) == [copy |-> i, uid |-> stage[i].uid, from |-> from]

FeedInit ==
    /\ stage = [i \in Copy |-> [at |-> "none", uid |-> 0]]
    /\ published = {}

(* The handler reads uidNext, outside the transaction. *)
ReadCounters(i) ==
    /\ stage[i].at = "none"
    /\ stage' = [stage EXCEPT ![i] = [at |-> "read", uid |-> Total(BoxOf[i]) + 1]]
    /\ UNCHANGED published

(* Only one transaction at a time can have bumped a mailbox's counters, and   *)
(* saveEmail announces a copy after that.                                    *)
Announce(i) ==
    /\ stage[i].at = "read"
    /\ \A j \in Copy : stage[j].at = "announced" => BoxOf[j] # BoxOf[i]
    /\ stage' = [stage EXCEPT ![i].at = "announced"]
    /\ published' = published \cup {NoticeOf(i, "transaction")}

Store(i) ==
    /\ stage[i].at = "announced"
    /\ stage' = [stage EXCEPT ![i].at = "stored"]
    /\ UNCHANGED published

(* The transaction aborts, before or after its notice went out.  The feed     *)
(* does not say whether the sender tries again.                              *)
Abort(i) ==
    /\ stage[i].at \in {"read", "announced"}
    /\ stage' = [stage EXCEPT ![i] = [at |-> "none", uid |-> 0]]
    /\ UNCHANGED published

AnnounceAgain(i) ==
    /\ i \in Outgoing /\ Stored(i)
    /\ published' = published \cup {NoticeOf(i, "handler")}
    /\ UNCHANGED stage

FeedNext ==
    \E i \in Copy : ReadCounters(i) \/ Announce(i) \/ Store(i) \/ Abort(i)
                    \/ AnnounceAgain(i)

FeedSpec == FeedInit /\ [][FeedNext]_feed
=============================================================================
