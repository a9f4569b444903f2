---------------------------- MODULE MCImapServer ----------------------------
(* Small instances of ImapServer: alice has an Inbox and a Sent Mail mailbox, *)
(* bob an Inbox; a copy of a mail arrives in alice's Inbox.                  *)
EXTENDS ImapServer

CONSTANTS c1, c2, t1, t2, i1, alice, bob, inA, sentA, inB

MCOwner == [b \in Mailbox |-> IF b = inB THEN bob ELSE alice]
MCBoxOf == [i \in Copy |-> inA]

(* Clients that wait for each answer, and one that keeps two commands going. *)
Sequential == [c \in Conn |-> {t1}]
Overlapping == [c \in Conn |-> IF c = c1 THEN {t1, t2} ELSE {t1}]
=============================================================================
