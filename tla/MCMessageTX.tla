---------------------------- MODULE MCMessageTX ----------------------------
(* A small instance of MessageTX: two people, alice with an Inbox and a Sent  *)
(* Mail mailbox, and bob with an Inbox.  Four mails: one alice sends, two     *)
(* replies to it that meet in its thread, one of them to both people, and a    *)
(* mail that has lost one of its two reference headers.                       *)
EXTENDS MessageTX

CONSTANTS c1, c2, inA, sentA, inB, m1, m2, m3, m4

MCMailbox == {inA, sentA, inB}
MCAddressOf == [b \in MCMailbox |-> IF b = inB THEN "bob" ELSE "alice"]

MCMail == {m1, m2, m3, m4}
MCRcpt == [m \in MCMail |->
    CASE m = m1 -> {sentA} [] m = m3 -> {inA, inB} [] m = m4 -> {inB} [] OTHER -> {inA}]
MCHeaders == [m \in MCMail |->
    CASE m = m1 -> "none" [] m = m4 -> "one" [] OTHER -> "both"]
MCRefs == [m \in MCMail |->
    CASE m = m2 -> {m1} [] m = m3 -> {m1, m2} [] OTHER -> {}]
MCSubject == [m \in MCMail |-> IF m = m3 THEN "" ELSE "x"]
=============================================================================
