----------------------------- MODULE MailboxStore -----------------------------
(***************************************************************************)
(* What storing a mail promises, without transactions: a mail enters a      *)
(* mailbox at most once, in one step with the mailbox's three counters, and *)
(* its UID is one the mailbox has already reserved or is about to reserve.  *)
(***************************************************************************)
EXTENDS Integers

CONSTANTS Mail, Mailbox

VARIABLES boxes, messages

Init ==
    /\ boxes = [b \in Mailbox |-> [uidNext |-> 1, modifyIndex |-> 0, total |-> 0]]
    /\ messages = {}

(* The UID may be one already used: the promise is only an upper bound. *)
Deliver(m, b) ==
    /\ \A d \in messages : d.mail # m \/ d.box # b
    /\ \E n \in 1 .. boxes[b].uidNext :
          messages' = messages \cup {[mail |-> m, box |-> b, uid |-> n, modseq |-> n]}
    /\ boxes' = [boxes EXCEPT ![b] = [uidNext |-> @.uidNext + 1,
                                      modifyIndex |-> @.modifyIndex + 1,
                                      total |-> @.total + 1]]

Next == \E m \in Mail, b \in Mailbox : Deliver(m, b)

Spec == Init /\ [][Next]_<<boxes, messages>>
=============================================================================
