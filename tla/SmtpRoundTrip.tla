----------------------------- MODULE SmtpRoundTrip -----------------------------
(***************************************************************************)
(* A mail's way through both plugins: outboundMessage hands it to Haraka and   *)
(* bizgazeOutbound.js (OutboundDelivery); the delivery to this server's own    *)
(* domain is an SMTP transaction with bizgaze.js (AttachmentUpload), which     *)
(* stores the recipients' copy, and whose answer the first plugin reports.     *)
(* A mail from outside comes in the same way.                                *)
(***************************************************************************)
EXTENDS AttachmentUpload, OutboundDelivery

CONSTANT Local    \* this server's domain

VARIABLE unheard  \* saveInbound calls that Haraka no longer waits for

ASSUME RoundTripAssumption == Local \in Domain

allVars == <<vars, outVars, unheard>>

Outbound == UNCHANGED <<vars, unheard>>

(* The connection to this server ends, and what its calls still do goes to      *)
(* notes that nothing reads.                                                *)
Disconnect ==
    /\ phase' = "rcpt"
    /\ asked' = {} /\ unheeded' = {} /\ overtaken' = {}
    /\ targets' = {} /\ accepted' = {}
    /\ recipients' = {}
    /\ count' = [i \in Part |-> 0]
    /\ upload' = [i \in Part |-> "none"] /\ file' = [i \in Part |-> "none"]
    /\ todo_count' = 0 /\ attachments' = <<>> /\ errors' = {}
    /\ waiting' = FALSE /\ answers' = <<>>

(* The transaction takes a step; saveInbound stores the copies, of which one     *)
(* stands for those of a call, and may say that it failed when it did not.  A   *)
(* call that outlasts the hook may store them yet.                           *)
Transaction(step) ==
    /\ delivery[Local] = "trying"
    /\ step
    /\ IF phase = "saving" /\ phase' # "saving"
       THEN \/ StoreCopy /\ UNCHANGED unheard
            \/ phase' = "deny" /\ UNCHANGED copies /\ unheard' \in {unheard, unheard + 1}
       ELSE UNCHANGED <<copies, unheard>>
    /\ UNCHANGED <<request, lost, submission, delivery, failures, calls, pushed, late, sent>>

Receive == Transaction(Next)

(* The call that Haraka no longer waits for ends. *)
LateSave ==
    /\ unheard > 0
    /\ unheard' = unheard - 1
    /\ StoreCopy \/ UNCHANGED copies
    /\ UNCHANGED <<vars, request, lost, submission, delivery, failures, calls, pushed, late,
                   sent>>

(* What Haraka makes of the transaction: an answer is the delivery's outcome, a *)
(* refused or lost one ends it as well.  A delivery some of whose recipients    *)
(* are refused is split by Haraka, and the refused part bounces by itself.    *)
LocalOutcome ==
    /\ \/ phase = "ok" /\ Succeed(Local)
       \/ phase = "deny" /\ Bounce(Local)
       \/ phase = "rcpt" /\ accepted = {} /\ Bounce(Local)
       \/ phase \in {"rcpt", "ok", "deny"} /\ Defer(Local)
    /\ Disconnect
    /\ UNCHANGED unheard

Try(d) == IF d = Local THEN LocalOutcome ELSE Outcome(d) /\ Outbound

RoundTripInit == Init /\ OutInit /\ unheard = 0

RoundTripNext ==
    \/ Sender /\ Outbound
    \/ Queueing /\ Outbound
    \/ Receive
    \/ LateSave
    \/ \E d \in Domain : Try(d)
    \/ \E d \in Domain : (Attempt(d) \/ Reporting(d)) /\ Outbound

(* sendMail settles and the push to the Sent copy ends; Haraka runs the hooks   *)
(* of both plugins for no more than their time-outs, and gives up attempts by  *)
(* itself; the sending side of the transaction does not stop.  Nothing makes a  *)
(* gRPC call end, and no upload.                                            *)
RoundTripFairness ==
    /\ WF_allVars((SendEnds \/ RecordFailure) /\ Outbound)
    /\ WF_allVars(SenderUnchecked /\ Outbound)
    /\ WF_allVars(Transaction(Hook \/ \E i \in Part : Start(i)))
    /\ \A d \in Domain :
          WF_allVars(Try(d)) /\ WF_allVars((Attempt(d) \/ HookTimesOut(d)) /\ Outbound)

RoundTripSpec == RoundTripInit /\ [][RoundTripNext]_allVars /\ RoundTripFairness

-----------------------------------------------------------------------------
(* Properties *)

(* The sender is told that this server's domain got the mail only when a copy *)
(* of it is stored (with every part whole: OkMeansWhole), however often the    *)
(* delivery was tried and its hooks timed out.  (The type of the variable that  *)
(* this module adds comes with it.)                                         *)
DeliveredMeansStored ==
    /\ unheard \in Nat
    /\ <<Local, "delivered">> \in {sent[k] : k \in DOMAIN sent} => copies # <<>>

(* The request that sends a mail is answered, and a mail that Haraka took,      *)
(* before the answer or after it, is done with: each delivery ends, and none is *)
(* tried for ever.                                                          *)
MailSettles ==
    (request # "saving") ~>
        /\ request \in {"queued", "failed", "error"}
        /\ submission = "relayed" => \A d \in Domain : delivery[d] = "done"
=============================================================================
