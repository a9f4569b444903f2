---------------------------- MODULE OutboundDelivery ----------------------------
(***************************************************************************)
(* A mail that a user sends: the end of the HTTP handler outboundMessage,     *)
(* which has stored the Sent copy and hands the mail to Haraka; the plugin    *)
(* bizgazeOutbound.js, which has the sender checked before Haraka queues the   *)
(* mail and reports what becomes of its deliveries; and the gRPC handler       *)
(* updateSavedMessage, which pushes each report to every stored copy of it.    *)
(*                                                                          *)
(* Haraka itself is external: it makes one delivery of each of the mail's     *)
(* domains, attempts it until a hook or its own limit stops it, and answers   *)
(* for a plugin whose hook takes longer than bizgazeOutbound.timeout, 150 s.   *)
(* The gRPC calls have no deadline, so a call can take effect after that.     *)
(* A delivery whose domain is this server's stores a copy of the mail for each  *)
(* recipient, which has the Message-ID of the Sent copy.                     *)
(*                                                                          *)
(* MongoDB updates one document atomically, and those of an updateMany one     *)
(* after the other: between two of them another update can go on, or a copy    *)
(* be stored, and an error leaves the rest as they were.                     *)
(***************************************************************************)
EXTENDS Naturals, Sequences, FiniteSets

CONSTANTS
    Domain,           \* the domains of the recipients, a delivery each
    Retries           \* Haraka's limit of temporary failures

ASSUME OutboundAssumption ==
    IsFiniteSet(Domain) /\ "sender" \notin Domain /\ Retries \in Nat \ {0}

VARIABLES
    request,    \* where outboundMessage is, in the end what it answers
    lost,       \* sendMail failed without Haraka's answer
    submission, \* the transaction that hands the mail to Haraka
    delivery,   \* what Haraka does with each delivery
    failures,   \* hmail.num_failures
    calls,      \* updateSavedMessage calls under way: delivery and stage
    pushed,     \* and which documents each has updated: 0 is the Sent copy
    late,       \* deliveries a hook of which timed out
    sent,       \* metadata.outboundStatus of the Sent copy
    copies      \* and that of each recipient's copy stored so far

outVars == <<request, lost, submission, delivery, failures, calls, pushed, late,
             sent, copies>>

OutInit ==
    /\ request = "saving" /\ lost = FALSE
    /\ submission = "none"
    /\ delivery = [d \in Domain |-> "none"]
    /\ failures = [d \in Domain |-> 0]
    /\ calls = {} /\ pushed = {} /\ late = {}
    /\ sent = <<>> /\ copies = <<>>

Final == {"delivered", "bounced"}
Stages == {"deferred"} \cup Final

-----------------------------------------------------------------------------
(* outboundMessage.  An operator marked Mutant is a bug this code could have    *)
(* had.                                                                      *)

(* saveEmail, modelled by MessageTX: only a saved mail is sent. *)
Save ==
    /\ request = "saving"
    /\ \/ request' = "sending" /\ submission' = "checking"
       \/ request' = "error" /\ UNCHANGED submission
    /\ UNCHANGED <<lost, delivery, failures, calls, pushed, late, sent, copies>>

(* Mutant: the promise of sendMail is not rejected. *)
SendEndsIfTaken ==
    /\ request = "sending" /\ submission = "relayed"
    /\ request' = "queued"
    /\ UNCHANGED <<lost, submission, delivery, failures, calls, pushed, late, sent, copies>>

(* Mutant: sendMail's error is logged and not looked at. *)
SendEndsUnread ==
    /\ request = "sending" /\ submission \in {"relayed", "denied"}
    /\ request' = "queued"
    /\ UNCHANGED <<lost, submission, delivery, failures, calls, pushed, late, sent, copies>>

(* sendMail settles with Haraka's answer. *)
SendEnds ==
    /\ request = "sending" /\ submission \in {"relayed", "denied"}
    /\ request' = IF submission = "relayed" THEN "queued" ELSE "failing"
    /\ UNCHANGED <<lost, submission, delivery, failures, calls, pushed, late, sent, copies>>

(* Haraka cannot be reached, refuses the login, or its answer is lost: the     *)
(* mail may have been, or may still be, relayed.                             *)
SendFails ==
    /\ request = "sending"
    /\ request' = "failing" /\ lost' = TRUE
    /\ \/ UNCHANGED submission
       \/ submission = "checking" /\ submission' = "denied"
    /\ UNCHANGED <<delivery, failures, calls, pushed, late, sent, copies>>

(* Mutant: the failure is pushed by Message-ID, to every copy. *)
RecordFailureEverywhere ==
    /\ request = "failing"
    /\ request' = "failed"
    /\ sent' = Append(sent, <<"sender", "failed">>)
    /\ copies' = [k \in DOMAIN copies |-> Append(copies[k], <<"sender", "failed">>)]
    /\ UNCHANGED <<lost, submission, delivery, failures, calls, pushed, late>>

(* The failure is pushed to the Sent copy alone, by its _id; the handler        *)
(* answers 200 with "failed to queue", or 500 when the push fails.            *)
RecordFailure ==
    /\ request = "failing"
    /\ \/ request' = "failed" /\ sent' = Append(sent, <<"sender", "failed">>)
       \/ request' = "error" /\ UNCHANGED sent
    /\ UNCHANGED <<lost, submission, delivery, failures, calls, pushed, late, copies>>

-----------------------------------------------------------------------------
(* hook_queue_outbound *)

Relay ==
    /\ submission' = "relayed"
    /\ delivery' = [d \in Domain |-> "waiting"]

(* checkValidity answers: next(CONT) for a user, next(DENY) for anyone else.   *)
(* Its catch refers to an undeclared variable, so that next is never called    *)
(* when the call fails.                                                     *)
SenderChecked ==
    /\ submission = "checking"
    /\ \/ Relay
       \/ submission' \in {"denied", "stuck"} /\ UNCHANGED delivery
    /\ UNCHANGED <<request, lost, failures, calls, pushed, late, sent, copies>>

(* The hook's 150 s are over: Haraka goes on, or tells the client to retry. *)
SenderUnchecked ==
    /\ submission \in {"checking", "stuck"}
    /\ \/ Relay
       \/ submission' = "denied" /\ UNCHANGED delivery
    /\ UNCHANGED <<request, lost, failures, calls, pushed, late, sent, copies>>

-----------------------------------------------------------------------------
(* The deliveries *)

Attempt(d) ==
    /\ delivery[d] = "waiting"
    /\ delivery' = [delivery EXCEPT ![d] = "trying"]
    /\ UNCHANGED <<request, lost, submission, failures, calls, pushed, late, sent, copies>>

(* The recipient's server is this one, and stores the mail. *)
StoreCopy == copies' = Append(copies, <<>>)

(* A hook that waits for its updateSavedMessage call. *)
Report(d, stage) ==
    /\ delivery' = [delivery EXCEPT ![d] = stage]
    /\ calls' = calls \cup {<<d, stage>>}

(* hook_delivered and hook_bounce *)
Succeed(d) ==
    /\ delivery[d] = "trying" /\ Report(d, "delivered")
    /\ UNCHANGED <<request, lost, submission, failures, pushed, late, sent, copies>>

Bounce(d) ==
    /\ delivery[d] = "trying" /\ Report(d, "bounced")
    /\ UNCHANGED <<request, lost, submission, failures, pushed, late, sent, copies>>

(* hook_deferred: the first failure is reported and ends the delivery; one     *)
(* after it, possible since a hook may have timed out, is left to Haraka,     *)
(* whose limit turns the last failure into a bounce.                         *)
Defer(d) ==
    /\ delivery[d] = "trying"
    /\ failures' = [failures EXCEPT ![d] = @ + 1]
    /\ IF failures[d] = Retries THEN Report(d, "bounced")
       ELSE IF failures'[d] = 1 THEN Report(d, "deferred")
       ELSE delivery' = [delivery EXCEPT ![d] = "waiting"] /\ UNCHANGED calls
    /\ UNCHANGED <<request, lost, submission, pushed, late, sent, copies>>

(* updateMany goes on to one more document with the Message-ID, whichever it    *)
(* comes to; a copy stored after the call began may be among them.           *)
Push(d, stage) ==
    /\ <<d, stage>> \in calls
    /\ \E doc \in {0} \cup DOMAIN copies :
          /\ <<d, stage, doc>> \notin pushed
          /\ pushed' = pushed \cup {<<d, stage, doc>>}
          /\ IF doc = 0
             THEN sent' = Append(sent, <<d, stage>>) /\ UNCHANGED copies
             ELSE copies' = [copies EXCEPT ![doc] = Append(@, <<d, stage>>)] /\ UNCHANGED sent
    /\ UNCHANGED <<request, lost, submission, delivery, failures, calls, late>>

(* Mutant: after hook_deferred Haraka tries again. *)
AnswerRetries(d) ==
    IF delivery[d] = "deferred" THEN [delivery EXCEPT ![d] = "waiting"]
    ELSE [delivery EXCEPT ![d] = "done"]

(* next(OK), which ends the delivery whichever hook it is and whether or not    *)
(* the update succeeded.  An answer after the hook's time is ignored.         *)
Answer(d) == [delivery EXCEPT ![d] = "done"]

(* The call ends: every document is updated, or the update or the call failed    *)
(* before the first or between two of them.                                  *)
CallEnds(d, stage) ==
    /\ <<d, stage>> \in calls
    /\ calls' = calls \ {<<d, stage>>}
    /\ pushed' = {p \in pushed : <<p[1], p[2]>> # <<d, stage>>}
    /\ delivery' = IF delivery[d] = stage THEN Answer(d) ELSE delivery
    /\ UNCHANGED <<request, lost, submission, failures, late, sent, copies>>

(* The connection to the server fails: the hook ends, and the update goes on.   *)
AnswerLost(d) ==
    /\ delivery[d] \in Stages
    /\ delivery' = Answer(d)
    /\ UNCHANGED <<request, lost, submission, failures, calls, pushed, late, sent, copies>>

(* 150 s: Haraka goes on without the hook, and the call may end yet. *)
HookTimesOut(d) ==
    /\ delivery[d] \in Stages
    /\ delivery' = [delivery EXCEPT ![d] = IF @ = "deferred" THEN "waiting" ELSE "done"]
    /\ late' = late \cup {d}
    /\ UNCHANGED <<request, lost, submission, failures, calls, pushed, sent, copies>>

Sender == Save \/ SendEnds \/ SendFails \/ RecordFailure
Queueing == SenderChecked \/ SenderUnchecked
Reporting(d) ==
    \/ HookTimesOut(d) \/ AnswerLost(d)
    \/ \E stage \in Stages : Push(d, stage) \/ CallEnds(d, stage)
Outcome(d) == Succeed(d) \/ Bounce(d) \/ Defer(d)

-----------------------------------------------------------------------------
(* Properties *)

OutTypeOK ==
    /\ request \in {"saving", "sending", "failing", "queued", "failed", "error"}
    /\ lost \in BOOLEAN
    /\ submission \in {"none", "checking", "stuck", "relayed", "denied"}
    /\ delivery \in [Domain -> {"none", "waiting", "trying", "done"} \cup Stages]
    /\ failures \in [Domain -> 0 .. Retries + 1]
    /\ calls \subseteq Domain \X Stages
    /\ pushed \subseteq Domain \X Stages \X ({0} \cup DOMAIN copies)
    /\ late \subseteq Domain
    /\ sent \in Seq(((Domain \X Stages) \cup {<<"sender", "failed">>}))
    /\ copies \in Seq(Seq(Domain \X Stages))

Statuses(d) == {k \in DOMAIN sent : sent[k][1] = d}

(* The answer to the sender and the Sent copy agree with what became of the    *)
(* mail: "queued" is said of a mail that Haraka has; "failed to queue" is on   *)
(* the Sent copy, and reports of deliveries beside it mean that Haraka's       *)
(* answer was lost.                                                         *)
ToldAsQueued ==
    LET failed == <<"sender", "failed">> \in {sent[k] : k \in DOMAIN sent}
    IN  /\ request = "queued" => submission = "relayed" /\ ~ failed
        /\ request = "failed" => failed
        /\ failed /\ Len(sent) > 1 => lost

(* The Sent copy says one thing of a delivery, unless one of its hooks timed   *)
(* out; then it can be "deferred" and what came after it, in any order.  (The  *)
(* types come with it.)                                                      *)
OneVerdict ==
    /\ OutTypeOK
    /\ \A d \in Domain :
          /\ d \notin late => Cardinality(Statuses(d)) <= 1
          /\ Cardinality(Statuses(d)) <= 2
          /\ \A j, k \in Statuses(d) : j # k => sent[j] # sent[k]

(* What any copy says of the deliveries, the Sent copy among them. *)
Told(d) ==
    {sent[k] : k \in Statuses(d)}
        \cup {s \in UNION {{copies[i][k] : k \in DOMAIN copies[i]} : i \in DOMAIN copies} : s[1] = d}

(* The copies agree, although each is updated by itself and an update can stop   *)
(* between two of them: of a delivery none of whose hooks timed out they say    *)
(* one thing, those that say anything of it; none says of a delivery that it    *)
(* was made when another says that it was not; and a recipient's copy says       *)
(* nothing twice, and never that the mail it came from could not be queued.    *)
CopiesAgree ==
    /\ \A d \in Domain :
          /\ d \notin late => \A s, t \in Told(d) : s = t
          /\ ~ Final \subseteq {s[2] : s \in Told(d)}
    /\ \A i \in DOMAIN copies :
          /\ \A k \in DOMAIN copies[i] : copies[i][k][1] \in Domain
          /\ \A j, k \in DOMAIN copies[i] : j # k => copies[i][j] # copies[i][k]
=============================================================================
