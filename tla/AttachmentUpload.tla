---------------------------- MODULE AttachmentUpload ----------------------------
(***************************************************************************)
(* One SMTP transaction in the Haraka plugin bizgaze.js: hook_rcpt has each   *)
(* recipient's address checked; while DATA arrives, start_att uploads each    *)
(* attachment to the gRPC handler uploadAttachment; hook_data_post holds the  *)
(* transaction until the uploads have ended; and hook_queue puts the stored   *)
(* attachments into the mail and saves it for the recipients.                *)
(*                                                                          *)
(* Haraka takes one RCPT TO at a time, and DATA after an accepted one.  It     *)
(* answers DENYSOFT for a hook that takes longer than bizgaze.timeout, 150 s;   *)
(* the gRPC calls have no deadline, so the hook's call goes on, and of its     *)
(* answers Haraka hears none but the first.  An address with a `*` is refused   *)
(* at once and checked all the same.                                         *)
(*                                                                          *)
(* Haraka calls attachment_hooks for the parts in their order, and each       *)
(* upload then ends in its own time: by its stream's end, by the 90 s timer,  *)
(* or by an error.  The mail's parts are numbered as the MIME parser sees     *)
(* them.  A part without an id and without a time-out (bizgaze.js:465-469)    *)
(* does not occur: uploadAttachment leaves the id out for incomplete files    *)
(* only.                                                                    *)
(***************************************************************************)
EXTENDS Integers, Sequences, FiniteSets

CONSTANTS
    Parts,   \* number of attachments in the mail
    Rcpt,    \* addresses the sender names
    Wild,    \* those with a `*` in them
    Known    \* those of a user

ASSUME UploadAssumption ==
    /\ Parts \in Nat
    /\ IsFiniteSet(Rcpt) /\ Wild \subseteq Rcpt /\ Known \subseteq Rcpt

Part == 1 .. Parts

VARIABLES
    phase,        \* which hook the transaction is in
    asked,        \* the address whose checkValidity call Haraka waits for
    unheeded,     \* those with a call under way after Haraka's answer
    overtaken,    \* those for whom Haraka's answer came before a call's
    targets,      \* notes.targets.addresses
    accepted,     \* addresses told OK
    recipients,   \* uniquercpt of the saveInbound call
    count,        \* the number of recipients given with each upload
    upload,       \* each part's upload
    file,         \* whether GridFS has each part whole
    todo_count,
    attachments,  \* notes.attachment.attachments
    errors,       \* parts in notes.attachment.attachmentErrors
    waiting,      \* notes.attachment.next is set
    answers       \* answers given to Haraka through it, heard or not

checks == <<asked, unheeded, overtaken, targets, accepted>>
uploads == <<upload, file, todo_count, attachments, errors, count>>
vars == <<phase, checks, recipients, uploads, waiting, answers>>

Init ==
    /\ phase = "rcpt"
    /\ asked = {} /\ unheeded = {} /\ overtaken = {}
    /\ targets = {} /\ accepted = {} /\ recipients = {}
    /\ count = [i \in Part |-> 0]
    /\ upload = [i \in Part |-> "none"]
    /\ file = [i \in Part |-> "none"]
    /\ todo_count = 0
    /\ attachments = <<>>
    /\ errors = {}
    /\ waiting = FALSE
    /\ answers = <<>>

Hooks == {"rcpt", "data", "data_post", "queue", "saving", "ok", "deny"}

-----------------------------------------------------------------------------
(* The recipients.  An operator marked Mutant is a bug this code could have    *)
(* had.                                                                      *)

(* Haraka answers for the address, and the call goes on. *)
Overtake(a) ==
    unheeded' = unheeded \cup {a} /\ overtaken' = overtaken \cup {a}

(* Mutant: the address is accepted before the check's answer. *)
RcptToUnawaited(a) ==
    /\ phase = "rcpt" /\ asked = {} /\ a \notin accepted \cup unheeded
    /\ unheeded' = unheeded \cup {a}
    /\ accepted' = accepted \cup ({a} \ Wild)
    /\ UNCHANGED <<phase, asked, overtaken, targets, recipients, uploads, waiting, answers>>

(* hook_rcpt up to the checkValidity call.  An address that was refused may be   *)
(* named again.  Not while a call for it goes on, nor after it was accepted:    *)
(* the second call would add what the first adds or has added.               *)
RcptTo(a) ==
    /\ phase = "rcpt" /\ asked = {} /\ a \notin accepted \cup unheeded
    /\ IF a \in Wild
       THEN Overtake(a) /\ UNCHANGED asked
       ELSE asked' = {a} /\ UNCHANGED <<unheeded, overtaken>>
    /\ UNCHANGED <<phase, targets, accepted, recipients, uploads, waiting, answers>>

(* The hook's 150 s are over: the address is told DENYSOFT. *)
RcptTimesOut(a) ==
    /\ a \in asked
    /\ asked' = {} /\ Overtake(a)
    /\ UNCHANGED <<phase, targets, accepted, recipients, uploads, waiting, answers>>

(* The address is a user's: it is added, whether or not Haraka still waits. *)
Valid(a) ==
    /\ a \in Known
    /\ \/ /\ a \in asked /\ asked' = {} /\ accepted' = accepted \cup {a}
          /\ UNCHANGED unheeded
       \/ /\ a \in unheeded /\ unheeded' = unheeded \ {a}
          /\ UNCHANGED <<asked, accepted>>
    /\ targets' = targets \cup {a}
    /\ UNCHANGED <<phase, overtaken, recipients, uploads, waiting, answers>>

(* The address is nobody's, or the call fails. *)
Invalid(a) ==
    /\ \/ a \in asked /\ asked' = {} /\ UNCHANGED unheeded
       \/ a \in unheeded /\ unheeded' = unheeded \ {a} /\ UNCHANGED asked
    /\ UNCHANGED <<phase, overtaken, targets, accepted, recipients, uploads, waiting, answers>>

(* The sender goes on to DATA: hook_data. *)
Data ==
    /\ phase = "rcpt"
    /\ accepted # {} /\ asked = {}
    /\ phase' = "data"
    /\ UNCHANGED <<checks, recipients, uploads, waiting, answers>>

-----------------------------------------------------------------------------
(* The uploads *)

(* start_att *)
Start(i) ==
    /\ phase = "data"
    /\ upload[i] = "none" /\ \A j \in Part : j < i => upload[j] # "none"
    /\ upload' = [upload EXCEPT ![i] = "streaming"]
    /\ todo_count' = todo_count + 1
    /\ count' = [count EXCEPT ![i] = Cardinality(targets)]
    /\ UNCHANGED <<phase, checks, recipients, file, attachments, errors, waiting, answers>>

(* The base64 encoder ends: the timer is cleared and the call half-closed. *)
StreamEnd(i) ==
    /\ upload[i] = "streaming"
    /\ upload' = [upload EXCEPT ![i] = "sent"]
    /\ UNCHANGED <<phase, checks, recipients, file, todo_count, attachments, errors,
                   count, waiting, answers>>

(* 90 s: the server is told that the file is incomplete. *)
TimeOut(i) ==
    /\ upload[i] = "streaming"
    /\ upload' = [upload EXCEPT ![i] = "timedOut"]
    /\ UNCHANGED <<phase, checks, recipients, file, todo_count, attachments, errors,
                   count, waiting, answers>>

(* The hook that waits is answered; Haraka goes on from it, unless it has       *)
(* already gone on without the answer.                                       *)
Release(answer) ==
    /\ answers' = Append(answers, answer)
    /\ phase' = IF phase = "data_post" THEN answer ELSE phase

(* Mutant: every upload that ends answers the waiting hook. *)
ProceedEachTime ==
    IF ~ waiting
    THEN UNCHANGED <<phase, answers>>
    ELSE Release(IF errors' # {} THEN "deny" ELSE "queue")

(* next() of start_att, in the state the caller has just reached. *)
Proceed ==
    IF todo_count' > 0 \/ ~ waiting
    THEN UNCHANGED <<phase, answers>>
    ELSE Release(IF errors' # {} THEN "deny" ELSE "queue")

(* The server stored the whole file and answered its id. *)
Uploaded(i) ==
    /\ upload[i] = "sent"
    /\ upload' = [upload EXCEPT ![i] = "done"]
    /\ file' = [file EXCEPT ![i] = "complete"]
    /\ todo_count' = todo_count - 1
    /\ attachments' = Append(attachments, i)
    /\ UNCHANGED <<checks, recipients, errors, count, waiting>>
    /\ Proceed

(* Mutant: an upload that timed out is taken for one that ended. *)
TimedOutTakenForDone(i) ==
    /\ upload[i] = "timedOut"
    /\ upload' = [upload EXCEPT ![i] = "done"]
    /\ todo_count' = todo_count - 1
    /\ attachments' = Append(attachments, i)
    /\ UNCHANGED <<checks, recipients, file, errors, count, waiting>>
    /\ Proceed

(* The server stored the incomplete file, deleted it and answered no id. *)
TimedOutAnswer(i) ==
    /\ upload[i] = "timedOut"
    /\ upload' = [upload EXCEPT ![i] = "done"]
    /\ todo_count' = todo_count - 1
    /\ errors' = errors \cup {i}
    /\ UNCHANGED <<checks, recipients, file, attachments, count, waiting>>
    /\ Proceed

(* The call is rejected: the file could not be stored or, after a time-out,  *)
(* not deleted, so that a part of it stays.  A rejection is seen when the call *)
(* has been ended.                                                          *)
UploadFails(i) ==
    /\ upload[i] \in {"sent", "timedOut"}
    /\ upload' = [upload EXCEPT ![i] = "done"]
    /\ todo_count' = todo_count - 1
    /\ errors' = errors \cup {i}
    /\ UNCHANGED <<checks, recipients, file, attachments, count, waiting>>
    /\ Proceed

-----------------------------------------------------------------------------
(* The hooks *)

(* hook_data_post: errors of uploads that have already ended are not looked  *)
(* at here.                                                                 *)
DataPost ==
    /\ phase = "data"
    /\ \A i \in Part : upload[i] # "none"
    /\ IF todo_count > 0
       THEN phase' = "data_post" /\ waiting' = TRUE
       ELSE phase' = "queue" /\ UNCHANGED waiting
    /\ UNCHANGED <<checks, recipients, uploads, answers>>

(* The hook's 150 s are over: the mail is told DENYSOFT, and notes.next stays. *)
DataPostTimesOut ==
    /\ phase = "data_post"
    /\ phase' = "deny"
    /\ UNCHANGED <<checks, recipients, uploads, waiting, answers>>

(* Mutant: the answer is given without waiting for saveInbound. *)
QueueUnawaited ==
    /\ phase = "queue"
    /\ IF Len(attachments) < Parts
       THEN phase' = "deny" /\ UNCHANGED recipients
       ELSE phase' = "ok" /\ recipients' = targets
    /\ UNCHANGED <<checks, uploads, waiting, answers>>

(* hook_queue up to the saveInbound call.  attachments[i].id throws when      *)
(* there are fewer attachments than MIME parts; the catch denies the mail.   *)
Queue ==
    /\ phase = "queue"
    /\ IF Len(attachments) < Parts
       THEN phase' = "deny" /\ UNCHANGED recipients
       ELSE phase' = "saving" /\ recipients' = targets
    /\ UNCHANGED <<checks, uploads, waiting, answers>>

(* The mail does not parse, or its addresses do not. *)
ParseFails ==
    /\ phase = "queue"
    /\ phase' = "deny"
    /\ UNCHANGED <<checks, recipients, uploads, waiting, answers>>

(* saveInbound answers, or the hook's 150 s are over and the mail is told        *)
(* DENYSOFT.                                                                *)
Saved ==
    /\ phase = "saving"
    /\ phase' \in {"ok", "deny"}
    /\ UNCHANGED <<checks, recipients, uploads, waiting, answers>>

(* attachmentMap: the stored file hook_queue gives the MIME parser's i-th part. *)
AttachmentMap == [i \in Part |-> attachments[i]]

Step(i) == StreamEnd(i) \/ TimeOut(i)
Answered(i) == Uploaded(i) \/ TimedOutAnswer(i) \/ UploadFails(i)
Hook == DataPost \/ DataPostTimesOut \/ Queue \/ ParseFails \/ Saved

Next ==
    \/ \E a \in Rcpt : RcptTo(a) \/ RcptTimesOut(a) \/ Valid(a) \/ Invalid(a)
    \/ Data
    \/ \E i \in Part : Start(i) \/ Step(i) \/ Answered(i)
    \/ Hook

(* The 90 s timer ends a stream that does not end, and Haraka runs its hooks,   *)
(* for 150 s at most.  Nothing makes a gRPC call end, and the sender may stop.  *)
Fairness ==
    /\ \A i \in Part : WF_vars(Step(i))
    /\ WF_vars(Hook)

Spec == Init /\ [][Next]_vars /\ Fairness

-----------------------------------------------------------------------------
(* Properties *)

TypeOK ==
    /\ phase \in Hooks
    /\ asked \subseteq Rcpt \ Wild /\ unheeded \subseteq Rcpt /\ overtaken \subseteq Rcpt
    /\ targets \subseteq Known /\ accepted \subseteq Rcpt /\ recipients \subseteq Rcpt
    /\ count \in [Part -> 0 .. Cardinality(Rcpt)]
    /\ upload \in [Part -> {"none", "streaming", "sent", "timedOut", "done"}]
    /\ file \in [Part -> {"none", "complete"}]
    /\ todo_count \in 0 .. Parts
    /\ attachments \in Seq(Part)
    /\ errors \subseteq Part
    /\ waiting \in BOOLEAN
    /\ answers \in Seq({"queue", "deny"})

(* hook_data_post is answered once, and only when the last upload has ended,  *)
(* in whichever order the uploads, the hook and its time-out come; the mail is  *)
(* not queued before that, nor when the answer was a refusal.  (The types come  *)
(* with it.)                                                                *)
HookAnsweredLast ==
    /\ TypeOK
    /\ Len(answers) <= 1
    /\ answers # <<>> => waiting
    /\ phase \in {"queue", "saving", "ok"} \/ answers # <<>> =>
          \A i \in Part : upload[i] = "done"
    /\ phase \in {"queue", "saving", "ok"} => answers \in {<<>>, <<"queue">>}

(* A mail told "ok" has every part stored whole, each exactly once, although  *)
(* hook_data_post ignores errors that came before it.                        *)
OkMeansWhole ==
    phase = "ok" =>
        /\ Len(attachments) = Parts
        /\ \A i \in Part : file[i] = "complete"
        /\ \A i \in Part : \E k \in Part : attachments[k] = i

(* A mail is saved for every recipient the sender was told OK.  Of those who   *)
(* were refused, it can reach only users who were refused before their check    *)
(* ended (their address has a `*`, or the check outlasted the hook): it can     *)
(* end between the refusal and hook_queue.  Each attachment is stored with a    *)
(* number of recipients between those told OK and those the mail is saved for; *)
(* so never with 0, which uploadAttachment refuses.                          *)
RecipientsServed ==
    phase \in {"saving", "ok"} =>
        /\ accepted \subseteq recipients /\ recipients \ accepted \subseteq overtaken
        /\ \A i \in Part :
              /\ count[i] > 0
              /\ count[i] \in Cardinality(accepted) .. Cardinality(recipients)

(* bizgaze.js:165-166: the map references "stored attachments in the parsed   *)
(* mime tree to rebuild the orignal email later": each part its own file.    *)
PartsKeepTheirFiles ==
    phase = "saving" => \A i \in Part : AttachmentMap[i] = i
=============================================================================
