-------------------------- MODULE SmtpRoundTripProofs --------------------------
(***************************************************************************)
(* Theorems about a mail's way through both plugins, for any domains, number   *)
(* of retries, parts and addresses.  The transaction that comes in goes first,  *)
(* by itself: UploadInv is its inductive invariant, its conjuncts one idea      *)
(* each.  What holds of it holds of the whole with the transaction's notes      *)
(* dropped at its end.                                                       *)
(***************************************************************************)
EXTENDS SmtpRoundTrip, TLAPS, FiniteSetTheorems

-----------------------------------------------------------------------------
(* AttachmentUpload: the inductive invariant *)

Running(i) == upload[i] \in {"streaming", "sent", "timedOut"}
RunningParts == {i \in Part : Running(i)}

(* todo_count counts the uploads that run. *)
Counted == todo_count = Cardinality(RunningParts)

(* Each attachment is that of one upload which ended well. *)
Filed ==
    /\ \A k \in DOMAIN attachments :
          /\ upload[attachments[k]] = "done"
          /\ file[attachments[k]] = "complete"
    /\ \A j, k \in DOMAIN attachments : attachments[j] = attachments[k] => j = k
    /\ phase \in {"saving", "ok"} => Len(attachments) = Parts

(* Which uploads have begun and ended in each phase, and who waits for them. *)
Waits ==
    /\ phase = "rcpt" => \A i \in Part : upload[i] = "none"
    /\ phase \in {"rcpt", "data"} => ~ waiting /\ answers = <<>>
    /\ phase = "data_post" =>
          /\ waiting /\ answers = <<>>
          /\ \A i \in Part : upload[i] # "none"
    /\ phase \in {"queue", "saving", "ok"} => \A i \in Part : upload[i] = "done"
    /\ phase \in {"queue", "saving", "ok"} => answers \in {<<>>, <<"queue">>}
    /\ phase = "deny" \/ waiting => \A i \in Part : upload[i] # "none"
    /\ answers # <<>> => waiting /\ \A i \in Part : upload[i] = "done"
    /\ Len(answers) <= 1

(* What was asked, accepted and passed on of the addresses. *)
Served ==
    /\ accepted \subseteq targets /\ targets \ accepted \subseteq overtaken
    /\ unheeded \subseteq overtaken
    /\ phase # "rcpt" => accepted # {} /\ asked = {}
    /\ phase \in {"saving", "ok"} => accepted \subseteq recipients /\ recipients \subseteq targets
    /\ \A i \in Part : upload[i] # "none" =>
          Cardinality(accepted) <= count[i] /\ count[i] <= Cardinality(targets)
    /\ phase \in {"saving", "ok"} => \A i \in Part : count[i] <= Cardinality(recipients)

UploadInv == TypeOK /\ Counted /\ Filed /\ Waits /\ Served

-----------------------------------------------------------------------------
(* Finite sets *)

(* There are Parts parts. *)
LEMMA PartsFinite == Parts \in Nat /\ IsFiniteSet(Part) /\ Cardinality(Part) = Parts
  BY UploadAssumption, FS_Interval DEF Part

(* Sets of addresses are finite, and none is larger than one that has it. *)
LEMMA AddressSets ==
  ASSUME NEW S \in SUBSET Rcpt, NEW T \in SUBSET S
  PROVE  /\ Cardinality(S) \in Nat /\ Cardinality(T) \in Nat
         /\ Cardinality(T) <= Cardinality(S)
<1>1. IsFiniteSet(Rcpt)
  BY UploadAssumption
<1>2. IsFiniteSet(S)
  BY <1>1, FS_Subset
<1>3. IsFiniteSet(T) /\ Cardinality(T) <= Cardinality(S)
  BY <1>2, FS_Subset
<1>4. QED
  BY <1>2, <1>3, FS_CardinalityType

(* The numbers up to n are n numbers. *)
LEMMA LenInterval ==
  ASSUME NEW n \in Nat PROVE IsFiniteSet(1 .. n) /\ Cardinality(1 .. n) = n
<1>1. 1 \in Int /\ n \in Int
  OBVIOUS
<1>2. IsFiniteSet(1 .. n) /\ Cardinality(1 .. n) = IF 1 > n THEN 0 ELSE n - 1 + 1
  BY <1>1, FS_Interval
<1>3. QED
  BY <1>2

(* A set of parts is finite, and has no more than Parts. *)
LEMMA PartSets ==
  ASSUME NEW S \in SUBSET Part
  PROVE  IsFiniteSet(S) /\ Cardinality(S) \in Nat /\ Cardinality(S) <= Parts
  BY PartsFinite, FS_Subset, FS_CardinalityType

-----------------------------------------------------------------------------
(* How a step changes the uploads *)

(* One upload at most goes on; it begins in "data", one that is done stays so. *)
LEMMA UploadStep ==
  ASSUME TypeOK, Next
  PROVE  \/ /\ UNCHANGED <<upload, todo_count, attachments, errors, file, count>>
         \/ \E i \in Part : Start(i)
         \/ \E i \in Part : Step(i)
         \/ \E i \in Part : Answered(i)
  BY DEF Next, RcptTo, RcptTimesOut, Valid, Invalid, Data, Hook, DataPost, DataPostTimesOut, Queue,
         ParseFails, Saved, checks, uploads

(* Every step keeps the count. *)
LEMMA CountedStep ==
  ASSUME TypeOK, Counted, Next
  PROVE  Counted' /\ todo_count' \in 0 .. Parts
<1>0. IsFiniteSet(RunningParts) /\ Cardinality(RunningParts) \in Nat
  BY PartSets DEF RunningParts
<1>1. ASSUME UNCHANGED <<upload, todo_count>>
      PROVE  Counted'
  BY <1>1 DEF Counted, RunningParts, Running
<1>2. ASSUME NEW i \in Part, Start(i)
      PROVE  Counted'
  <2>1. i \notin RunningParts /\ RunningParts' = RunningParts \cup {i}
    BY <1>2 DEF Start, RunningParts, Running, TypeOK
  <2>2. QED
    BY <1>2, <2>1, <1>0, FS_AddElement DEF Start, Counted
<1>3. ASSUME NEW i \in Part, Step(i)
      PROVE  Counted'
  <2>1. RunningParts' = RunningParts /\ UNCHANGED todo_count
    BY <1>3 DEF Step, StreamEnd, TimeOut, RunningParts, Running, TypeOK
  <2>2. QED
    BY <2>1 DEF Counted
<1>4. ASSUME NEW i \in Part, Answered(i)
      PROVE  Counted'
  <2>1. i \in RunningParts /\ RunningParts' = RunningParts \ {i} /\ todo_count' = todo_count - 1
    BY <1>4 DEF Answered, Uploaded, TimedOutAnswer, UploadFails, RunningParts, Running, TypeOK
  <2>2. QED
    BY <2>1, <1>0, FS_RemoveElement DEF Counted
<1>5. Counted'
  BY <1>1, <1>2, <1>3, <1>4, UploadStep
<1>6. Cardinality(RunningParts') \in Nat /\ Cardinality(RunningParts') <= Parts
  BY PartSets DEF RunningParts
<1>7. QED
  BY <1>5, <1>6, PartsFinite DEF Counted
-----------------------------------------------------------------------------
(* The types *)

(* How many recipients an attachment is stored with. *)
LEMMA CountType ==
  ASSUME TypeOK, Next
  PROVE  count' \in [Part -> 0 .. Cardinality(Rcpt)]
<1>1. CASE UNCHANGED count
  BY <1>1 DEF TypeOK
<1>2. ASSUME NEW i \in Part, Start(i)
      PROVE  count' \in [Part -> 0 .. Cardinality(Rcpt)]
  <2>1. targets \in SUBSET Rcpt
    BY UploadAssumption DEF TypeOK
  <2>2. Cardinality(targets) \in 0 .. Cardinality(Rcpt)
    BY <2>1, AddressSets
  <2>3. QED
    BY <1>2, <2>2 DEF Start, TypeOK
<1>3. QED
  BY <1>1, <1>2, UploadStep DEF Step, StreamEnd, TimeOut, Answered, Uploaded, TimedOutAnswer, UploadFails

(* next() of start_att does nothing, or answers the hook that waits. *)
LEMMA ProceedEffect ==
  ASSUME Proceed
  PROVE  \/ UNCHANGED <<phase, answers>>
         \/ /\ ~ (todo_count' > 0) /\ waiting
            /\ \E answer \in {"queue", "deny"} :
                  /\ answers' = Append(answers, answer)
                  /\ phase' = IF phase = "data_post" THEN answer ELSE phase
<1>1. CASE errors' # {}
  <2>1. UNCHANGED <<phase, answers>> \/ (~ (todo_count' > 0) /\ waiting /\ Release("deny"))
    BY <1>1, Zenon DEF Proceed
  <2>. QED
    BY <2>1 DEF Release
<1>2. CASE ~ (errors' # {})
  <2>1. UNCHANGED <<phase, answers>> \/ (~ (todo_count' > 0) /\ waiting /\ Release("queue"))
    BY <1>2, Zenon DEF Proceed
  <2>. QED
    BY <2>1 DEF Release
<1>. QED
  BY <1>1, <1>2

(* What next() does to the phase and the answers. *)
LEMMA ProceedType ==
  ASSUME TypeOK, Proceed
  PROVE  phase' \in Hooks /\ answers' \in Seq({"queue", "deny"})
<1>1. CASE UNCHANGED <<phase, answers>>
  BY <1>1 DEF TypeOK
<1>2. ASSUME NEW answer \in {"queue", "deny"}, answers' = Append(answers, answer),
             phase' = IF phase = "data_post" THEN answer ELSE phase
      PROVE  phase' \in Hooks /\ answers' \in Seq({"queue", "deny"})
  <2>1. answers \in Seq({"queue", "deny"}) /\ phase \in Hooks
    BY DEF TypeOK
  <2>2. Append(answers, answer) \in Seq({"queue", "deny"})
    BY <2>1
  <2>3. QED
    BY <1>2, <2>1, <2>2 DEF Hooks
<1>3. QED
  BY <1>1, <1>2, ProceedEffect

(* Every step keeps the types. *)
LEMMA TypeStep ==
  ASSUME TypeOK, Counted, Next
  PROVE  TypeOK'
<1>1. count' \in [Part -> 0 .. Cardinality(Rcpt)] /\ todo_count' \in 0 .. Parts
  BY CountType, CountedStep
<1>2. ASSUME NEW a \in Rcpt, RcptTo(a) \/ RcptTimesOut(a) \/ Valid(a) \/ Invalid(a)
      PROVE  TypeOK'
  <2>1. /\ asked' \subseteq Rcpt \ Wild /\ unheeded' \subseteq Rcpt /\ overtaken' \subseteq Rcpt
        /\ targets' \subseteq Known /\ accepted' \subseteq Rcpt
        /\ UNCHANGED <<phase, recipients, uploads, waiting, answers>>
    BY <1>2 DEF TypeOK, RcptTo, RcptTimesOut, Valid, Invalid, Overtake
  <2>2. QED
    BY <1>1, <2>1 DEF TypeOK, uploads
<1>3. CASE Data \/ Hook
  <2>1. /\ phase' \in Hooks /\ waiting' \in BOOLEAN /\ recipients' \subseteq Rcpt
        /\ UNCHANGED <<checks, upload, file, todo_count, attachments, errors, answers>>
    BY <1>3, UploadAssumption DEF Data, Hook, DataPost, DataPostTimesOut, Queue, ParseFails, Saved,
       uploads, Hooks, TypeOK
  <2>2. QED
    BY <1>1, <2>1 DEF TypeOK, checks
<1>4. ASSUME NEW i \in Part, Start(i) \/ Step(i)
      PROVE  TypeOK'
  BY <1>1, <1>4 DEF TypeOK, Start, Step, StreamEnd, TimeOut, checks
<1>5. ASSUME NEW i \in Part, Answered(i)
      PROVE  TypeOK'
  <2>1. phase' \in Hooks /\ answers' \in Seq({"queue", "deny"})
    BY <1>5, ProceedType DEF Answered, Uploaded, TimedOutAnswer, UploadFails
  <2>2. attachments' \in Seq(Part) /\ errors' \subseteq Part
    <3>1. attachments \in Seq(Part) /\ errors \subseteq Part
      BY DEF TypeOK
    <3>2. Append(attachments, i) \in Seq(Part)
      BY <3>1
    <3>3. QED
      BY <1>5, <3>1, <3>2 DEF Answered, Uploaded, TimedOutAnswer, UploadFails
  <2>3. QED
    BY <1>1, <1>5, <2>1, <2>2 DEF Answered, Uploaded, TimedOutAnswer, UploadFails, TypeOK, checks
<1>6. QED
  BY <1>2, <1>3, <1>4, <1>5 DEF Next

-----------------------------------------------------------------------------
(* Uploads, the hook that waits for them, and the attachments *)

(* An upload that ends: nothing is running any more when todo_count is 0. *)
LEMMA LastEnds ==
  ASSUME TypeOK, Counted, Next, todo_count' = 0
  PROVE  \A i \in Part : upload'[i] \in {"none", "done"}
<1>1. Cardinality(RunningParts') = 0 /\ IsFiniteSet(RunningParts')
  BY CountedStep, PartSets DEF Counted, RunningParts
<1>2. RunningParts' = {}
  BY <1>1, FS_EmptySet
<1>3. QED
  BY <1>2, TypeStep DEF RunningParts, Running, TypeOK

(* Every step keeps what each phase knows of the uploads. *)
LEMMA WaitsStep ==
  ASSUME TypeOK, Counted, Waits, Next
  PROVE  Waits'
<1>1. ASSUME NEW a \in Rcpt, RcptTo(a) \/ RcptTimesOut(a) \/ Valid(a) \/ Invalid(a)
      PROVE  Waits'
  BY <1>1 DEF Waits, RcptTo, RcptTimesOut, Valid, Invalid, uploads
<1>2. CASE Data
  BY <1>2 DEF Waits, Data, uploads
<1>3. ASSUME NEW i \in Part, Start(i) \/ Step(i)
      PROVE  Waits'
  BY <1>3 DEF Waits, Start, Step, StreamEnd, TimeOut, TypeOK, Hooks
<1>4. ASSUME NEW i \in Part, Answered(i)
      PROVE  Waits'
  <2>1. /\ phase \in {"data", "data_post", "deny"} /\ answers = <<>>
        /\ phase = "data" => ~ waiting
    BY <1>4 DEF Answered, Uploaded, TimedOutAnswer, UploadFails, Waits, TypeOK, Hooks
  <2>2. /\ UNCHANGED waiting
        /\ upload'[i] = "done"
        /\ \A j \in Part : upload[j] # "none" => upload'[j] # "none"
    BY <1>4 DEF Answered, Uploaded, TimedOutAnswer, UploadFails, TypeOK
  <2>3. CASE UNCHANGED <<phase, answers>>
    BY <2>1, <2>2, <2>3 DEF Waits
  <2>4. ASSUME todo_count' = 0, waiting, NEW answer \in {"deny", "queue"},
               answers' = Append(answers, answer),
               phase' = IF phase = "data_post" THEN answer ELSE phase
        PROVE  Waits'
    <3>1. /\ answers' = <<answer>> /\ Len(answers') <= 1 /\ answers' \in {<<"deny">>, <<"queue">>}
          /\ phase \in {"data_post", "deny"}
      BY <2>1, <2>4
    <3>2. \A j \in Part : upload'[j] = "done"
      BY <2>2, <2>4, LastEnds DEF Waits
    <3>3. phase' \in {"deny", "queue"} /\ (phase' = "queue" => answers' = <<"queue">>)
      BY <2>4, <3>1
    <3>4. QED
      BY <2>2, <2>4, <3>1, <3>2, <3>3 DEF Waits
  <2>5. todo_count' \in 0 .. Parts
    BY CountedStep
  <2>6. Proceed
    BY <1>4 DEF Answered, Uploaded, TimedOutAnswer, UploadFails
  <2>7. ~ (todo_count' > 0) => todo_count' = 0
    BY <2>5, UploadAssumption
  <2>8. QED
    BY <2>3, <2>4, <2>6, <2>7, ProceedEffect
<1>5. CASE DataPost
  <2>1. CASE todo_count > 0
    BY <1>5, <2>1 DEF Waits, DataPost, uploads
  <2>2. CASE ~ todo_count > 0
    <3>1. todo_count' = 0 /\ UNCHANGED upload /\ phase' = "queue" /\ UNCHANGED <<waiting, answers>>
      BY <1>5, <2>2 DEF DataPost, uploads, TypeOK
    <3>2. \A i \in Part : upload[i] = "done"
      BY <1>5, <3>1, LastEnds DEF DataPost
    <3>3. QED
      BY <1>5, <3>1, <3>2 DEF Waits, DataPost
  <2>3. QED
    BY <2>1, <2>2
<1>6. CASE DataPostTimesOut \/ Queue \/ ParseFails \/ Saved
  BY <1>6 DEF Waits, DataPostTimesOut, Queue, ParseFails, Saved, uploads
<1>7. QED
  BY <1>1, <1>2, <1>3, <1>4, <1>5, <1>6 DEF Next, Hook

(* Every step keeps the attachments those of uploads that ended well. *)
LEMMA FiledStep ==
  ASSUME TypeOK, Counted, Filed, Waits, Next
  PROVE  Filed'
<1>0. attachments \in Seq(Part)
  BY DEF TypeOK
<1>1. ASSUME UNCHANGED <<upload, file, attachments>>, phase' \in {"saving", "ok"} => phase \in {"saving", "ok"}
      PROVE  Filed'
  BY <1>1 DEF Filed
<1>2. ASSUME NEW a \in Rcpt, RcptTo(a) \/ RcptTimesOut(a) \/ Valid(a) \/ Invalid(a)
      PROVE  Filed'
  BY <1>1, <1>2 DEF RcptTo, RcptTimesOut, Valid, Invalid, uploads
<1>3. CASE Data \/ DataPost \/ DataPostTimesOut \/ ParseFails \/ Saved
  BY <1>1, <1>3 DEF Data, DataPost, DataPostTimesOut, ParseFails, Saved, uploads
<1>4. CASE Queue
  <2>1. attachments \in Injection(1 .. Len(attachments), Part)
    BY <1>0 DEF Filed, Injection, IsInjective
  <2>2. Len(attachments) <= Parts
    <3>1. IsFiniteSet(1 .. Len(attachments)) /\ Cardinality(1 .. Len(attachments)) = Len(attachments)
      <4>1. Len(attachments) \in Nat
        BY <1>0
      <4>2. QED
        BY <4>1, LenInterval
    <3>2. QED
      BY <2>1, <3>1, PartsFinite, FS_Injection
  <2>3. QED
    BY <1>0, <1>4, <2>2, UploadAssumption DEF Queue, Filed, uploads
<1>5. ASSUME NEW i \in Part, Start(i) \/ Step(i)
      PROVE  Filed'
  BY <1>0, <1>5 DEF Start, Step, StreamEnd, TimeOut, Filed, TypeOK
<1>6. ASSUME NEW i \in Part, Answered(i)
      PROVE  Filed'
  <2>1. phase' \notin {"saving", "ok"}
    <3>1. phase \in {"data", "data_post", "deny"}
      BY <1>6 DEF Answered, Uploaded, TimedOutAnswer, UploadFails, Waits, TypeOK, Hooks
    <3>2. Proceed
      BY <1>6 DEF Answered, Uploaded, TimedOutAnswer, UploadFails
    <3>3. QED
      BY <3>1, <3>2, ProceedEffect
  <2>2. \A j \in Part : j # i => UNCHANGED <<upload[j], file[j]>>
    BY <1>6 DEF Answered, Uploaded, TimedOutAnswer, UploadFails, TypeOK
  <2>3. \A k \in DOMAIN attachments : attachments[k] \in Part \ {i}
    BY <1>0, <1>6 DEF Filed, Answered, Uploaded, TimedOutAnswer, UploadFails
  <2>4. CASE UNCHANGED attachments
    BY <2>1, <2>2, <2>3, <2>4 DEF Filed
  <2>5. CASE Uploaded(i)
    <3>1. upload'[i] = "done" /\ file'[i] = "complete" /\ attachments' = Append(attachments, i)
      BY <2>5 DEF Uploaded, TypeOK
    <3>2. QED
      BY <1>0, <2>1, <2>2, <2>3, <3>1 DEF Filed
  <2>6. QED
    BY <1>6, <2>4, <2>5 DEF Answered, TimedOutAnswer, UploadFails
<1>7. QED
  BY <1>2, <1>3, <1>4, <1>5, <1>6 DEF Next, Hook

-----------------------------------------------------------------------------
(* The recipients *)

(* Every step keeps those who are served the ones accepted, and their number. *)
LEMMA ServedStep ==
  ASSUME TypeOK, Waits, Served, Next
  PROVE  Served'
<1>0. /\ accepted \in SUBSET targets /\ targets \in SUBSET Rcpt /\ accepted \in SUBSET Rcpt
      /\ recipients \in SUBSET Rcpt
  BY UploadAssumption DEF TypeOK, Served
<1>1. ASSUME UNCHANGED <<checks, recipients, count>>,
             \A i \in Part : upload'[i] # "none" => upload[i] # "none",
             phase # "rcpt" \/ phase' = "rcpt",
             phase' \in {"saving", "ok"} => phase \in {"saving", "ok"}
      PROVE  Served'
  BY <1>1 DEF Served, checks
<1>2. ASSUME NEW a \in Rcpt, RcptTo(a) \/ RcptTimesOut(a)
      PROVE  Served'
  BY <1>2 DEF Served, RcptTo, RcptTimesOut, Overtake, uploads
<1>3. ASSUME NEW a \in Rcpt, Valid(a)
      PROVE  Served'
  <2>1. /\ targets' = targets \cup {a} /\ targets' \in SUBSET Rcpt
        /\ \/ a \in asked /\ asked' = {} /\ accepted' = accepted \cup {a} /\ UNCHANGED unheeded
           \/ a \in unheeded /\ UNCHANGED <<asked, accepted>> /\ unheeded' \subseteq unheeded
        /\ UNCHANGED <<phase, overtaken, recipients, uploads>>
    BY <1>0, <1>3 DEF Valid
  <2>2. Cardinality(targets) <= Cardinality(targets')
        /\ Cardinality(targets) \in Nat /\ Cardinality(targets') \in Nat
    BY <2>1, AddressSets
  <2>3. /\ accepted' \subseteq targets' /\ targets' \ accepted' \subseteq overtaken'
        /\ unheeded' \subseteq overtaken'
    BY <2>1 DEF Served
  <2>4. phase # "rcpt" => UNCHANGED <<accepted, asked>>
    BY <2>1 DEF Served
  <2>5. \A i \in Part : upload'[i] # "none" =>
           Cardinality(accepted') <= count'[i] /\ count'[i] <= Cardinality(targets')
    <3>1. \A i \in Part : upload[i] # "none" => UNCHANGED accepted
      BY <2>4 DEF Waits
    <3>2. \A i \in Part : count[i] \in Nat
      BY <1>0, AddressSets, UploadAssumption, FS_CardinalityType DEF TypeOK
    <3>3. QED
      BY <2>1, <2>2, <3>1, <3>2 DEF Served, uploads
  <2>6. QED
    BY <2>1, <2>3, <2>4, <2>5 DEF Served, uploads
<1>4. ASSUME NEW a \in Rcpt, Invalid(a)
      PROVE  Served'
  BY <1>4 DEF Served, Invalid, uploads
<1>5. CASE Data
  BY <1>5 DEF Data, Served, checks, uploads
<1>6. ASSUME NEW i \in Part, Start(i)
      PROVE  Served'
  <2>1. Cardinality(accepted) <= Cardinality(targets) /\ Cardinality(targets) \in Nat
    BY <1>0, AddressSets
  <2>2. QED
    BY <1>6, <2>1 DEF Served, Start, TypeOK, checks
<1>7. ASSUME NEW i \in Part, Step(i)
      PROVE  Served'
  BY <1>1, <1>7 DEF Step, StreamEnd, TimeOut, TypeOK
<1>8. ASSUME NEW i \in Part, Answered(i)
      PROVE  Served'
  <2>1. phase \in {"data", "data_post", "deny"} /\ Proceed
    BY <1>8 DEF Answered, Uploaded, TimedOutAnswer, UploadFails, Waits, TypeOK, Hooks
  <2>2. phase' \notin {"saving", "ok"}
    BY <2>1, ProceedEffect
  <2>3. /\ UNCHANGED <<checks, recipients, count>>
        /\ \A j \in Part : upload'[j] # "none" => upload[j] # "none"
    BY <1>8 DEF Answered, Uploaded, TimedOutAnswer, UploadFails, TypeOK
  <2>4. QED
    BY <1>1, <2>1, <2>2, <2>3
<1>9. CASE DataPost \/ DataPostTimesOut \/ ParseFails \/ Saved
  BY <1>1, <1>9 DEF DataPost, DataPostTimesOut, ParseFails, Saved, uploads
<1>10. CASE Queue
  <2>1. \A i \in Part : upload[i] # "none"
    BY <1>10 DEF Queue, Waits
  <2>2. QED
    BY <1>0, <1>10, <2>1 DEF Queue, Served, checks, uploads
<1>11. QED
  BY <1>2, <1>3, <1>4, <1>5, <1>6, <1>7, <1>8, <1>9, <1>10 DEF Next, Hook

-----------------------------------------------------------------------------
(* Theorems *)

(* The inductive invariant holds at first. *)
LEMMA UploadInvInit == Init => UploadInv
<1> SUFFICES ASSUME Init PROVE UploadInv
  OBVIOUS
<1>1. RunningParts = {}
  BY DEF Init, RunningParts, Running
<1>2. todo_count = Cardinality(RunningParts)
  BY <1>1, FS_EmptySet DEF Init
<1>3. Cardinality(Rcpt) \in Nat
  BY UploadAssumption, FS_CardinalityType
<1>4. TypeOK
  <2>1. /\ phase \in Hooks
        /\ asked \subseteq Rcpt \ Wild /\ unheeded \subseteq Rcpt /\ overtaken \subseteq Rcpt
        /\ targets \subseteq Known /\ accepted \subseteq Rcpt /\ recipients \subseteq Rcpt
    BY DEF Init, Hooks
  <2>2. /\ count \in [Part -> 0 .. Cardinality(Rcpt)] /\ todo_count \in 0 .. Parts
        /\ upload \in [Part -> {"none", "streaming", "sent", "timedOut", "done"}]
        /\ file \in [Part -> {"none", "complete"}]
    BY <1>3, UploadAssumption DEF Init
  <2>3. /\ attachments \in Seq(Part) /\ errors \subseteq Part /\ waiting \in BOOLEAN
        /\ answers \in Seq({"queue", "deny"})
    <3>1. attachments = <<>> /\ answers = <<>> /\ errors = {} /\ waiting = FALSE
      BY DEF Init
    <3>2. <<>> \in Seq(Part)
      OBVIOUS
    <3>3. <<>> \in Seq({"queue", "deny"})
      OBVIOUS
    <3>4. QED
      BY <3>1, <3>2, <3>3
  <2>4. QED
    BY <2>1, <2>2, <2>3 DEF TypeOK
<1>5. QED
  BY <1>2, <1>4 DEF Init, UploadInv, Counted, Filed, Waits, Served

(* What comes in a state like the first one has it, too. *)
LEMMA UploadInvAgain == Init' => UploadInv'
  BY UploadInvInit, PTL

(* Every step keeps it. *)
LEMMA UploadInvStep ==
  ASSUME UploadInv, [Next]_vars PROVE UploadInv'
<1>1. CASE Next
  BY <1>1, TypeStep, CountedStep, FiledStep, WaitsStep, ServedStep DEF UploadInv
<1>2. CASE UNCHANGED vars
  BY <1>2 DEF UploadInv, TypeOK, Counted, RunningParts, Running, Filed, Waits, Served, vars, checks, uploads
<1>3. QED
  BY <1>1, <1>2

(* hook_data_post is answered once, after the last upload. *)
LEMMA HookAnsweredLastInv ==
  ASSUME UploadInv PROVE HookAnsweredLast
  BY DEF UploadInv, HookAnsweredLast, Waits, TypeOK, Hooks

(* As many distinct attachments as parts are all the parts. *)
LEMMA OkMeansWholeInv ==
  ASSUME UploadInv PROVE OkMeansWhole
<1> SUFFICES ASSUME phase = "ok"
             PROVE  /\ Len(attachments) = Parts
                    /\ \A i \in Part : file[i] = "complete"
                    /\ \A i \in Part : \E k \in Part : attachments[k] = i
  BY DEF OkMeansWhole
<1>1. attachments \in Seq(Part) /\ Len(attachments) = Parts
  BY DEF UploadInv, TypeOK, Filed
<1>2. DOMAIN attachments = Part
  BY <1>1 DEF Part
<1>3. attachments \in Injection(Part, Part)
  BY <1>1, <1>2 DEF UploadInv, Filed, Injection, IsInjective
<1>4. attachments \in Surjection(Part, Part)
  BY <1>3, PartsFinite, FS_Injection
<1>5. \A i \in Part : \E k \in Part : attachments[k] = i
  BY <1>4 DEF Surjection
<1>6. \A k \in Part : file[attachments[k]] = "complete"
  BY <1>2 DEF UploadInv, Filed
<1>7. QED
  BY <1>1, <1>5, <1>6

(* The recipients are those accepted, and some that were refused too early. *)
LEMMA RecipientsServedInv ==
  ASSUME UploadInv PROVE RecipientsServed
<1> SUFFICES ASSUME phase \in {"saving", "ok"}
             PROVE  /\ accepted \subseteq recipients /\ recipients \ accepted \subseteq overtaken
                    /\ \A i \in Part : count[i] > 0
                    /\ \A i \in Part :
                          count[i] \in Cardinality(accepted) .. Cardinality(recipients)
  BY DEF RecipientsServed
<1>1. accepted \subseteq recipients /\ recipients \ accepted \subseteq overtaken
  BY DEF UploadInv, Served
<1>2. accepted \in SUBSET recipients /\ recipients \in SUBSET Rcpt
  BY <1>1 DEF UploadInv, TypeOK
<1>3. Cardinality(accepted) \in Nat /\ Cardinality(recipients) \in Nat
  BY <1>2, AddressSets
<1>4. Cardinality(accepted) # 0
  <2>1. IsFiniteSet(accepted)
    BY <1>2, UploadAssumption, FS_Subset
  <2>2. QED
    BY <2>1, FS_EmptySet DEF UploadInv, Served
<1>5. \A i \in Part :
         Cardinality(accepted) <= count[i] /\ count[i] <= Cardinality(recipients) /\ count[i] \in Nat
  BY UploadAssumption, FS_CardinalityType DEF UploadInv, Served, Waits, TypeOK
<1>6. QED
  BY <1>1, <1>3, <1>4, <1>5

(* In every transaction, with any number of parts and any addresses: the hook    *)
(* that waits is answered once and last, an accepted mail has every part whole, *)
(* and it goes to those who were told OK.                                    *)
THEOREM UploadSafe == Spec => [](HookAnsweredLast /\ OkMeansWhole /\ RecipientsServed)
<1>1. Spec => []UploadInv
  BY UploadInvInit, UploadInvStep, PTL DEF Spec
<1>2. UploadInv => HookAnsweredLast /\ OkMeansWhole /\ RecipientsServed
  BY HookAnsweredLastInv, OkMeansWholeInv, RecipientsServedInv
<1>3. QED
  BY <1>1, <1>2, PTL

-----------------------------------------------------------------------------
(* SmtpRoundTrip: the inductive invariant *)

(* A status of a delivery is on the Sent copy, on a recipient's, or on its way. *)
OnSent(status) == \E k \in DOMAIN sent : sent[k] = status
OnCopy(status) == \E i \in DOMAIN copies : \E k \in DOMAIN copies[i] : copies[i][k] = status
Reported(d, stage) ==
    <<d, stage>> \in calls \/ OnSent(<<d, stage>>) \/ OnCopy(<<d, stage>>)
Failure == <<"sender", "failed">>

(* What the sender is told, and whether Haraka has the mail. *)
SenderKnows ==
    /\ request = "saving" => submission = "none"
    /\ request = "queued" => submission = "relayed"
    /\ request = "failed" <=> OnSent(Failure)
    /\ request \in {"failing", "failed"} /\ ~ lost => submission = "denied"
    /\ submission # "relayed" => \A d \in Domain : delivery[d] = "none"

(* A delivery is deferred once at most, and ends once. *)
Ends ==
    \A d \in Domain :
        /\ failures[d] = 0 => ~ Reported(d, "deferred")
        /\ delivery[d] \in {"none", "waiting", "trying", "deferred"} =>
              /\ failures[d] <= Retries
              /\ ~ Reported(d, "delivered") /\ ~ Reported(d, "bounced")
        /\ ~ (Reported(d, "delivered") /\ Reported(d, "bounced"))

(* No status comes twice in the list of a document, and of the calls c under     *)
(* way, those whose status it has have updated the document, says p.          *)
OnceOn(list, doc, c, p) ==
    /\ \A k \in DOMAIN list : list[k] \in c => <<list[k][1], list[k][2], doc>> \in p
    /\ \A j, k \in DOMAIN list : list[j] = list[k] => j = k

Once ==
    /\ OnceOn(sent, 0, calls, pushed)
    /\ \A i \in DOMAIN copies : OnceOn(copies[i], i, calls, pushed)

(* Where no hook timed out, one stage at most is reported, and the delivery is    *)
(* at it or has ended.                                                      *)
Punctual ==
    \A d \in Domain :
        /\ d \notin late => \A stage \in Stages :
              Reported(d, stage) =>
                  /\ delivery[d] \in {stage, "done"}
                  /\ \A t \in Stages : Reported(d, t) => t = stage
        /\ delivery[d] = "none" => d \notin late

(* An accepted mail is stored. *)
Kept ==
    /\ phase = "ok" => 1 \in DOMAIN copies
    /\ Reported(Local, "delivered") => 1 \in DOMAIN copies

OutInv == OutTypeOK /\ SenderKnows /\ Ends /\ Once /\ Punctual
RoundTripInv == UploadInv /\ OutInv /\ Kept /\ unheard \in Nat

-----------------------------------------------------------------------------
(* The transaction that comes in *)

(* Only its own steps and Disconnect change its notes. *)
LEMMA UploadPart ==
  ASSUME UploadInv, [RoundTripNext]_allVars
  PROVE  UploadInv'
<1>1. ASSUME UNCHANGED vars
      PROVE  UploadInv'
  BY <1>1, UploadInvStep
<1>2. CASE Receive
  BY <1>2, UploadInvStep DEF Receive, Transaction
<1>3. ASSUME Disconnect
      PROVE  UploadInv'
  <2>1. Init'
    BY <1>3 DEF Disconnect, Init
  <2>2. QED
    BY <2>1, UploadInvAgain
<1>4. ASSUME NEW d \in Domain, Try(d)
      PROVE  UNCHANGED vars \/ Disconnect
  BY <1>4 DEF Try, LocalOutcome, Outbound
<1>5. QED
  BY <1>1, <1>2, <1>3, <1>4 DEF RoundTripNext, LateSave, Outbound, allVars

-----------------------------------------------------------------------------
(* What a step does to the mail on its way out *)

(* The delivery of a domain goes on, but for what its calls do. *)
DeliveryStep(d) ==
    Attempt(d) \/ HookTimesOut(d) \/ AnswerLost(d) \/ Succeed(d) \/ Bounce(d) \/ Defer(d)

CallStep(d, stage) == Push(d, stage) \/ CallEnds(d, stage)

(* A copy is stored, at most, and nothing else of outVars changes. *)
OnlyCopies ==
    /\ UNCHANGED <<request, lost, submission, delivery, failures, calls, pushed, late, sent>>
    /\ copies' = copies \/ copies' = Append(copies, <<>>)

(* Every step is one of these to outVars. *)
LEMMA OutPart ==
  ASSUME [RoundTripNext]_allVars
  PROVE  \/ OnlyCopies \/ Sender \/ Queueing
         \/ \E d \in Domain : DeliveryStep(d) \/ \E stage \in Stages : CallStep(d, stage)
<1>1. CASE Receive
  BY <1>1 DEF Receive, Transaction, StoreCopy, OnlyCopies
<1>2. CASE LateSave
  BY <1>2 DEF LateSave, StoreCopy, OnlyCopies
<1>3. ASSUME NEW d \in Domain, Try(d)
      PROVE  DeliveryStep(d)
  BY <1>3 DEF Try, LocalOutcome, Outcome, DeliveryStep
<1>4. ASSUME NEW d \in Domain, Attempt(d) \/ Reporting(d)
      PROVE  DeliveryStep(d) \/ \E stage \in Stages : CallStep(d, stage)
  BY <1>4 DEF Reporting, DeliveryStep, CallStep
<1>5. CASE UNCHANGED allVars
  BY <1>5 DEF allVars, outVars, OnlyCopies
<1>. QED
  BY <1>1, <1>2, <1>3, <1>4, <1>5 DEF RoundTripNext

(* A delivery goes on without a call, or its hook makes one. *)
LEMMA Moves ==
  ASSUME NEW d \in Domain,
         DeliveryStep(d)
  PROVE  \/ \E stage \in Stages : Report(d, stage)
         \/ /\ UNCHANGED calls
            /\ \E x \in {"waiting", "trying", "done"} : delivery' = [delivery EXCEPT ![d] = x]
<1>1. "delivered" \in Stages /\ "bounced" \in Stages /\ "deferred" \in Stages
  BY DEF Stages, Final
<1>2. CASE Attempt(d)
  BY <1>2 DEF Attempt
<1>3. CASE HookTimesOut(d)
  <2>1. CASE delivery[d] = "deferred"
    BY <1>3, <2>1 DEF HookTimesOut
  <2>2. CASE delivery[d] # "deferred"
    BY <1>3, <2>2 DEF HookTimesOut
  <2>3. QED
    BY <2>1, <2>2
<1>4. CASE Succeed(d) \/ Bounce(d)
  BY <1>1, <1>4 DEF Succeed, Bounce
<1>5. CASE Defer(d)
  BY <1>1, <1>5 DEF Defer
<1>6. CASE AnswerLost(d)
  BY <1>6 DEF AnswerLost, Answer
<1>7. QED
  BY <1>2, <1>3, <1>4, <1>5, <1>6 DEF DeliveryStep

(* It keeps the types of both. *)
LEMMA MovesType ==
  ASSUME OutTypeOK, NEW d \in Domain, DeliveryStep(d)
  PROVE  /\ delivery' \in [Domain -> {"none", "waiting", "trying", "done"} \cup Stages]
         /\ calls' \subseteq Domain \X Stages
<1>1. /\ delivery \in [Domain -> {"none", "waiting", "trying", "done"} \cup Stages]
      /\ calls \subseteq Domain \X Stages
  BY DEF OutTypeOK
<1>2. ASSUME NEW stage \in Stages, Report(d, stage)
      PROVE  /\ delivery' \in [Domain -> {"none", "waiting", "trying", "done"} \cup Stages]
             /\ calls' \subseteq Domain \X Stages
  BY <1>1, <1>2 DEF Report
<1>3. QED
  BY <1>1, <1>2, Moves

(* Sequences grow within their type. *)
LEMMA AppendType ==
  ASSUME NEW S, NEW s \in Seq(S), NEW e \in S
  PROVE  Append(s, e) \in Seq(S)
  OBVIOUS

(* A list that has one more. *)
LEMMA Longer ==
  ASSUME NEW S, NEW list \in Seq(S), NEW e
  PROVE  /\ DOMAIN Append(list, e) = DOMAIN list \cup {Len(list) + 1}
         /\ Len(list) + 1 \notin DOMAIN list
         /\ \A k \in DOMAIN list : Append(list, e)[k] = list[k]
         /\ Append(list, e)[Len(list) + 1] = e
  OBVIOUS

(* A push puts a status at the end of one document. *)
LEMMA PushEffect ==
  ASSUME OutTypeOK, NEW d \in Domain, NEW stage \in Stages, Push(d, stage)
  PROVE  /\ <<d, stage>> \in calls
         /\ UNCHANGED <<request, lost, submission, delivery, failures, calls, late>>
         /\ \/ /\ sent' = Append(sent, <<d, stage>>) /\ UNCHANGED copies
               /\ <<d, stage, 0>> \notin pushed /\ pushed' = pushed \cup {<<d, stage, 0>>}
            \/ \E doc \in DOMAIN copies :
                  /\ UNCHANGED sent /\ DOMAIN copies' = DOMAIN copies
                  /\ copies' = [copies EXCEPT ![doc] = Append(@, <<d, stage>>)]
                  /\ copies'[doc] = Append(copies[doc], <<d, stage>>)
                  /\ \A i \in DOMAIN copies \ {doc} : copies'[i] = copies[i]
                  /\ <<d, stage, doc>> \notin pushed /\ pushed' = pushed \cup {<<d, stage, doc>>}
<1>1. PICK doc \in {0} \cup DOMAIN copies :
         /\ <<d, stage, doc>> \notin pushed
         /\ pushed' = pushed \cup {<<d, stage, doc>>}
         /\ IF doc = 0
            THEN sent' = Append(sent, <<d, stage>>) /\ UNCHANGED copies
            ELSE copies' = [copies EXCEPT ![doc] = Append(@, <<d, stage>>)] /\ UNCHANGED sent
  BY DEF Push
<1>2. /\ <<d, stage>> \in calls
      /\ UNCHANGED <<request, lost, submission, delivery, failures, calls, late>>
  BY DEF Push
<1>3. CASE doc = 0
  BY <1>1, <1>2, <1>3
<1>4. CASE doc # 0
  <2>1. doc \in DOMAIN copies
    BY <1>1, <1>4
  <2>2. copies' = [copies EXCEPT ![doc] = Append(@, <<d, stage>>)] /\ UNCHANGED sent
    BY <1>1, <1>4
  <2>3. copies \in [DOMAIN copies -> Seq(Domain \X Stages)]
    BY DEF OutTypeOK
  <2>4. /\ DOMAIN copies' = DOMAIN copies
        /\ copies'[doc] = Append(copies[doc], <<d, stage>>)
        /\ \A i \in DOMAIN copies \ {doc} : copies'[i] = copies[i]
    BY <2>1, <2>2, <2>3
  <2>. QED
    BY <1>1, <1>2, <2>1, <2>2, <2>4
<1>. QED
  BY <1>3, <1>4

(* It keeps the types. *)
LEMMA PushType ==
  ASSUME OutTypeOK, NEW d \in Domain, NEW stage \in Stages, Push(d, stage)
  PROVE  OutTypeOK'
<1>1. /\ sent \in Seq((Domain \X Stages) \cup {Failure})
      /\ copies \in Seq(Seq(Domain \X Stages))
      /\ pushed \subseteq Domain \X Stages \X ({0} \cup DOMAIN copies)
  BY DEF OutTypeOK, Failure
<1>2. UNCHANGED <<request, lost, submission, delivery, failures, calls, late>>
  BY PushEffect
<1>3. CASE /\ sent' = Append(sent, <<d, stage>>) /\ UNCHANGED copies
           /\ pushed' = pushed \cup {<<d, stage, 0>>}
  <2>1. Append(sent, <<d, stage>>) \in Seq((Domain \X Stages) \cup {Failure})
    BY <1>1, AppendType
  <2>2. pushed' \subseteq Domain \X Stages \X ({0} \cup DOMAIN copies)
    BY <1>1, <1>3
  <2>. QED
    BY <1>2, <1>3, <2>1, <2>2 DEF OutTypeOK, Failure
<1>4. ASSUME NEW doc \in DOMAIN copies, UNCHANGED sent, DOMAIN copies' = DOMAIN copies,
             copies' = [copies EXCEPT ![doc] = Append(@, <<d, stage>>)],
             pushed' = pushed \cup {<<d, stage, doc>>}
      PROVE  OutTypeOK'
  <2>1. copies[doc] \in Seq(Domain \X Stages) /\ <<d, stage>> \in Domain \X Stages
    BY <1>1
  <2>2. Append(copies[doc], <<d, stage>>) \in Seq(Domain \X Stages)
    BY <2>1, AppendType
  <2>3. copies' \in Seq(Seq(Domain \X Stages))
    BY <1>1, <1>4, <2>2
  <2>4. pushed' \subseteq Domain \X Stages \X ({0} \cup DOMAIN copies')
    BY <1>1, <1>4
  <2>. QED
    BY <1>2, <1>4, <2>3, <2>4 DEF OutTypeOK
<1>. QED
  BY <1>3, <1>4, PushEffect

(* Every step keeps the types. *)
LEMMA OutTypeStep ==
  ASSUME OutTypeOK, Ends, [RoundTripNext]_allVars
  PROVE  OutTypeOK'
<1>0. /\ sent \in Seq((Domain \X Stages) \cup {Failure})
      /\ copies \in Seq(Seq(Domain \X Stages))
  BY DEF OutTypeOK, Failure
<1>1. CASE OnlyCopies
  <2>1. copies' \in Seq(Seq(Domain \X Stages)) /\ DOMAIN copies \subseteq DOMAIN copies'
    <3>1. <<>> \in Seq(Domain \X Stages)
      OBVIOUS
    <3>2. Append(copies, <<>>) \in Seq(Seq(Domain \X Stages))
      BY <1>0, <3>1, AppendType
    <3>3. DOMAIN copies \subseteq DOMAIN Append(copies, <<>>)
      BY <1>0, Longer
    <3>4. QED
      BY <1>0, <1>1, <3>2, <3>3 DEF OnlyCopies
  <2>2. pushed' \subseteq Domain \X Stages \X ({0} \cup DOMAIN copies')
    BY <1>1, <2>1 DEF OnlyCopies, OutTypeOK
  <2>3. QED
    BY <1>1, <2>1, <2>2 DEF OnlyCopies, OutTypeOK
<1>2. CASE Sender \/ Queueing
  <2>1. sent' \in Seq((Domain \X Stages) \cup {Failure})
    <3>1. sent' = sent \/ sent' = Append(sent, Failure)
      BY <1>2 DEF Sender, Save, SendEnds, SendFails, RecordFailure, Queueing, SenderChecked, SenderUnchecked, Failure
    <3>2. Append(sent, Failure) \in Seq((Domain \X Stages) \cup {Failure})
      BY <1>0, AppendType
    <3>3. QED
      BY <1>0, <3>1, <3>2
  <2>2. QED
    BY <1>2, <2>1 DEF Sender, Save, SendEnds, SendFails, RecordFailure, Queueing, SenderChecked, SenderUnchecked, Relay, OutTypeOK, Failure
<1>3. ASSUME NEW d \in Domain, DeliveryStep(d)
      PROVE  OutTypeOK'
  <2>1. /\ delivery' \in [Domain -> {"none", "waiting", "trying", "done"} \cup Stages]
        /\ calls' \subseteq Domain \X Stages
    BY <1>3, MovesType
  <2>2. late' \subseteq Domain /\ UNCHANGED <<request, lost, submission, pushed, sent, copies>>
    BY <1>3 DEF DeliveryStep, Attempt, HookTimesOut, AnswerLost, Succeed, Bounce, Defer, OutTypeOK
  <2>3. failures' \in [Domain -> 0 .. Retries + 1]
    <3>1. CASE Defer(d)
      <4>1. failures[d] \in Nat /\ failures[d] <= Retries
        BY <3>1 DEF Defer, Ends, OutTypeOK
      <4>2. QED
        BY <3>1, <4>1, OutboundAssumption DEF Defer, OutTypeOK
    <3>2. CASE UNCHANGED failures
      BY <3>2 DEF OutTypeOK
    <3>3. QED
      BY <1>3, <3>1, <3>2 DEF DeliveryStep, Attempt, HookTimesOut, AnswerLost, Succeed, Bounce
  <2>4. QED
    BY <2>1, <2>2, <2>3 DEF OutTypeOK
<1>4. ASSUME NEW d \in Domain, NEW stage \in Stages, CallEnds(d, stage)
      PROVE  OutTypeOK'
  <2>1. /\ UNCHANGED <<request, lost, submission, failures, late, sent, copies>>
        /\ calls' \subseteq calls /\ pushed' \subseteq pushed
    BY <1>4 DEF CallEnds
  <2>2. delivery' \in [Domain -> {"none", "waiting", "trying", "done"} \cup Stages]
    BY <1>4 DEF CallEnds, Answer, OutTypeOK
  <2>. QED
    BY <2>1, <2>2 DEF OutTypeOK
<1>5. QED
  BY <1>1, <1>2, <1>3, <1>4, OutPart, PushType DEF CallStep

-----------------------------------------------------------------------------
(* The statuses on the copies *)

(* One more status is on the Sent copy. *)
LEMMA SentGrows ==
  ASSUME OutTypeOK, NEW status \in (Domain \X Stages) \cup {Failure}, sent' = Append(sent, status)
  PROVE  \A x : OnSent(x)' <=> (OnSent(x) \/ x = status)
<1>1. sent \in Seq((Domain \X Stages) \cup {Failure})
  BY DEF OutTypeOK, Failure
<1>2. /\ DOMAIN sent' = DOMAIN sent \cup {Len(sent) + 1} /\ Len(sent) + 1 \notin DOMAIN sent
      /\ \A k \in DOMAIN sent : sent'[k] = sent[k]
      /\ sent'[Len(sent) + 1] = status
  BY <1>1
<1>3. QED
  BY <1>2 DEF OnSent

(* A failure is no report of a delivery. *)
LEMMA FailureApart ==
  ASSUME NEW d \in Domain, NEW stage PROVE <<d, stage>> # Failure
  BY OutboundAssumption DEF Failure

(* What a call does leaves no report that there was not, since it is reported    *)
(* while it is under way.                                                   *)
LEMMA CallMoves ==
  ASSUME OutTypeOK, NEW d \in Domain, NEW stage \in Stages, CallStep(d, stage)
  PROVE  \A e, t : Reported(e, t)' => Reported(e, t)
<1>1. CASE CallEnds(d, stage)
  BY <1>1 DEF CallEnds, Reported, OnSent, OnCopy
<1>2. ASSUME Push(d, stage), sent' = Append(sent, <<d, stage>>), UNCHANGED copies
      PROVE  \A e, t : Reported(e, t)' => Reported(e, t)
  <2>1. \A x : OnSent(x)' <=> (OnSent(x) \/ x = <<d, stage>>)
    BY <1>2, SentGrows
  <2>2. \A x : OnCopy(x)' <=> OnCopy(x)
    BY <1>2 DEF OnCopy
  <2>. QED
    BY <1>2, <2>1, <2>2 DEF Push, Reported
<1>3. ASSUME Push(d, stage), UNCHANGED sent, DOMAIN copies' = DOMAIN copies,
             NEW doc \in DOMAIN copies, copies'[doc] = Append(copies[doc], <<d, stage>>),
             \A i \in DOMAIN copies \ {doc} : copies'[i] = copies[i]
      PROVE  \A e, t : Reported(e, t)' => Reported(e, t)
  <2>1. copies[doc] \in Seq(Domain \X Stages)
    BY DEF OutTypeOK
  <2>2. \A k \in DOMAIN copies'[doc] :
           copies'[doc][k] = <<d, stage>> \/ (k \in DOMAIN copies[doc] /\ copies'[doc][k] = copies[doc][k])
    BY <1>3, <2>1, Longer
  <2>3. \A x : OnCopy(x)' => OnCopy(x) \/ x = <<d, stage>>
    BY <1>3, <2>2 DEF OnCopy
  <2>4. \A x : OnSent(x)' <=> OnSent(x)
    BY <1>3 DEF OnSent
  <2>. QED
    BY <1>3, <2>3, <2>4 DEF Push, Reported
<1>. QED
  BY <1>1, <1>2, <1>3, PushEffect DEF CallStep

(* The other steps of a delivery leave the copies alone. *)
LEMMA SentKept ==
  ASSUME NEW d \in Domain, DeliveryStep(d)
  PROVE  UNCHANGED <<request, lost, submission, pushed, sent, copies>>
  BY DEF DeliveryStep, Attempt, HookTimesOut, AnswerLost, Succeed, Bounce, Defer

(* The steps that make no call leave no report that there was not. *)
LEMMA ReportsKept ==
  ASSUME OutTypeOK,
         \/ OnlyCopies
         \/ UNCHANGED <<calls, copies>> /\ (sent' = sent \/ sent' = Append(sent, Failure))
  PROVE  \A e \in Domain : \A t : Reported(e, t)' => Reported(e, t)
<1>1. CASE OnlyCopies
  <2>1. copies \in Seq(Seq(Domain \X Stages))
    BY DEF OutTypeOK
  <2>2. CASE copies' = Append(copies, <<>>)
    <3>1. /\ DOMAIN copies' = DOMAIN copies \cup {Len(copies) + 1}
          /\ \A i \in DOMAIN copies : copies'[i] = copies[i]
          /\ copies'[Len(copies) + 1] = <<>>
      BY <2>1, <2>2, Longer
    <3>2. \A x : OnCopy(x)' => OnCopy(x)
      BY <3>1 DEF OnCopy
    <3>. QED
      BY <1>1, <3>2 DEF OnlyCopies, Reported, OnSent
  <2>3. CASE copies' = copies
    BY <1>1, <2>3 DEF OnlyCopies, Reported, OnSent, OnCopy
  <2>. QED
    BY <1>1, <2>2, <2>3 DEF OnlyCopies
<1>2. CASE UNCHANGED <<calls, copies>> /\ sent' = sent
  BY <1>2 DEF Reported, OnSent, OnCopy
<1>3. CASE UNCHANGED <<calls, copies>> /\ sent' = Append(sent, Failure)
  <2>1. \A x : OnSent(x)' <=> (OnSent(x) \/ x = Failure)
    BY <1>3, SentGrows
  <2>2. \A x : OnCopy(x)' <=> OnCopy(x)
    BY <1>3 DEF OnCopy
  <2>. QED
    BY <1>3, <2>1, <2>2, FailureApart DEF Reported
<1>. QED
  BY <1>1, <1>2, <1>3

(* Every step keeps what the sender is told the truth. *)
LEMMA SenderKnowsStep ==
  ASSUME OutTypeOK, SenderKnows, [RoundTripNext]_allVars
  PROVE  SenderKnows'
<1>1. CASE OnlyCopies
  BY <1>1 DEF OnlyCopies, SenderKnows, OnSent
<1>2. CASE Save \/ SendEnds \/ SendFails \/ Queueing
  <2>1. UNCHANGED sent /\ \A x : OnSent(x)' <=> OnSent(x)
    BY <1>2 DEF Save, SendEnds, SendFails, Queueing, SenderChecked, SenderUnchecked, OnSent
  <2>2. QED
    BY <1>2, <2>1 DEF Save, SendEnds, SendFails, Queueing, SenderChecked, SenderUnchecked, Relay, SenderKnows
<1>3. CASE RecordFailure
  <2>1. CASE request' = "failed" /\ sent' = Append(sent, Failure)
    BY <1>3, <2>1, SentGrows DEF RecordFailure, SenderKnows
  <2>2. CASE request' = "error" /\ UNCHANGED sent
    BY <1>3, <2>2 DEF RecordFailure, SenderKnows, OnSent
  <2>3. QED
    BY <1>3, <2>1, <2>2 DEF RecordFailure, Failure
<1>4. ASSUME NEW d \in Domain, DeliveryStep(d) \/ \E stage \in Stages : CallStep(d, stage)
      PROVE  SenderKnows'
  <2>1. UNCHANGED <<request, lost, submission>>
    BY <1>4, SentKept DEF CallStep, CallEnds, Push
  <2>2. OnSent(Failure)' <=> OnSent(Failure)
    <3>1. CASE sent' = sent
      BY <3>1 DEF OnSent
    <3>2. ASSUME NEW stage \in Stages, sent' = Append(sent, <<d, stage>>)
          PROVE  OnSent(Failure)' <=> OnSent(Failure)
      BY <3>2, FailureApart, SentGrows
    <3>3. ASSUME NEW stage \in Stages, CallStep(d, stage)
          PROVE  sent' = sent \/ sent' = Append(sent, <<d, stage>>)
      BY <3>3, PushEffect DEF CallStep, CallEnds
    <3>4. QED
      BY <1>4, <3>1, <3>2, <3>3, SentKept
  <2>3. submission # "relayed" => \A e \in Domain : delivery'[e] = "none"
    <3>1. SUFFICES ASSUME submission # "relayed" PROVE UNCHANGED delivery
      BY <3>1 DEF SenderKnows
    <3>2. delivery[d] = "none"
      BY <3>1 DEF SenderKnows
    <3>3. CASE DeliveryStep(d)
      BY <3>2, <3>3 DEF DeliveryStep, Attempt, HookTimesOut, AnswerLost, Succeed, Bounce, Defer, Stages, Final
    <3>4. ASSUME NEW stage \in Stages, CallStep(d, stage)
          PROVE  UNCHANGED delivery
      BY <3>2, <3>4 DEF CallStep, CallEnds, Push, Stages, Final
    <3>5. QED
      BY <1>4, <3>3, <3>4
  <2>4. QED
    BY <2>1, <2>2, <2>3 DEF SenderKnows
<1>5. QED
  BY <1>1, <1>2, <1>3, <1>4, OutPart DEF Sender

(* A hook that reports calls once more, from a delivery that was being tried. *)
LEMMA ReportsMore ==
  ASSUME OutTypeOK, NEW d \in Domain, NEW stage \in Stages, Report(d, stage),
         UNCHANGED <<sent, copies>>
  PROVE  /\ delivery'[d] = stage /\ \A e \in Domain \ {d} : delivery'[e] = delivery[e]
         /\ \A e, t : Reported(e, t)' <=> (Reported(e, t) \/ <<e, t>> = <<d, stage>>)
<1>1. delivery'[d] = stage /\ \A e \in Domain \ {d} : delivery'[e] = delivery[e]
  BY DEF Report, OutTypeOK
<1>2. \A x : (OnSent(x)' <=> OnSent(x)) /\ (OnCopy(x)' <=> OnCopy(x))
  BY DEF OnSent, OnCopy
<1>. QED
  BY <1>1, <1>2 DEF Report, Reported

(* Every step keeps that a delivery is deferred once and ends once. *)
LEMMA EndsStep ==
  ASSUME OutTypeOK, SenderKnows, Ends, [RoundTripNext]_allVars
  PROVE  Ends'
<1>1. CASE OnlyCopies
  BY <1>1, ReportsKept DEF OnlyCopies, Ends
<1>2. CASE Sender
  <2>1. \A e \in Domain : \A t : Reported(e, t)' => Reported(e, t)
    BY <1>2, ReportsKept DEF Sender, Save, SendEnds, SendFails, RecordFailure, Failure
  <2>2. UNCHANGED <<delivery, failures>>
    BY <1>2 DEF Sender, Save, SendEnds, SendFails, RecordFailure
  <2>3. QED
    BY <2>1, <2>2 DEF Ends
<1>3. CASE Queueing
  <2>0. UNCHANGED <<failures, calls, sent, copies>>
    BY <1>3 DEF Queueing, SenderChecked, SenderUnchecked
  <2>1. CASE UNCHANGED delivery
    BY <2>0, <2>1, ReportsKept DEF Ends
  <2>2. CASE Relay /\ \A d \in Domain : delivery[d] = "none"
    BY <2>0, <2>2, ReportsKept DEF Relay, Ends
  <2>3. QED
    BY <1>3, <2>1, <2>2 DEF Queueing, SenderChecked, SenderUnchecked, SenderKnows
<1>4. ASSUME NEW d \in Domain, Attempt(d) \/ HookTimesOut(d) \/ AnswerLost(d)
      PROVE  Ends'
  <2>1. /\ UNCHANGED <<failures, calls, sent, copies>>
        /\ \A e \in Domain : \/ delivery'[e] = delivery[e] \/ delivery'[e] = "done"
                             \/ delivery[e] \in {"waiting", "deferred"}
    BY <1>4 DEF Attempt, HookTimesOut, AnswerLost, Answer, OutTypeOK
  <2>2. QED
    BY <2>1, ReportsKept DEF Ends
<1>5. ASSUME NEW d \in Domain, Succeed(d) \/ Bounce(d)
      PROVE  Ends'
  <2>1. PICK stage \in {"delivered", "bounced"} : Report(d, stage)
    BY <1>5 DEF Succeed, Bounce
  <2>2. UNCHANGED <<failures, sent, copies>> /\ delivery[d] = "trying" /\ stage \in Stages
    BY <1>5, <2>1 DEF Succeed, Bounce, Stages, Final
  <2>3. QED
    BY <2>1, <2>2, ReportsMore DEF Ends
<1>6. ASSUME NEW d \in Domain, Defer(d)
      PROVE  Ends'
  <2>1. /\ UNCHANGED <<sent, copies>> /\ delivery[d] = "trying"
        /\ failures[d] \in Nat /\ failures[d] <= Retries
        /\ failures'[d] = failures[d] + 1 /\ \A e \in Domain \ {d} : failures'[e] = failures[e]
    BY <1>6 DEF Defer, Ends, OutTypeOK
  <2>2. CASE failures[d] = Retries
    <3>1. Report(d, "bounced") /\ "bounced" \in Stages /\ failures[d] # 0
      BY <1>6, <2>2, OutboundAssumption DEF Defer, Stages, Final
    <3>2. QED
      BY <2>1, <3>1, ReportsMore DEF Ends
  <2>3. CASE failures[d] # Retries /\ failures'[d] = 1
    <3>1. Report(d, "deferred") /\ "deferred" \in Stages
      BY <1>6, <2>3 DEF Defer, Stages
    <3>2. QED
      BY <2>1, <2>3, <3>1, OutboundAssumption, ReportsMore DEF Ends
  <2>4. CASE failures[d] # Retries /\ failures'[d] # 1
    <3>1. UNCHANGED calls /\ \A e \in Domain : delivery'[e] = delivery[e] \/ e = d
      BY <1>6, <2>4 DEF Defer, OutTypeOK
    <3>2. QED
      BY <2>1, <2>4, <3>1, OutboundAssumption, ReportsKept DEF Ends
  <2>5. QED
    BY <2>2, <2>3, <2>4
<1>7. ASSUME NEW d \in Domain, NEW stage \in Stages, CallStep(d, stage)
      PROVE  Ends'
  <2>1. \A e, t : Reported(e, t)' => Reported(e, t)
    BY <1>7, CallMoves
  <2>2. UNCHANGED failures /\ \A e \in Domain : delivery'[e] = delivery[e] \/ delivery'[e] = "done"
    BY <1>7 DEF CallStep, Push, CallEnds, Answer, OutTypeOK
  <2>3. QED
    BY <2>1, <2>2 DEF Ends
<1>8. QED
  BY <1>1, <1>2, <1>3, <1>4, <1>5, <1>6, <1>7, OutPart DEF DeliveryStep

(* A hook reports what was not reported, of a delivery that was being tried. *)
LEMMA NewReport ==
  ASSUME OutTypeOK, Ends, NEW d \in Domain, DeliveryStep(d)
  PROVE  \/ UNCHANGED calls
         \/ /\ delivery[d] = "trying" /\ UNCHANGED late
            /\ \E stage \in Stages : Report(d, stage) /\ ~ Reported(d, stage)
<1>1. CASE Attempt(d) \/ HookTimesOut(d) \/ AnswerLost(d)
  BY <1>1 DEF Attempt, HookTimesOut, AnswerLost
<1>2. CASE Succeed(d) \/ Bounce(d)
  BY <1>2 DEF Succeed, Bounce, Ends, Stages, Final
<1>3. CASE Defer(d)
  <2>1. delivery[d] = "trying" /\ failures[d] \in Nat /\ failures'[d] = failures[d] + 1
    BY <1>3 DEF Defer, OutTypeOK
  <2>2. CASE failures[d] = Retries
    BY <1>3, <2>1, <2>2 DEF Defer, Ends, Stages, Final
  <2>3. CASE failures[d] # Retries /\ failures'[d] = 1
    <3>1. failures[d] = 0
      BY <2>1, <2>3
    <3>2. QED
      BY <1>3, <2>1, <2>3, <3>1 DEF Defer, Ends, Stages
  <2>4. CASE failures[d] # Retries /\ failures'[d] # 1
    BY <1>3, <2>4 DEF Defer
  <2>5. QED
    BY <2>2, <2>3, <2>4
<1>4. QED
  BY <1>1, <1>2, <1>3 DEF DeliveryStep

(* A list that a call updates for the first time. *)
LEMMA OnceAppended ==
  ASSUME NEW S, NEW list \in Seq(S), NEW doc, NEW c, NEW p, NEW d, NEW stage,
         OnceOn(list, doc, c, p), <<d, stage>> \in c, <<d, stage, doc>> \notin p
  PROVE  OnceOn(Append(list, <<d, stage>>), doc, c, p \cup {<<d, stage, doc>>})
<1>1. \A k \in DOMAIN list : list[k] # <<d, stage>>
  BY DEF OnceOn
<1>2. PICK m : m = Append(list, <<d, stage>>)
  OBVIOUS
<1>3. PICK n : /\ DOMAIN m = DOMAIN list \cup {n} /\ n \notin DOMAIN list
               /\ \A k \in DOMAIN list : m[k] = list[k]
               /\ m[n] = <<d, stage>>
  BY <1>2, Longer
<1>4. OnceOn(m, doc, c, p \cup {<<d, stage, doc>>})
  BY <1>1, <1>3 DEF OnceOn
<1>. QED
  BY <1>2, <1>4

(* A call that has ended leaves a list as it is. *)
LEMMA OnceEnded ==
  ASSUME NEW list, NEW doc, NEW c \in SUBSET (Domain \X Stages), NEW p, NEW q, NEW status,
         OnceOn(list, doc, c, p), \A x \in p : <<x[1], x[2]>> # status => x \in q
  PROVE  OnceOn(list, doc, c \ {status}, q)
<1>1. ASSUME NEW k \in DOMAIN list, list[k] \in c \ {status}
      PROVE  <<list[k][1], list[k][2], doc>> \in q
  <2>1. <<list[k][1], list[k][2], doc>> \in p /\ <<list[k][1], list[k][2]>> = list[k]
    BY <1>1 DEF OnceOn
  <2>2. PICK x : x = <<list[k][1], list[k][2], doc>>
    OBVIOUS
  <2>3. x \in p /\ <<x[1], x[2]>> # status
    BY <1>1, <2>1, <2>2
  <2>. QED
    BY <2>2, <2>3
<1>. QED
  BY <1>1 DEF OnceOn

(* Every step keeps the statuses different. *)
LEMMA OnceStep ==
  ASSUME OutTypeOK, SenderKnows, Ends, Once, [RoundTripNext]_allVars
  PROVE  Once'
<1>0. /\ sent \in Seq((Domain \X Stages) \cup {Failure})
      /\ copies \in Seq(Seq(Domain \X Stages)) /\ calls \in SUBSET (Domain \X Stages)
      /\ \A i \in DOMAIN copies : copies[i] \in Seq(Domain \X Stages)
  BY DEF OutTypeOK, Failure
<1>1. CASE UNCHANGED <<sent, copies, calls, pushed>>
  BY <1>1 DEF Once
<1>2. CASE OnlyCopies
  <2>1. CASE copies' = Append(copies, <<>>)
    <3>1. \A i \in DOMAIN copies' :
             (i \in DOMAIN copies /\ copies'[i] = copies[i]) \/ copies'[i] = <<>>
      BY <1>0, <2>1, Longer
    <3>2. \A i : OnceOn(<<>>, i, calls, pushed)
      BY DEF OnceOn
    <3>. QED
      BY <1>2, <3>1, <3>2 DEF OnlyCopies, Once
  <2>. QED
    BY <1>1, <1>2, <2>1 DEF OnlyCopies
<1>3. CASE RecordFailure
  <2>1. CASE sent' = Append(sent, Failure)
    <3>1. /\ \A k \in DOMAIN sent : sent[k] # Failure
          /\ Failure \notin calls /\ UNCHANGED <<calls, pushed, copies>>
      BY <1>3, OutboundAssumption DEF RecordFailure, SenderKnows, OnSent, OutTypeOK, Failure
    <3>2. PICK n : /\ DOMAIN sent' = DOMAIN sent \cup {n} /\ n \notin DOMAIN sent
                   /\ \A k \in DOMAIN sent : sent'[k] = sent[k]
                   /\ sent'[n] = Failure
      BY <1>0, <2>1, Longer
    <3>3. OnceOn(sent', 0, calls, pushed)
      BY <3>1, <3>2 DEF Once, OnceOn
    <3>. QED
      BY <3>1, <3>3 DEF Once
  <2>2. QED
    BY <1>1, <1>3, <2>1 DEF RecordFailure, Failure
<1>4. ASSUME NEW d \in Domain, DeliveryStep(d)
      PROVE  Once'
  <2>1. UNCHANGED <<sent, copies, pushed>>
    BY <1>4, SentKept
  <2>2. ASSUME NEW stage \in Stages, Report(d, stage), ~ Reported(d, stage)
        PROVE  Once'
    <3>1. calls' = calls \cup {<<d, stage>>}
      BY <2>2 DEF Report
    <3>2. OnceOn(sent, 0, calls', pushed)
      BY <2>2, <3>1 DEF Once, OnceOn, Reported, OnSent
    <3>3. \A i \in DOMAIN copies : OnceOn(copies[i], i, calls', pushed)
      BY <2>2, <3>1 DEF Once, OnceOn, Reported, OnCopy
    <3>. QED
      BY <2>1, <3>2, <3>3 DEF Once
  <2>3. QED
    BY <1>1, <1>4, <2>1, <2>2, NewReport
<1>5. ASSUME NEW d \in Domain, NEW stage \in Stages, CallEnds(d, stage)
      PROVE  Once'
  <2>1. /\ sent' = sent /\ copies' = copies /\ calls' = calls \ {<<d, stage>>}
        /\ \A x \in pushed : <<x[1], x[2]>> # <<d, stage>> => x \in pushed'
    BY <1>5 DEF CallEnds
  <2>2. /\ OnceOn(sent, 0, calls, pushed)
        /\ \A i \in DOMAIN copies : OnceOn(copies[i], i, calls, pushed)
    BY DEF Once
  <2>3. OnceOn(sent, 0, calls \ {<<d, stage>>}, pushed')
    BY <1>0, <2>1, <2>2, OnceEnded
  <2>4. \A i \in DOMAIN copies : OnceOn(copies[i], i, calls \ {<<d, stage>>}, pushed')
    BY <1>0, <2>1, <2>2, OnceEnded
  <2>. QED
    BY <2>1, <2>3, <2>4 DEF Once
<1>6. ASSUME NEW d \in Domain, NEW stage \in Stages, Push(d, stage)
      PROVE  Once'
  <2>1. <<d, stage>> \in calls /\ calls' = calls
    BY <1>6, PushEffect
  <2>2. CASE /\ sent' = Append(sent, <<d, stage>>) /\ UNCHANGED copies
             /\ <<d, stage, 0>> \notin pushed /\ pushed' = pushed \cup {<<d, stage, 0>>}
    <3>1. OnceOn(sent', 0, calls, pushed')
      BY <1>0, <2>1, <2>2, OnceAppended DEF Once
    <3>2. \A i \in DOMAIN copies : OnceOn(copies[i], i, calls, pushed')
      BY <2>2 DEF Once, OnceOn
    <3>. QED
      BY <2>1, <2>2, <3>1, <3>2 DEF Once
  <2>3. ASSUME NEW doc \in DOMAIN copies, UNCHANGED sent, DOMAIN copies' = DOMAIN copies,
               copies'[doc] = Append(copies[doc], <<d, stage>>),
               \A i \in DOMAIN copies \ {doc} : copies'[i] = copies[i],
               <<d, stage, doc>> \notin pushed, pushed' = pushed \cup {<<d, stage, doc>>}
        PROVE  Once'
    <3>1. OnceOn(copies'[doc], doc, calls, pushed')
      BY <1>0, <2>1, <2>3, OnceAppended DEF Once
    <3>2. \A i \in DOMAIN copies \ {doc} : OnceOn(copies'[i], i, calls, pushed')
      BY <2>3 DEF Once, OnceOn
    <3>3. OnceOn(sent, 0, calls, pushed')
      BY <2>3 DEF Once, OnceOn
    <3>. QED
      BY <2>1, <2>3, <3>1, <3>2, <3>3 DEF Once
  <2>. QED
    BY <1>6, <2>2, <2>3, PushEffect
<1>7. CASE Queueing \/ Save \/ SendEnds \/ SendFails
  BY <1>1, <1>7 DEF Queueing, SenderChecked, SenderUnchecked, Save, SendEnds, SendFails
<1>8. QED
  BY <1>2, <1>3, <1>4, <1>5, <1>6, <1>7, OutPart DEF CallStep, Sender

(* A delivery that starts, or ends, without another report. *)
LEMMA PunctualKept ==
  ASSUME Punctual, UNCHANGED late,
         \A e \in Domain, t \in Stages : Reported(e, t)' => Reported(e, t),
         \A e \in Domain : delivery'[e] # delivery[e] =>
            \/ delivery'[e] = "done"
            \/ delivery[e] \notin Stages \cup {"done", "none"} /\ delivery'[e] # "none"
  PROVE  Punctual'
<1>1. ASSUME NEW d \in Domain, d \notin late, NEW stage \in Stages, Reported(d, stage)'
      PROVE  delivery'[d] \in {stage, "done"} /\ \A t \in Stages : Reported(d, t)' => t = stage
  <2>1. Reported(d, stage)
    BY <1>1
  <2>2. delivery[d] \in {stage, "done"} /\ \A t \in Stages : Reported(d, t) => t = stage
    BY <1>1, <2>1 DEF Punctual
  <2>. QED
    BY <1>1, <2>2
<1>2. \A d \in Domain : delivery'[d] = "none" => d \notin late
  BY DEF Punctual
<1>. QED
  BY <1>1, <1>2 DEF Punctual

(* Every step keeps a delivery none of whose hooks timed out to one report. *)
LEMMA PunctualStep ==
  ASSUME OutTypeOK, SenderKnows, Ends, Punctual, [RoundTripNext]_allVars
  PROVE  Punctual'
<1>2. CASE OnlyCopies \/ Sender
  <2>1. UNCHANGED <<delivery, late>>
    BY <1>2 DEF OnlyCopies, Sender, Save, SendEnds, SendFails, RecordFailure
  <2>2. \A e \in Domain : \A t : Reported(e, t)' => Reported(e, t)
    BY <1>2, ReportsKept DEF Sender, Save, SendEnds, SendFails, RecordFailure, Failure
  <2>. QED
    BY <2>1, <2>2, PunctualKept
<1>3. CASE Queueing
  <2>0. UNCHANGED <<late, calls, sent, copies>>
    BY <1>3 DEF Queueing, SenderChecked, SenderUnchecked
  <2>1. \A e \in Domain : \A t : Reported(e, t)' => Reported(e, t)
    BY <2>0, ReportsKept
  <2>2. CASE UNCHANGED delivery
    BY <2>0, <2>1, <2>2, PunctualKept
  <2>3. CASE submission # "relayed" /\ Relay
    <3>1. \A d \in Domain : delivery[d] = "none" /\ delivery'[d] = "waiting"
      BY <2>3 DEF SenderKnows, Relay
    <3>2. \A d \in Domain, stage \in Stages : d \notin late => ~ Reported(d, stage)
      BY <3>1 DEF Punctual, Stages, Final
    <3>3. QED
      BY <2>0, <2>1, <3>1, <3>2 DEF Punctual
  <2>4. QED
    BY <1>3, <2>2, <2>3 DEF Queueing, SenderChecked, SenderUnchecked
<1>4. ASSUME NEW d \in Domain, Attempt(d) \/ Succeed(d) \/ Bounce(d) \/ Defer(d)
      PROVE  Punctual'
  <2>1. /\ UNCHANGED <<sent, copies, late>> /\ delivery[d] \in {"waiting", "trying"}
    BY <1>4 DEF Attempt, Succeed, Bounce, Defer
  <2>2. d \notin late => \A stage \in Stages : ~ Reported(d, stage)
    BY <2>1 DEF Punctual, Stages, Final
  <2>3. ASSUME NEW stage \in Stages, Report(d, stage)
        PROVE  Punctual'
    <3>1. /\ delivery'[d] = stage /\ \A e \in Domain \ {d} : delivery'[e] = delivery[e]
          /\ \A e, t : Reported(e, t)' <=> (Reported(e, t) \/ <<e, t>> = <<d, stage>>)
      BY <2>1, <2>3, ReportsMore
    <3>2. stage # "none"
      BY DEF Stages, Final
    <3>3. ASSUME NEW e \in Domain, e \notin late, NEW s \in Stages, Reported(e, s)'
          PROVE  delivery'[e] \in {s, "done"} /\ \A t \in Stages : Reported(e, t)' => t = s
      <4>1. CASE e = d
        BY <2>2, <3>1, <3>3, <4>1
      <4>2. CASE e # d
        BY <3>1, <3>3, <4>2 DEF Punctual
      <4>. QED
        BY <4>1, <4>2
    <3>4. \A e \in Domain : delivery'[e] = "none" => e \notin late
      BY <3>1, <3>2 DEF Punctual
    <3>. QED
      BY <2>1, <3>3, <3>4 DEF Punctual
  <2>4. ASSUME NEW x \in {"waiting", "trying", "done"}, UNCHANGED calls,
               delivery' = [delivery EXCEPT ![d] = x]
        PROVE  Punctual'
    <3>1. \A e \in Domain : \A t : Reported(e, t)' => Reported(e, t)
      BY <2>1, <2>4, ReportsKept
    <3>2. delivery'[d] = x /\ \A e \in Domain \ {d} : delivery'[e] = delivery[e]
      BY <2>4 DEF OutTypeOK
    <3>. QED
      BY <2>1, <3>1, <3>2, PunctualKept DEF Stages, Final
  <2>5. QED
    BY <1>4, <2>3, <2>4, Moves DEF DeliveryStep
<1>5. ASSUME NEW d \in Domain, HookTimesOut(d)
      PROVE  Punctual'
  <2>1. /\ \A e \in Domain : \A t : Reported(e, t)' => Reported(e, t)
        /\ late' = late \cup {d} /\ delivery'[d] # "none"
        /\ \A e \in Domain \ {d} : delivery'[e] = delivery[e]
    BY <1>5, ReportsKept DEF HookTimesOut, OutTypeOK
  <2>2. ASSUME NEW e \in Domain, e \notin late', NEW s \in Stages, Reported(e, s)'
        PROVE  delivery'[e] \in {s, "done"} /\ \A t \in Stages : Reported(e, t)' => t = s
    BY <2>1, <2>2 DEF Punctual
  <2>3. \A e \in Domain : delivery'[e] = "none" => e \notin late'
    BY <2>1 DEF Punctual
  <2>. QED
    BY <2>2, <2>3 DEF Punctual
<1>6. ASSUME NEW d \in Domain, AnswerLost(d) \/ \E stage \in Stages : CallStep(d, stage)
      PROVE  Punctual'
  <2>1. \A e \in Domain : \A t : Reported(e, t)' => Reported(e, t)
    BY <1>6, CallMoves, ReportsKept DEF AnswerLost
  <2>2. UNCHANGED late /\ \A e \in Domain : delivery'[e] = delivery[e] \/ delivery'[e] = "done"
    BY <1>6 DEF AnswerLost, CallStep, Push, CallEnds, Answer, OutTypeOK
  <2>. QED
    BY <2>1, <2>2, PunctualKept
<1>8. QED
  BY <1>2, <1>3, <1>4, <1>5, <1>6, OutPart DEF DeliveryStep

-----------------------------------------------------------------------------
(* What is stored *)

(* Only an answer to saveInbound makes the transaction "ok". *)
LEMMA OkIsSaved ==
  ASSUME Next, phase' = "ok"
  PROVE  phase = "ok" \/ (phase = "saving" /\ phase' # "saving")
<1>1. ASSUME NEW i \in Part, Answered(i)
      PROVE  phase = "ok"
  <2>1. Proceed
    BY <1>1 DEF Answered, Uploaded, TimedOutAnswer, UploadFails
  <2>2. QED
    BY <2>1, ProceedEffect
<1>2. ASSUME NEW a \in Rcpt, RcptTo(a) \/ RcptTimesOut(a) \/ Valid(a) \/ Invalid(a)
      PROVE  phase = "ok"
  BY <1>2 DEF RcptTo, RcptTimesOut, Valid, Invalid
<1>3. ASSUME NEW i \in Part, Start(i) \/ Step(i)
      PROVE  phase = "ok"
  BY <1>3 DEF Start, Step, StreamEnd, TimeOut
<1>4. QED
  BY <1>1, <1>2, <1>3 DEF Next, Data, Hook, DataPost, DataPostTimesOut, Queue, ParseFails, Saved

(* A copy that is stored stays. *)
LEMMA CopiesStay ==
  ASSUME OutTypeOK, 1 \in DOMAIN copies, [RoundTripNext]_allVars
  PROVE  1 \in DOMAIN copies'
<1>1. copies \in Seq(Seq(Domain \X Stages))
  BY DEF OutTypeOK
<1>2. CASE OnlyCopies
  BY <1>1, <1>2 DEF OnlyCopies
<1>3. CASE Sender \/ Queueing
  BY <1>3 DEF Sender, Save, SendEnds, SendFails, RecordFailure, Queueing, SenderChecked, SenderUnchecked
<1>4. ASSUME NEW d \in Domain, NEW stage \in Stages, CallStep(d, stage)
      PROVE  1 \in DOMAIN copies'
  <2>1. DOMAIN copies' = DOMAIN copies
    BY <1>4, PushEffect DEF CallStep, CallEnds
  <2>2. QED
    BY <2>1
<1>5. ASSUME NEW d \in Domain, DeliveryStep(d)
      PROVE  1 \in DOMAIN copies'
  BY <1>5, SentKept
<1>6. QED
  BY <1>2, <1>3, <1>4, <1>5, OutPart

(* Only the answer of its own transaction makes the local delivery "delivered". *)
LEMMA NewDelivered ==
  ASSUME OutTypeOK, Reported(Local, "delivered")', ~ Reported(Local, "delivered"),
         NEW d \in Domain, Try(d)
  PROVE  phase = "ok"
<1>1. SUFFICES ASSUME phase # "ok" PROVE FALSE
  OBVIOUS
<1>2. (d # Local /\ Succeed(d)) \/ Bounce(d) \/ Defer(d)
  BY <1>1 DEF Try, LocalOutcome, Outcome
<1>3. UNCHANGED <<sent, copies>> /\ DeliveryStep(d)
  BY <1>2, SentKept DEF DeliveryStep
<1>4. ASSUME NEW stage \in Stages, Report(d, stage)
      PROVE  d = Local /\ stage = "delivered"
  <2>1. \A e, t : Reported(e, t)' <=> (Reported(e, t) \/ <<e, t>> = <<d, stage>>)
    BY <1>3, <1>4, ReportsMore
  <2>2. <<Local, "delivered">> = <<d, stage>>
    BY <2>1
  <2>. QED
    BY <2>2
<1>5. "bounced" \in Stages /\ "deferred" \in Stages /\ "delivered" \in Stages
  BY DEF Stages, Final
<1>6. UNCHANGED calls
  BY <1>2, <1>4, <1>5 DEF Succeed, Bounce, Defer
<1>7. Local \in Domain
  BY RoundTripAssumption
<1>. QED
  BY <1>3, <1>6, <1>7, ReportsKept

(* Every step keeps that what is answered "ok" and reported is stored. *)
LEMMA KeptStep ==
  ASSUME UploadInv, OutInv, Kept, [RoundTripNext]_allVars
  PROVE  Kept'
<1>0. OutTypeOK /\ Local \in Domain
  BY RoundTripAssumption DEF OutInv
<1>1. ASSUME phase' = "ok"
      PROVE  1 \in DOMAIN copies'
  <2>1. CASE phase = "ok"
    BY <1>0, <2>1, CopiesStay DEF Kept
  <2>2. CASE phase # "ok"
    <3>1. Receive
      BY <1>1, <2>2 DEF RoundTripNext, LateSave, Outbound, Try, LocalOutcome, Disconnect, allVars, vars
    <3>2. copies' = Append(copies, <<>>)
      BY <1>1, <2>2, <3>1, OkIsSaved DEF Receive, Transaction, StoreCopy
    <3>3. copies \in Seq(Seq(Domain \X Stages))
      BY <1>0 DEF OutTypeOK
    <3>4. QED
      BY <3>2, <3>3
  <2>3. QED
    BY <2>1, <2>2
<1>2. ASSUME Reported(Local, "delivered")', ~ Reported(Local, "delivered")
      PROVE  1 \in DOMAIN copies'
  <2>1. phase = "ok"
    <3>1. CASE OnlyCopies
      BY <1>0, <1>2, <3>1, ReportsKept
    <3>2. CASE Sender \/ Queueing
      <4>1. UNCHANGED <<calls, copies>> /\ (sent' = sent \/ sent' = Append(sent, Failure))
        BY <3>2 DEF Sender, Save, SendEnds, SendFails, RecordFailure, Queueing, SenderChecked, SenderUnchecked, Failure
      <4>2. QED
        BY <1>0, <1>2, <4>1, ReportsKept
    <3>3. ASSUME NEW d \in Domain, NEW stage \in Stages, CallStep(d, stage)
          PROVE  FALSE
      BY <1>0, <1>2, <3>3, CallMoves
    <3>4. ASSUME NEW d \in Domain, Attempt(d) \/ HookTimesOut(d) \/ AnswerLost(d)
          PROVE  FALSE
      <4>1. UNCHANGED <<calls, copies, sent>>
        BY <3>4 DEF Attempt, HookTimesOut, AnswerLost
      <4>2. QED
        BY <1>0, <1>2, <4>1, ReportsKept
    <3>5. ASSUME NEW d \in Domain, Try(d)
          PROVE  phase = "ok"
      BY <1>0, <1>2, <3>5, NewDelivered
    <3>6. CASE Receive \/ LateSave \/ UNCHANGED allVars
      <4>1. OnlyCopies
        BY <3>6 DEF Receive, Transaction, LateSave, StoreCopy, OnlyCopies, allVars, outVars
      <4>2. QED
        BY <4>1, <3>1
    <3>7. ASSUME NEW d \in Domain, Reporting(d)
          PROVE  FALSE
      BY <3>3, <3>4, <3>7 DEF Reporting, CallStep
    <3>8. QED
      BY <3>2, <3>4, <3>5, <3>6, <3>7 DEF RoundTripNext
  <2>2. QED
    BY <1>0, <2>1, CopiesStay DEF Kept
<1>3. QED
  BY <1>0, <1>1, <1>2, CopiesStay DEF Kept

(* The calls that Haraka no longer waits for can be counted. *)
LEMMA UnheardStep ==
  ASSUME unheard \in Nat, [RoundTripNext]_allVars
  PROVE  unheard' \in Nat
<1>1. ASSUME NEW d \in Domain, Try(d)
      PROVE  unheard' = unheard
  BY <1>1 DEF Try, LocalOutcome, Outbound
<1>2. QED
  BY <1>1 DEF RoundTripNext, Receive, Transaction, LateSave, Outbound, allVars

-----------------------------------------------------------------------------
(* Invariance *)

(* The invariant holds at first. *)
LEMMA RoundTripInvInit == RoundTripInit => RoundTripInv
<1> SUFFICES ASSUME RoundTripInit PROVE RoundTripInv
  OBVIOUS
<1>1. UploadInv
  BY UploadInvInit DEF RoundTripInit
<1>2. OutTypeOK
  <2>1. sent \in Seq((Domain \X Stages) \cup {<<"sender", "failed">>}) /\ copies \in Seq(Seq(Domain \X Stages))
    <3>1. <<>> \in Seq((Domain \X Stages) \cup {<<"sender", "failed">>})
      OBVIOUS
    <3>2. <<>> \in Seq(Seq(Domain \X Stages))
      OBVIOUS
    <3>3. QED
      BY <3>1, <3>2 DEF RoundTripInit, OutInit
  <2>2. /\ delivery \in [Domain -> {"none", "waiting", "trying", "done"} \cup Stages]
        /\ failures \in [Domain -> 0 .. Retries + 1]
        /\ calls \subseteq Domain \X Stages /\ late \subseteq Domain
        /\ pushed \subseteq Domain \X Stages \X ({0} \cup DOMAIN copies)
    BY OutboundAssumption DEF RoundTripInit, OutInit
  <2>3. QED
    BY <2>1, <2>2 DEF RoundTripInit, OutInit, OutTypeOK
<1>3. DOMAIN sent = {} /\ DOMAIN copies = {} /\ calls = {}
  BY DEF RoundTripInit, OutInit
<1>4. \A d, t : ~ Reported(d, t)
  BY <1>3 DEF Reported, OnSent, OnCopy
<1>5. ~ OnSent(Failure)
  BY <1>3 DEF OnSent
<1>6. SenderKnows
  BY <1>5 DEF RoundTripInit, OutInit, SenderKnows
<1>7. Ends
  BY <1>4, OutboundAssumption DEF RoundTripInit, OutInit, Ends
<1>8. Once
  BY <1>3 DEF Once, OnceOn
<1>9. Punctual
  BY <1>4 DEF RoundTripInit, OutInit, Punctual
<1>10. Kept /\ unheard \in Nat
  BY <1>4 DEF RoundTripInit, Init, Kept
<1>11. QED
  BY <1>1, <1>2, <1>6, <1>7, <1>8, <1>9, <1>10 DEF RoundTripInv, OutInv

(* What is true of all the mail's way: RoundTripInv is inductive. *)
THEOREM RoundTripInvariance == RoundTripSpec => []RoundTripInv
<1>1. RoundTripInv /\ [RoundTripNext]_allVars => RoundTripInv'
  BY UploadPart, OutTypeStep, SenderKnowsStep, EndsStep, OnceStep, PunctualStep, KeptStep,
     UnheardStep DEF RoundTripInv, OutInv
<1>2. QED
  BY <1>1, RoundTripInvInit, PTL DEF RoundTripSpec

-----------------------------------------------------------------------------
(* What the invariant says *)

(* A set within two elements has two at most. *)
LEMMA TwoAtMost ==
  ASSUME NEW S, NEW a, NEW b, S \subseteq {a, b}
  PROVE  /\ Cardinality(S) <= 2
         /\ a = b => Cardinality(S) <= 1
<1>1. IsFiniteSet({a}) /\ Cardinality({a}) = 1
  BY FS_Singleton
<1>2. {a, b} = {a} \cup {b}
  OBVIOUS
<1>3. IsFiniteSet({a, b}) /\ Cardinality({a, b}) = IF b \in {a} THEN 1 ELSE 1 + 1
  BY <1>1, <1>2, FS_AddElement
<1>4. Cardinality(S) <= Cardinality({a, b}) /\ Cardinality(S) \in Nat
  BY <1>3, FS_Subset, FS_CardinalityType
<1>5. QED
  BY <1>3, <1>4

(* What a document says is the sender's failure, or a report of a delivery. *)
LEMMA StatusesAreReports ==
  ASSUME OutTypeOK
  PROVE  /\ \A k \in DOMAIN sent :
               \/ sent[k] = Failure
               \/ \E d \in Domain, stage \in Stages : sent[k] = <<d, stage>> /\ Reported(d, stage)
         /\ \A i \in DOMAIN copies : \A k \in DOMAIN copies[i] :
               \E d \in Domain, stage \in Stages :
                  copies[i][k] = <<d, stage>> /\ Reported(d, stage)
<1>1. /\ sent \in Seq((Domain \X Stages) \cup {Failure})
      /\ copies \in Seq(Seq(Domain \X Stages))
  BY DEF OutTypeOK, Failure
<1>2. \A k \in DOMAIN sent : sent[k] \in (Domain \X Stages) \cup {Failure}
  BY <1>1
<1>3. ASSUME NEW i \in DOMAIN copies, NEW k \in DOMAIN copies[i]
      PROVE  copies[i][k] \in Domain \X Stages
  <2>1. copies[i] \in Seq(Domain \X Stages)
    BY <1>1
  <2>2. QED
    BY <2>1
<1>4. ASSUME NEW k \in DOMAIN sent, sent[k] # Failure
      PROVE  \E d \in Domain, stage \in Stages : sent[k] = <<d, stage>> /\ Reported(d, stage)
  <2>1. PICK d \in Domain, stage \in Stages : sent[k] = <<d, stage>>
    BY <1>2, <1>4
  <2>2. Reported(d, stage)
    BY <2>1 DEF Reported, OnSent
  <2>. QED
    BY <2>1, <2>2
<1>5. ASSUME NEW i \in DOMAIN copies, NEW k \in DOMAIN copies[i]
      PROVE  \E d \in Domain, stage \in Stages : copies[i][k] = <<d, stage>> /\ Reported(d, stage)
  <2>1. PICK d \in Domain, stage \in Stages : copies[i][k] = <<d, stage>>
    BY <1>3
  <2>2. Reported(d, stage)
    BY <2>1 DEF Reported, OnCopy
  <2>. QED
    BY <2>1, <2>2
<1>. QED
  BY <1>4, <1>5

(* "failed" beside reports means that Haraka's answer was lost. *)
LEMMA ToldAsQueuedInv ==
  ASSUME OutInv PROVE ToldAsQueued
<1> DEFINE failed == <<"sender", "failed">> \in {sent[k] : k \in DOMAIN sent}
<1>1. failed <=> OnSent(Failure)
  BY DEF OnSent, Failure
<1>2. ASSUME failed, Len(sent) > 1, ~ lost
      PROVE  FALSE
  <2>1. \A d \in Domain : delivery[d] = "none" /\ d \notin late
    BY <1>1, <1>2 DEF OutInv, SenderKnows, Punctual
  <2>2. \A d \in Domain, stage \in Stages : ~ Reported(d, stage)
    BY <2>1 DEF OutInv, Punctual, Stages, Final
  <2>3. \A k \in DOMAIN sent : sent[k] = Failure
    BY <2>2, StatusesAreReports DEF OutInv
  <2>4. sent \in Seq((Domain \X Stages) \cup {Failure})
    BY DEF OutInv, OutTypeOK, Failure
  <2>5. 1 \in DOMAIN sent /\ 2 \in DOMAIN sent
    BY <1>2, <2>4
  <2>6. QED
    BY <2>3, <2>5 DEF OutInv, Once, OnceOn
<1>3. QED
  BY <1>1, <1>2 DEF OutInv, SenderKnows, ToldAsQueued

(* The statuses of a delivery: "deferred", and one more. *)
LEMMA OneVerdictInv ==
  ASSUME OutInv PROVE OneVerdict
<1>0. \A j, k \in DOMAIN sent : sent[j] = sent[k] => j = k
  BY DEF OutInv, Once, OnceOn
<1>1. ASSUME NEW d \in Domain
      PROVE  \A k \in Statuses(d) : \E stage \in Stages :
                sent[k] = <<d, stage>> /\ Reported(d, stage) /\ k \in DOMAIN sent
  <2>1. ASSUME NEW k \in Statuses(d)
        PROVE  \E stage \in Stages : sent[k] = <<d, stage>> /\ Reported(d, stage)
    <3>1. k \in DOMAIN sent /\ sent[k][1] = d /\ sent[k] # Failure
      BY OutboundAssumption DEF Statuses, Failure
    <3>2. PICK e \in Domain, stage \in Stages : sent[k] = <<e, stage>> /\ Reported(e, stage)
      BY <3>1, StatusesAreReports DEF OutInv
    <3>3. e = d
      BY <3>1, <3>2
    <3>. QED
      BY <3>2, <3>3
  <2>. QED
    BY <2>1 DEF Statuses
<1>2. ASSUME NEW d \in Domain, d \notin late
      PROVE  Cardinality(Statuses(d)) <= 1
  <2>1. \A j, k \in Statuses(d) : sent[j] = sent[k]
    BY <1>1, <1>2 DEF OutInv, Punctual
  <2>2. \A j, k \in Statuses(d) : j = k
    BY <1>0, <2>1 DEF Statuses
  <2>3. \E a : Statuses(d) \subseteq {a, a}
    <3>1. CASE Statuses(d) = {}
      BY <3>1
    <3>2. ASSUME NEW a \in Statuses(d) PROVE Statuses(d) \subseteq {a, a}
      BY <2>2
    <3>3. QED
      BY <3>1, <3>2
  <2>4. QED
    BY <2>3, TwoAtMost
<1>3. ASSUME NEW d \in Domain
      PROVE  Cardinality(Statuses(d)) <= 2
  <2>1. \A k \in Statuses(d) : sent[k] \in {<<d, "deferred">>, <<d, "delivered">>, <<d, "bounced">>}
    BY <1>1 DEF Stages, Final
  <2>2. \A j, k \in Statuses(d) : sent[j] = sent[k] => j = k
    BY <1>0 DEF Statuses
  <2>3. ~ (OnSent(<<d, "delivered">>) /\ OnSent(<<d, "bounced">>))
    BY DEF OutInv, Ends, Reported
  <2>4. \E a : \A k \in Statuses(d) : sent[k] = <<d, "deferred">> => k = a
    BY <2>2
  <2>5. \E b : \A k \in Statuses(d) : sent[k] # <<d, "deferred">> => k = b
    <3>1. \A j, k \in Statuses(d) :
             sent[j] # <<d, "deferred">> /\ sent[k] # <<d, "deferred">> => sent[j] = sent[k]
      BY <2>1, <2>3 DEF OnSent, Statuses
    <3>2. QED
      BY <2>2, <3>1
  <2>6. QED
    <3>1. PICK a : \A k \in Statuses(d) : sent[k] = <<d, "deferred">> => k = a
      BY <2>4
    <3>2. PICK b : \A k \in Statuses(d) : sent[k] # <<d, "deferred">> => k = b
      BY <2>5
    <3>3. Statuses(d) \subseteq {a, b}
      BY <3>1, <3>2
    <3>4. QED
      BY <3>3, TwoAtMost
<1>4. \A d \in Domain : \A j, k \in Statuses(d) : j # k => sent[j] # sent[k]
  BY <1>0 DEF Statuses
<1>5. QED
  BY <1>2, <1>3, <1>4 DEF OneVerdict, OutInv

(* What any copy says was reported. *)
LEMMA CopiesAgreeInv ==
  ASSUME OutInv PROVE CopiesAgree
<1>0. OutTypeOK
  BY DEF OutInv
<1>1. ASSUME NEW d \in Domain, NEW s \in Told(d)
      PROVE  \E stage \in Stages : s = <<d, stage>> /\ Reported(d, stage)
  <2>1. s[1] = d /\ ((\E k \in DOMAIN sent : s = sent[k])
                     \/ \E i \in DOMAIN copies : \E k \in DOMAIN copies[i] : s = copies[i][k])
    BY <1>1 DEF Told, Statuses
  <2>2. s # Failure
    BY <2>1, OutboundAssumption DEF Failure
  <2>3. PICK e \in Domain, stage \in Stages : s = <<e, stage>> /\ Reported(e, stage)
    BY <1>0, <2>1, <2>2, StatusesAreReports
  <2>4. e = d
    BY <2>1, <2>3
  <2>. QED
    BY <2>3, <2>4
<1>2. ASSUME NEW d \in Domain, d \notin late
      PROVE  \A s, t \in Told(d) : s = t
  BY <1>1, <1>2 DEF OutInv, Punctual
<1>3. ASSUME NEW d \in Domain, Final \subseteq {s[2] : s \in Told(d)}
      PROVE  FALSE
  <2>1. PICK s \in Told(d), t \in Told(d) : s[2] = "delivered" /\ t[2] = "bounced"
    BY <1>3 DEF Final
  <2>2. Reported(d, "delivered") /\ Reported(d, "bounced")
    BY <1>1, <2>1
  <2>. QED
    BY <2>2 DEF OutInv, Ends
<1>4. ASSUME NEW i \in DOMAIN copies
      PROVE  /\ \A k \in DOMAIN copies[i] : copies[i][k][1] \in Domain
             /\ \A j, k \in DOMAIN copies[i] : j # k => copies[i][j] # copies[i][k]
  <2>1. \A k \in DOMAIN copies[i] : copies[i][k][1] \in Domain
    BY <1>0, StatusesAreReports
  <2>2. OnceOn(copies[i], i, calls, pushed)
    BY DEF OutInv, Once
  <2>. QED
    BY <2>1, <2>2 DEF OnceOn
<1>. QED
  BY <1>2, <1>3, <1>4 DEF CopiesAgree

(* A delivery reported as done is stored. *)
LEMMA DeliveredMeansStoredInv ==
  ASSUME Kept, unheard \in Nat PROVE DeliveredMeansStored
<1> SUFFICES ASSUME OnSent(<<Local, "delivered">>) PROVE copies # <<>>
  BY DEF DeliveredMeansStored, OnSent
<1>1. 1 \in DOMAIN copies
  BY DEF Kept, Reported
<1>2. QED
  BY <1>1

-----------------------------------------------------------------------------
(* Theorems.  They hold for any domains, retries, parts and addresses. *)

(* hook_data_post is answered once, and last of all, in each attempt to deliver a *)
(* mail and whatever became of the ones before.                              *)
THEOREM HookAnswered == RoundTripSpec => []HookAnsweredLast
  BY RoundTripInvariance, HookAnsweredLastInv, PTL DEF RoundTripInv

(* A mail that the inbound plugin accepts has every attachment stored whole. *)
THEOREM MailsWhole == RoundTripSpec => []OkMeansWhole
  BY RoundTripInvariance, OkMeansWholeInv, PTL DEF RoundTripInv

(* It is saved for those who were told OK, and beyond them only for some that     *)
(* Haraka refused before their check had ended.                              *)
THEOREM RecipientsCorrect == RoundTripSpec => []RecipientsServed
  BY RoundTripInvariance, RecipientsServedInv, PTL DEF RoundTripInv

(* What outboundMessage answers and records agrees with what Haraka did. *)
THEOREM SenderTold == RoundTripSpec => []ToldAsQueued
  BY RoundTripInvariance, ToldAsQueuedInv, PTL DEF RoundTripInv

(* A delivery has one status on the Sent copy, or two after a hook timed out. *)
THEOREM VerdictsCorrect == RoundTripSpec => []OneVerdict
  BY RoundTripInvariance, OneVerdictInv, PTL DEF RoundTripInv

(* CopiesAgree: however the updates of several documents interleave, no two copies *)
(* contradict each other, none says anything twice, and they say one thing of a  *)
(* delivery none of whose hooks timed out.                                   *)
THEOREM CopiesCorrect == RoundTripSpec => []CopiesAgree
  BY RoundTripInvariance, CopiesAgreeInv, PTL DEF RoundTripInv

(* "delivered" to this server's domain is said of a mail it has stored. *)
THEOREM DeliveriesStored == RoundTripSpec => []DeliveredMeansStored
  BY RoundTripInvariance, DeliveredMeansStoredInv, PTL DEF RoundTripInv
=============================================================================
