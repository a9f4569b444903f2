----------------------------- MODULE MailboxPages -----------------------------
(***************************************************************************)
(* A browser that reads a mailbox page by page (paginate.ts, called by        *)
(* messageService.ts) while mails arrive.  A message's date is taken before   *)
(* the transaction that stores it, so that messages can be stored in another  *)
(* order than that of their dates, and two can have the same date.  A page    *)
(* is asked for by the date of the last (`next`) or the first (`previous`)    *)
(* message of the page at hand; the server keeps nothing between two pages.   *)
(***************************************************************************)
EXTENDS Integers, Sequences, FiniteSets, SequencesExt

CONSTANTS
    Message,
    Limits,      \* the limits a client asks for; 0 is one it leaves out
    MaxClock,    \* bound on the dates
    None         \* an absent cursor or page

ASSUME PagesAssumption ==
    /\ IsFiniteSet(Message)
    /\ MaxClock \in Nat \ {0} /\ Limits \subseteq Int /\ None \notin Int

VARIABLES
    clock,
    phase,   \* of each message
    idate,   \* its date
    page,    \* the page the browser shows, or None
    walked,  \* messages listed since it last asked for the first page
    since,   \* the messages that were stored then
    left     \* the page it left by its last step, if that was to the next

mail == <<clock, phase, idate>>
reader == <<page, walked, since, left>>
vars == <<mail, reader>>

Stored == {m \in Message : phase[m] = "stored"}

Init ==
    /\ clock = 1
    /\ phase = [m \in Message |-> "unsent"]
    /\ idate = [m \in Message |-> 0]
    /\ page = None /\ left = None
    /\ walked = {} /\ since = {}

-----------------------------------------------------------------------------
(* Arrival of mails *)

Tick ==
    /\ clock < MaxClock
    /\ clock' = clock + 1
    /\ UNCHANGED <<phase, idate, reader>>

(* The handler of a mail reads the time. *)
Take(m) ==
    /\ phase[m] = "unsent"
    /\ phase' = [phase EXCEPT ![m] = "coming"]
    /\ idate' = [idate EXCEPT ![m] = clock]
    /\ UNCHANGED <<clock, reader>>

(* Its transaction commits, or does not. *)
Settle(m) ==
    /\ phase[m] = "coming"
    /\ \E p \in {"stored", "lost"} : phase' = [phase EXCEPT ![m] = p]
    /\ UNCHANGED <<clock, idate, reader>>

-----------------------------------------------------------------------------
(* One request.  An operator marked Mutant is a bug this code could have had;  *)
(* it stands in for the definition that follows it to show a property can     *)
(* fail.                                                                    *)

(* The handler's default, then sanatizeParams. *)
Limit(limit) == IF limit = 0 THEN 20 ELSE IF limit < 1 THEN 1 ELSE limit

(* sortAscending is never passed: only the way back is in ascending order. *)
SortAsc(back) == back

(* generateCursorQuery *)
CursorQuery(back, cursor) ==
    IF cursor = None THEN Stored
    ELSE {m \in Stored : IF SortAsc(back) THEN idate[m] > cursor ELSE idate[m] < cursor}

(* generateSort: MongoDB may order messages of one date in any way. *)
Sorted(back, found) ==
    {s \in SetToSeqs(found) :
        \A i, j \in DOMAIN s : i < j =>
            IF SortAsc(back) THEN idate[s[i]] <= idate[s[j]] ELSE idate[s[i]] >= idate[s[j]]}

(* Mutant: the cursor is taken before the extra message is removed. *)
PrepareCursorFirst(got, back, cursor, limit) ==
    LET hasMore == Len(got) > limit
        kept == IF hasMore THEN Front(got) ELSE got
        results == IF back THEN Reverse(kept) ELSE kept
    IN  [results |-> results,
         previous |-> IF results = <<>> THEN None ELSE idate[results[1]],
         next |-> IF results = <<>> THEN None ELSE idate[Last(got)],
         hasPrevious |-> IF back THEN hasMore ELSE cursor # None,
         hasNext |-> back \/ hasMore]

(* Mutant: the page before is shown in the order it was found. *)
PrepareUnreversed(got, back, cursor, limit) ==
    LET hasMore == Len(got) > limit
        results == IF hasMore THEN Front(got) ELSE got
    IN  [results |-> results,
         previous |-> IF results = <<>> THEN None ELSE idate[results[1]],
         next |-> IF results = <<>> THEN None ELSE idate[Last(results)],
         hasPrevious |-> IF back THEN hasMore ELSE cursor # None,
         hasNext |-> back \/ hasMore]

(* Mutant: on the way back, what was found beyond the page is not looked at. *)
PrepareAlwaysPrevious(got, back, cursor, limit) ==
    LET hasMore == Len(got) > limit
        kept == IF hasMore THEN Front(got) ELSE got
        results == IF back THEN Reverse(kept) ELSE kept
    IN  [results |-> results,
         previous |-> IF results = <<>> THEN None ELSE idate[results[1]],
         next |-> IF results = <<>> THEN None ELSE idate[Last(results)],
         hasPrevious |-> cursor # None,
         hasNext |-> back \/ hasMore]

(* prepareResponse.  Encoding a cursor and decoding it are inverse on dates. *)
PrepareResponse(got, back, cursor, limit) ==
    LET hasMore == Len(got) > limit
        kept == IF hasMore THEN Front(got) ELSE got
        results == IF back THEN Reverse(kept) ELSE kept
    IN  [results |-> results,
         previous |-> IF results = <<>> THEN None ELSE idate[results[1]],
         next |-> IF results = <<>> THEN None ELSE idate[Last(results)],
         hasPrevious |-> IF back THEN hasMore ELSE cursor # None,
         hasNext |-> back \/ hasMore]

(* paginate: one message more than the limit is asked for. *)
Paginate(back, cursor, limit) ==
    {PrepareResponse(SubSeq(s, 1, IF Len(s) > limit THEN limit + 1 ELSE Len(s)),
                     back, cursor, limit) :
        s \in Sorted(back, CursorQuery(back, cursor))}

(* messageService: when both cursors are passed, `next` is used.  The page is  *)
(* kept with the limit it was asked with and the mailbox it was read from.    *)
Ask(previous, next, limit) ==
    LET back == next = None /\ previous # None
        cursor == IF back THEN previous ELSE next
    IN  \E r \in Paginate(back, cursor, Limit(limit)) :
            page' = [response |-> r, limit |-> Limit(limit), of |-> Stored]

-----------------------------------------------------------------------------
(* The browser *)

First(limit) ==
    /\ Ask(None, None, limit)
    /\ walked' = Range(page'.response.results)
    /\ since' = Stored
    /\ left' = None
    /\ UNCHANGED mail

Listed == walked' = walked \cup Range(page'.response.results)

Next(limit) ==
    /\ page # None
    /\ page.response.hasNext /\ page.response.next # None
    /\ \E previous \in {None, page.response.previous} :
          Ask(previous, page.response.next, limit)
    /\ Listed
    /\ left' = page
    /\ UNCHANGED <<mail, since>>

Previous(limit) ==
    /\ page # None
    /\ page.response.hasPrevious /\ page.response.previous # None
    /\ Ask(page.response.previous, None, limit)
    /\ Listed
    /\ left' = None
    /\ UNCHANGED <<mail, since>>

Step ==
    \/ Tick
    \/ \E m \in Message : Take(m) \/ Settle(m)
    \/ \E limit \in Limits : First(limit) \/ Next(limit) \/ Previous(limit)

Spec == Init /\ [][Step]_vars

-----------------------------------------------------------------------------
(* Properties *)

Cursor == 1 .. MaxClock \cup {None}
Response == [results : UNION {[1 .. n -> Message] : n \in 0 .. Cardinality(Message)},
             previous : Cursor, next : Cursor,
             hasPrevious : BOOLEAN, hasNext : BOOLEAN]
Page == [response : Response, limit : Nat \ {0}, of : SUBSET Message]

(* None is no page. *)
ASSUME NoneAssumption == None \notin Page

TypeOK ==
    /\ clock \in 1 .. MaxClock
    /\ phase \in [Message -> {"unsent", "coming", "stored", "lost"}]
    /\ idate \in [Message -> 0 .. MaxClock]
    /\ page \in Page \cup {None}
    /\ page # None => Len(page.response.results) <= page.limit
    /\ walked \in SUBSET Stored /\ since \in SUBSET Stored
    /\ left \in Page \cup {None}

Distinct == \A m, n \in Message : idate[m] = idate[n] /\ m # n => idate[m] = 0

(* Whatever arrives in between and however the browser goes to and fro, a      *)
(* message that was there when it asked for the first page is on one of the   *)
(* pages up to the one it shows, unless a message of the very same date is;   *)
(* and a page without a next one is the end.                                 *)
NothingSkipped ==
    page # None =>
        \A m \in since :
            \/ ~ page.response.hasNext
            \/ \E n \in Range(page.response.results) : idate[n] < idate[m]
            => \E n \in walked : n = m \/ idate[n] = idate[m]

(* hasNext and hasPrevious say whether the mailbox the page was read from goes *)
(* on, when no two messages have the same date; and a page is never longer than *)
(* its limit (in TypeOK).                                                    *)
FlagsRight ==
    /\ TypeOK
    /\ page # None /\ Distinct =>
          LET r == page.response.results
              rest == page.of \ Range(r)
          IN  IF r = <<>> THEN page.of = {} /\ ~ page.response.hasNext
              ELSE /\ page.response.hasNext <=> \E m \in rest : idate[m] < idate[Last(r)]
                   /\ page.response.hasPrevious <=> \E m \in rest : idate[m] > idate[r[1]]

(* Going to the next page and back shows the page that was left, if nothing    *)
(* was stored since and no two messages have the same date.                  *)
BackAndForth ==
    [][\A limit \in Limits :
          /\ Previous(limit)
          /\ left # None /\ Distinct
          /\ left.of = Stored /\ left.limit = Limit(limit)
          => page'.response.results = left.response.results]_vars
=============================================================================
