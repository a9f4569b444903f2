-------------------------- MODULE MailboxPagesProofs --------------------------
(***************************************************************************)
(* Theorems about MailboxPages, for any messages, limits and bound on the     *)
(* dates.                                                                   *)
(***************************************************************************)
EXTENDS MailboxPages, FiniteSetTheorems, FunctionTheorems,
        WellFoundedInduction, NaturalsInduction, TLAPS

-----------------------------------------------------------------------------
(* The inductive invariant *)

(* A message has a date once its handler has read the time, which no later     *)
(* step changes.                                                            *)
Dated == \A m \in Message : phase[m] = "unsent" <=> idate[m] = 0

Shown(p) == Range(p.response.results)

(* A page lists messages of the mailbox it was read from, each once, from the  *)
(* latest to the earliest, and its cursors are the dates of both ends.        *)
Listing(p) ==
    LET r == p.response.results
    IN  /\ p.of \subseteq Stored /\ Shown(p) \subseteq p.of
        /\ Len(r) <= p.limit
        /\ \A i, j \in DOMAIN r : i < j => r[i] # r[j] /\ idate[r[i]] >= idate[r[j]]
        /\ r = <<>> => p.response.previous = None /\ p.response.next = None
        /\ r # <<>> => /\ p.response.previous = idate[r[1]]
                       /\ p.response.next = idate[r[Len(r)]]

(* With dates of their own, the messages of the mailbox between those ends are *)
(* all on the page; one that has a next page and room left has shown all there *)
(* is before it; and the flags are right.                                     *)
Complete(p) ==
    LET r == p.response.results
        rest == p.of \ Shown(p)
    IN  /\ r # <<>> =>
              /\ \A m \in rest : \/ idate[m] < p.response.next
                                 \/ idate[m] > p.response.previous
              /\ p.response.hasNext /\ Len(r) < p.limit =>
                    \A m \in rest : idate[m] < p.response.next
              /\ p.response.hasNext <=> \E m \in rest : idate[m] < p.response.next
              /\ p.response.hasPrevious <=> \E m \in rest : idate[m] > p.response.previous
        /\ r = <<>> => p.of = {} /\ ~ p.response.hasNext

Sound(p) == Listing(p) /\ (Distinct => Complete(p))

(* A message that was there at the start has been listed, or one of its date. *)
Covered(m) == \E n \in walked : n = m \/ idate[n] = idate[m]

(* Those down to the end of the page are covered, and all when it is the last. *)
Walk(p) ==
    /\ p.response.results # <<>> =>
          \A m \in since : idate[m] >= p.response.next => Covered(m)
    /\ ~ p.response.hasNext => \A m \in since : Covered(m)

(* What is later than page p, which follows q, is what was not earlier than    *)
(* the end of q.                                                            *)
Follows(p, q) ==
    /\ q.response.results # <<>> /\ q.response.hasNext
    /\ q.of \subseteq p.of
    /\ p.response.results # <<>> =>
          \A m \in p.of : idate[m] > p.response.previous <=> idate[m] >= q.response.next

PagesInv ==
    /\ TypeOK /\ Dated
    /\ \A p \in {page} \ {None} : Sound(p) /\ Walk(p)
    /\ \A q \in {left} \ {None} :
          Sound(q) /\ \E p \in {page} \ {None} : Follows(p, q)

-----------------------------------------------------------------------------
(* What one request returns *)

(* The sequences of a set list every member at one place. *)
LEMMA Enumerated ==
    ASSUME NEW F, IsFiniteSet(F), NEW s \in SetToSeqs(F)
    PROVE  /\ Cardinality(F) \in Nat
           /\ s \in Seq(F) /\ Len(s) = Cardinality(F)
           /\ \A i, j \in 1 .. Len(s) : i # j => s[i] # s[j]
           /\ \A m \in F : \E i \in 1 .. Len(s) : s[i] = m
<1> DEFINE n == Cardinality(F)
<1>1. n \in Nat
  BY FS_CardinalityType
<1>2. s \in [1 .. n -> F] /\ \A i, j \in 1 .. n : i # j => s[i] # s[j]
  BY DEF SetToSeqs
<1>3. s \in Seq(F) /\ Len(s) = n
  BY <1>1, <1>2
<1>4. Cardinality(1 .. n) = n
  BY <1>1, FS_Interval
<1>5. s \in Injection(1 .. n, F)
  BY <1>2, Fun_IsInj DEF Injection
<1>6. s \in Surjection(1 .. n, F)
  BY <1>4, <1>5, FS_Injection
<1>7. \A m \in F : \E i \in 1 .. n : s[i] = m
  BY <1>6 DEF Surjection
<1>. QED
  BY <1>1, <1>2, <1>3, <1>7

(* The first `limit` of a sequence, found with one more. *)
LEMMA FirstOf ==
    ASSUME NEW s \in Seq(Message), NEW limit \in Nat \ {0}
    PROVE  LET got == SubSeq(s, 1, IF Len(s) > limit THEN limit + 1 ELSE Len(s))
               kept == IF Len(got) > limit THEN Front(got) ELSE got
           IN  /\ Len(got) > limit <=> Len(s) > limit
               /\ kept \in Seq(Message)
               /\ Len(kept) = IF Len(s) > limit THEN limit ELSE Len(s)
               /\ \A i \in 1 .. Len(kept) : kept[i] = s[i]
<1> DEFINE got == SubSeq(s, 1, IF Len(s) > limit THEN limit + 1 ELSE Len(s))
           kept == IF Len(got) > limit THEN Front(got) ELSE got
<1>1. Len(s) \in Nat
  OBVIOUS
<1>2. /\ got \in Seq(Message)
      /\ Len(got) = IF Len(s) > limit THEN limit + 1 ELSE Len(s)
      /\ \A i \in 1 .. Len(got) : got[i] = s[i]
  BY <1>1
<1> HIDE DEF got
<1>3. Len(got) > limit <=> Len(s) > limit
  BY <1>1, <1>2
<1>4. /\ kept \in Seq(Message)
      /\ Len(kept) = IF Len(s) > limit THEN limit ELSE Len(s)
      /\ \A i \in 1 .. Len(kept) : kept[i] = s[i]
  <2>1. CASE Len(s) > limit
    <3>1. kept = SubSeq(got, 1, limit)
      BY <1>1, <1>2, <2>1 DEF Front
    <3>2. /\ kept \in Seq(Message) /\ Len(kept) = limit
          /\ \A i \in 1 .. limit : kept[i] = got[i]
      BY <3>1, <1>2, <2>1
    <3>. QED
      BY <3>2, <1>1, <1>2, <2>1
  <2>2. CASE ~ Len(s) > limit
    <3>1. kept = got
      BY <1>3, <2>2
    <3>. QED
      BY <3>1, <1>1, <1>2, <2>2
  <2>. QED
    BY <2>1, <2>2
<1>. QED
  BY <1>3, <1>4 DEF got

(* q is a page of at most `limit` of the messages F, from the end of F that the *)
(* way it is read starts from.                                               *)
CutFrom(q, F, back, limit) ==
    /\ q \in Seq(Message) /\ Len(q) <= limit /\ Len(q) <= Cardinality(F)
    /\ Range(q) \subseteq F
    /\ \A i, j \in DOMAIN q : i < j => q[i] # q[j] /\ idate[q[i]] >= idate[q[j]]
    /\ q = <<>> => F = {}
    /\ Range(q) # F => Len(q) = limit
    /\ \A m \in F \ Range(q), n \in Range(q) :
          IF back THEN idate[m] >= idate[n] ELSE idate[m] <= idate[n]

(* And r is the response that shows it. *)
Shows(r, F, back, cursor, limit) ==
    /\ CutFrom(r.results, F, back, limit)
    /\ r.results = <<>> => r.previous = None /\ r.next = None
    /\ r.results # <<>> => /\ r.previous = idate[r.results[1]]
                           /\ r.next = idate[r.results[Len(r.results)]]
    /\ r.hasPrevious = IF back THEN Range(r.results) # F ELSE cursor # None
    /\ r.hasNext = (back \/ Range(r.results) # F)

(* That is what sorting, limiting and turning the page make of F. *)
LEMMA CutLemma ==
    ASSUME idate \in [Message -> Nat],
           NEW F, F \subseteq Message, IsFiniteSet(F),
           NEW back \in BOOLEAN, NEW limit \in Nat \ {0},
           NEW s \in Sorted(back, F),
           NEW kept \in Seq(Message),
           Len(kept) = IF Len(s) > limit THEN limit ELSE Len(s),
           \A i \in 1 .. Len(kept) : kept[i] = s[i]
    PROVE  LET q == IF back THEN Reverse(kept) ELSE kept
           IN  /\ CutFrom(q, F, back, limit)
               /\ Len(s) > limit <=> Range(q) # F
<1> DEFINE q == IF back THEN Reverse(kept) ELSE kept
           K == Len(kept)
<1>1. /\ s \in SetToSeqs(F)
      /\ \A i, j \in DOMAIN s : i < j =>
            IF back THEN idate[s[i]] <= idate[s[j]] ELSE idate[s[i]] >= idate[s[j]]
  BY DEF Sorted, SortAsc
<1>2. /\ Cardinality(F) \in Nat
      /\ s \in Seq(F) /\ Len(s) = Cardinality(F)
      /\ \A i, j \in 1 .. Len(s) : i # j => s[i] # s[j]
      /\ \A m \in F : \E i \in 1 .. Len(s) : s[i] = m
  BY <1>1, Enumerated
<1>0. kept \in [1 .. K -> Message]
  OBVIOUS
<1>3. K \in Nat /\ K <= Len(s) /\ K <= limit /\ Len(s) \in Nat /\ DOMAIN s = 1 .. Len(s)
  BY <1>2
<1>4. /\ q \in Seq(Message) /\ Len(q) = K
      /\ \A i \in 1 .. K : q[i] = IF back THEN s[K + 1 - i] ELSE s[i]
  <2>1. CASE ~ back
    BY <2>1
  <2>2. CASE back
    <3>1. q = [i \in 1 .. K |-> kept[(K - i) + 1]]
      BY <2>2 DEF Reverse
    <3>2. \A i \in 1 .. K : (K - i) + 1 \in 1 .. K /\ (K - i) + 1 = K + 1 - i
      BY <1>3
    <3>3. q \in [1 .. K -> Message]
      BY <3>1, <3>2, <1>3, <1>0
    <3>4. q \in Seq(Message) /\ Len(q) = K
      <4> HIDE DEF q, K
      <4>. QED
        BY <3>3, <1>3
    <3>5. \A i \in 1 .. K : q[i] = s[K + 1 - i]
      BY <3>1, <3>2, <1>3
    <3>. QED
      BY <3>4, <3>5, <2>2
  <2>. QED
    BY <2>1, <2>2
<1> HIDE DEF q
<1>5. Range(q) = {s[i] : i \in 1 .. K}
  <2>1. Range(q) = {q[i] : i \in 1 .. K}
    BY <1>3, <1>4 DEF Range
  <2>2. ASSUME NEW i \in 1 .. K PROVE q[i] \in {s[k] : k \in 1 .. K}
    <3>1. K + 1 - i \in 1 .. K
      BY <1>3
    <3>. QED
      BY <3>1, <1>4
  <2>3. ASSUME NEW i \in 1 .. K PROVE s[i] \in {q[k] : k \in 1 .. K}
    <3>1. K + 1 - i \in 1 .. K /\ K + 1 - (K + 1 - i) = i
      BY <1>3
    <3>2. q[IF back THEN K + 1 - i ELSE i] = s[i]
      BY <3>1, <1>4
    <3>. QED
      BY <3>1, <3>2
  <2>. QED
    BY <2>1, <2>2, <2>3
<1>6. Range(q) \subseteq F
  BY <1>2, <1>3, <1>5
<1>7. \A i, j \in DOMAIN q : i < j => q[i] # q[j] /\ idate[q[i]] >= idate[q[j]]
  <2> SUFFICES ASSUME NEW i \in 1 .. K, NEW j \in 1 .. K, i < j
               PROVE  q[i] # q[j] /\ idate[q[i]] >= idate[q[j]]
    BY <1>3, <1>4
  <2>1. K + 1 - i \in 1 .. Len(s) /\ K + 1 - j \in 1 .. Len(s) /\ K + 1 - j < K + 1 - i
    BY <1>3
  <2>2. i \in 1 .. Len(s) /\ j \in 1 .. Len(s)
    BY <1>3
  <2>3. CASE back
    <3>1. q[i] = s[K + 1 - i] /\ q[j] = s[K + 1 - j]
      BY <2>3, <1>4
    <3>2. s[K + 1 - i] # s[K + 1 - j]
      BY <2>1, <1>2, <1>3
    <3>3. idate[s[K + 1 - j]] <= idate[s[K + 1 - i]]
      BY <2>1, <2>3, <1>1, <1>3
    <3>4. s[K + 1 - i] \in Message /\ s[K + 1 - j] \in Message
      BY <2>1, <1>2
    <3>. QED
      BY <3>1, <3>2, <3>3, <3>4
  <2>4. CASE ~ back
    <3>1. q[i] = s[i] /\ q[j] = s[j]
      BY <2>4, <1>4
    <3>2. s[i] # s[j]
      BY <2>2, <1>2, <1>3
    <3>. QED
      BY <3>1, <3>2, <2>2, <2>4, <1>1, <1>3
  <2>. QED
    BY <2>3, <2>4
<1>8. Len(s) > limit <=> Range(q) # F
  <2>1. ASSUME ~ Len(s) > limit PROVE Range(q) = F
    <3>1. K = Len(s)
      BY <2>1
    <3>. QED
      BY <3>1, <1>2, <1>5, <1>6
  <2>2. ASSUME Len(s) > limit PROVE Range(q) # F
    <3>1. limit + 1 \in 1 .. Len(s) /\ K = limit
      BY <2>2, <1>3
    <3>2. s[limit + 1] \in F
      BY <3>1, <1>2
    <3>3. \A i \in 1 .. K : i \in 1 .. Len(s) /\ i # limit + 1
      <4> HIDE DEF K
      <4>. QED
        BY <3>1, <1>3
    <3>4. \A i \in 1 .. K : s[i] # s[limit + 1]
      BY <3>1, <3>3, <1>2, Zenon
    <3>. QED
      BY <3>2, <3>4, <1>5
  <2>. QED
    BY <2>1, <2>2
<1>9. Range(q) # F => Len(q) = limit
  BY <1>4, <1>8
<1>10. q = <<>> => F = {}
  <2> SUFFICES ASSUME q = <<>>, F # {} PROVE FALSE
    OBVIOUS
  <2>1. K = 0
    BY <1>4
  <2>2. Len(s) = 0
    BY <2>1, <1>3
  <2>. QED
    BY <2>2, <1>2
<1>11. ASSUME NEW m \in F \ Range(q), NEW n \in Range(q)
       PROVE  IF back THEN idate[m] >= idate[n] ELSE idate[m] <= idate[n]
  <2>1. PICK j \in 1 .. Len(s) : s[j] = m
    BY <1>2
  <2>2. PICK i \in 1 .. K : s[i] = n
    BY <1>5
  <2>3. ~ (j \in 1 .. K)
    BY <2>1, <1>5, <1>11
  <2>4. i < j /\ i \in 1 .. Len(s)
    BY <2>3, <1>3
  <2>5. m \in Message /\ n \in Message
    BY <1>6
  <2>. QED
    BY <2>1, <2>2, <2>4, <2>5, <1>1, <1>3
<1>12. CutFrom(q, F, back, limit)
  BY <1>2, <1>3, <1>4, <1>6, <1>7, <1>9, <1>10, <1>11 DEF CutFrom
<1>. QED
  BY <1>8, <1>12 DEF q

(* What prepareResponse makes of it. *)
LEMMA OnePage ==
    ASSUME idate \in [Message -> Nat],
           NEW F, F \subseteq Message, IsFiniteSet(F),
           NEW back \in BOOLEAN, NEW limit \in Nat \ {0}, NEW cursor,
           NEW s \in Sorted(back, F)
    PROVE  Shows(PrepareResponse(SubSeq(s, 1, IF Len(s) > limit THEN limit + 1 ELSE Len(s)),
                                 back, cursor, limit),
                 F, back, cursor, limit)
<1> DEFINE got == SubSeq(s, 1, IF Len(s) > limit THEN limit + 1 ELSE Len(s))
           kept == IF Len(got) > limit THEN Front(got) ELSE got
           q == IF back THEN Reverse(kept) ELSE kept
           r == PrepareResponse(got, back, cursor, limit)
<1>1. s \in Seq(Message)
  <2>1. s \in SetToSeqs(F)
    BY DEF Sorted
  <2>2. s \in Seq(F)
    BY <2>1, Enumerated
  <2>. QED
    BY <2>2
<1>2. /\ Len(got) > limit <=> Len(s) > limit
      /\ kept \in Seq(Message)
      /\ Len(kept) = IF Len(s) > limit THEN limit ELSE Len(s)
      /\ \A i \in 1 .. Len(kept) : kept[i] = s[i]
  BY <1>1, FirstOf
<1>3. /\ r.results = q
      /\ r.previous = IF q = <<>> THEN None ELSE idate[q[1]]
      /\ r.next = IF q = <<>> THEN None ELSE idate[Last(q)]
      /\ r.hasPrevious = IF back THEN Len(got) > limit ELSE cursor # None
      /\ r.hasNext = (back \/ Len(got) > limit)
  BY DEF PrepareResponse
<1> HIDE DEF got, kept, r
<1>4. CutFrom(q, F, back, limit) /\ (Len(s) > limit <=> Range(q) # F)
  BY <1>2, CutLemma
<1> HIDE DEF q
<1>5. Shows(r, F, back, cursor, limit)
  BY <1>2, <1>3, <1>4 DEF Shows, Last
<1>. QED
  BY <1>5 DEF r, got

(* The client's limit is at least one. *)
LEMMA LimitType ==
    ASSUME NEW limit \in Limits
    PROVE  Limit(limit) \in Nat \ {0}
BY PagesAssumption DEF Limit

(* The page that a request shows. *)
LEMMA Asked ==
    ASSUME TypeOK, Dated,
           NEW previous \in Cursor, NEW next \in Cursor, NEW limit \in Limits,
           NEW back \in BOOLEAN, NEW cursor \in Cursor,
           back = (next = None /\ previous # None),
           cursor = IF back THEN previous ELSE next,
           Ask(previous, next, limit)
    PROVE  \E p \in Page :
              /\ page' = p
              /\ p.of = Stored /\ p.limit = Limit(limit)
              /\ Shows(p.response, CursorQuery(back, cursor), back, cursor, p.limit)
<1> DEFINE F == CursorQuery(back, cursor)
           lim == Limit(limit)
<1>1. lim \in Nat \ {0}
  BY LimitType
<1>2. idate \in [Message -> Nat] /\ Stored \subseteq Message
  BY PagesAssumption DEF TypeOK, Stored
<1>3. F \subseteq Stored
  BY DEF CursorQuery
<1>4. IsFiniteSet(F) /\ Cardinality(F) <= Cardinality(Message) /\ F \subseteq Message
  BY <1>2, <1>3, PagesAssumption, FS_Subset
<1> HIDE DEF F, lim
<1>5. PICK s \in Sorted(back, F) :
         page' = [response |-> PrepareResponse(SubSeq(s, 1, IF Len(s) > lim THEN lim + 1
                                                             ELSE Len(s)),
                                               back, cursor, lim),
                  limit |-> lim, of |-> Stored]
  BY DEF Ask, Paginate, F, lim
<1> DEFINE r == PrepareResponse(SubSeq(s, 1, IF Len(s) > lim THEN lim + 1 ELSE Len(s)),
                                back, cursor, lim)
<1>6. Shows(r, F, back, cursor, lim)
  BY <1>1, <1>2, <1>4, OnePage
<1>7. r = [results |-> r.results, previous |-> r.previous, next |-> r.next,
           hasPrevious |-> r.hasPrevious, hasNext |-> r.hasNext]
  BY DEF PrepareResponse
<1>8. page' = [response |-> r, limit |-> lim, of |-> Stored]
  BY <1>5
<1> HIDE DEF r
<1>9. r \in Response
  <2>1. r.results \in UNION {[1 .. n -> Message] : n \in 0 .. Cardinality(Message)}
    <3>1. Cardinality(Message) \in Nat /\ Cardinality(F) \in Nat
      BY <1>4, PagesAssumption, FS_CardinalityType
    <3>2. /\ r.results \in Seq(Message)
          /\ Len(r.results) <= Cardinality(F)
      BY <1>6 DEF Shows, CutFrom
    <3>3. Len(r.results) \in 0 .. Cardinality(Message)
      BY <3>1, <3>2, <1>4
    <3>4. r.results \in [1 .. Len(r.results) -> Message]
      BY <3>2
    <3>. QED
      BY <3>3, <3>4
  <2>2. \A m \in Stored : idate[m] \in 1 .. MaxClock
    BY PagesAssumption DEF TypeOK, Dated, Stored
  <2>3. r.previous \in Cursor /\ r.next \in Cursor
    <3>1. CASE r.results = <<>>
      BY <3>1, <1>6 DEF Shows, Cursor
    <3>2. CASE r.results # <<>>
      <4>1. r.results \in Seq(Message) /\ Range(r.results) \subseteq F
        BY <1>6 DEF Shows, CutFrom
      <4>2. /\ r.results[1] \in Range(r.results)
            /\ r.results[Len(r.results)] \in Range(r.results)
        BY <4>1, <3>2 DEF Range
      <4>3. r.previous = idate[r.results[1]] /\ r.next = idate[r.results[Len(r.results)]]
        BY <1>6, <3>2 DEF Shows
      <4>. QED
        BY <4>1, <4>2, <4>3, <2>2, <1>3 DEF Cursor
    <3>. QED
      BY <3>1, <3>2
  <2>4. r.hasPrevious \in BOOLEAN /\ r.hasNext \in BOOLEAN
    BY <1>6 DEF Shows
  <2>. QED
    BY <1>7, <2>1, <2>3, <2>4 DEF Response
<1> DEFINE p == [response |-> r, limit |-> lim, of |-> Stored]
<1>10. p \in Page
  BY <1>1, <1>2, <1>9 DEF Page
<1>11. p.response = r /\ p.limit = lim /\ p.of = Stored
  OBVIOUS
<1> HIDE DEF p
<1>12. page' = p
  BY <1>8 DEF p
<1>. QED
  BY <1>6, <1>10, <1>11, <1>12 DEF F, lim

-----------------------------------------------------------------------------
(* The page that is shown is sound *)

(* A page's ends are the latest and the earliest date on it. *)
LEMMA Ends ==
    ASSUME idate \in [Message -> Nat],
           NEW q \in Seq(Message), q # <<>>,
           \A i, j \in DOMAIN q : i < j => q[i] # q[j] /\ idate[q[i]] >= idate[q[j]]
    PROVE  /\ q[1] \in Range(q) /\ q[Len(q)] \in Range(q)
           /\ Range(q) \subseteq Message
           /\ \A n \in Range(q) : idate[q[1]] >= idate[n] /\ idate[n] >= idate[q[Len(q)]]
<1>1. Len(q) \in Nat \ {0} /\ DOMAIN q = 1 .. Len(q)
  OBVIOUS
<1>2. q[1] \in Range(q) /\ q[Len(q)] \in Range(q) /\ Range(q) \subseteq Message
  BY <1>1 DEF Range
<1>3. ASSUME NEW n \in Range(q)
      PROVE  idate[q[1]] >= idate[n] /\ idate[n] >= idate[q[Len(q)]]
  <2>1. PICK k \in 1 .. Len(q) : q[k] = n
    BY <1>1 DEF Range
  <2>2. n \in Message /\ q[1] \in Message /\ q[Len(q)] \in Message
    BY <1>2
  <2>3. idate[n] \in Nat /\ idate[q[1]] \in Nat /\ idate[q[Len(q)]] \in Nat
    BY <2>2
  <2>4. idate[q[1]] >= idate[n]
    <3>1. CASE k = 1
      BY <3>1, <2>1, <2>3
    <3>2. CASE k # 1
      BY <3>2, <2>1, <1>1
    <3>. QED
      BY <3>1, <3>2
  <2>5. idate[n] >= idate[q[Len(q)]]
    <3>1. CASE k = Len(q)
      BY <3>1, <2>1, <2>3
    <3>2. CASE k # Len(q)
      <4> DEFINE l == Len(q)
      <4>0. l \in Nat \ {0} /\ DOMAIN q = 1 .. l /\ k \in 1 .. l /\ k # l
        BY <3>2, <1>1
      <4> HIDE DEF l
      <4>2. k \in DOMAIN q /\ l \in DOMAIN q /\ k < l
        BY <4>0
      <4>1. k \in DOMAIN q /\ Len(q) \in DOMAIN q /\ k < Len(q)
        BY <4>2 DEF l
      <4>. QED
        BY <4>1, <2>1
    <3>. QED
      BY <3>1, <3>2
  <2>. QED
    BY <2>4, <2>5
<1>. QED
  BY <1>2, <1>3

(* Forward: a first page, or one after a message, with an earlier one after it. *)
LEMMA ForwardSound ==
    ASSUME TypeOK, Dated, NEW p \in Page, NEW cursor \in Cursor,
           p.of = Stored,
           Shows(p.response, CursorQuery(FALSE, cursor), FALSE, cursor, p.limit),
           cursor # None => \E m \in Stored : idate[m] = cursor,
           cursor # None /\ Distinct => \E m \in Stored : idate[m] < cursor
    PROVE  Sound(p)
<1> DEFINE r == p.response.results
           F == CursorQuery(FALSE, cursor)
           rest == Stored \ Range(r)
<1>1. /\ idate \in [Message -> Nat] /\ Stored \subseteq Message
      /\ cursor = None \/ cursor \in Nat
  BY PagesAssumption DEF TypeOK, Stored, Cursor
<1>2. /\ F \subseteq Stored
      /\ \A m \in Stored : m \in F <=> (cursor = None \/ idate[m] < cursor)
  BY DEF CursorQuery, SortAsc
<1>3. /\ r \in Seq(Message) /\ Len(r) <= p.limit /\ Range(r) \subseteq F
      /\ \A i, j \in DOMAIN r : i < j => r[i] # r[j] /\ idate[r[i]] >= idate[r[j]]
      /\ r = <<>> => F = {}
      /\ Range(r) # F => Len(r) = p.limit
      /\ \A m \in F \ Range(r), n \in Range(r) : idate[m] <= idate[n]
      /\ r = <<>> => p.response.previous = None /\ p.response.next = None
      /\ r # <<>> => /\ p.response.previous = idate[r[1]]
                     /\ p.response.next = idate[r[Len(r)]]
      /\ p.response.hasPrevious = (cursor # None)
      /\ p.response.hasNext = (Range(r) # F)
  BY DEF Shows, CutFrom
<1>4. p.limit \in Nat
  BY DEF Page
<1> HIDE DEF F
<1>5. Listing(p)
  BY <1>2, <1>3 DEF Listing, Shown
<1>6. ASSUME Distinct PROVE Complete(p)
  <2>1. \A m \in rest, n \in Range(r) : idate[m] # idate[n]
    BY <1>1, <1>2, <1>3, <1>6 DEF Distinct, Dated, Stored
  <2>2. CASE r # <<>>
    <3> DEFINE hi == p.response.previous
               lo == p.response.next
    <3>1. /\ hi = idate[r[1]] /\ lo = idate[r[Len(r)]]
          /\ r[1] \in Range(r) /\ r[Len(r)] \in Range(r) /\ Range(r) \subseteq Message
          /\ \A n \in Range(r) : hi >= idate[n] /\ idate[n] >= lo
      BY <1>1, <1>3, <2>2, Ends
    <3>2. hi \in Nat /\ lo \in Nat /\ hi >= lo
      BY <3>1, <1>1
    <3>3. \A m \in rest : m \in F => idate[m] < lo
      BY <3>1, <3>2, <2>1, <1>1, <1>3
    <3>4. cursor # None => hi < cursor
      BY <3>1, <1>2, <1>3
    <3>5. \A m \in rest : ~ (m \in F) => idate[m] > hi
      BY <3>2, <3>4, <1>1, <1>2
    <3>6. \A m \in rest : idate[m] < lo => m \in F
      BY <3>2, <3>5, <1>1
    <3>7. p.response.hasNext <=> \E m \in rest : idate[m] < lo
      BY <3>3, <3>6, <1>2, <1>3
    <3>8. p.response.hasPrevious <=> \E m \in rest : idate[m] > hi
      <4>1. CASE cursor = None
        <5>1. \A m \in rest : idate[m] < lo
          BY <4>1, <3>3, <1>2
        <5>2. \A m \in rest : ~ (idate[m] > hi)
          BY <5>1, <3>2, <1>1
        <5>. QED
          BY <4>1, <5>2, <1>3
      <4>2. CASE cursor # None
        <5>1. PICK m \in Stored : idate[m] = cursor
          BY <4>2
        <5>2. ~ (m \in F)
          BY <5>1, <4>2, <1>1, <1>2
        <5>. QED
          BY <5>1, <5>2, <3>4, <3>5, <4>2, <1>1, <1>3
      <4>. QED
        BY <4>1, <4>2
    <3>9. p.response.hasNext => ~ (Len(r) < p.limit)
      <4>1. ASSUME p.response.hasNext PROVE Len(r) = p.limit
        BY <4>1, <1>3
      <4>. QED
        BY <4>1, <1>4
    <3>10. \A m \in rest : idate[m] < lo \/ idate[m] > hi
      BY <3>3, <3>5
    <3>. QED
      BY <3>7, <3>8, <3>9, <3>10, <2>2 DEF Complete, Shown
  <2>3. CASE r = <<>>
    <3>1. F = {} /\ Range(r) = {}
      BY <2>3, <1>3 DEF Range
    <3>2. cursor = None
      BY <3>1, <1>1, <1>2, <1>6
    <3>. QED
      BY <3>1, <3>2, <2>3, <1>2, <1>3 DEF Complete
  <2>. QED
    BY <2>2, <2>3
<1>. QED
  BY <1>5, <1>6 DEF Sound

(* Back: a page before a message, with a later one before it. *)
LEMMA BackSound ==
    ASSUME TypeOK, Dated, NEW p \in Page, NEW cursor \in Cursor, cursor # None,
           p.of = Stored,
           Shows(p.response, CursorQuery(TRUE, cursor), TRUE, cursor, p.limit),
           \E m \in Stored : idate[m] = cursor,
           Distinct => \E m \in Stored : idate[m] > cursor
    PROVE  Sound(p)
<1> DEFINE r == p.response.results
           F == CursorQuery(TRUE, cursor)
           rest == Stored \ Range(r)
<1>1. /\ idate \in [Message -> Nat] /\ Stored \subseteq Message
      /\ cursor \in Nat
  BY PagesAssumption DEF TypeOK, Stored, Cursor
<1>2. /\ F \subseteq Stored
      /\ \A m \in Stored : m \in F <=> idate[m] > cursor
  BY DEF CursorQuery, SortAsc
<1>3. /\ r \in Seq(Message) /\ Len(r) <= p.limit /\ Range(r) \subseteq F
      /\ \A i, j \in DOMAIN r : i < j => r[i] # r[j] /\ idate[r[i]] >= idate[r[j]]
      /\ r = <<>> => F = {}
      /\ Range(r) # F => Len(r) = p.limit
      /\ \A m \in F \ Range(r), n \in Range(r) : idate[m] >= idate[n]
      /\ r = <<>> => p.response.previous = None /\ p.response.next = None
      /\ r # <<>> => /\ p.response.previous = idate[r[1]]
                     /\ p.response.next = idate[r[Len(r)]]
      /\ p.response.hasPrevious = (Range(r) # F)
      /\ p.response.hasNext = TRUE
  BY DEF Shows, CutFrom
<1>4. p.limit \in Nat
  BY DEF Page
<1> HIDE DEF F
<1>5. Listing(p)
  BY <1>2, <1>3 DEF Listing, Shown
<1>6. ASSUME Distinct PROVE Complete(p)
  <2>1. \A m \in rest, n \in Range(r) : idate[m] # idate[n]
    BY <1>1, <1>2, <1>3, <1>6 DEF Distinct, Dated, Stored
  <2>2. CASE r # <<>>
    <3> DEFINE hi == p.response.previous
               lo == p.response.next
    <3>1. /\ hi = idate[r[1]] /\ lo = idate[r[Len(r)]]
          /\ r[1] \in Range(r) /\ r[Len(r)] \in Range(r) /\ Range(r) \subseteq Message
          /\ \A n \in Range(r) : hi >= idate[n] /\ idate[n] >= lo
      BY <1>1, <1>3, <2>2, Ends
    <3>2. hi \in Nat /\ lo \in Nat /\ hi >= lo
      BY <3>1, <1>1
    <3>3. \A m \in rest : m \in F => idate[m] > hi
      BY <3>1, <3>2, <2>1, <1>1, <1>3
    <3>4. lo > cursor
      BY <3>1, <1>2, <1>3
    <3>5. \A m \in rest : ~ (m \in F) => idate[m] < lo
      BY <3>2, <3>4, <1>1, <1>2
    <3>6. \A m \in rest : idate[m] > hi => m \in F
      BY <3>2, <3>5, <1>1
    <3>7. p.response.hasPrevious <=> \E m \in rest : idate[m] > hi
      BY <3>3, <3>6, <1>2, <1>3
    <3>8. \E m \in rest : idate[m] < lo
      <4>1. PICK m \in Stored : idate[m] = cursor
        OBVIOUS
      <4>2. ~ (m \in F)
        BY <4>1, <1>1, <1>2
      <4>. QED
        BY <4>1, <4>2, <3>4, <3>5, <1>1, <1>3
    <3>9. Len(r) < p.limit => \A m \in rest : idate[m] < lo
      BY <3>5, <1>3, <1>4
    <3>10. \A m \in rest : idate[m] < lo \/ idate[m] > hi
      BY <3>3, <3>5
    <3>. QED
      BY <3>7, <3>8, <3>9, <3>10, <2>2, <1>3 DEF Complete, Shown
  <2>3. r # <<>>
    BY <1>1, <1>2, <1>3, <1>6
  <2>. QED
    BY <2>2, <2>3
<1>. QED
  BY <1>5, <1>6 DEF Sound

-----------------------------------------------------------------------------
(* The invariant is inductive *)

(* What is stored stays, with its date; and dates can only come to coincide. *)
Later ==
    /\ \A m \in Stored : m \in Stored' /\ idate'[m] = idate[m]
    /\ Distinct' => Distinct

(* A page stays sound while mails arrive. *)
LEMMA SoundKept ==
    ASSUME NEW p \in Page, Sound(p), Later
    PROVE  Sound(p)'
<1> DEFINE r == p.response.results
           rest == p.of \ Range(r)
<1>1. p.of \subseteq Stored /\ Range(r) \subseteq p.of
  BY DEF Sound, Listing, Shown
<1>2. \A m \in p.of : idate'[m] = idate[m] /\ m \in Stored'
  BY <1>1 DEF Later
<1>3. \E n \in Nat : r \in [1 .. n -> Message]
  BY DEF Page, Response
<1>4. \A i \in DOMAIN r : r[i] \in p.of
  BY <1>1 DEF Range
<1>5. r # <<>> => 1 \in DOMAIN r /\ Len(r) \in DOMAIN r
  BY <1>3
<1>6. Listing(p)'
  <2>1. p.of \subseteq Stored'
    BY <1>2
  <2>2. \A i, j \in DOMAIN r : i < j => r[i] # r[j] /\ idate'[r[i]] >= idate'[r[j]]
    BY <1>2, <1>4 DEF Sound, Listing
  <2>3. Len(r) <= p.limit /\ (r = <<>> => p.response.previous = None /\ p.response.next = None)
    BY DEF Sound, Listing
  <2>4. r # <<>> => /\ p.response.previous = idate'[r[1]]
                   /\ p.response.next = idate'[r[Len(r)]]
    BY <1>2, <1>4, <1>5 DEF Sound, Listing
  <2>. QED
    BY <1>1, <2>1, <2>2, <2>3, <2>4 DEF Listing, Shown
<1>7. ASSUME Complete(p) PROVE Complete(p)'
  BY <1>2, <1>7 DEF Complete, Shown
<1>8. Distinct' => Complete(p)'
  BY <1>7 DEF Sound, Later
<1>. QED
  BY <1>6, <1>8 DEF Sound

(* What was covered stays so. *)
LEMMA CoveredKept ==
    ASSUME TypeOK, Later, walked \subseteq walked', NEW m \in since, Covered(m)
    PROVE  Covered(m)'
BY DEF Covered, TypeOK, Later

(* The end of a page is the date of a message that was stored then. *)
LEMMA CursorStored ==
    ASSUME NEW p \in Page, Listing(p)
    PROVE  /\ p.response.next # None =>
                 /\ p.response.results # <<>>
                 /\ \E m \in Stored : idate[m] = p.response.next
           /\ p.response.previous # None =>
                 /\ p.response.results # <<>>
                 /\ \E m \in Stored : idate[m] = p.response.previous
<1> DEFINE r == p.response.results
<1>1. \E n \in Nat : r \in [1 .. n -> Message]
  BY DEF Page, Response
<1>2. Range(r) \subseteq Stored
  BY DEF Listing, Shown
<1>3. r # <<>> => r[1] \in Stored /\ r[Len(r)] \in Stored
  <2>1. r # <<>> => 1 \in DOMAIN r /\ Len(r) \in DOMAIN r
    BY <1>1
  <2>. QED
    BY <2>1, <1>2 DEF Range
<1>. QED
  BY <1>3 DEF Listing

(* The invariant holds at the start. *)
LEMMA PagesInit == Init => PagesInv
<1> SUFFICES ASSUME Init PROVE PagesInv
  OBVIOUS
<1>1. TypeOK
  BY PagesAssumption DEF Init, TypeOK, Stored
<1>. QED
  BY <1>1 DEF Init, PagesInv, Dated

(* Mails arrive. *)
LEMMA ArrivalSteps ==
    ASSUME PagesInv, Tick \/ \E m \in Message : Take(m) \/ Settle(m)
    PROVE  PagesInv'
<1> USE PagesAssumption
<1>1. TypeOK /\ Dated
  BY DEF PagesInv
<1>2. UNCHANGED reader
  BY DEF Tick, Take, Settle
<1>3. /\ clock' \in 1 .. MaxClock
      /\ phase' \in [Message -> {"unsent", "coming", "stored", "lost"}]
      /\ idate' \in [Message -> 0 .. MaxClock]
      /\ Dated'
      /\ \A m \in Stored : m \in Stored' /\ idate'[m] = idate[m]
      /\ \A m \in Message : idate'[m] = idate[m] \/ idate[m] = 0
  <2>1. CASE Tick
    BY <1>1, <2>1 DEF Tick, TypeOK, Dated, Stored
  <2>2. CASE \E m \in Message : Take(m)
    BY <1>1, <2>2 DEF Take, TypeOK, Dated, Stored
  <2>3. CASE \E m \in Message : Settle(m)
    BY <1>1, <2>3 DEF Settle, TypeOK, Dated, Stored
  <2>. QED
    BY <2>1, <2>2, <2>3
<1>4. Later
  <2>1. ASSUME Distinct', NEW m \in Message, NEW n \in Message,
               idate[m] = idate[n], m # n, idate[m] # 0
        PROVE  FALSE
    <3>1. idate'[m] = idate[m] /\ idate'[n] = idate[n]
      BY <1>3, <2>1
    <3>. QED
      BY <3>1, <2>1 DEF Distinct
  <2>2. Distinct' => Distinct
    BY <2>1 DEF Distinct
  <2>. QED
    BY <1>3, <2>2 DEF Later
<1>5. TypeOK'
  <2>1. Stored \subseteq Stored'
    BY <1>3
  <2>. QED
    BY <1>1, <1>2, <1>3, <2>1 DEF TypeOK, reader
<1>6. ASSUME NEW p \in {page} \ {None} PROVE Sound(p)' /\ Walk(p)'
  <2>1. p \in Page /\ Sound(p) /\ Walk(p)
    BY <1>1, <1>6 DEF PagesInv, TypeOK
  <2>2. \A m \in since : Covered(m) => Covered(m)'
    BY <1>1, <1>2, <1>4, CoveredKept DEF reader
  <2>3. \A m \in since : idate'[m] = idate[m]
    BY <1>1, <1>3 DEF TypeOK
  <2>4. Walk(p)'
    BY <1>2, <2>1, <2>2, <2>3 DEF Walk, reader
  <2>. QED
    BY <1>4, <2>1, <2>4, SoundKept
<1>7. ASSUME NEW q \in {left} \ {None}
      PROVE  Sound(q)' /\ \E p \in {page} \ {None} : Follows(p, q)'
  <2>1. q \in Page /\ Sound(q)
    BY <1>1, <1>7 DEF PagesInv, TypeOK
  <2>2. PICK p \in {page} \ {None} : Follows(p, q)
    BY <1>7 DEF PagesInv
  <2>3. p.of \subseteq Stored
    BY DEF PagesInv, Sound, Listing
  <2>4. Follows(p, q)'
    BY <1>3, <2>2, <2>3 DEF Follows
  <2>. QED
    BY <1>4, <2>1, <2>4, SoundKept
<1>. QED
  BY <1>1, <1>2, <1>3, <1>5, <1>6, <1>7 DEF PagesInv, reader

(* A stutter keeps it, *)
LEMMA QuietSteps ==
    ASSUME PagesInv, UNCHANGED vars
    PROVE  PagesInv'
<1>1. /\ clock' = clock /\ phase' = phase /\ idate' = idate /\ Stored' = Stored
      /\ page' = page /\ left' = left /\ walked' = walked /\ since' = since
  BY DEF vars, mail, reader, Stored
<1>2. TypeOK' /\ Dated'
  BY <1>1 DEF PagesInv, TypeOK, Dated
<1>3. Later
  BY <1>1 DEF Later, Distinct
<1>4. ASSUME NEW p \in {page} \ {None} PROVE Sound(p)' /\ Walk(p)'
  <2>1. p \in Page /\ Sound(p) /\ Walk(p)
    BY <1>4 DEF PagesInv, TypeOK
  <2>2. Walk(p)'
    BY <1>1, <2>1 DEF Walk, Covered
  <2>. QED
    BY <1>3, <2>1, <2>2, SoundKept
<1>5. ASSUME NEW q \in {left} \ {None}
      PROVE  Sound(q)' /\ \E p \in {page} \ {None} : Follows(p, q)'
  <2>1. q \in Page /\ Sound(q)
    BY <1>5 DEF PagesInv, TypeOK
  <2>2. PICK p \in {page} \ {None} : Follows(p, q)
    BY <1>5 DEF PagesInv
  <2>3. Follows(p, q)'
    BY <1>1, <2>2 DEF Follows
  <2>. QED
    BY <1>3, <2>1, <2>3, SoundKept
<1>. QED
  BY <1>1, <1>2, <1>4, <1>5 DEF PagesInv

(* A page read forward covers what is on it. *)
LEMMA ForwardWalk ==
    ASSUME TypeOK, NEW p \in Page, NEW cursor \in Cursor,
           Shows(p.response, CursorQuery(FALSE, cursor), FALSE, cursor, p.limit),
           UNCHANGED mail,
           since' \subseteq Stored, Range(p.response.results) \subseteq walked',
           cursor # None => \A m \in since' : idate[m] >= cursor => Covered(m)'
    PROVE  Walk(p)'
<1> DEFINE r == p.response.results
           F == CursorQuery(FALSE, cursor)
<1>1. /\ idate \in [Message -> Nat] /\ Stored \subseteq Message /\ idate' = idate
      /\ cursor = None \/ cursor \in Nat
  BY PagesAssumption DEF TypeOK, Stored, Cursor, mail
<1>2. \A m \in Stored : m \in F <=> (cursor = None \/ idate[m] < cursor)
  BY DEF CursorQuery, SortAsc
<1>3. /\ r \in Seq(Message) /\ Range(r) \subseteq F
      /\ \A i, j \in DOMAIN r : i < j => r[i] # r[j] /\ idate[r[i]] >= idate[r[j]]
      /\ \A m \in F \ Range(r), n \in Range(r) : idate[m] <= idate[n]
      /\ r # <<>> => p.response.next = idate[r[Len(r)]]
      /\ p.response.hasNext = (Range(r) # F)
  BY DEF Shows, CutFrom
<1> HIDE DEF F
<1>4. \A m \in Range(r) : Covered(m)'
  BY <1>3 DEF Covered
<1>5. \A m \in since' : ~ (m \in F) => Covered(m)'
  BY <1>1, <1>2
<1>6. ASSUME r # <<>>, NEW m \in since', idate[m] >= p.response.next PROVE Covered(m)'
  <2>1. CASE m \in F \ Range(r)
    <3>1. r[Len(r)] \in Range(r) /\ Range(r) \subseteq Message
      BY <1>1, <1>3, <1>6, Ends
    <3>2. idate[m] = idate[r[Len(r)]]
      BY <1>1, <1>3, <1>6, <2>1, <3>1
    <3>. QED
      BY <1>1, <3>1, <3>2 DEF Covered
  <2>. QED
    BY <2>1, <1>4, <1>5
<1>7. ASSUME ~ p.response.hasNext, NEW m \in since' PROVE Covered(m)'
  <2>1. Range(r) = F
    BY <1>3, <1>7
  <2>. QED
    BY <2>1, <1>4, <1>5
<1>. QED
  BY <1>1, <1>6, <1>7 DEF Walk

(* A request for another page leaves the mailbox as it is. *)
LEMMA NewPage ==
    ASSUME TypeOK, Dated, UNCHANGED mail,
           NEW p \in Page, page' = p, p.of = Stored, Sound(p), Walk(p)',
           Len(p.response.results) <= p.limit,
           walked' \subseteq Stored, since' \subseteq Stored,
           left' \in Page \cup {None},
           \A q \in {left'} \ {None} : Sound(q) /\ Follows(p, q)
    PROVE  PagesInv'
<1>1. /\ clock' = clock /\ phase' = phase /\ idate' = idate /\ Stored' = Stored
  BY DEF mail, Stored
<1>2. p # None
  BY NoneAssumption
<1>3. TypeOK'
  BY <1>1 DEF TypeOK
<1>4. Dated'
  BY <1>1 DEF Dated
<1>5. Later
  BY <1>1 DEF Later, Distinct
<1>6. Sound(p)'
  BY <1>5, SoundKept
<1>7. ASSUME NEW q \in {left'} \ {None} PROVE Sound(q)' /\ Follows(p, q)'
  <2>1. q \in Page /\ Sound(q) /\ Follows(p, q)
    BY <1>7
  <2>2. Follows(p, q)'
    BY <2>1, <1>1 DEF Follows
  <2>. QED
    BY <2>1, <2>2, <1>5, SoundKept
<1>. QED
  BY <1>2, <1>3, <1>4, <1>6, <1>7 DEF PagesInv

(* the first page keeps it, *)
LEMMA FirstSteps ==
    ASSUME PagesInv, NEW limit \in Limits, First(limit)
    PROVE  PagesInv'
<1>1. TypeOK /\ Dated
  BY DEF PagesInv
<1>2. None \in Cursor
  BY DEF Cursor
<1>3. /\ Ask(None, None, limit) /\ walked' = Range(page'.response.results)
      /\ since' = Stored /\ left' = None /\ UNCHANGED mail
  BY DEF First
<1>4. PICK p \in Page :
         /\ page' = p /\ p.of = Stored
         /\ Shows(p.response, CursorQuery(FALSE, None), FALSE, None, p.limit)
  BY <1>1, <1>2, <1>3, Asked
<1>5. Sound(p)
  BY <1>1, <1>2, <1>4, ForwardSound
<1>6. /\ Range(p.response.results) \subseteq Stored
      /\ Len(p.response.results) <= p.limit
  BY <1>4 DEF Shows, CutFrom, CursorQuery
<1>7. Walk(p)'
  BY <1>1, <1>2, <1>3, <1>4, ForwardWalk
<1>. QED
  BY <1>1, <1>3, <1>4, <1>5, <1>6, <1>7, NewPage

(* the next page keeps it, *)
LEMMA NextSteps ==
    ASSUME PagesInv, NEW limit \in Limits, Next(limit)
    PROVE  PagesInv'
<1>1. TypeOK /\ Dated
  BY DEF PagesInv
<1>2. PICK q \in Page : page = q /\ Sound(q) /\ Walk(q) /\ q # None
  BY <1>1 DEF Next, PagesInv, TypeOK
<1>3. PICK previous \in {None, q.response.previous} :
         Ask(previous, q.response.next, limit)
  BY <1>2 DEF Next
<1>4. /\ q.response.hasNext /\ q.response.next # None
      /\ walked' = walked \cup Range(page'.response.results)
      /\ left' = q /\ UNCHANGED mail /\ since' = since
  BY <1>2 DEF Next, Listed
<1> DEFINE cursor == q.response.next
<1>5. cursor \in Cursor /\ previous \in Cursor /\ cursor # None
  BY <1>3, <1>4 DEF Page, Response, Cursor
<1>6. q.response.results # <<>> /\ \E m \in Stored : idate[m] = cursor
  BY <1>2, <1>4, CursorStored DEF Sound
<1>7. Distinct => \E m \in Stored : idate[m] < cursor
  BY <1>2, <1>4, <1>6 DEF Sound, Complete, Listing
<1> HIDE DEF cursor
<1>8. PICK p \in Page :
         /\ page' = p /\ p.of = Stored
         /\ Shows(p.response, CursorQuery(FALSE, cursor), FALSE, cursor, p.limit)
  <2>1. FALSE = (cursor = None /\ previous # None)
    BY <1>5
  <2>2. Ask(previous, cursor, limit)
    BY <1>3 DEF cursor
  <2>. QED
    BY <1>1, <1>5, <2>1, <2>2, Asked
<1>9. Sound(p)
  BY <1>1, <1>5, <1>6, <1>7, <1>8, ForwardSound
<1>10. /\ Range(p.response.results) \subseteq Stored
       /\ Len(p.response.results) <= p.limit
  BY <1>8 DEF Shows, CutFrom, CursorQuery
<1>11. walked \subseteq Stored /\ since \subseteq Stored
  BY <1>1 DEF TypeOK
<1>12. Later
  BY <1>4 DEF Later, mail, Distinct, Stored
<1>13. \A m \in since' : idate[m] >= cursor => Covered(m)'
  <2>1. \A m \in since : idate[m] >= cursor => Covered(m)
    BY <1>2, <1>6 DEF Walk, cursor
  <2>2. \A m \in since : Covered(m) => Covered(m)'
    BY <1>1, <1>4, <1>12, CoveredKept
  <2>. QED
    BY <1>4, <2>1, <2>2
<1>14. Walk(p)'
  <2>1. since' \subseteq Stored /\ Range(p.response.results) \subseteq walked'
    BY <1>4, <1>8, <1>11
  <2>. QED
    BY <1>1, <1>4, <1>5, <1>8, <1>13, <2>1, ForwardWalk
<1>15. Follows(p, q)
  <2>1. q.of \subseteq p.of
    BY <1>2, <1>8 DEF Sound, Listing
  <2>2. ASSUME p.response.results # <<>>, NEW m \in Stored
        PROVE  idate[m] > p.response.previous <=> idate[m] >= cursor
    <3> DEFINE r == p.response.results
               F == CursorQuery(FALSE, cursor)
    <3>1. idate \in [Message -> Nat] /\ Stored \subseteq Message /\ cursor \in Nat
      BY <1>1, <1>5, PagesAssumption DEF TypeOK, Stored, Cursor
    <3>2. m \in F <=> idate[m] < cursor
      BY <1>5 DEF CursorQuery, SortAsc
    <3>3. /\ r \in Seq(Message) /\ Range(r) \subseteq F
          /\ \A i, j \in DOMAIN r : i < j => r[i] # r[j] /\ idate[r[i]] >= idate[r[j]]
          /\ \A k \in F \ Range(r), n \in Range(r) : idate[k] <= idate[n]
          /\ p.response.previous = idate[r[1]]
      BY <1>8, <2>2 DEF Shows, CutFrom
    <3>4. /\ r[1] \in Range(r) /\ Range(r) \subseteq Message
          /\ \A n \in Range(r) : idate[r[1]] >= idate[n]
      BY <2>2, <3>1, <3>3, Ends
    <3>5. idate[r[1]] < cursor
      BY <3>3, <3>4, <1>5 DEF CursorQuery, SortAsc
    <3>6. idate[r[1]] \in Nat /\ idate[m] \in Nat
      BY <3>1, <3>4
    <3>7. m \in F => idate[m] <= idate[r[1]]
      BY <3>3, <3>4
    <3> HIDE DEF F
    <3>. QED
      BY <3>1, <3>2, <3>3, <3>5, <3>6, <3>7
  <2>. QED
    BY <1>4, <1>6, <1>8, <2>1, <2>2 DEF Follows, cursor
<1>16. left' \in Page \cup {None} /\ \A l \in {left'} \ {None} : Sound(l) /\ Follows(p, l)
  BY <1>2, <1>4, <1>15
<1>17. walked' \subseteq Stored /\ since' \subseteq Stored
  BY <1>4, <1>8, <1>10, <1>11
<1>. QED
  BY <1>1, <1>4, <1>8, <1>9, <1>10, <1>14, <1>16, <1>17, NewPage

(* and so does the previous one. *)
LEMMA PreviousSteps ==
    ASSUME PagesInv, NEW limit \in Limits, Previous(limit)
    PROVE  PagesInv'
<1>1. TypeOK /\ Dated
  BY DEF PagesInv
<1>2. PICK q \in Page : page = q /\ Sound(q) /\ Walk(q) /\ q # None
  BY <1>1 DEF Previous, PagesInv, TypeOK
<1>3. /\ q.response.hasPrevious /\ q.response.previous # None
      /\ Ask(q.response.previous, None, limit)
      /\ walked' = walked \cup Range(page'.response.results)
      /\ left' = None /\ UNCHANGED mail /\ since' = since
  BY <1>2 DEF Previous, Listed
<1> DEFINE cursor == q.response.previous
<1>4. cursor \in Cursor /\ None \in Cursor /\ cursor # None
  BY <1>3 DEF Page, Response, Cursor
<1>5. q.response.results # <<>> /\ \E m \in Stored : idate[m] = cursor
  BY <1>2, <1>3, CursorStored DEF Sound
<1>6. Distinct => \E m \in Stored : idate[m] > cursor
  BY <1>2, <1>3, <1>5 DEF Sound, Complete, Listing
<1> HIDE DEF cursor
<1>7. PICK p \in Page :
         /\ page' = p /\ p.of = Stored
         /\ Shows(p.response, CursorQuery(TRUE, cursor), TRUE, cursor, p.limit)
  <2>1. TRUE = (None = None /\ cursor # None)
    BY <1>4
  <2>2. Ask(cursor, None, limit)
    BY <1>3 DEF cursor
  <2>. QED
    BY <1>1, <1>4, <2>1, <2>2, Asked
<1>8. Sound(p)
  BY <1>1, <1>4, <1>5, <1>6, <1>7, BackSound
<1>9. /\ Range(p.response.results) \subseteq Stored
      /\ Len(p.response.results) <= p.limit
  BY <1>7 DEF Shows, CutFrom, CursorQuery
<1>10. walked \subseteq Stored /\ since \subseteq Stored
  BY <1>1 DEF TypeOK
<1>11. Walk(p)'
  <2>1. Later
    BY <1>3 DEF Later, mail, Distinct, Stored
  <2>2. \A m \in since : Covered(m) => Covered(m)'
    BY <1>1, <1>3, <2>1, CoveredKept
  <2>3. p.response.hasNext
    BY <1>7 DEF Shows
  <2>4. ASSUME p.response.results # <<>>, NEW m \in since, idate[m] >= p.response.next
        PROVE  Covered(m)
    <3> DEFINE r == p.response.results
               l == q.response.results
    <3>1. idate \in [Message -> Nat] /\ m \in Message /\ cursor \in Nat
      BY <1>1, <1>4, <1>10, PagesAssumption DEF TypeOK, Stored, Cursor
    <3>2. r[Len(r)] \in Range(r) /\ p.response.next = idate[r[Len(r)]]
      <4>1. /\ r \in Seq(Message)
            /\ \A i, j \in DOMAIN r : i < j => r[i] # r[j] /\ idate[r[i]] >= idate[r[j]]
            /\ p.response.next = idate[r[Len(r)]]
        BY <1>7, <2>4 DEF Shows, CutFrom
      <4>. QED
        BY <2>4, <3>1, <4>1, Ends
    <3>3. p.response.next > cursor
      BY <1>4, <1>7, <3>2 DEF Shows, CutFrom, CursorQuery, SortAsc
    <3>4. cursor >= q.response.next
      <4>1. /\ \A i, j \in DOMAIN l : i < j => l[i] # l[j] /\ idate[l[i]] >= idate[l[j]]
            /\ cursor = idate[l[1]] /\ q.response.next = idate[l[Len(l)]]
        BY <1>2, <1>5 DEF Sound, Listing, cursor
      <4>2. l \in Seq(Message)
        BY DEF Page, Response
      <4>. QED
        BY <1>5, <3>1, <4>1, <4>2, Ends
    <3>5. q.response.next \in Nat /\ p.response.next \in Nat
      <4>1. q.response.next # None /\ p.response.next # None
        <5>1. \A n \in Message : idate[n] # None
          BY <3>1, PagesAssumption
        <5>2. Range(l) \subseteq Message /\ Range(r) \subseteq Message
          BY DEF Page, Response, Range
        <5>3. l[Len(l)] \in Range(l)
          <6>1. l \in Seq(Message)
            BY DEF Page, Response
          <6>. QED
            BY <6>1, <1>5 DEF Range
        <5>4. q.response.next = idate[l[Len(l)]]
          BY <1>2, <1>5 DEF Sound, Listing
        <5>. QED
          BY <3>2, <5>1, <5>2, <5>3, <5>4
      <4>. QED
        BY <4>1, PagesAssumption DEF Page, Response, Cursor
    <3>6. idate[m] >= q.response.next
      BY <2>4, <3>1, <3>3, <3>4, <3>5
    <3>. QED
      BY <1>2, <1>5, <3>6 DEF Walk
  <2>5. idate' = idate
    BY <1>3 DEF mail
  <2>. QED
    BY <1>3, <2>2, <2>3, <2>4, <2>5 DEF Walk
<1>12. walked' \subseteq Stored /\ since' \subseteq Stored
  BY <1>3, <1>7, <1>9, <1>10
<1>13. left' \in Page \cup {None} /\ \A l \in {left'} \ {None} : Sound(l) /\ Follows(p, l)
  BY <1>3
<1>. QED
  BY <1>1, <1>3, <1>7, <1>8, <1>9, <1>11, <1>12, <1>13, NewPage

(* Every reachable state satisfies the invariant. *)
THEOREM PagesInvariance == Spec => []PagesInv
<1>1. ASSUME PagesInv, [Step]_vars PROVE PagesInv'
  <2>1. CASE Tick \/ \E m \in Message : Take(m) \/ Settle(m)
    BY <1>1, <2>1, ArrivalSteps
  <2>2. ASSUME NEW limit \in Limits, First(limit) PROVE PagesInv'
    BY <1>1, <2>2, FirstSteps
  <2>3. ASSUME NEW limit \in Limits, Next(limit) PROVE PagesInv'
    BY <1>1, <2>3, NextSteps
  <2>4. ASSUME NEW limit \in Limits, Previous(limit) PROVE PagesInv'
    BY <1>1, <2>4, PreviousSteps
  <2>5. CASE UNCHANGED vars
    BY <1>1, <2>5, QuietSteps
  <2>. QED
    BY <1>1, <2>1, <2>2, <2>3, <2>4, <2>5 DEF Step
<1>. QED
  BY PagesInit, <1>1, PTL DEF Spec

-----------------------------------------------------------------------------
(* The theorems *)

(* NothingSkipped: however mails arrive and the browser goes to and fro, what   *)
(* was there when it asked for the first page has been on a page, or one of    *)
(* the same date has, as far down as the page at hand.                       *)
THEOREM NothingIsSkipped == Spec => []NothingSkipped
<1>1. PagesInv => NothingSkipped
  <2> SUFFICES ASSUME PagesInv, page # None, NEW m \in since,
                      \/ ~ page.response.hasNext
                      \/ \E n \in Range(page.response.results) : idate[n] < idate[m]
               PROVE  Covered(m)
    BY DEF NothingSkipped, Covered
  <2>1. PICK p \in Page : page = p /\ Sound(p) /\ Walk(p)
    BY DEF PagesInv, TypeOK
  <2>2. CASE ~ p.response.hasNext
    BY <2>1, <2>2 DEF Walk
  <2>3. ASSUME NEW n \in Range(p.response.results), idate[n] < idate[m]
        PROVE  Covered(m)
    <3> DEFINE r == p.response.results
    <3>1. idate \in [Message -> Nat] /\ m \in Message
      BY PagesAssumption DEF PagesInv, TypeOK, Stored
    <3>2. r \in Seq(Message) /\ r # <<>>
      BY <2>3 DEF Page, Response, Range
    <3>3. /\ \A i, j \in DOMAIN r : i < j => r[i] # r[j] /\ idate[r[i]] >= idate[r[j]]
          /\ p.response.next = idate[r[Len(r)]]
      BY <2>1, <3>2 DEF Sound, Listing
    <3>4. /\ n \in Message /\ r[Len(r)] \in Message
          /\ idate[n] >= idate[r[Len(r)]]
      BY <2>3, <3>1, <3>2, <3>3, Ends
    <3>5. idate[m] >= p.response.next
      BY <2>3, <3>1, <3>3, <3>4
    <3>. QED
      BY <2>1, <3>2, <3>5 DEF Walk
  <2>. QED
    BY <2>1, <2>2, <2>3
<1>. QED
  BY <1>1, PagesInvariance, PTL

(* FlagsRight: with no two messages of one date, a page says rightly whether   *)
(* there is more before and after it, and is no longer than its limit.        *)
THEOREM FlagsCorrect == Spec => []FlagsRight
<1>1. PagesInv => FlagsRight
  <2> SUFFICES ASSUME PagesInv PROVE FlagsRight
    OBVIOUS
  <2>1. TypeOK
    BY DEF PagesInv
  <2>2. ASSUME page # None, Distinct
        PROVE  LET r == page.response.results
                   rest == page.of \ Range(r)
               IN  IF r = <<>> THEN page.of = {} /\ ~ page.response.hasNext
                   ELSE /\ page.response.hasNext <=> \E m \in rest : idate[m] < idate[Last(r)]
                        /\ page.response.hasPrevious <=> \E m \in rest : idate[m] > idate[r[1]]
    <3>1. PICK p \in Page : page = p /\ Listing(p) /\ Complete(p)
      BY <2>2 DEF PagesInv, TypeOK, Sound
    <3>. QED
      BY <3>1 DEF Listing, Complete, Shown, Last
  <2>. QED
    BY <2>1, <2>2 DEF FlagsRight
<1>. QED
  BY <1>1, PagesInvariance, PTL

-----------------------------------------------------------------------------
(* Going back *)

(* A set of numbers has a least one. *)
LEMMA Least ==
    ASSUME NEW S, S \subseteq Nat, S # {}
    PROVE  \E n \in S : \A m \in S : n <= m
<1>1. PICK R : IsWellFoundedOn(R, Nat) /\ \A x, y \in Nat : x < y => <<x, y>> \in R
  <2> DEFINE R == OpToRel(<, Nat)
  <2>1. IsWellFoundedOn(R, Nat)
    BY NatLessThanWellFounded
  <2>2. \A x, y \in Nat : x < y => <<x, y>> \in R
    BY DEF OpToRel
  <2> HIDE DEF R
  <2>. QED
    BY <2>1, <2>2
<1>2. IsWellFoundedOn(R, Nat)
  BY <1>1
<1>3. PICK x \in S : \A y \in S : ~ (<<y, x>> \in R)
  BY <1>2, WFMin, Zenon
<1>4. \A m \in S : x <= m
  <2> SUFFICES ASSUME NEW m \in S, ~ (x <= m) PROVE FALSE
    OBVIOUS
  <2>1. m \in Nat /\ x \in Nat
    OBVIOUS
  <2>2. m < x
    BY <2>1
  <2>3. <<m, x>> \in R
    BY <1>1, <2>1, <2>2, Zenon
  <2>. QED
    BY <2>3, <1>3, Zenon
<1>. QED
  BY <1>4

(* A sequence without repetition is as long as its range is large. *)
LEMMA LengthOfRange ==
    ASSUME NEW q \in Seq(Message), \A i, j \in DOMAIN q : i < j => q[i] # q[j]
    PROVE  IsFiniteSet(Range(q)) /\ Cardinality(Range(q)) = Len(q)
<1> DEFINE n == Len(q)
           S == 1 .. n
<1>1. n \in Nat /\ DOMAIN q = S
  OBVIOUS
<1>2. IsFiniteSet(S) /\ Cardinality(S) = n
  BY <1>1, FS_Interval
<1>3. q \in [S -> Range(q)] /\ \A m \in Range(q) : \E i \in S : q[i] = m
  BY <1>1 DEF Range
<1>4. \A i, j \in S : q[i] = q[j] => i = j
  BY <1>1
<1>5. q \in Surjection(S, Range(q)) /\ q \in Injection(S, Range(q))
  BY <1>3, <1>4, Fun_IsInj DEF Surjection
<1>. QED
  BY <1>2, <1>5, FS_Surjection

(* Messages that are listed by falling dates are listed in one way only. *)
LEMMA OneOrder ==
    ASSUME idate \in [Message -> Nat],
           NEW r \in Seq(Message), NEW t \in Seq(Message), Range(r) = Range(t),
           \A i, j \in DOMAIN r : i < j => idate[r[i]] > idate[r[j]],
           \A i, j \in DOMAIN t : i < j => idate[t[i]] > idate[t[j]]
    PROVE  r = t
<1>1. (\A i, j \in DOMAIN r : i < j => r[i] # r[j])
      /\ (\A i, j \in DOMAIN t : i < j => t[i] # t[j])
  <2>1. \A i \in DOMAIN r : r[i] \in Message
    OBVIOUS
  <2>2. \A i \in DOMAIN t : t[i] \in Message
    OBVIOUS
  <2>3. \A m \in Message : ~ (idate[m] > idate[m])
    OBVIOUS
  <2>. QED
    BY <2>1, <2>2, <2>3
<1>2. Len(r) = Len(t)
  BY <1>1, LengthOfRange
<1> DEFINE n == Len(r)
           S == {i \in 1 .. n : r[i] # t[i]}
<1>3. n \in Nat /\ DOMAIN r = 1 .. n /\ DOMAIN t = 1 .. n
  BY <1>2
<1> HIDE DEF n
<1>4. S = {}
  <2> SUFFICES ASSUME S # {} PROVE FALSE
    OBVIOUS
  <2>1. S \subseteq Nat
    BY <1>3
  <2>2. PICK i \in S : \A k \in S : i <= k
    BY <2>1, Least
  <2>3. i \in 1 .. n /\ r[i] # t[i] /\ \A k \in 1 .. n : k < i => r[k] = t[k]
    BY <2>2, <1>3
  <2>4. \E j \in 1 .. n : r[i] = t[j]
    BY <2>3, <1>3 DEF Range
  <2>5. \E k \in 1 .. n : t[i] = r[k]
    BY <2>3, <1>3 DEF Range
  <2>6. PICK j \in 1 .. n : r[i] = t[j]
    BY <2>4
  <2>7. PICK k \in 1 .. n : t[i] = r[k]
    BY <2>5
  <2>8. i < j
    <3>1. j # i
      BY <2>3, <2>6
    <3>2. ~ (j < i)
      <4> SUFFICES ASSUME j < i PROVE FALSE
        OBVIOUS
      <4>1. r[j] = r[i]
        BY <2>3, <2>6
      <4>. QED
        BY <4>1, <2>3, <1>1, <1>3
    <3>. QED
      BY <3>1, <3>2, <2>3, <1>3
  <2>9. i < k
    <3>1. k # i
      BY <2>3, <2>7
    <3>2. ~ (k < i)
      <4> SUFFICES ASSUME k < i PROVE FALSE
        OBVIOUS
      <4>1. t[k] = t[i]
        BY <2>3, <2>7
      <4>. QED
        BY <4>1, <2>3, <1>1, <1>3
    <3>. QED
      BY <3>1, <3>2, <2>3, <1>3
  <2>10. idate[t[i]] > idate[r[i]]
    BY <2>3, <2>6, <2>8, <1>3
  <2>11. idate[r[i]] > idate[t[i]]
    BY <2>3, <2>7, <2>9, <1>3
  <2>12. r[i] \in Message /\ t[i] \in Message
    BY <2>3, <1>3
  <2>13. idate[r[i]] \in Nat /\ idate[t[i]] \in Nat
    BY <2>12
  <2>. QED
    BY <2>10, <2>11, <2>13
<1>5. r \in [1 .. n -> Message] /\ t \in [1 .. n -> Message]
  BY <1>3
<1>6. \A i \in 1 .. n : r[i] = t[i]
  BY <1>4
<1>7. r = [i \in 1 .. n |-> r[i]] /\ t = [i \in 1 .. n |-> t[i]]
  BY <1>5
<1>8. [i \in 1 .. n |-> r[i]] = [i \in 1 .. n |-> t[i]]
  BY <1>6
<1>. QED
  BY <1>7, <1>8, Zenon

(* Pages of the same limit that both end F, by dates of their own, are the     *)
(* same: each has all of F or is full.                                       *)
LEMMA SameEnd ==
    ASSUME idate \in [Message -> Nat],
           NEW F, F \subseteq Message, IsFiniteSet(F), NEW limit \in Nat,
           \A m, n \in F : m # n => idate[m] # idate[n],
           NEW r \in Seq(Message), NEW t \in Seq(Message),
           Range(r) \subseteq F, Range(t) \subseteq F,
           \A i, j \in DOMAIN r : i < j => r[i] # r[j] /\ idate[r[i]] >= idate[r[j]],
           \A i, j \in DOMAIN t : i < j => t[i] # t[j] /\ idate[t[i]] >= idate[t[j]],
           Len(r) <= limit, Len(t) <= limit,
           Range(r) # F => Len(r) = limit,
           Range(t) # F => Len(t) = limit,
           \A m \in F \ Range(r), n \in Range(r) : idate[m] >= idate[n],
           \A m \in F \ Range(t), n \in Range(t) : idate[m] >= idate[n]
    PROVE  r = t
<1> DEFINE R == Range(r)
           T == Range(t)
<1>1. R \subseteq F /\ T \subseteq F
  OBVIOUS
<1>2. /\ IsFiniteSet(R) /\ Cardinality(R) = Len(r)
      /\ IsFiniteSet(T) /\ Cardinality(T) = Len(t)
  BY LengthOfRange
<1>3. Len(r) \in Nat /\ Len(t) \in Nat
  OBVIOUS
<1>4. R \subseteq T \/ T \subseteq R
  <2> SUFFICES ASSUME NEW m \in R, ~ (m \in T), NEW n \in T, ~ (n \in R) PROVE FALSE
    OBVIOUS
  <2>1. idate[m] >= idate[n] /\ idate[n] >= idate[m]
    BY <1>1
  <2>2. m \in Message /\ n \in Message /\ m # n
    BY <1>1
  <2>3. idate[m] = idate[n]
    BY <2>1, <2>2
  <2>. QED
    BY <1>1, <2>2, <2>3
<1>5. R = T
  <2>1. CASE R \subseteq T
    <3>1. CASE R = F
      BY <3>1, <2>1, <1>1
    <3>2. CASE R # F
      <4>1. Cardinality(R) = limit /\ Cardinality(T) <= limit
        BY <3>2, <1>2
      <4>2. Cardinality(R) <= Cardinality(T) /\ (Cardinality(T) = Cardinality(R) => T = R)
        BY <2>1, <1>2, FS_Subset
      <4>. QED
        BY <4>1, <4>2, <1>2, <1>3
    <3>. QED
      BY <3>1, <3>2
  <2>2. CASE T \subseteq R
    <3>1. CASE T = F
      BY <3>1, <2>2, <1>1
    <3>2. CASE T # F
      <4>1. Cardinality(T) = limit /\ Cardinality(R) <= limit
        BY <3>2, <1>2
      <4>2. Cardinality(T) <= Cardinality(R) /\ (Cardinality(R) = Cardinality(T) => R = T)
        BY <2>2, <1>2, FS_Subset
      <4>. QED
        BY <4>1, <4>2, <1>2, <1>3
    <3>. QED
      BY <3>1, <3>2
  <2>. QED
    BY <1>4, <2>1, <2>2
<1>6. \A i, j \in DOMAIN r : i < j => idate[r[i]] > idate[r[j]]
  <2> SUFFICES ASSUME NEW i \in DOMAIN r, NEW j \in DOMAIN r, i < j
               PROVE  idate[r[i]] > idate[r[j]]
    OBVIOUS
  <2>1. r[i] \in F /\ r[j] \in F
    BY <1>1 DEF Range
  <2>2. r[i] # r[j] /\ idate[r[i]] >= idate[r[j]]
    OBVIOUS
  <2>3. idate[r[i]] # idate[r[j]]
    BY <2>1, <2>2
  <2>4. idate[r[i]] \in Nat /\ idate[r[j]] \in Nat
    BY <2>1
  <2>. QED
    BY <2>2, <2>3, <2>4
<1>7. \A i, j \in DOMAIN t : i < j => idate[t[i]] > idate[t[j]]
  <2> SUFFICES ASSUME NEW i \in DOMAIN t, NEW j \in DOMAIN t, i < j
               PROVE  idate[t[i]] > idate[t[j]]
    OBVIOUS
  <2>1. t[i] \in F /\ t[j] \in F
    BY <1>1 DEF Range
  <2>2. t[i] # t[j] /\ idate[t[i]] >= idate[t[j]]
    OBVIOUS
  <2>3. idate[t[i]] # idate[t[j]]
    BY <2>1, <2>2
  <2>4. idate[t[i]] \in Nat /\ idate[t[j]] \in Nat
    BY <2>1
  <2>. QED
    BY <2>2, <2>3, <2>4
<1>. QED
  BY <1>5, <1>6, <1>7, OneOrder

(* BackAndForth: the next page and then the one before it, with the same limit, *)
(* come back to the page that was left, if nothing was stored since and no     *)
(* two messages have one date.                                              *)
THEOREM BackIsBack == Spec => BackAndForth
<1>1. ASSUME PagesInv, NEW limit \in Limits,
             Previous(limit), left # None, Distinct,
             left.of = Stored, left.limit = Limit(limit)
      PROVE  page'.response.results = left.response.results
  <2>1. TypeOK /\ Dated
    BY <1>1 DEF PagesInv
  <2>2. PICK l \in Page : left = l /\ Listing(l) /\ Complete(l)
    BY <1>1, <2>1 DEF PagesInv, TypeOK, Sound
  <2>3. PICK q \in Page : page = q /\ Listing(q) /\ Follows(q, l)
    BY <1>1, <2>1, <2>2 DEF PagesInv, TypeOK, Sound
  <2> DEFINE cursor == q.response.previous
             F == CursorQuery(TRUE, cursor)
             t == l.response.results
             lo == l.response.next
  <2>4. cursor \in Cursor /\ cursor # None /\ None \in Cursor
    BY <1>1, <2>3 DEF Previous, Page, Response, Cursor
  <2>5. PICK p \in Page :
           page' = p /\ p.limit = l.limit /\ Shows(p.response, F, TRUE, cursor, p.limit)
    <3>1. Ask(cursor, None, limit) /\ TRUE = (None = None /\ cursor # None)
      BY <1>1, <2>3, <2>4 DEF Previous
    <3> HIDE DEF cursor
    <3>2. \E p \in Page :
             /\ page' = p
             /\ p.of = Stored /\ p.limit = Limit(limit)
             /\ Shows(p.response, CursorQuery(TRUE, cursor), TRUE, cursor, p.limit)
      BY <2>1, <2>4, <3>1, Asked
    <3>. QED
      BY <1>1, <2>2, <3>2
  <2> DEFINE r == p.response.results
  <2>6. idate \in [Message -> Nat] /\ Stored \subseteq Message
    BY <2>1, PagesAssumption DEF TypeOK, Stored
  <2>7. /\ t # <<>> /\ l.response.hasNext /\ l.of = Stored /\ q.of = Stored
        /\ q.response.results # <<>>
    BY <1>1, <2>2, <2>3, <2>4 DEF Follows, Listing
  <2>8. F \subseteq Stored /\ \A m \in Stored : m \in F <=> idate[m] >= lo
    BY <2>3, <2>4, <2>7 DEF Follows, CursorQuery, SortAsc
  <2>9. /\ r \in Seq(Message) /\ Len(r) <= l.limit /\ Range(r) \subseteq F
        /\ \A i, j \in DOMAIN r : i < j => r[i] # r[j] /\ idate[r[i]] >= idate[r[j]]
        /\ Range(r) # F => Len(r) = l.limit
        /\ \A m \in F \ Range(r), n \in Range(r) : idate[m] >= idate[n]
    BY <2>5 DEF Shows, CutFrom
  <2>10. /\ t \in Seq(Message) /\ Len(t) <= l.limit /\ l.limit \in Nat
         /\ \A i, j \in DOMAIN t : i < j => t[i] # t[j] /\ idate[t[i]] >= idate[t[j]]
         /\ l.response.previous = idate[t[1]] /\ lo = idate[t[Len(t)]]
         /\ Range(t) \subseteq Stored
    <3>1. l.response \in Response /\ l.limit \in Nat
      BY DEF Page
    <3>2. t \in Seq(Message)
      BY <3>1 DEF Response
    <3>. QED
      BY <3>1, <3>2, <2>2, <2>7 DEF Listing, Shown
  <2> HIDE DEF F
  <2>11. \A n \in Range(t) : idate[t[1]] >= idate[n] /\ idate[n] >= lo
    BY <2>6, <2>7, <2>10, Ends
  <2>12. lo \in Nat /\ t[1] \in Message /\ idate[t[1]] \in Nat
    BY <2>6, <2>7, <2>10, Ends
  <2>13. Range(t) \subseteq F
    BY <2>8, <2>10, <2>11
  <2>14. \A m \in F \ Range(t) : idate[m] > idate[t[1]]
    <3> SUFFICES ASSUME NEW m \in F \ Range(t) PROVE idate[m] > idate[t[1]]
      OBVIOUS
    <3>1. m \in Stored \ Range(t) /\ idate[m] >= lo /\ idate[m] \in Nat
      BY <2>6, <2>8
    <3>2. idate[m] < lo \/ idate[m] > l.response.previous
      BY <3>1, <2>2, <2>7 DEF Complete, Shown
    <3>. QED
      BY <3>1, <3>2, <2>10, <2>12
  <2>15. \A m \in F \ Range(t), n \in Range(t) : idate[m] >= idate[n]
    <3> SUFFICES ASSUME NEW m \in F \ Range(t), NEW n \in Range(t)
                 PROVE  idate[m] >= idate[n]
      OBVIOUS
    <3>1. m \in Message /\ n \in Message
      BY <2>6, <2>8, <2>10
    <3>. QED
      BY <3>1, <2>6, <2>11, <2>12, <2>14
  <2>16. Range(t) # F => Len(t) = l.limit
    <3> SUFFICES ASSUME Len(t) < l.limit PROVE Range(t) = F
      BY <2>10
    <3>1. \A m \in Stored \ Range(t) : idate[m] < lo
      BY <2>2, <2>7 DEF Complete, Shown
    <3>2. \A m \in F \ Range(t) : idate[m] < lo /\ idate[m] >= lo /\ idate[m] \in Nat
      BY <3>1, <2>6, <2>8
    <3>3. F \ Range(t) = {}
      BY <3>2, <2>12
    <3>. QED
      BY <3>3, <2>13
  <2>17. \A m, n \in F : m # n => idate[m] # idate[n]
    BY <1>1, <2>1, <2>6, <2>8 DEF Distinct, Dated, Stored
  <2>18. F \subseteq Message /\ IsFiniteSet(F)
    BY <2>6, <2>8, PagesAssumption, FS_Subset
  <2> HIDE DEF r, t
  <2>19. r = t
    BY <2>6, <2>9, <2>10, <2>13, <2>15, <2>16, <2>17, <2>18, SameEnd
  <2>. QED
    BY <2>2, <2>5, <2>19 DEF r, t
<1>2. PagesInv /\ [Step]_vars =>
         [\A limit \in Limits :
             /\ Previous(limit)
             /\ left # None /\ Distinct
             /\ left.of = Stored /\ left.limit = Limit(limit)
             => page'.response.results = left.response.results]_vars
  BY <1>1
<1>. QED
  BY <1>2, PagesInvariance, PTL DEF Spec, BackAndForth
=============================================================================
