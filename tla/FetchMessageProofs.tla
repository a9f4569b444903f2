------------------------- MODULE FetchMessageProofs -------------------------
(***************************************************************************)
(* Proofs about FetchMessage: the arguments it works on are what was typed,    *)
(* and each literal has the size that was announced for it.                   *)
(*                                                                          *)
(* Nearly all of it is about what the operators on a mail return.  A recursive  *)
(* function is shown to exist and to keep a type by a step function (Runner,    *)
(* Ran, RunTyped); MimeNodes[n] are the nodes of less than n levels, and the     *)
(* tree of a mail has no more levels than the mail has lines (ParseTyped), so  *)
(* that rebuild and getLength are defined on it.  Of the writer of rebuild, the *)
(* invariant is how much of a window is written (WindowWritten).  FetchInv, at the  *)
(* end, is the inductive invariant.                                          *)
(***************************************************************************)
EXTENDS FetchMessage, CommandParserProofs

-----------------------------------------------------------------------------
(* Recursion along the numbers: there is a function that begins with base and    *)
(* goes on by step, and what each step preserves all its values have.         *)

Runner(f, base, step, m) ==
    /\ f = [n \in 0 .. m |-> f[n]]
    /\ f[0] = base
    /\ \A n \in 0 .. m : n # 0 => f[n] = step[<<n - 1, f[n - 1]>>]

(* There is one up to each number. *)
LEMMA RunnerExists ==
    ASSUME NEW base, NEW step, NEW m \in Nat
    PROVE  \E f : Runner(f, base, step, m)
<1> DEFINE S == {k \in Nat : \E f : Runner(f, base, step, k)}
<1>1. 0 \in S
  <2> DEFINE f == [n \in 0 .. 0 |-> base]
  <2>1. Runner(f, base, step, 0)
    BY DEF Runner
  <2>. QED
    BY <2>1
<1>2. ASSUME NEW k \in Nat, k \in S PROVE k + 1 \in S
  <2>1. PICK f : Runner(f, base, step, k)
    BY <1>2
  <2> DEFINE g == [n \in 0 .. k + 1 |-> IF n = k + 1 THEN step[<<k, f[k]>>] ELSE f[n]]
  <2>2. /\ g = [n \in 0 .. k + 1 |-> g[n]]
        /\ g[k + 1] = step[<<k, f[k]>>] /\ \A n \in 0 .. k : g[n] = f[n]
    OBVIOUS
  <2> HIDE DEF g
  <2>3. f[0] = base /\ \A n \in 0 .. k : n # 0 => f[n] = step[<<n - 1, f[n - 1]>>]
    BY <2>1 DEF Runner
  <2>4. g[0] = base
    <3>1. 0 \in 0 .. k
      OBVIOUS
    <3>. QED
      BY <2>2, <2>3, <3>1
  <2>5. ASSUME NEW n \in 0 .. k + 1, n # 0 PROVE g[n] = step[<<n - 1, g[n - 1]>>]
    <3>1. n - 1 \in 0 .. k
      BY <2>5
    <3>2. g[n - 1] = f[n - 1]
      BY <2>2, <3>1
    <3>3. CASE n = k + 1
      <4>1. n - 1 = k
        BY <3>3
      <4>. QED
        BY <2>2, <3>2, <3>3, <4>1
    <3>4. CASE n # k + 1
      <4>1. n \in 0 .. k
        BY <3>4
      <4>. QED
        BY <2>2, <2>3, <2>5, <3>2, <4>1
    <3>. QED
      BY <3>3, <3>4
  <2>6. Runner(g, base, step, k + 1)
    BY <2>2, <2>4, <2>5 DEF Runner
  <2>. QED
    BY <2>6
<1> HIDE DEF S
<1>3. m \in S
  BY <1>1, <1>2, AllNumbers
<1>. QED
  BY <1>3 DEF S

(* Two of them agree on the numbers they have in common. *)
LEMMA RunnersAgree ==
    ASSUME NEW base, NEW step, NEW m \in Nat, NEW k \in Nat, m <= k, NEW f, NEW g,
           Runner(f, base, step, m), Runner(g, base, step, k)
    PROVE  f[m] = g[m]
<1> DEFINE S == {n \in Nat : n <= m => f[n] = g[n]}
<1>1. f[0] = base /\ \A n \in 0 .. m : n # 0 => f[n] = step[<<n - 1, f[n - 1]>>]
  BY DEF Runner
<1>2. g[0] = base /\ \A n \in 0 .. k : n # 0 => g[n] = step[<<n - 1, g[n - 1]>>]
  BY DEF Runner
<1>3. 0 \in S
  BY <1>1, <1>2
<1>4. ASSUME NEW n \in Nat, n \in S PROVE n + 1 \in S
  <2> SUFFICES ASSUME n + 1 <= m PROVE f[n + 1] = g[n + 1]
    OBVIOUS
  <2>1. n <= m /\ n + 1 \in 0 .. m /\ n + 1 \in 0 .. k /\ n + 1 # 0 /\ (n + 1) - 1 = n
    OBVIOUS
  <2>2. f[n] = g[n]
    BY <1>4, <2>1
  <2>3. f[n + 1] = step[<<n, f[n]>>]
    BY <1>1, <2>1
  <2>4. g[n + 1] = step[<<n, g[n]>>]
    BY <1>2, <2>1
  <2>. QED
    BY <2>2, <2>3, <2>4
<1> HIDE DEF S
<1>5. m \in S
  BY <1>3, <1>4, AllNumbers
<1>6. m <= m
  OBVIOUS
<1>. QED
  BY <1>5, <1>6 DEF S

(* The recursion along all numbers. *)
Endless(f, base, step) ==
    f = [n \in Nat |-> IF n = 0 THEN base ELSE step[<<n - 1, f[n - 1]>>]]

(* So there is one for all the numbers. *)
LEMMA Forever ==
    ASSUME NEW base, NEW step
    PROVE  \E f : Endless(f, base, step)
<1> DEFINE h == [n \in Nat |-> CHOOSE f : Runner(f, base, step, n)]
           w == [n \in Nat |-> h[n][n]]
           W(f) == f = [n \in Nat |-> IF n = 0 THEN base ELSE step[<<n - 1, f[n - 1]>>]]
<1>1. \A n \in Nat : Runner(h[n], base, step, n)
  <2> SUFFICES ASSUME NEW n \in Nat PROVE Runner(h[n], base, step, n)
    OBVIOUS
  <2>1. \E f : Runner(f, base, step, n)
    BY RunnerExists
  <2>2. h[n] = CHOOSE f : Runner(f, base, step, n)
    OBVIOUS
  <2>. QED
    BY <2>1, <2>2
<1>2. w = [n \in Nat |-> w[n]] /\ \A n \in Nat : w[n] = h[n][n]
  OBVIOUS
<1> HIDE DEF h, w
<1>3. \A n \in Nat : w[n] = IF n = 0 THEN base ELSE step[<<n - 1, w[n - 1]>>]
  <2> SUFFICES ASSUME NEW n \in Nat
               PROVE  w[n] = IF n = 0 THEN base ELSE step[<<n - 1, w[n - 1]>>]
    OBVIOUS
  <2>1. CASE n = 0
    BY <1>1, <1>2, <2>1 DEF Runner
  <2>2. CASE n # 0
    <3>1. n - 1 \in Nat /\ n - 1 <= n /\ n \in 0 .. n
      BY <2>2
    <3>2. h[n][n] = step[<<n - 1, h[n][n - 1]>>]
      <4>1. Runner(h[n], base, step, n)
        BY <1>1
      <4>. QED
        BY <4>1, <2>2, <3>1 DEF Runner
    <3>3. h[n - 1][n - 1] = h[n][n - 1]
      <4>1. Runner(h[n], base, step, n) /\ Runner(h[n - 1], base, step, n - 1)
        BY <1>1, <3>1
      <4>. QED
        BY <4>1, <3>1, RunnersAgree
    <3>4. w[n - 1] = h[n - 1][n - 1] /\ w[n] = h[n][n]
      BY <1>2, <3>1
    <3>. QED
      BY <2>2, <3>2, <3>3, <3>4
  <2>. QED
    BY <2>1, <2>2
<1>4. W(w)
  <2>1. [n \in Nat |-> w[n]] = [n \in Nat |-> IF n = 0 THEN base ELSE step[<<n - 1, w[n - 1]>>]]
    BY <1>3
  <2>. QED
    BY <1>2, <2>1
<1>. QED
  BY <1>4 DEF Endless

(* What the first value is and each step preserves, all are. *)
LEMMA TypedRun ==
    ASSUME NEW k \in Nat, NEW T, NEW c, c[0] \in T[0],
           \A i \in Nat : i < k /\ c[i] \in T[i] => c[i + 1] \in T[i + 1]
    PROVE  \A i \in 0 .. k : c[i] \in T[i]
<1> DEFINE S == {n \in Nat : n <= k => c[n] \in T[n]}
<1>1. 0 \in S
  OBVIOUS
<1>2. ASSUME NEW n \in Nat, n \in S PROVE n + 1 \in S
  <2> SUFFICES ASSUME n + 1 <= k PROVE c[n + 1] \in T[n + 1]
    OBVIOUS
  <2>1. n < k /\ n <= k
    OBVIOUS
  <2>2. c[n] \in T[n]
    BY <1>2, <2>1
  <2>. QED
    BY <2>1, <2>2
<1> HIDE DEF S
<1>3. Nat \subseteq S
  BY <1>1, <1>2, AllNumbers
<1>4. \A i \in 0 .. k : i \in S /\ i <= k
  BY <1>3
<1>. QED
  BY <1>4 DEF S

Ran(f, k, base, step) ==
    f = [i \in 0 .. k |-> IF i = 0 THEN base ELSE step[<<i - 1, f[i - 1]>>]]

(* A recursion up to k whose values have a type. *)
LEMMA RunTyped ==
    ASSUME NEW k \in Nat, NEW T, NEW base, NEW step, base \in T[0],
           \A i \in Nat : \A v \in T[i] : i < k => step[<<i, v>>] \in T[i + 1]
    PROVE  \E f : /\ Ran(f, k, base, step)
                  /\ \A i \in 0 .. k : f[i] \in T[i]
<1>1. PICK f : Runner(f, base, step, k)
  BY RunnerExists
<1>2. /\ f = [n \in 0 .. k |-> f[n]] /\ f[0] = base
      /\ \A n \in 0 .. k : n # 0 => f[n] = step[<<n - 1, f[n - 1]>>]
  BY <1>1 DEF Runner
<1>3. ASSUME NEW i \in Nat, i < k, f[i] \in T[i] PROVE f[i + 1] \in T[i + 1]
  <2>1. i + 1 \in 0 .. k /\ i + 1 # 0 /\ (i + 1) - 1 = i
    BY <1>3
  <2>2. f[i + 1] = step[<<i, f[i]>>]
    BY <1>2, <2>1
  <2>. QED
    BY <1>3, <2>2
<1>4. \A i \in 0 .. k : f[i] \in T[i]
  BY <1>2, <1>3, TypedRun
<1>5. [n \in 0 .. k |-> f[n]] = [n \in 0 .. k |-> IF n = 0 THEN base ELSE step[<<n - 1, f[n - 1]>>]]
  BY <1>2
<1>6. Ran(f, k, base, step)
  BY <1>2, <1>5 DEF Ran
<1>. QED
  BY <1>4, <1>6

(* And one along all numbers. *)
LEMMA ForeverTyped ==
    ASSUME NEW T, NEW base, NEW step, base \in T[0],
           \A i \in Nat : \A v \in T[i] : step[<<i, v>>] \in T[i + 1]
    PROVE  \E f : /\ Endless(f, base, step)
                  /\ \A i \in Nat : f[i] \in T[i]
<1>1. PICK f : Endless(f, base, step)
  BY Forever
<1>2. f[0] = base /\ \A n \in Nat : n # 0 => f[n] = step[<<n - 1, f[n - 1]>>]
  <2>1. \A n \in Nat : f[n] = IF n = 0 THEN base ELSE step[<<n - 1, f[n - 1]>>]
    BY <1>1 DEF Endless
  <2>. QED
    BY <2>1
<1>3. ASSUME NEW i \in Nat, f[i] \in T[i] PROVE f[i + 1] \in T[i + 1]
  <2>1. i + 1 \in Nat /\ i + 1 # 0 /\ (i + 1) - 1 = i
    OBVIOUS
  <2>2. f[i + 1] = step[<<i, f[i]>>]
    BY <1>2, <2>1
  <2>. QED
    BY <1>3, <2>2
<1>4. ASSUME NEW i \in Nat PROVE f[i] \in T[i]
  <2>1. \A j \in 0 .. i : f[j] \in T[j]
    BY <1>2, <1>3, TypedRun
  <2>. QED
    BY <2>1
<1>. QED
  BY <1>1, <1>4

-----------------------------------------------------------------------------
(* MimeNodes[n] are the nodes of less than n levels. *)

MimeNodes[n \in Nat] == IF n = 0 THEN {} ELSE NodesOver(MimeNodes[n - 1])

NodesUpto(f, m) ==
    /\ f = [n \in 0 .. m |-> f[n]]
    /\ f[0] = {}
    /\ \A n \in 0 .. m : n # 0 => f[n] = NodesOver(f[n - 1])

(* There are such sets up to each level. *)
LEMMA NodesExist == ASSUME NEW m \in Nat PROVE \E f : NodesUpto(f, m)
<1> DEFINE S == {k \in Nat : \E f : NodesUpto(f, k)}
<1>1. 0 \in S
  <2> DEFINE f == [n \in 0 .. 0 |-> {}]
  <2>1. NodesUpto(f, 0)
    BY DEF NodesUpto
  <2>. QED
    BY <2>1
<1>2. ASSUME NEW k \in Nat, k \in S PROVE k + 1 \in S
  <2>1. PICK f : NodesUpto(f, k)
    BY <1>2
  <2> DEFINE g == [n \in 0 .. k + 1 |-> IF n = k + 1 THEN NodesOver(f[k]) ELSE f[n]]
  <2>2. /\ g = [n \in 0 .. k + 1 |-> g[n]]
        /\ g[k + 1] = NodesOver(f[k]) /\ \A n \in 0 .. k : g[n] = f[n]
    OBVIOUS
  <2> HIDE DEF g
  <2>3. f[0] = {} /\ \A n \in 0 .. k : n # 0 => f[n] = NodesOver(f[n - 1])
    BY <2>1 DEF NodesUpto
  <2>4. g[0] = {}
    <3>1. 0 \in 0 .. k
      OBVIOUS
    <3>. QED
      BY <2>2, <2>3, <3>1
  <2>5. ASSUME NEW n \in 0 .. k + 1, n # 0 PROVE g[n] = NodesOver(g[n - 1])
    <3>1. n - 1 \in 0 .. k
      BY <2>5
    <3>2. g[n - 1] = f[n - 1]
      BY <2>2, <3>1
    <3>3. CASE n = k + 1
      BY <2>2, <3>2, <3>3
    <3>4. CASE n # k + 1
      <4>1. n \in 0 .. k
        BY <3>4
      <4>. QED
        BY <2>2, <2>3, <2>5, <3>2, <4>1
    <3>. QED
      BY <3>3, <3>4
  <2>6. NodesUpto(g, k + 1)
    BY <2>2, <2>4, <2>5 DEF NodesUpto
  <2>. QED
    BY <2>6
<1> HIDE DEF S
<1>3. m \in S
  BY <1>1, <1>2, AllNumbers
<1>. QED
  BY <1>3 DEF S

(* Two of them agree on the levels they have in common. *)
LEMMA NodesAgree ==
    ASSUME NEW m \in Nat, NEW k \in Nat, m <= k, NEW f, NEW g, NodesUpto(f, m), NodesUpto(g, k)
    PROVE  f[m] = g[m]
<1> DEFINE S == {n \in Nat : n <= m => f[n] = g[n]}
<1>1. f[0] = {} /\ \A n \in 0 .. m : n # 0 => f[n] = NodesOver(f[n - 1])
  BY DEF NodesUpto
<1>2. g[0] = {} /\ \A n \in 0 .. k : n # 0 => g[n] = NodesOver(g[n - 1])
  BY DEF NodesUpto
<1>3. 0 \in S
  BY <1>1, <1>2
<1>4. ASSUME NEW n \in Nat, n \in S PROVE n + 1 \in S
  <2> SUFFICES ASSUME n + 1 <= m PROVE f[n + 1] = g[n + 1]
    OBVIOUS
  <2>1. n <= m /\ n + 1 \in 0 .. m /\ n + 1 \in 0 .. k /\ n + 1 # 0 /\ (n + 1) - 1 = n
    OBVIOUS
  <2>2. f[n] = g[n]
    BY <1>4, <2>1
  <2>3. f[n + 1] = NodesOver(f[n])
    BY <1>1, <2>1
  <2>4. g[n + 1] = NodesOver(g[n])
    BY <1>2, <2>1
  <2>. QED
    BY <2>2, <2>3, <2>4
<1> HIDE DEF S
<1>5. m \in S
  BY <1>3, <1>4, AllNumbers
<1>6. m <= m
  OBVIOUS
<1>. QED
  BY <1>5, <1>6 DEF S

(* So MimeNodes is what its definition says, at each level. *)
LEMMA NodesIs ==
    /\ MimeNodes[0] = {}
    /\ \A n \in Nat : MimeNodes[n + 1] = NodesOver(MimeNodes[n])
<1> DEFINE h == [n \in Nat |-> CHOOSE f : NodesUpto(f, n)]
           w == [n \in Nat |-> h[n][n]]
           W(f) == f = [n \in Nat |-> IF n = 0 THEN {} ELSE NodesOver(f[n - 1])]
<1>1. \A n \in Nat : NodesUpto(h[n], n)
  <2> SUFFICES ASSUME NEW n \in Nat PROVE NodesUpto(h[n], n)
    OBVIOUS
  <2>1. \E f : NodesUpto(f, n)
    BY NodesExist
  <2>2. h[n] = CHOOSE f : NodesUpto(f, n)
    OBVIOUS
  <2>. QED
    BY <2>1, <2>2
<1>2. w = [n \in Nat |-> w[n]] /\ \A n \in Nat : w[n] = h[n][n]
  OBVIOUS
<1> HIDE DEF h, w
<1>3. \A n \in Nat : w[n] = IF n = 0 THEN {} ELSE NodesOver(w[n - 1])
  <2> SUFFICES ASSUME NEW n \in Nat
               PROVE  w[n] = IF n = 0 THEN {} ELSE NodesOver(w[n - 1])
    OBVIOUS
  <2>1. CASE n = 0
    BY <1>1, <1>2, <2>1 DEF NodesUpto
  <2>2. CASE n # 0
    <3>1. n - 1 \in Nat /\ n - 1 <= n /\ n \in 0 .. n
      BY <2>2
    <3>2. h[n][n] = NodesOver(h[n][n - 1])
      <4>1. NodesUpto(h[n], n)
        BY <1>1
      <4>. QED
        BY <4>1, <2>2, <3>1 DEF NodesUpto
    <3>3. h[n - 1][n - 1] = h[n][n - 1]
      <4>1. NodesUpto(h[n], n) /\ NodesUpto(h[n - 1], n - 1)
        BY <1>1, <3>1
      <4>. QED
        BY <4>1, <3>1, NodesAgree
    <3>4. w[n - 1] = h[n - 1][n - 1] /\ w[n] = h[n][n]
      BY <1>2, <3>1
    <3>. QED
      BY <2>2, <3>2, <3>3, <3>4
  <2>. QED
    BY <2>1, <2>2
<1>4. W(w)
  <2>1. [n \in Nat |-> w[n]] = [n \in Nat |-> IF n = 0 THEN {} ELSE NodesOver(w[n - 1])]
    BY <1>3
  <2>. QED
    BY <1>2, <2>1
<1>5. MimeNodes = CHOOSE f : W(f)
  BY DEF MimeNodes
<1>6. W(MimeNodes)
  BY <1>4, <1>5
<1>7. \A n \in Nat : MimeNodes[n] = IF n = 0 THEN {} ELSE NodesOver(MimeNodes[n - 1])
  BY <1>6
<1>8. \A n \in Nat : n + 1 \in Nat /\ n + 1 # 0 /\ (n + 1) - 1 = n
  OBVIOUS
<1>9. ASSUME NEW n \in Nat PROVE MimeNodes[n + 1] = NodesOver(MimeNodes[n])
  <2>1. n + 1 \in Nat /\ n + 1 # 0 /\ (n + 1) - 1 = n
    OBVIOUS
  <2>2. MimeNodes[n + 1] = NodesOver(MimeNodes[(n + 1) - 1])
    BY <1>7, <2>1
  <2>. QED
    BY <2>1, <2>2
<1>. QED
  BY <1>7, <1>9

-----------------------------------------------------------------------------
(* Texts *)

TextPiece == {"field", "open", "close", "text", "blank", "newline", "padding"} \X ({""} \cup STRING)
Piece == TextPiece \cup ({"attachment"} \X Seq(TextPiece))

(* What is in a text. *)
LEMMA PiecesAre ==
    /\ MailLine \subseteq TextPiece /\ TextPiece \subseteq Piece
    /\ Seq(TextPiece) \subseteq Seq(Piece)
    /\ NEWLINE \in TextPiece /\ PADDING \in TextPiece
    /\ NEWLINE \in Piece
<1>1. MailLine \subseteq TextPiece
  BY DEF MailLine, TextPiece
<1>2. TextPiece \subseteq Piece
  BY DEF Piece
<1>3. NEWLINE \in TextPiece /\ PADDING \in TextPiece
  <2>2. NEWLINE \in TextPiece
    BY DEF NEWLINE, TextPiece
  <2>3. PADDING \in TextPiece
    BY DEF PADDING, TextPiece
  <2>. QED
    BY <2>2, <2>3
<1> HIDE DEF TextPiece, Piece
<1>4. Seq(TextPiece) \subseteq Seq(Piece)
  BY <1>2
<1>. QED
  BY <1>1, <1>2, <1>3, <1>4

(* Flattening keeps what is in the parts. *)
LEMMA FlattenTyped ==
    ASSUME NEW A, NEW s \in Seq(Seq(A))
    PROVE  FlattenSeq(s) \in Seq(A)
<1>1. <<>> \in Seq(A)
  OBVIOUS
<1>. QED
  BY <1>1, Flattened

(* So does joining. *)
LEMMA JoinedTyped ==
    ASSUME NEW P, NEWLINE \in P, NEW texts \in Seq(Seq(P))
    PROVE  Joined(texts) \in Seq(P)
<1> DEFINE N == NEWLINE
           s == [i \in DOMAIN texts |-> IF i = 1 THEN texts[i] ELSE <<N>> \o texts[i]]
<1>1. N \in P
  OBVIOUS
<1> HIDE DEF N
<1>2. DOMAIN texts = 1 .. Len(texts) /\ Len(texts) \in Nat /\ \A i \in DOMAIN texts : texts[i] \in Seq(P)
  OBVIOUS
<1>3. <<N>> \in Seq(P)
  BY <1>1
<1>4. \A i \in DOMAIN texts : <<N>> \o texts[i] \in Seq(P)
  BY <1>2, <1>3, ConcatProperties
<1>5. s \in [1 .. Len(texts) -> Seq(P)]
  BY <1>2, <1>4
<1>6. s \in Seq(Seq(P))
  BY <1>2, <1>5
<1>7. Joined(texts) = FlattenSeq(s)
  BY DEF Joined, N
<1> HIDE DEF s
<1>. QED
  BY <1>6, <1>7, FlattenTyped

(* The text of lines. *)
LEMMA TextTyped ==
    ASSUME NEW lines \in Seq(MailLine)
    PROVE  TextOf(lines) \in Seq(TextPiece)
<1> DEFINE s == [i \in DOMAIN lines |-> IF lines[i] = Blank THEN <<>> ELSE <<lines[i]>>]
<1>1. DOMAIN lines = 1 .. Len(lines) /\ Len(lines) \in Nat /\ \A i \in DOMAIN lines : lines[i] \in TextPiece
  BY PiecesAre
<1>2. \A i \in DOMAIN lines : <<lines[i]>> \in Seq(TextPiece)
  BY <1>1
<1>3. <<>> \in Seq(TextPiece)
  BY EmptySeq
<1>4. s \in [1 .. Len(lines) -> Seq(TextPiece)]
  BY <1>1, <1>2, <1>3
<1>5. s \in Seq(Seq(TextPiece))
  BY <1>1, <1>4
<1>6. TextOf(lines) = Joined(s)
  BY DEF TextOf
<1> HIDE DEF s
<1>. QED
  BY <1>5, <1>6, PiecesAre, JoinedTyped

-----------------------------------------------------------------------------
(* Nodes *)

(* A sequence has elements from 1 on. *)
LEMMA Indexed ==
    ASSUME NEW S, NEW s \in Seq(S)
    PROVE  /\ DOMAIN s = 1 .. Len(s) /\ Len(s) \in Nat
           /\ \A i \in DOMAIN s : s[i] \in S
OBVIOUS

(* A node has children of one level less. *)
LEMMA NodeHas ==
    ASSUME NEW n \in Nat, NEW node \in MimeNodes[n + 1]
    PROVE  /\ node.state \in {"header", "body"}
           /\ node.header \in Seq(MailLine) /\ node.body \in Seq(MailLine)
           /\ node.boundary \in {""} \cup STRING /\ node.parentBoundary \in {""} \cup STRING
           /\ node.kids \in Seq(MimeNodes[n])
           /\ DOMAIN node.kids = 1 .. Len(node.kids) /\ Len(node.kids) \in Nat
           /\ \A i \in DOMAIN node.kids : node.kids[i] \in MimeNodes[n]
<1>1. node \in NodesOver(MimeNodes[n])
  BY NodesIs
<1> DEFINE kids == MimeNodes[n]
<1>2. node \in NodesOver(kids)
  BY <1>1
<1> HIDE DEF kids
<1>3. /\ node.state \in {"header", "body"}
      /\ node.header \in Seq(MailLine) /\ node.body \in Seq(MailLine)
      /\ node.boundary \in {""} \cup STRING /\ node.parentBoundary \in {""} \cup STRING
      /\ node.kids \in Seq(kids)
  BY <1>2 DEF NodesOver
<1>4. /\ DOMAIN node.kids = 1 .. Len(node.kids) /\ Len(node.kids) \in Nat
      /\ \A i \in DOMAIN node.kids : node.kids[i] \in kids
  BY <1>3, Indexed, Zenon
<1>. QED
  BY <1>3, <1>4, Zenon DEF kids

(* A node has a level. *)
LEMMA HasLevel ==
    ASSUME NEW n \in Nat, NEW node \in MimeNodes[n]
    PROVE  n - 1 \in Nat /\ n = (n - 1) + 1
<1>1. n # 0
  BY NodesIs
<1>. QED
  BY <1>1

(* The nodes of a level are among those of the next. *)
LEMMA LevelsGrow ==
    ASSUME NEW n \in Nat
    PROVE  MimeNodes[n] \subseteq MimeNodes[n + 1]
<1> DEFINE S == {k \in Nat : MimeNodes[k] \subseteq MimeNodes[k + 1]}
<1>1. 0 \in S
  BY NodesIs
<1>2. ASSUME NEW k \in Nat, k \in S PROVE k + 1 \in S
  <2>1. \A A, B : A \subseteq B => NodesOver(A) \subseteq NodesOver(B)
    <3> SUFFICES ASSUME NEW A, NEW B, A \subseteq B PROVE NodesOver(A) \subseteq NodesOver(B)
      OBVIOUS
    <3>1. Seq(A) \subseteq Seq(B)
      OBVIOUS
    <3>. QED
      BY <3>1 DEF NodesOver
  <2>2. k + 1 \in Nat
    OBVIOUS
  <2>3. MimeNodes[k + 1] = NodesOver(MimeNodes[k]) /\ MimeNodes[(k + 1) + 1] = NodesOver(MimeNodes[k + 1])
    BY <2>2, NodesIs
  <2>4. MimeNodes[k] \subseteq MimeNodes[k + 1]
    BY <1>2
  <2>5. MimeNodes[k + 1] \subseteq MimeNodes[(k + 1) + 1]
    <3> DEFINE A == MimeNodes[k]
               B == MimeNodes[k + 1]
    <3>1. A \subseteq B /\ B = NodesOver(A) /\ MimeNodes[(k + 1) + 1] = NodesOver(B)
      BY <2>3, <2>4
    <3> HIDE DEF A, B
    <3>2. NodesOver(A) \subseteq NodesOver(B)
      BY <2>1, <3>1
    <3>3. MimeNodes[k + 1] = NodesOver(A)
      BY <3>1 DEF B
    <3>. QED
      BY <3>1, <3>2, <3>3
  <2>. QED
    BY <2>2, <2>5
<1> HIDE DEF S
<1>3. n \in S
  BY <1>1, <1>2, AllNumbers
<1>. QED
  BY <1>3 DEF S

(* So they are among those of every higher one. *)
LEMMA Levels ==
    ASSUME NEW m \in Nat, NEW n \in Nat, m <= n
    PROVE  MimeNodes[m] \subseteq MimeNodes[n]
<1> DEFINE S == {k \in Nat : MimeNodes[m] \subseteq MimeNodes[m + k]}
<1>1. 0 \in S
  OBVIOUS
<1>2. ASSUME NEW k \in Nat, k \in S PROVE k + 1 \in S
  <2>1. m + k \in Nat /\ m + (k + 1) = (m + k) + 1
    OBVIOUS
  <2>2. MimeNodes[m + k] \subseteq MimeNodes[(m + k) + 1]
    BY <2>1, LevelsGrow
  <2>3. MimeNodes[m] \subseteq MimeNodes[m + k]
    BY <1>2
  <2>4. MimeNodes[m] \subseteq MimeNodes[m + (k + 1)]
    BY <2>1, <2>2, <2>3
  <2>. QED
    BY <2>4
<1> HIDE DEF S
<1>3. n - m \in S
  <2>1. n - m \in Nat
    OBVIOUS
  <2>. QED
    BY <2>1, <1>1, <1>2, AllNumbers
<1>4. m + (n - m) = n
  OBVIOUS
<1>5. MimeNodes[m] \subseteq MimeNodes[m + (n - m)]
  BY <1>3 DEF S
<1>. QED
  BY <1>4, <1>5

(* The text of a header, with the line break after it. *)
LEMMA HeaderTyped ==
    ASSUME NEW n \in Nat, NEW node \in MimeNodes[n]
    PROVE  /\ HeaderText(node) \in Seq(TextPiece)
           /\ TextOf(node.body) \in Seq(TextPiece)
           /\ TextOf(node.header) \in Seq(TextPiece)
<1>1. PICK m \in Nat : n = m + 1
  BY HasLevel
<1>2. node.header \in Seq(MailLine) /\ node.body \in Seq(MailLine)
  BY <1>1, NodeHas
<1>3. TextOf(node.header) \in Seq(TextPiece) /\ TextOf(node.body) \in Seq(TextPiece)
  BY <1>2, TextTyped
<1> DEFINE N == NEWLINE
<1>4. N \in TextPiece
  BY PiecesAre
<1> HIDE DEF N
<1>5. <<N>> \in Seq(TextPiece)
  BY <1>4
<1>6. TextOf(node.header) \o <<N>> \in Seq(TextPiece)
  BY <1>3, <1>5, ConcatProperties
<1>. QED
  BY <1>3, <1>6 DEF HeaderText, N

-----------------------------------------------------------------------------
(* rebuild and getLength, at each level *)

Texts == Seq(Seq(Piece))

(* What is put between texts is in texts. *)
LEMMA OneText ==
    /\ \A t \in Seq(Piece) : <<t>> \in Texts
    /\ \A x \in Piece : <<x>> \in Seq(Piece)
    /\ <<>> \in Texts
    /\ \A x, y \in Texts : x \o y \in Texts
    /\ \A x, y \in Seq(Piece) : x \o y \in Seq(Piece)
<1>1. \A t \in Seq(Piece) : <<t>> \in Texts
  BY DEF Texts
<1>2. <<>> \in Texts
  BY EmptySeq DEF Texts
<1>3. \A x, y \in Texts : x \o y \in Texts
  BY ConcatProperties DEF Texts
<1>4. \A x, y \in Seq(Piece) : x \o y \in Seq(Piece)
  BY ConcatProperties
<1>5. \A x \in Piece : <<x>> \in Seq(Piece)
  OBVIOUS
<1>. QED
  BY <1>1, <1>2, <1>3, <1>4, <1>5, Zenon

(* The delimiters of a node. *)
LEMMA Delimiters ==
    ASSUME NEW b \in {""} \cup STRING
    PROVE  /\ <<"open", b>> \in Piece /\ <<"close", b>> \in Piece
           /\ <<<<"open", b>>>> \in Seq(Piece) /\ <<<<"close", b>>>> \in Seq(Piece)
<1>1. <<"open", b>> \in Piece /\ <<"close", b>> \in Piece
  BY DEF Piece, TextPiece
<1>. QED
  BY <1>1, OneText, Zenon

(* A node's texts, from those of its children. *)
LEMMA EmittedOfTyped ==
    ASSUME NEW n \in Nat, NEW inner \in [MimeNodes[n] -> Texts], NEW node \in MimeNodes[n + 1]
    PROVE  EmittedOf(node, inner) \in Texts
<1>1. n + 1 \in Nat /\ node.boundary \in {""} \cup STRING
  <2>1. node.boundary \in {""} \cup STRING
    BY NodeHas, Zenon
  <2>2. n + 1 \in Nat
    OBVIOUS
  <2>. QED
    BY <2>1, <2>2, Zenon
<1>0. /\ DOMAIN node.kids = 1 .. Len(node.kids) /\ Len(node.kids) \in Nat
      /\ \A i \in DOMAIN node.kids : node.kids[i] \in MimeNodes[n]
  BY NodeHas, Zenon
<1> DEFINE d == <<"open", node.boundary>>
           Part(i) == <<HeaderText(node.kids[i])>> \o inner[node.kids[i]]
                        \o (IF i < Len(node.kids) THEN <<<<d>>>> ELSE <<>>)
           parts == [i \in DOMAIN node.kids |-> Part(i)]
           body == TextOf(node.body)
           closing == <<<<"close", node.boundary>>>>
           file == <<<<"attachment", body>>>>
<1>2. d \in Piece /\ <<d>> \in Seq(Piece) /\ closing \in Seq(Piece)
  BY <1>1, Delimiters
<1>3. body \in Seq(TextPiece) /\ body \in Seq(Piece)
  <2>1. body \in Seq(TextPiece)
    BY <1>1, HeaderTyped
  <2> HIDE DEF body
  <2>. QED
    BY <2>1, PiecesAre
<1>4. file \in Seq(Piece)
  <2> HIDE DEF body
  <2>1. <<"attachment", body>> \in Piece
    BY <1>3 DEF Piece
  <2>. QED
    BY <2>1, OneText, Zenon
<1>5. parts \in Seq(Texts)
  <2>1. ASSUME NEW i \in DOMAIN node.kids PROVE Part(i) \in Texts
    <3>1. node.kids[i] \in MimeNodes[n]
      BY <1>0
    <3> DEFINE kid == node.kids[i]
               h == HeaderText(kid)
               t == inner[kid]
               e == IF i < Len(node.kids) THEN <<<<d>>>> ELSE <<>>
    <3>2. h \in Seq(Piece)
      <4>1. h \in Seq(TextPiece)
        BY <3>1, HeaderTyped
      <4> HIDE DEF h
      <4>. QED
        BY <4>1, PiecesAre
    <3>3. t \in Texts
      BY <3>1
    <3>4. e \in Texts
      <4>1. <<<<d>>>> \in Texts
        <5> HIDE DEF d
        <5>. QED
          BY <1>2, OneText, Zenon
      <4> HIDE DEF d
      <4>. QED
        BY <4>1, OneText, Zenon
    <3> HIDE DEF h, t, e
    <3>5. <<h>> \in Texts
      BY <3>2, OneText, Zenon
    <3>6. <<h>> \o t \in Texts
      BY <3>3, <3>5, OneText, Zenon
    <3>7. (<<h>> \o t) \o e \in Texts
      BY <3>4, <3>6, OneText, Zenon
    <3>. QED
      BY <3>7 DEF h, t, e
  <2>2. DOMAIN node.kids = 1 .. Len(node.kids) /\ Len(node.kids) \in Nat
    BY <1>0
  <2> HIDE DEF Part
  <2>3. parts \in [1 .. Len(node.kids) -> Texts]
    BY <2>1, <2>2
  <2>. QED
    BY <2>2, <2>3
<1>6. FlattenSeq(parts) \in Texts
  <2> HIDE DEF parts
  <2>. QED
    BY <1>5, FlattenTyped DEF Texts
<1>7. CASE node.boundary # ""
  <2>1. EmittedOf(node, inner) = <<body \o <<d>>>> \o FlattenSeq(parts) \o <<closing>>
    <3>1. EmittedOf(node, inner) = CASE node.boundary # "" -> <<body \o <<d>>>> \o FlattenSeq(parts) \o <<closing>>
          [] node.boundary = "" /\ IsAttachment(node) -> <<file>>
          [] node.boundary = "" /\ ~ IsAttachment(node) -> <<body>>
      BY Zenon DEF EmittedOf
    <3> HIDE DEF d, parts, closing, body, file
    <3>. QED
      BY <1>7, <3>1
  <2> HIDE DEF d, parts, closing, body
  <2>2. body \o <<d>> \in Seq(Piece)
    BY <1>2, <1>3, OneText, Zenon
  <2>3. <<body \o <<d>>>> \in Texts /\ <<closing>> \in Texts
    BY <1>2, <2>2, OneText, Zenon
  <2>4. <<body \o <<d>>>> \o FlattenSeq(parts) \in Texts
    BY <1>6, <2>3, OneText, Zenon
  <2>5. (<<body \o <<d>>>> \o FlattenSeq(parts)) \o <<closing>> \in Texts
    BY <2>3, <2>4, OneText, Zenon
  <2>. QED
    BY <2>1, <2>5
<1>8. CASE node.boundary = ""
  <2>1. EmittedOf(node, inner) = <<file>> \/ EmittedOf(node, inner) = <<body>>
    <3>1. EmittedOf(node, inner) = CASE node.boundary # "" -> <<body \o <<d>>>> \o FlattenSeq(parts) \o <<closing>>
          [] node.boundary = "" /\ IsAttachment(node) -> <<file>>
          [] node.boundary = "" /\ ~ IsAttachment(node) -> <<body>>
      BY Zenon DEF EmittedOf
    <3> HIDE DEF d, parts, closing, body, file
    <3>. QED
      BY <1>8, <3>1
  <2> HIDE DEF file, body
  <2>2. <<file>> \in Texts /\ <<body>> \in Texts
    BY <1>3, <1>4, OneText, Zenon
  <2>. QED
    BY <2>1, <2>2
<1>. QED
  BY <1>7, <1>8

(* What rebuild emits of a node of any level is texts. *)
LEMMA EmittedTyped ==
    ASSUME NEW n \in Nat
    PROVE  Emitted[n] \in [MimeNodes[n] -> Texts]
<1> DEFINE T == [m \in Nat |-> [MimeNodes[m] -> Texts]]
           U == UNION {T[m] : m \in Nat}
           step == [p \in Nat \X U |-> EmittedOver(p[2])]
           E(f) == f = [m \in Nat |-> IF m = 0 THEN <<>> ELSE EmittedOver(f[m - 1])]
<1>1. <<>> \in T[0]
  <2>1. MimeNodes[0] = {}
    BY NodesIs
  <2>2. <<>> \in [{} -> Texts]
    OBVIOUS
  <2>. QED
    BY <2>1, <2>2
<1>2. ASSUME NEW m \in Nat, NEW v \in T[m] PROVE EmittedOver(v) \in T[m + 1]
  <2>1. v \in [MimeNodes[m] -> Texts]
    OBVIOUS
  <2>2. DOMAIN v = MimeNodes[m] /\ NodesOver(DOMAIN v) = MimeNodes[m + 1]
    BY <2>1, NodesIs
  <2>3. \A node \in MimeNodes[m + 1] : EmittedOf(node, v) \in Texts
    BY <2>1, EmittedOfTyped
  <2>4. EmittedOver(v) \in [MimeNodes[m + 1] -> Texts]
    BY <2>2, <2>3 DEF EmittedOver
  <2>. QED
    BY <2>4
<1>3. \A m \in Nat : \A v \in T[m] : <<m, v>> \in Nat \X U /\ step[<<m, v>>] = EmittedOver(v)
  OBVIOUS
<1> HIDE DEF T, U, step
<1>4. \A m \in Nat : \A v \in T[m] : step[<<m, v>>] \in T[m + 1]
  BY <1>2, <1>3
<1>5. PICK f : Endless(f, <<>>, step) /\ \A m \in Nat : f[m] \in T[m]
  BY <1>1, <1>4, ForeverTyped
<1>6. E(f)
  <2>1. f = [m \in Nat |-> IF m = 0 THEN <<>> ELSE step[<<m - 1, f[m - 1]>>]]
    BY <1>5 DEF Endless
  <2>2. \A m \in Nat : m # 0 => m - 1 \in Nat /\ f[m - 1] \in T[m - 1]
    BY <1>5
  <2>3. \A m \in Nat : m # 0 => step[<<m - 1, f[m - 1]>>] = EmittedOver(f[m - 1])
    BY <1>3, <2>2
  <2>4. [m \in Nat |-> IF m = 0 THEN <<>> ELSE step[<<m - 1, f[m - 1]>>]]
          = [m \in Nat |-> IF m = 0 THEN <<>> ELSE EmittedOver(f[m - 1])]
    BY <2>3
  <2>. QED
    BY <2>1, <2>4
<1>7. E(Emitted)
  <2>1. Emitted = CHOOSE g : E(g)
    BY DEF Emitted
  <2>. QED
    BY <1>6, <2>1
<1>8. Emitted[0] = <<>> /\ \A m \in Nat : Emitted[m + 1] = EmittedOver(Emitted[m])
  <2>1. \A m \in Nat : Emitted[m] = IF m = 0 THEN <<>> ELSE EmittedOver(Emitted[m - 1])
    BY <1>7
  <2>2. ASSUME NEW m \in Nat PROVE Emitted[m + 1] = EmittedOver(Emitted[m])
    <3>1. m + 1 \in Nat /\ m + 1 # 0 /\ (m + 1) - 1 = m
      OBVIOUS
    <3>2. Emitted[m + 1] = EmittedOver(Emitted[(m + 1) - 1])
      BY <2>1, <3>1
    <3>. QED
      BY <3>1, <3>2
  <2>. QED
    BY <2>1, <2>2
<1>9. \A m \in 0 .. n : Emitted[m] \in T[m]
  <2>1. ASSUME NEW m \in Nat, m < n, Emitted[m] \in T[m] PROVE Emitted[m + 1] \in T[m + 1]
    BY <1>2, <1>8, <2>1
  <2>. QED
    BY <1>1, <1>8, <2>1, TypedRun
<1>10. n \in 0 .. n
  OBVIOUS
<1>. QED
  BY <1>9, <1>10 DEF T

(* Sizes are numbers. *)
LEMMA SizesTyped ==
    ASSUME NEW n \in Nat, NEW node \in MimeNodes[n]
    PROVE  HeaderLength(node) \in Int /\ BodySize(node) \in Nat
<1>1. TextOf(node.header) \in Seq(TextPiece) /\ TextOf(node.body) \in Seq(TextPiece)
  BY HeaderTyped, Zenon
<1> DEFINE h == TextOf(node.header)
           b == TextOf(node.body)
<1>2. h \in Seq(TextPiece) /\ b \in Seq(TextPiece)
  BY <1>1
<1>3. HeaderLength(node) = Len(h) + 2 /\ BodySize(node) = Len(b)
  BY DEF HeaderLength, BodySize
<1> HIDE DEF h, b
<1>4. Len(h) \in Nat /\ Len(b) \in Nat
  BY <1>2
<1>. QED
  BY <1>3, <1>4

(* A node's length, from those of its children. *)
LEMMA AppendedOfTyped ==
    ASSUME NEW n \in Nat, NEW inner \in [MimeNodes[n] -> Int], NEW node \in MimeNodes[n + 1]
    PROVE  AppendedOf(node, inner) \in Int
<1>1. /\ Len(node.kids) \in Nat
      /\ DOMAIN node.kids = 1 .. Len(node.kids)
      /\ \A i \in DOMAIN node.kids : node.kids[i] \in MimeNodes[n]
  BY NodeHas, Zenon
<1>2. BodySize(node) \in Nat
  <2>1. n + 1 \in Nat
    OBVIOUS
  <2>. QED
    BY <2>1, SizesTyped, Zenon
<1>3. \A kid \in MimeNodes[n] : HeaderLength(kid) \in Int /\ inner[kid] \in Int
  <2>1. ASSUME NEW kid \in MimeNodes[n] PROVE HeaderLength(kid) \in Int /\ inner[kid] \in Int
    <3>1. HeaderLength(kid) \in Int
      BY SizesTyped, Zenon
    <3>2. inner[kid] \in Int
      OBVIOUS
    <3>. QED
      BY <3>1, <3>2
  <2>. QED
    BY <2>1
<1> DEFINE k == Len(node.kids)
           kids == node.kids
           size == BodySize(node)
           b == node.boundary
<1>4. \A i \in 1 .. k : kids[i] \in MimeNodes[n]
  BY <1>1
<1> DEFINE Add(v, i) == v + HeaderLength(kids[i]) + inner[kids[i]]
           R(f) == f = [i \in 0 .. k |-> IF i = 0 THEN 0 ELSE f[i - 1] + HeaderLength(kids[i]) + inner[kids[i]]]
           c == CHOOSE f : R(f)
           T == [i \in Nat |-> Int]
           step == [p \in Nat \X Int |-> Add(p[2], p[1] + 1)]
<1>5. AppendedOf(node, inner) =
        (IF size = 0 THEN 0 ELSE IF b = "" THEN size + 1 ELSE size)
          + (IF b = "" THEN 0 ELSE 2 + c[k] + 2 * Larger(k - 1, 0) + 3)
  BY Zenon DEF AppendedOf
<1>6. size \in Nat /\ k \in Nat
  BY <1>1, <1>2
<1>7. ASSUME NEW i \in 1 .. k, NEW v \in Int PROVE Add(v, i) \in Int
  <2>1. kids[i] \in MimeNodes[n]
    BY <1>4
  <2>2. HeaderLength(kids[i]) \in Int /\ inner[kids[i]] \in Int
    BY <1>3, <2>1
  <2> DEFINE x == HeaderLength(kids[i])
             y == inner[kids[i]]
  <2>3. x \in Int /\ y \in Int
    BY <2>2
  <2> HIDE DEF x, y
  <2>4. v + x + y \in Int
    BY <2>3
  <2>. QED
    BY <2>4 DEF x, y
<1>8. \A i \in Nat : \A v \in Int : <<i, v>> \in Nat \X Int /\ step[<<i, v>>] = Add(v, i + 1)
  OBVIOUS
<1>9. \A i \in Nat : T[i] = Int
  OBVIOUS
<1> HIDE DEF kids, k, size, b, T, step, Add
<1>10. \A i \in Nat : \A v \in T[i] : i < k => step[<<i, v>>] \in T[i + 1]
  <2> SUFFICES ASSUME NEW i \in Nat, NEW v \in T[i], i < k PROVE step[<<i, v>>] \in T[i + 1]
    OBVIOUS
  <2>1. i + 1 \in 1 .. k /\ i + 1 \in Nat
    BY <1>6
  <2>2. v \in Int /\ T[i + 1] = Int
    BY <1>9, <2>1
  <2>. QED
    BY <1>7, <1>8, <2>1, <2>2
<1>11. 0 \in T[0]
  BY <1>9
<1>12. PICK f : Ran(f, k, 0, step) /\ \A i \in 0 .. k : f[i] \in T[i]
  <2> HIDE DEF R, c
  <2>. QED
    BY <1>6, <1>10, <1>11, RunTyped
<1>13. R(f)
  <2>1. ASSUME NEW i \in 0 .. k, i # 0 PROVE step[<<i - 1, f[i - 1]>>] = Add(f[i - 1], i)
    <3>1. i - 1 \in Nat /\ i - 1 \in 0 .. k /\ (i - 1) + 1 = i
      BY <1>6, <2>1
    <3>2. f[i - 1] \in Int
      BY <1>9, <1>12, <3>1
    <3>. QED
      BY <1>8, <3>1, <3>2
  <2>2. [i \in 0 .. k |-> IF i = 0 THEN 0 ELSE step[<<i - 1, f[i - 1]>>]]
          = [i \in 0 .. k |-> IF i = 0 THEN 0 ELSE Add(f[i - 1], i)]
    BY <2>1
  <2>3. f = [i \in 0 .. k |-> IF i = 0 THEN 0 ELSE Add(f[i - 1], i)]
    BY <1>12, <2>2 DEF Ran
  <2>. QED
    BY <2>3 DEF Add
<1>14. R(c)
  BY <1>13
<1> HIDE DEF c
<1>15. c[0] = 0 /\ \A i \in 1 .. k : c[i] = Add(c[i - 1], i)
  <2>1. c = [i \in 0 .. k |-> IF i = 0 THEN 0 ELSE Add(c[i - 1], i)]
    BY <1>14 DEF Add
  <2>2. 0 \in 0 .. k /\ \A i \in 1 .. k : i \in 0 .. k /\ i # 0
    BY <1>6
  <2>. QED
    BY <2>1, <2>2
<1> HIDE DEF R
<1>16. \A i \in 0 .. k : c[i] \in T[i]
  <2>1. ASSUME NEW i \in Nat, i < k, c[i] \in T[i] PROVE c[i + 1] \in T[i + 1]
    <3>1. i + 1 \in 1 .. k /\ (i + 1) - 1 = i /\ i + 1 \in Nat
      BY <1>6, <2>1
    <3>2. c[i] \in Int
      BY <1>9, <2>1
    <3>3. c[i + 1] = Add(c[i], i + 1)
      BY <1>15, <3>1
    <3>. QED
      BY <1>7, <1>9, <3>1, <3>2, <3>3
  <2>2. c[0] \in T[0]
    BY <1>11, <1>15
  <2>. QED
    BY <1>6, <2>1, <2>2, TypedRun
<1>17. c[k] \in Int
  BY <1>6, <1>9, <1>16
<1>18. Larger(k - 1, 0) \in Int
  BY <1>6 DEF Larger
<1> DEFINE x == c[k]
           y == Larger(k - 1, 0)
           u == IF size = 0 THEN 0 ELSE IF b = "" THEN size + 1 ELSE size
           w == IF b = "" THEN 0 ELSE 2 + x + 2 * y + 3
<1>19. x \in Int /\ y \in Int
  BY <1>17, <1>18
<1>20. AppendedOf(node, inner) = u + w
  BY <1>5
<1> HIDE DEF x, y
<1>21. u \in Int
  <2>1. size \in Int /\ size + 1 \in Int /\ 0 \in Int
    BY <1>6
  <2>. QED
    BY <2>1, Zenon
<1>22. w \in Int
  BY <1>19
<1> HIDE DEF u, w
<1>23. u + w \in Int
  BY <1>21, <1>22
<1>. QED
  BY <1>20, <1>23

(* The length of what is appended for a node of any level is a number. *)
LEMMA AppendedTyped ==
    ASSUME NEW n \in Nat
    PROVE  Appended[n] \in [MimeNodes[n] -> Int]
<1> DEFINE T == [m \in Nat |-> [MimeNodes[m] -> Int]]
           U == UNION {T[m] : m \in Nat}
           step == [p \in Nat \X U |-> AppendedOver(p[2])]
           E(f) == f = [m \in Nat |-> IF m = 0 THEN <<>> ELSE AppendedOver(f[m - 1])]
<1>1. <<>> \in T[0]
  <2>1. MimeNodes[0] = {}
    BY NodesIs
  <2>2. <<>> \in [{} -> Int]
    OBVIOUS
  <2>. QED
    BY <2>1, <2>2
<1>2. ASSUME NEW m \in Nat, NEW v \in T[m] PROVE AppendedOver(v) \in T[m + 1]
  <2>1. v \in [MimeNodes[m] -> Int]
    OBVIOUS
  <2>2. DOMAIN v = MimeNodes[m] /\ NodesOver(DOMAIN v) = MimeNodes[m + 1]
    BY <2>1, NodesIs
  <2>3. \A node \in MimeNodes[m + 1] : AppendedOf(node, v) \in Int
    BY <2>1, AppendedOfTyped
  <2>4. AppendedOver(v) \in [MimeNodes[m + 1] -> Int]
    BY <2>2, <2>3 DEF AppendedOver
  <2>. QED
    BY <2>4
<1>3. \A m \in Nat : \A v \in T[m] : <<m, v>> \in Nat \X U /\ step[<<m, v>>] = AppendedOver(v)
  OBVIOUS
<1> HIDE DEF T, U, step
<1>4. \A m \in Nat : \A v \in T[m] : step[<<m, v>>] \in T[m + 1]
  BY <1>2, <1>3
<1>5. PICK f : Endless(f, <<>>, step) /\ \A m \in Nat : f[m] \in T[m]
  BY <1>1, <1>4, ForeverTyped
<1>6. E(f)
  <2>1. f = [m \in Nat |-> IF m = 0 THEN <<>> ELSE step[<<m - 1, f[m - 1]>>]]
    BY <1>5 DEF Endless
  <2>2. \A m \in Nat : m # 0 => m - 1 \in Nat /\ f[m - 1] \in T[m - 1]
    BY <1>5
  <2>3. \A m \in Nat : m # 0 => step[<<m - 1, f[m - 1]>>] = AppendedOver(f[m - 1])
    BY <1>3, <2>2
  <2>4. [m \in Nat |-> IF m = 0 THEN <<>> ELSE step[<<m - 1, f[m - 1]>>]]
          = [m \in Nat |-> IF m = 0 THEN <<>> ELSE AppendedOver(f[m - 1])]
    BY <2>3
  <2>. QED
    BY <2>1, <2>4
<1>7. E(Appended)
  <2>1. Appended = CHOOSE g : E(g)
    BY DEF Appended
  <2>. QED
    BY <1>6, <2>1
<1>8. Appended[0] = <<>> /\ \A m \in Nat : Appended[m + 1] = AppendedOver(Appended[m])
  <2>1. \A m \in Nat : Appended[m] = IF m = 0 THEN <<>> ELSE AppendedOver(Appended[m - 1])
    BY <1>7
  <2>2. ASSUME NEW m \in Nat PROVE Appended[m + 1] = AppendedOver(Appended[m])
    <3>1. m + 1 \in Nat /\ m + 1 # 0 /\ (m + 1) - 1 = m
      OBVIOUS
    <3>2. Appended[m + 1] = AppendedOver(Appended[(m + 1) - 1])
      BY <2>1, <3>1
    <3>. QED
      BY <3>1, <3>2
  <2>. QED
    BY <2>1, <2>2
<1>9. \A m \in 0 .. n : Appended[m] \in T[m]
  <2>1. ASSUME NEW m \in Nat, m < n, Appended[m] \in T[m] PROVE Appended[m + 1] \in T[m + 1]
    BY <1>2, <1>8, <2>1
  <2>. QED
    BY <1>1, <1>8, <2>1, TypedRun
<1>10. n \in 0 .. n
  OBVIOUS
<1>. QED
  BY <1>9, <1>10 DEF T

(* The text of a node that is rebuilt, and the length announced for it. *)
LEMMA RebuiltTyped ==
    ASSUME NEW n \in Nat, NEW node \in MimeNodes[n], NEW textOnly
    PROVE  Rebuilt(n, node, textOnly) \in Seq(Piece)
<1> DEFINE h == HeaderText(node)
           e == Emitted[n][node]
           start == IF textOnly THEN <<>> ELSE <<h>>
           N == NEWLINE
           end == IF LineCount(node) > 1 THEN <<N>> ELSE <<>>
           all == start \o e
<1>1. h \in Seq(Piece)
  <2>1. h \in Seq(TextPiece)
    BY HeaderTyped, Zenon
  <2> HIDE DEF h
  <2>. QED
    BY <2>1, PiecesAre
<1>2. e \in Texts
  <2>1. Emitted[n] \in [MimeNodes[n] -> Texts]
    BY EmittedTyped
  <2>. QED
    BY <2>1
<1>3. N \in Piece
  BY PiecesAre
<1>4. Rebuilt(n, node, textOnly) = Joined(all) \o end
  BY Zenon DEF Rebuilt
<1> HIDE DEF h, e, N
<1>5. start \in Texts
  <2>1. <<h>> \in Texts
    BY <1>1, OneText, Zenon
  <2>. QED
    BY <2>1, OneText, Zenon
<1>6. end \in Seq(Piece)
  <2>1. <<N>> \in Seq(Piece)
    BY <1>3
  <2>2. <<>> \in Seq(Piece)
    OBVIOUS
  <2>. QED
    BY <2>1, <2>2
<1> HIDE DEF start, end
<1>7. all \in Texts
  BY <1>2, <1>5, OneText, Zenon
<1> HIDE DEF all
<1>8. Joined(all) \in Seq(Piece)
  BY <1>3, <1>7, JoinedTyped DEF N, Texts
<1>. QED
  BY <1>4, <1>6, <1>8, OneText, Zenon

(* What getLength returns is a number. *)
LEMMA LengthTyped ==
    ASSUME NEW n \in Nat, NEW node \in MimeNodes[n], NEW textOnly
    PROVE  Length(n, node, textOnly) \in Nat
<1> DEFINE h == HeaderLength(node)
           a == Appended[n][node]
<1>1. h \in Int
  BY SizesTyped, Zenon
<1>2. a \in Int
  <2>1. Appended[n] \in [MimeNodes[n] -> Int]
    BY AppendedTyped
  <2>. QED
    BY <2>1
<1>3. Length(n, node, textOnly) = Larger((IF textOnly THEN 0 ELSE h) + a - 1, 0)
  BY DEF Length
<1> HIDE DEF h, a
<1>4. Larger((IF textOnly THEN 0 ELSE h) + a - 1, 0) \in Nat
  BY <1>1, <1>2 DEF Larger
<1>. QED
  BY <1>3, <1>4

-----------------------------------------------------------------------------
(* The parser of mails *)

(* Changing a node keeps its level and its parent's boundary. *)
LEMMA NodeWith ==
    ASSUME NEW n \in Nat, NEW node \in MimeNodes[n]
    PROVE  /\ \A line \in MailLine :
                 /\ [node EXCEPT !.header = Append(@, line)] \in MimeNodes[n]
                 /\ [node EXCEPT !.header = Append(@, line)].parentBoundary = node.parentBoundary
                 /\ [node EXCEPT !.body = Append(@, line)] \in MimeNodes[n]
                 /\ [node EXCEPT !.body = Append(@, line)].parentBoundary = node.parentBoundary
           /\ ProcessHeader(node) \in MimeNodes[n]
           /\ ProcessHeader(node).parentBoundary = node.parentBoundary
<1>1. PICK m \in Nat : n = m + 1
  BY HasLevel
<1> DEFINE kids == MimeNodes[m]
<1>2. MimeNodes[n] = NodesOver(kids)
  BY <1>1, NodesIs
<1> HIDE DEF kids
<1>3. node \in NodesOver(kids)
  BY <1>2
<1>4. ASSUME NEW line \in MailLine
      PROVE  /\ [node EXCEPT !.header = Append(@, line)] \in NodesOver(kids)
             /\ [node EXCEPT !.header = Append(@, line)].parentBoundary = node.parentBoundary
             /\ [node EXCEPT !.body = Append(@, line)] \in NodesOver(kids)
             /\ [node EXCEPT !.body = Append(@, line)].parentBoundary = node.parentBoundary
  <2>1. node.header \in Seq(MailLine) /\ node.body \in Seq(MailLine)
    BY <1>3 DEF NodesOver
  <2>2. Append(node.header, line) \in Seq(MailLine) /\ Append(node.body, line) \in Seq(MailLine)
    BY <2>1, EndOfAppend, Zenon
  <2>. QED
    BY <1>3, <2>2 DEF NodesOver
<1>5. ProcessHeader(node) \in NodesOver(kids) /\ ProcessHeader(node).parentBoundary = node.parentBoundary
  <2> DEFINE types == Types(node)
             b == IF types \subseteq {"text", "file"} THEN ""
                  ELSE CHOOSE t \in types \ {"text", "file"} : TRUE
  <2>1. types \subseteq STRING
    <3>1. node.header \in Seq(MailLine)
      BY <1>3 DEF NodesOver
    <3>2. \A i \in DOMAIN node.header : node.header[i][2] \in STRING
      BY <3>1 DEF MailLine
    <3>. QED
      BY <3>2 DEF Types
  <2> HIDE DEF types
  <2>2. b \in {""} \cup STRING
    <3>1. CASE types \subseteq {"text", "file"}
      BY <3>1
    <3>2. CASE ~ (types \subseteq {"text", "file"})
      <4>1. \E t \in types \ {"text", "file"} : TRUE
        BY <3>2
      <4>2. (CHOOSE t \in types \ {"text", "file"} : TRUE) \in types
        BY <4>1
      <4>. QED
        BY <2>1, <3>2, <4>2
    <3>. QED
      BY <3>1, <3>2
  <2>3. ProcessHeader(node) = [node EXCEPT !.state = "body", !.boundary = b]
    BY DEF ProcessHeader, types
  <2> HIDE DEF b
  <2>. QED
    BY <1>3, <2>2, <2>3 DEF NodesOver
<1>. QED
  BY <1>2, <1>4, <1>5

(* A node with a child more. *)
LEMMA KidTyped ==
    ASSUME NEW n \in Nat, NEW node \in MimeNodes[n], NEW kid \in MimeNodes[n]
    PROVE  WithKid(node, kid) \in MimeNodes[n + 1] /\ WithKid(node, kid).parentBoundary = node.parentBoundary
<1> DEFINE kids == MimeNodes[n]
<1>1. MimeNodes[n + 1] = NodesOver(kids)
  BY NodesIs
<1>2. node \in NodesOver(kids) /\ kid \in kids
  BY <1>1, LevelsGrow
<1> HIDE DEF kids
<1>3. Append(node.kids, kid) \in Seq(kids)
  <2>1. node.kids \in Seq(kids)
    BY <1>2 DEF NodesOver
  <2>. QED
    BY <1>2, <2>1, EndOfAppend, Zenon
<1>4. WithKid(node, kid) \in NodesOver(kids) /\ WithKid(node, kid).parentBoundary = node.parentBoundary
  BY <1>2, <1>3 DEF NodesOver, WithKid
<1>. QED
  BY <1>1, <1>4

(* A number that is not 0 comes after another. *)
LEMMA Before ==
    ASSUME NEW n \in Nat, n # 0
    PROVE  \E m \in Nat : n = m + 1
<1>1. n - 1 \in Nat /\ n = (n - 1) + 1
  OBVIOUS
<1>. QED
  BY <1>1

(* A new node is of every level but none. *)
LEMMA NewTyped ==
    ASSUME NEW n \in Nat, n # 0, NEW b \in {""} \cup STRING
    PROVE  MimeNode(b) \in MimeNodes[n] /\ MimeNode(b).parentBoundary = b
<1>1. PICK m \in Nat : n = m + 1
  BY Before
<1> DEFINE kids == MimeNodes[m]
<1>2. MimeNodes[n] = NodesOver(kids)
  BY <1>1, NodesIs
<1> HIDE DEF kids
<1>3. <<>> \in Seq(MailLine) /\ <<>> \in Seq(kids)
  BY EmptySeq
<1>4. MimeNode(b) \in NodesOver(kids) /\ MimeNode(b).parentBoundary = b
  BY <1>3 DEF MimeNode, NodesOver
<1>. QED
  BY <1>2, <1>4

(* The stack: nodes of less than d levels, the first being the root. *)
Stacked(s, d) == s \in Seq(MimeNodes[d]) /\ s # <<>> /\ s[1].parentBoundary = ""

(* Its nodes are of every higher level too. *)
LEMMA StackedDeeper ==
    ASSUME NEW s, NEW d \in Nat, NEW e \in Nat, d <= e, Stacked(s, d)
    PROVE  Stacked(s, e)
<1>1. MimeNodes[d] \subseteq MimeNodes[e]
  BY Levels
<1> DEFINE A == MimeNodes[d]
           B == MimeNodes[e]
<1>2. A \subseteq B /\ s \in Seq(A)
  BY <1>1 DEF Stacked
<1> HIDE DEF A, B
<1>3. s \in Seq(B)
  BY <1>2
<1>. QED
  BY <1>3 DEF Stacked, B

(* The node on top; one that has a parent is not the root. *)
LEMMA TopOf ==
    ASSUME NEW s, NEW d \in Nat, Stacked(s, d)
    PROVE  /\ Last(s) \in MimeNodes[d] /\ Len(s) \in Nat /\ Len(s) # 0 /\ d # 0
           /\ Last(s).parentBoundary # "" => Len(s) # 1
<1> DEFINE A == MimeNodes[d]
<1>1. s \in Seq(A) /\ s # <<>> /\ s[1].parentBoundary = ""
  BY DEF Stacked
<1>2. d = 0 => A = {}
  BY NodesIs
<1> HIDE DEF A
<1>3. Len(s) \in Nat /\ Len(s) # 0 /\ Last(s) = s[Len(s)] /\ Last(s) \in A
  <2>1. Len(s) \in Nat \ {0} /\ Last(s) \in A
    BY <1>1, Ended, Zenon
  <2>2. Len(s) \in Nat /\ Len(s) # 0
    BY <2>1
  <2>. QED
    BY <2>1, <2>2 DEF Last
<1>4. d # 0
  BY <1>2, <1>3
<1>5. Last(s).parentBoundary # "" => Len(s) # 1
  BY <1>1, <1>3
<1>. QED
  BY <1>3, <1>4, <1>5 DEF A

(* Another node on top of the same one, *)
LEMMA PushTyped ==
    ASSUME NEW s, NEW d \in Nat, Stacked(s, d), NEW x \in MimeNodes[d]
    PROVE  Stacked(Append(s, x), d) /\ Len(Append(s, x)) = Len(s) + 1
<1> DEFINE A == MimeNodes[d]
           t == Append(s, x)
<1>1. s \in Seq(A) /\ s # <<>> /\ s[1].parentBoundary = "" /\ x \in A
  BY DEF Stacked
<1> HIDE DEF A
<1>2. t \in Seq(A) /\ t # <<>> /\ Len(t) = Len(s) + 1 /\ \A i \in 1 .. Len(s) : t[i] = s[i]
  <2>1. /\ Append(s, x) \in Seq(A) /\ Append(s, x) # <<>> /\ Len(Append(s, x)) = Len(s) + 1
        /\ \A i \in 1 .. Len(s) : Append(s, x)[i] = s[i]
    <3>1. s \in Seq(A) /\ x \in A
      BY <1>1
    <3>. QED
      BY <3>1, EndOfAppend, ZenonT(40)
  <2>. QED
    BY <2>1
<1>3. 1 \in 1 .. Len(s)
  <2>1. Len(s) \in Nat \ {0}
    BY <1>1, Ended, Zenon
  <2>. QED
    BY <2>1
<1> HIDE DEF t
<1>4. t[1].parentBoundary = ""
  BY <1>1, <1>2, <1>3
<1>5. Stacked(t, d)
  BY <1>2, <1>4 DEF Stacked, A
<1>. QED
  BY <1>2, <1>5 DEF t

(* another end of a sequence, *)
LEMMA EndReplaced ==
    ASSUME NEW S, NEW s \in Seq(S), s # <<>>, NEW x \in S
    PROVE  /\ Append(Front(s), x) \in Seq(S) /\ Append(Front(s), x) # <<>>
           /\ Len(Append(Front(s), x)) = Len(s)
           /\ Append(Front(s), x)[Len(s)] = x /\ Last(s) = s[Len(s)] /\ Len(s) \in Nat \ {0}
           /\ \A i \in 1 .. Len(s) : i # Len(s) => Append(Front(s), x)[i] = s[i]
<1> DEFINE f == Front(s)
           y == Last(s)
           t == Append(f, x)
<1>1. f \in Seq(S) /\ y \in S /\ s = Append(f, y) /\ Len(s) \in Nat \ {0}
  BY Ended
<1>2. y = s[Len(s)]
  BY DEF Last
<1> HIDE DEF f, y
<1>3. t \in Seq(S) /\ t # <<>> /\ Len(t) = Len(f) + 1 /\ t[Len(f) + 1] = x /\ \A i \in 1 .. Len(f) : t[i] = f[i]
  BY <1>1, EndOfAppend
<1>4. Len(s) = Len(f) + 1 /\ \A i \in 1 .. Len(f) : s[i] = f[i]
  BY <1>1, EndOfAppend
<1> HIDE DEF t
<1>5. \A i \in 1 .. Len(s) : i # Len(s) => i \in 1 .. Len(f)
  BY <1>1, <1>4
<1>6. \A i \in 1 .. Len(s) : i # Len(s) => t[i] = s[i]
  BY <1>3, <1>4, <1>5
<1>7. Len(t) = Len(s) /\ t[Len(s)] = x
  BY <1>3, <1>4
<1>. QED
  BY <1>1, <1>2, <1>3, <1>6, <1>7 DEF t, f, y

SameParent(x, y) == x.parentBoundary = y.parentBoundary

(* and another node in place of the one on top. *)
LEMMA ReplaceTyped ==
    ASSUME NEW s, NEW d \in Nat, Stacked(s, d), NEW x \in MimeNodes[d],
           SameParent(x, Last(s))
    PROVE  Stacked(Append(Front(s), x), d) /\ Len(Append(Front(s), x)) = Len(s)
<1> DEFINE A == MimeNodes[d]
           t == Append(Front(s), x)
<1>1. s \in Seq(A) /\ s # <<>> /\ x \in A
  BY Zenon DEF Stacked
<1> HIDE DEF A
<1>2. t \in Seq(A) /\ t # <<>>
  BY <1>1, EndReplaced
<1>3. Len(t) = Len(s) /\ t[Len(s)] = x /\ Last(s) = s[Len(s)]
  BY <1>1, EndReplaced
<1>4. Len(s) \in Nat \ {0} /\ \A i \in 1 .. Len(s) : i # Len(s) => t[i] = s[i]
  BY <1>1, EndReplaced
<1> HIDE DEF t
<1>5. t[1].parentBoundary = s[1].parentBoundary
  <2>1. 1 \in 1 .. Len(s)
    BY <1>4
  <2>2. CASE Len(s) = 1
    BY <1>3, <2>2 DEF SameParent
  <2>3. CASE Len(s) # 1
    <3>1. t[1] = s[1]
      BY <1>4, <2>1, <2>3
    <3>. QED
      BY <3>1
  <2>. QED
    BY <2>2, <2>3
<1>6. s[1].parentBoundary = ""
  BY DEF Stacked
<1>7. Stacked(t, d)
  BY <1>2, <1>5, <1>6 DEF Stacked, A
<1>. QED
  BY <1>3, <1>7 DEF t

(* What is below the top. *)
LEMMA BelowTyped ==
    ASSUME NEW s, NEW d \in Nat, Stacked(s, d), Len(s) # 1
    PROVE  Stacked(Front(s), d) /\ Len(Front(s)) = Len(s) - 1
<1> DEFINE A == MimeNodes[d]
           f == Front(s)
           y == Last(s)
<1>1. s \in Seq(A) /\ s # <<>> /\ s[1].parentBoundary = ""
  BY DEF Stacked
<1> HIDE DEF A
<1>2. f \in Seq(A) /\ y \in A /\ s = Append(f, y) /\ Len(s) \in Nat \ {0}
  BY <1>1, Ended
<1> HIDE DEF f, y
<1>3. Len(s) = Len(f) + 1 /\ \A i \in 1 .. Len(f) : s[i] = f[i]
  BY <1>2, EndOfAppend
<1>4. Len(f) \in Nat /\ Len(f) # 0
  BY <1>2, <1>3
<1>5. f # <<>> /\ f[1] = s[1]
  <2>1. 1 \in 1 .. Len(f)
    BY <1>4
  <2>2. f # <<>>
    BY <1>4, Empty0
  <2>. QED
    BY <1>3, <2>1, <2>2
<1>6. Stacked(f, d)
  BY <1>1, <1>2, <1>5 DEF Stacked, A
<1>7. Len(f) = Len(s) - 1
  BY <1>3, <1>4
<1>. QED
  BY <1>6, <1>7 DEF f

(* The top becomes a child of the one below. *)
LEMMA PopTyped ==
    ASSUME NEW s, NEW d \in Nat, Stacked(s, d), Len(s) # 1
    PROVE  Stacked(ToParent(s), d + 1) /\ Len(ToParent(s)) = Len(s) - 1
<1> DEFINE f == Front(s)
           x == WithKid(Last(f), Last(s))
<1>1. Stacked(f, d) /\ Len(f) = Len(s) - 1
  BY BelowTyped
<1>2. Last(s) \in MimeNodes[d]
  BY TopOf
<1> HIDE DEF f
<1>3. Last(f) \in MimeNodes[d]
  BY <1>1, TopOf
<1>4. x \in MimeNodes[d + 1] /\ x.parentBoundary = Last(f).parentBoundary
  BY <1>2, <1>3, KidTyped
<1>5. d + 1 \in Nat /\ d <= d + 1
  OBVIOUS
<1>6. Stacked(f, d + 1)
  BY <1>1, <1>5, StackedDeeper
<1> HIDE DEF x
<1>7. Stacked(Append(Front(f), x), d + 1) /\ Len(Append(Front(f), x)) = Len(f)
  <2>1. SameParent(x, Last(f))
    BY <1>4 DEF SameParent
  <2>. QED
    BY <1>4, <1>5, <1>6, <2>1, ReplaceTyped
<1>8. ToParent(s) = Append(Front(f), x)
  BY DEF ToParent, f, x
<1>. QED
  BY <1>1, <1>7, <1>8

(* What becomes of the stack: another node on top, or its parent, or a child. *)
LEMMA ReadLineIs ==
    ASSUME NEW s, NEW line
    PROVE  \/ ReadLine(s, line) = Append(Front(s), ProcessHeader(Last(s)))
           \/ ReadLine(s, line) = Append(Front(s), [Last(s) EXCEPT !.header = Append(@, line)])
           \/ ReadLine(s, line) = Append(Front(s), [Last(s) EXCEPT !.body = Append(@, line)])
           \/ Last(s).parentBoundary # ""
                /\ ReadLine(s, line) = Append(ToParent(s), MimeNode(Last(s).parentBoundary))
           \/ Last(s).parentBoundary # "" /\ ReadLine(s, line) = ToParent(s)
           \/ ReadLine(s, line) = Append(s, MimeNode(Last(s).boundary))
<1> DEFINE node == Last(s)
           opens == node.parentBoundary # "" /\ line = <<"open", node.parentBoundary>>
           closes == node.parentBoundary # "" /\ line = <<"close", node.parentBoundary>>
           child == node.boundary # "" /\ line = <<"open", node.boundary>> /\ ~ opens
           a == Append(Front(s), ProcessHeader(node))
           b == Append(Front(s), [node EXCEPT !.header = Append(@, line)])
           c == Append(ToParent(s), MimeNode(node.parentBoundary))
           d == ToParent(s)
           e == Append(s, MimeNode(node.boundary))
           f == Append(Front(s), [node EXCEPT !.body = Append(@, line)])
<1>1. node.state = "header" => ReadLine(s, line) = a \/ ReadLine(s, line) = b
  <2>1. node.state = "header" /\ line = Blank => ReadLine(s, line) = a
    BY DEF ReadLine
  <2>2. node.state = "header" /\ line # Blank => ReadLine(s, line) = b
    BY DEF ReadLine
  <2>. QED
    BY <2>1, <2>2
<1>2. node.state # "header" => ReadLine(s, line) =
         CASE opens -> c [] closes -> d [] child -> e [] OTHER -> f
  BY Zenon DEF ReadLine
<1>3. opens => node.parentBoundary # ""
  OBVIOUS
<1>4. closes => node.parentBoundary # ""
  OBVIOUS
<1> HIDE DEF opens, closes, child, a, b, c, d, e, f
<1>5. node.state # "header" =>
        \/ opens /\ ReadLine(s, line) = c
        \/ closes /\ ReadLine(s, line) = d
        \/ ReadLine(s, line) = e
        \/ ReadLine(s, line) = f
  BY <1>2
<1>6. \/ ReadLine(s, line) = a
      \/ ReadLine(s, line) = b
      \/ ReadLine(s, line) = f
      \/ node.parentBoundary # "" /\ ReadLine(s, line) = c
      \/ node.parentBoundary # "" /\ ReadLine(s, line) = d
      \/ ReadLine(s, line) = e
  BY <1>1, <1>3, <1>4, <1>5
<1>. QED
  BY <1>6, Zenon DEF a, b, c, d, e, f

(* A stack after i lines: the deeper it is, the fewer levels its nodes have. *)
After(s, i) == \E d \in Nat : Stacked(s, d) /\ Len(s) \in Nat /\ d + Len(s) <= i + 2

(* What is above what a stack may have after i lines is below. *)
LEMMA AfterIs ==
    ASSUME NEW t, NEW e \in Nat, NEW m \in Nat, NEW i \in Nat, Stacked(t, e), Len(t) = m, e + m <= i + 2
    PROVE  After(t, i)
BY DEF After

(* A line takes the stack to one of those after it. *)
LEMMA ReadLineTyped ==
    ASSUME NEW s, NEW i \in Nat, After(s, i), NEW line \in MailLine
    PROVE  After(ReadLine(s, line), i + 1)
<1>1. PICK d \in Nat : Stacked(s, d) /\ Len(s) \in Nat /\ d + Len(s) <= i + 2
  BY DEF After
<1>2. Last(s) \in MimeNodes[d] /\ d # 0
  BY <1>1, TopOf, Zenon
<1>3. Len(s) # 0 /\ (Last(s).parentBoundary # "" => Len(s) # 1)
  BY <1>1, TopOf, Zenon
<1>4. Last(s).parentBoundary \in {""} \cup STRING /\ Last(s).boundary \in {""} \cup STRING
  <2>1. PICK m \in Nat : d = m + 1
    BY <1>2, Before
  <2>2. Last(s) \in MimeNodes[m + 1]
    BY <1>2, <2>1
  <2>. QED
    BY <2>2, NodeHas, Zenon
<1>5. PICK m \in Nat : m = Len(s) /\ m # 0 /\ d + m <= i + 2
  BY <1>1, <1>3
<1>6. /\ d + m <= (i + 1) + 2 /\ d + (m + 1) <= (i + 1) + 2
      /\ (d + 1) + (m - 1) <= (i + 1) + 2 /\ (d + 1) + m <= (i + 1) + 2
      /\ m - 1 \in Nat /\ m + 1 \in Nat /\ d + 1 \in Nat /\ d + 1 # 0 /\ i + 1 \in Nat /\ (m - 1) + 1 = m
  BY <1>5
<1>7. PICK t : t = ReadLine(s, line)
  OBVIOUS
<1> SUFFICES After(t, i + 1)
  BY <1>7, Zenon
<1>8. ASSUME NEW x \in MimeNodes[d], SameParent(x, Last(s)), t = Append(Front(s), x) PROVE After(t, i + 1)
  <2>1. Stacked(t, d) /\ Len(t) = m
    BY <1>1, <1>5, <1>8, ReplaceTyped
  <2>. QED
    BY <1>6, <2>1, AfterIs, Zenon
<1>9. CASE t = Append(Front(s), ProcessHeader(Last(s)))
  <2>1. ProcessHeader(Last(s)) \in MimeNodes[d] /\ SameParent(ProcessHeader(Last(s)), Last(s))
    BY <1>2, NodeWith DEF SameParent
  <2>. QED
    BY <1>8, <1>9, <2>1, Zenon
<1>10. CASE t = Append(Front(s), [Last(s) EXCEPT !.header = Append(@, line)])
  <2> DEFINE x == [Last(s) EXCEPT !.header = Append(@, line)]
  <2>1. x \in MimeNodes[d] /\ SameParent(x, Last(s))
    BY <1>2, NodeWith DEF SameParent
  <2>2. t = Append(Front(s), x)
    BY <1>10
  <2> HIDE DEF x
  <2>. QED
    BY <1>8, <2>1, <2>2, Zenon
<1>11. CASE t = Append(Front(s), [Last(s) EXCEPT !.body = Append(@, line)])
  <2> DEFINE x == [Last(s) EXCEPT !.body = Append(@, line)]
  <2>1. x \in MimeNodes[d] /\ SameParent(x, Last(s))
    BY <1>2, NodeWith DEF SameParent
  <2>2. t = Append(Front(s), x)
    BY <1>11
  <2> HIDE DEF x
  <2>. QED
    BY <1>8, <2>1, <2>2, Zenon
<1>12. ASSUME Last(s).parentBoundary # ""
       PROVE  Stacked(ToParent(s), d + 1) /\ Len(ToParent(s)) = m - 1
  <2>1. Len(s) # 1
    BY <1>3, <1>12
  <2>. QED
    BY <1>1, <1>5, <2>1, PopTyped
<1>13. CASE Last(s).parentBoundary # "" /\ t = ToParent(s)
  <2>1. Stacked(t, d + 1) /\ Len(t) = m - 1
    BY <1>12, <1>13
  <2>. QED
    BY <1>6, <2>1, AfterIs, Zenon
<1>14. CASE Last(s).parentBoundary # "" /\ t = Append(ToParent(s), MimeNode(Last(s).parentBoundary))
  <2> DEFINE p == ToParent(s)
             x == MimeNode(Last(s).parentBoundary)
  <2>1. Stacked(p, d + 1) /\ Len(p) = m - 1 /\ t = Append(p, x)
    BY <1>12, <1>14
  <2>2. x \in MimeNodes[d + 1]
    BY <1>4, <1>6, NewTyped
  <2> HIDE DEF p, x
  <2>3. Stacked(t, d + 1) /\ Len(t) = Len(p) + 1
    BY <1>6, <2>1, <2>2, PushTyped
  <2>4. Len(t) = m
    BY <1>6, <2>1, <2>3
  <2>. QED
    BY <1>6, <2>3, <2>4, AfterIs, Zenon
<1>15. CASE t = Append(s, MimeNode(Last(s).boundary))
  <2> DEFINE x == MimeNode(Last(s).boundary)
  <2>1. x \in MimeNodes[d]
    BY <1>2, <1>4, NewTyped
  <2>2. t = Append(s, x)
    BY <1>15
  <2> HIDE DEF x
  <2>3. Stacked(t, d) /\ Len(t) = m + 1
    BY <1>1, <1>5, <2>1, <2>2, PushTyped
  <2>. QED
    BY <1>6, <2>3, AfterIs, Zenon
<1>16. \/ t = Append(Front(s), ProcessHeader(Last(s)))
       \/ t = Append(Front(s), [Last(s) EXCEPT !.header = Append(@, line)])
       \/ t = Append(Front(s), [Last(s) EXCEPT !.body = Append(@, line)])
       \/ Last(s).parentBoundary # "" /\ t = Append(ToParent(s), MimeNode(Last(s).parentBoundary))
       \/ Last(s).parentBoundary # "" /\ t = ToParent(s)
       \/ t = Append(s, MimeNode(Last(s).boundary))
  BY <1>7, ReadLineIs, Zenon
<1>. QED
  BY <1>9, <1>10, <1>11, <1>13, <1>14, <1>15, <1>16, Zenon

(* Sets for the types of a recursion: the stacks after each number of lines. *)
Stacks(i) == {s \in UNION {Seq(MimeNodes[d]) : d \in Nat} : After(s, i)}

(* They are sets of stacks. *)
LEMMA InStacks == ASSUME NEW s, NEW i \in Nat PROVE s \in Stacks(i) <=> After(s, i)
<1>1. After(s, i) => \E d \in Nat : s \in Seq(MimeNodes[d])
  BY DEF After, Stacked
<1>2. (\E d \in Nat : s \in Seq(MimeNodes[d])) => s \in UNION {Seq(MimeNodes[d]) : d \in Nat}
  OBVIOUS
<1>. QED
  BY <1>1, <1>2 DEF Stacks

(* The stack at first. *)
LEMMA FirstStack == <<MimeNode("")>> \in Stacks(0)
<1> DEFINE x == MimeNode("")
           A == MimeNodes[1]
           s == <<x>>
<1>1. x \in A /\ x.parentBoundary = ""
  <2>1. 1 \in Nat /\ 1 # 0 /\ "" \in {""} \cup STRING
    OBVIOUS
  <2>. QED
    BY <2>1, NewTyped, Zenon
<1> HIDE DEF x, A
<1>2. s \in Seq(A) /\ s # <<>>
  <2>1. x \in A
    BY <1>1, Zenon
  <2>. QED
    BY <2>1
<1>3. s[1] = x /\ Len(s) = 1
  OBVIOUS
<1> HIDE DEF s
<1>4. Stacked(s, 1)
  BY <1>1, <1>2, <1>3 DEF Stacked, A
<1>5. 1 \in Nat /\ 0 \in Nat /\ 1 + 1 <= 0 + 2
  OBVIOUS
<1>6. After(s, 0)
  BY <1>3, <1>4, <1>5, AfterIs, Zenon
<1>. QED
  BY <1>6, InStacks DEF s, x

(* The stack after all the lines. *)
LEMMA ReadLinesTyped ==
    ASSUME NEW lines \in Seq(MailLine)
    PROVE  After(ReadLines(lines), Len(lines))
<1> DEFINE k == Len(lines)
           first == <<MimeNode("")>>
           R(f) == f = [i \in 0 .. k |-> IF i = 0 THEN first ELSE ReadLine(f[i - 1], lines[i])]
           c == CHOOSE f : R(f)
           T == [i \in Nat |-> Stacks(i)]
           U == UNION {T[i] : i \in Nat}
           step == [p \in Nat \X U |-> ReadLine(p[2], lines[p[1] + 1])]
<1>1. k \in Nat /\ \A i \in 1 .. k : lines[i] \in MailLine
  OBVIOUS
<1>2. ReadLines(lines) = c[k]
  BY DEF ReadLines
<1>3. first \in Stacks(0)
  BY FirstStack DEF first
<1> HIDE DEF first
<1>4. \A i \in Nat : T[i] = Stacks(i)
  OBVIOUS
<1>5. \A i \in Nat : \A v \in T[i] : <<i, v>> \in Nat \X U /\ step[<<i, v>>] = ReadLine(v, lines[i + 1])
  OBVIOUS
<1> HIDE DEF k, T, U, step
<1>6. ASSUME NEW i \in Nat, NEW v \in T[i], i < k PROVE ReadLine(v, lines[i + 1]) \in T[i + 1]
  <2>1. i + 1 \in 1 .. k /\ i + 1 \in Nat
    BY <1>1, <1>6
  <2>2. After(v, i)
    BY <1>4, InStacks
  <2>3. lines[i + 1] \in MailLine
    BY <1>1, <2>1
  <2>4. After(ReadLine(v, lines[i + 1]), i + 1)
    BY <2>2, <2>3, ReadLineTyped
  <2>. QED
    BY <1>4, <2>1, <2>4, InStacks
<1>7. \A i \in Nat : \A v \in T[i] : i < k => step[<<i, v>>] \in T[i + 1]
  BY <1>5, <1>6
<1>8. PICK f : Ran(f, k, first, step) /\ \A i \in 0 .. k : f[i] \in T[i]
  <2> HIDE DEF R, c
  <2>1. first \in T[0]
    BY <1>3, <1>4
  <2>. QED
    BY <1>1, <1>7, <2>1, RunTyped
<1>9. R(f)
  <2>1. ASSUME NEW i \in 0 .. k, i # 0 PROVE step[<<i - 1, f[i - 1]>>] = ReadLine(f[i - 1], lines[i])
    <3>1. i - 1 \in Nat /\ i - 1 \in 0 .. k /\ (i - 1) + 1 = i
      BY <1>1, <2>1
    <3>2. f[i - 1] \in T[i - 1]
      BY <1>8, <3>1
    <3>. QED
      BY <1>5, <3>1, <3>2
  <2>2. [i \in 0 .. k |-> IF i = 0 THEN first ELSE step[<<i - 1, f[i - 1]>>]]
          = [i \in 0 .. k |-> IF i = 0 THEN first ELSE ReadLine(f[i - 1], lines[i])]
    BY <2>1
  <2>. QED
    BY <1>8, <2>2 DEF Ran
<1>10. R(c)
  BY <1>9
<1> HIDE DEF c
<1>11. c[0] = first /\ \A i \in 1 .. k : c[i] = ReadLine(c[i - 1], lines[i])
  <2>1. 0 \in 0 .. k /\ \A i \in 1 .. k : i \in 0 .. k /\ i # 0
    BY <1>1
  <2>. QED
    BY <1>10, <2>1
<1> HIDE DEF R
<1>12. \A i \in 0 .. k : c[i] \in T[i]
  <2>1. ASSUME NEW i \in Nat, i < k, c[i] \in T[i] PROVE c[i + 1] \in T[i + 1]
    <3>1. i + 1 \in 1 .. k /\ (i + 1) - 1 = i
      BY <1>1, <2>1
    <3>2. c[i + 1] = ReadLine(c[i], lines[i + 1])
      BY <1>11, <3>1
    <3>. QED
      BY <1>6, <2>1, <3>2
  <2>2. c[0] \in T[0]
    BY <1>3, <1>4, <1>11
  <2>. QED
    BY <1>1, <2>1, <2>2, TypedRun
<1>13. c[k] \in Stacks(k)
  BY <1>1, <1>4, <1>12
<1>. QED
  BY <1>1, <1>2, <1>13, InStacks DEF k

(* The end of the last header leaves the stack as it is, but for its top. *)
LEMMA HeaderEndedTyped ==
    ASSUME NEW s, NEW d \in Nat, Stacked(s, d)
    PROVE  Stacked(HeaderEnded(s), d) /\ Len(HeaderEnded(s)) = Len(s)
<1>1. CASE Last(s).state = "header"
  <2>1. HeaderEnded(s) = Append(Front(s), ProcessHeader(Last(s)))
    BY <1>1 DEF HeaderEnded
  <2>2. Last(s) \in MimeNodes[d]
    BY TopOf
  <2>3. ProcessHeader(Last(s)) \in MimeNodes[d] /\ SameParent(ProcessHeader(Last(s)), Last(s))
    BY <2>2, NodeWith DEF SameParent
  <2>. QED
    BY <2>1, <2>3, ReplaceTyped
<1>2. CASE Last(s).state # "header"
  BY <1>2 DEF HeaderEnded
<1>. QED
  BY <1>1, <1>2

(* The stacks of a size. *)
Tall(d, m) == {s \in UNION {Seq(MimeNodes[e]) : e \in Nat} : Stacked(s, d) /\ Len(s) = m}

(* They are stacks. *)
LEMMA InTall ==
    ASSUME NEW s, NEW d \in Nat, NEW m
    PROVE  s \in Tall(d, m) <=> Stacked(s, d) /\ Len(s) = m
<1>1. Stacked(s, d) => s \in UNION {Seq(MimeNodes[e]) : e \in Nat}
  BY DEF Stacked
<1>. QED
  BY <1>1 DEF Tall

(* The root, with all that was open under it. *)
LEMMA FinalizedTyped ==
    ASSUME NEW s, NEW d \in Nat, Stacked(s, d), NEW k \in Nat, Len(s) = k + 1
    PROVE  Finalized(s) \in MimeNodes[d + k]
<1> DEFINE first == HeaderEnded(s)
           R(f) == f = [i \in 0 .. k |-> IF i = 0 THEN first ELSE ToParent(f[i - 1])]
           c == CHOOSE f : R(f)
           T == [i \in Nat |-> Tall(d + i, (k + 1) - i)]
           U == UNION {T[i] : i \in Nat}
           step == [p \in Nat \X U |-> ToParent(p[2])]
<1>1. Len(s) - 1 = k
  OBVIOUS
<1>2. Finalized(s) = c[k][1]
  BY <1>1 DEF Finalized
<1>3. first \in Tall(d + 0, (k + 1) - 0)
  <2>1. Stacked(first, d) /\ Len(first) = k + 1
    BY HeaderEndedTyped
  <2>2. d + 0 = d /\ (k + 1) - 0 = k + 1
    OBVIOUS
  <2> HIDE DEF first
  <2>. QED
    BY <2>1, <2>2, InTall
<1> HIDE DEF first
<1>4. \A i \in Nat : T[i] = Tall(d + i, (k + 1) - i)
  OBVIOUS
<1>5. \A i \in Nat : \A v \in T[i] : <<i, v>> \in Nat \X U /\ step[<<i, v>>] = ToParent(v)
  OBVIOUS
<1> HIDE DEF T, U, step
<1>6. ASSUME NEW i \in Nat, NEW v \in T[i], i < k PROVE ToParent(v) \in T[i + 1]
  <2>1. d + i \in Nat /\ (d + i) + 1 = d + (i + 1) /\ ((k + 1) - i) - 1 = (k + 1) - (i + 1) /\ (k + 1) - i # 1
        /\ d + (i + 1) \in Nat /\ i + 1 \in Nat
    BY <1>6
  <2>2. Stacked(v, d + i) /\ Len(v) = (k + 1) - i
    <3>1. T[i] = Tall(d + i, (k + 1) - i)
      BY <1>4
    <3>2. v \in Tall(d + i, (k + 1) - i)
      BY <3>1, Zenon
    <3>. QED
      BY <2>1, <3>2, InTall, Zenon
  <2>3. Stacked(ToParent(v), (d + i) + 1) /\ Len(ToParent(v)) = Len(v) - 1
    BY <2>1, <2>2, PopTyped
  <2>4. Stacked(ToParent(v), d + (i + 1)) /\ Len(ToParent(v)) = (k + 1) - (i + 1)
    BY <2>1, <2>2, <2>3
  <2>5. ToParent(v) \in Tall(d + (i + 1), (k + 1) - (i + 1))
    BY <2>1, <2>4, InTall
  <2>. QED
    BY <1>4, <2>1, <2>5
<1>7. \A i \in Nat : \A v \in T[i] : i < k => step[<<i, v>>] \in T[i + 1]
  BY <1>5, <1>6
<1>8. PICK f : Ran(f, k, first, step) /\ \A i \in 0 .. k : f[i] \in T[i]
  <2> HIDE DEF R, c
  <2>1. first \in T[0]
    BY <1>3, <1>4
  <2>. QED
    BY <1>7, <2>1, RunTyped
<1>9. R(f)
  <2>1. ASSUME NEW i \in 0 .. k, i # 0 PROVE step[<<i - 1, f[i - 1]>>] = ToParent(f[i - 1])
    <3>1. i - 1 \in Nat /\ i - 1 \in 0 .. k
      BY <2>1
    <3>2. f[i - 1] \in T[i - 1]
      BY <1>8, <3>1
    <3>. QED
      BY <1>5, <3>1, <3>2
  <2>2. [i \in 0 .. k |-> IF i = 0 THEN first ELSE step[<<i - 1, f[i - 1]>>]]
          = [i \in 0 .. k |-> IF i = 0 THEN first ELSE ToParent(f[i - 1])]
    BY <2>1
  <2>. QED
    BY <1>8, <2>2 DEF Ran
<1>10. R(c)
  BY <1>9
<1> HIDE DEF c
<1>11. c[0] = first /\ \A i \in 1 .. k : c[i] = ToParent(c[i - 1])
  <2>1. 0 \in 0 .. k /\ \A i \in 1 .. k : i \in 0 .. k /\ i # 0
    OBVIOUS
  <2>. QED
    BY <1>10, <2>1
<1> HIDE DEF R
<1>12. \A i \in 0 .. k : c[i] \in T[i]
  <2>1. ASSUME NEW i \in Nat, i < k, c[i] \in T[i] PROVE c[i + 1] \in T[i + 1]
    <3>1. i + 1 \in 1 .. k /\ (i + 1) - 1 = i
      BY <2>1
    <3>2. c[i + 1] = ToParent(c[i])
      BY <1>11, <3>1
    <3>. QED
      BY <1>6, <2>1, <3>2
  <2>2. c[0] \in T[0]
    BY <1>3, <1>4, <1>11
  <2>. QED
    BY <2>1, <2>2, TypedRun
<1>13. Stacked(c[k], d + k)
  <2>1. k \in 0 .. k /\ d + k \in Nat
    OBVIOUS
  <2>2. c[k] \in Tall(d + k, (k + 1) - k)
    BY <1>4, <1>12, <2>1
  <2>. QED
    BY <2>1, <2>2, InTall
<1>14. c[k][1] \in MimeNodes[d + k]
  <2> DEFINE A == MimeNodes[d + k]
             u == c[k]
  <2>1. u \in Seq(A) /\ u # <<>>
    BY <1>13, Zenon DEF Stacked
  <2> HIDE DEF A, u
  <2>2. u[1] \in A
    BY <2>1, EmptySeq
  <2>. QED
    BY <2>2 DEF A, u
<1>. QED
  BY <1>2, <1>14

(* A mail has no more levels than lines, and the root's. *)
LEMMA ParseTyped ==
    ASSUME NEW lines \in Seq(MailLine)
    PROVE  Parse(lines) \in MimeNodes[Len(lines) + 1]
<1> DEFINE s == ReadLines(lines)
           n == Len(lines)
<1>1. n \in Nat /\ After(s, n)
  BY ReadLinesTyped
<1>2. Parse(lines) = Finalized(s)
  BY DEF Parse
<1> HIDE DEF s, n
<1>3. PICK d \in Nat : Stacked(s, d) /\ Len(s) \in Nat /\ d + Len(s) <= n + 2
  BY <1>1 DEF After
<1>4. Len(s) # 0
  BY <1>3, TopOf, Zenon
<1>5. PICK k \in Nat : Len(s) = k + 1
  BY <1>3, <1>4, Before
<1>6. Finalized(s) \in MimeNodes[d + k]
  BY <1>3, <1>5, FinalizedTyped
<1>7. d + k \in Nat /\ n + 1 \in Nat /\ d + k <= n + 1
  BY <1>1, <1>3, <1>5
<1>8. MimeNodes[d + k] \subseteq MimeNodes[n + 1]
  BY <1>7, Levels
<1>9. Finalized(s) \in MimeNodes[n + 1]
  BY <1>6, <1>8
<1>. QED
  BY <1>2, <1>9 DEF n

-----------------------------------------------------------------------------
(* The node of a path is one of the mail's. *)

Found(n) == {<<>>} \cup {<<x>> : x \in MimeNodes[n]}

(* The child of a node. *)
LEMMA ChildFound ==
    ASSUME NEW n \in Nat, NEW found \in Found(n), NEW j
    PROVE  (IF found # <<>> /\ j \in DOMAIN found[1].kids THEN <<found[1].kids[j]>> ELSE <<>>) \in Found(n)
<1>1. CASE found # <<>> /\ j \in DOMAIN found[1].kids
  <2>1. PICK x \in MimeNodes[n] : found = <<x>>
    BY <1>1 DEF Found
  <2>2. found[1] = x
    BY <2>1
  <2>3. PICK m \in Nat : n = m + 1
    BY HasLevel
  <2>4. \A i \in DOMAIN x.kids : x.kids[i] \in MimeNodes[m]
    BY <2>3, NodeHas, Zenon
  <2>5. MimeNodes[m] \subseteq MimeNodes[n]
    BY <2>3, LevelsGrow
  <2>6. x.kids[j] \in MimeNodes[n]
    BY <1>1, <2>2, <2>4, <2>5, Zenon
  <2> DEFINE y == x.kids[j]
  <2>7. found[1].kids[j] = y /\ y \in MimeNodes[n]
    BY <2>2, <2>6
  <2> HIDE DEF y
  <2>8. <<y>> \in Found(n)
    BY <2>7 DEF Found
  <2>. QED
    BY <1>1, <2>7, <2>8
<1>2. CASE ~ (found # <<>> /\ j \in DOMAIN found[1].kids)
  BY <1>2 DEF Found
<1>. QED
  BY <1>1, <1>2

(* What resolveNode returns is a node of the mail, or nothing. *)
LEMMA ResolveTyped ==
    ASSUME NEW n \in Nat, NEW tree \in MimeNodes[n], NEW path, Len(path) \in Nat
    PROVE  Resolve(tree, path) \in Found(n)
<1> DEFINE k == Len(path)
           first == <<tree>>
           Child(found, j) ==
             IF found # <<>> /\ j \in DOMAIN found[1].kids THEN <<found[1].kids[j]>> ELSE <<>>
           R(f) == f = [i \in 0 .. k |-> IF i = 0 THEN first ELSE Child(f[i - 1], path[i])]
           c == CHOOSE f : R(f)
           A == Found(n)
           T == [i \in Nat |-> A]
           step == [p \in Nat \X A |-> Child(p[2], path[p[1] + 1])]
<1>1. Resolve(tree, path) = IF tree.kids = <<>> /\ path = <<1>> THEN first ELSE c[k]
  BY DEF Resolve
<1>2. k \in Nat
  OBVIOUS
<1>3. \A v \in A : \A j : Child(v, j) \in A
  BY ChildFound
<1>4. first \in A
  BY DEF Found
<1> HIDE DEF first, k, Child, A
<1>5. \A i \in Nat : \A v \in A : step[<<i, v>>] = Child(v, path[i + 1])
  OBVIOUS
<1>6. \A i \in Nat : T[i] = A
  OBVIOUS
<1> HIDE DEF T, step
<1>7. \A i \in Nat : \A v \in T[i] : i < k => step[<<i, v>>] \in T[i + 1]
  <2> SUFFICES ASSUME NEW i \in Nat, NEW v \in T[i] PROVE step[<<i, v>>] \in T[i + 1]
    OBVIOUS
  <2>1. i + 1 \in Nat
    OBVIOUS
  <2>2. v \in A /\ T[i + 1] = A
    BY <1>6, <2>1
  <2>. QED
    BY <1>3, <1>5, <2>2
<1>8. PICK f : Ran(f, k, first, step) /\ \A i \in 0 .. k : f[i] \in T[i]
  <2> HIDE DEF R, c
  <2>1. first \in T[0]
    BY <1>4, <1>6
  <2>. QED
    BY <1>2, <1>7, <2>1, RunTyped
<1>9. R(f)
  <2>1. ASSUME NEW i \in 0 .. k, i # 0 PROVE step[<<i - 1, f[i - 1]>>] = Child(f[i - 1], path[i])
    <3>1. i - 1 \in Nat /\ i - 1 \in 0 .. k /\ (i - 1) + 1 = i
      BY <1>2, <2>1
    <3>2. f[i - 1] \in A
      BY <1>6, <1>8, <3>1
    <3>. QED
      BY <1>5, <3>1, <3>2
  <2>2. [i \in 0 .. k |-> IF i = 0 THEN first ELSE step[<<i - 1, f[i - 1]>>]]
          = [i \in 0 .. k |-> IF i = 0 THEN first ELSE Child(f[i - 1], path[i])]
    BY <2>1
  <2>. QED
    BY <1>8, <2>2 DEF Ran
<1>10. R(c)
  BY <1>9
<1> HIDE DEF c
<1>11. c[0] = first /\ \A i \in 1 .. k : c[i] = Child(c[i - 1], path[i])
  <2>1. 0 \in 0 .. k /\ \A i \in 1 .. k : i \in 0 .. k /\ i # 0
    BY <1>2
  <2>. QED
    BY <1>10, <2>1
<1> HIDE DEF R
<1>12. \A i \in 0 .. k : c[i] \in T[i]
  <2>1. ASSUME NEW i \in Nat, i < k, c[i] \in T[i] PROVE c[i + 1] \in T[i + 1]
    <3>1. i + 1 \in 1 .. k /\ (i + 1) - 1 = i /\ i + 1 \in Nat
      BY <1>2, <2>1
    <3>2. c[i + 1] = Child(c[i], path[i + 1])
      BY <1>11, <3>1
    <3>. QED
      BY <1>3, <1>6, <2>1, <3>1, <3>2
  <2>2. c[0] \in T[0]
    BY <1>4, <1>6, <1>11
  <2>. QED
    BY <1>2, <2>1, <2>2, TypedRun
<1>13. c[k] \in A
  BY <1>2, <1>6, <1>12
<1>14. Resolve(tree, path) \in A
  BY <1>1, <1>4, <1>13
<1>. QED
  BY <1>14 DEF A

-----------------------------------------------------------------------------
(* The stream of a text *)

StoredPiece == TextPiece \cup ({"attachment"} \X Seq(TextPiece) \X Seq(TextPiece))

(* What is in the stored text. *)
LEMMA StoredPieceIs ==
    ASSUME NEW p \in StoredPiece
    PROVE  \/ p \in TextPiece /\ p[1] # "attachment"
           \/ p[1] = "attachment" /\ p[2] \in Seq(TextPiece) /\ p[3] \in Seq(TextPiece)
<1>1. p \in TextPiece => p[1] # "attachment"
  BY DEF TextPiece
<1> HIDE DEF TextPiece
<1>2. p \in {"attachment"} \X Seq(TextPiece) \X Seq(TextPiece)
        => p[1] = "attachment" /\ p[2] \in Seq(TextPiece) /\ p[3] \in Seq(TextPiece)
  OBVIOUS
<1>. QED
  BY <1>1, <1>2 DEF StoredPiece

(* A part of a sequence. *)
LEMMA PartOf ==
    ASSUME NEW S, NEW s \in Seq(S), NEW m \in Int, NEW n \in Int, m >= 1, n <= Len(s)
    PROVE  /\ SubSeq(s, m, n) \in Seq(S)
           /\ Len(SubSeq(s, m, n)) = IF m <= n THEN n - m + 1 ELSE 0
<1>1. \A i \in m .. n : s[i] \in S
  <2>1. Len(s) \in Nat /\ \A i \in 1 .. Len(s) : s[i] \in S
    OBVIOUS
  <2>2. \A i \in m .. n : i \in 1 .. Len(s)
    BY <2>1
  <2>. QED
    BY <2>1, <2>2
<1>. QED
  BY <1>1, SubSeqProperties

(* What is read of an attachment. *)
LEMMA AttachmentStreamTyped ==
    ASSUME NEW file \in Seq(TextPiece), NEW from \in Int, NEW bytes \in Int, from >= 0
    PROVE  AttachmentStream(file, from, bytes) \in Seq(TextPiece)
<1> DEFINE start == Smaller(from, 1)
           end == Smaller(from + bytes, 1)
           size == Len(file)
           last == Smaller(end, size)
<1>1. AttachmentStream(file, from, bytes) = IF end = 0 THEN file ELSE SubSeq(file, start + 1, last)
  BY DEF AttachmentStream
<1>2. size \in Nat
  OBVIOUS
<1>3. start \in Nat /\ end \in Int
  BY DEF Smaller
<1> HIDE DEF start, end
<1>4. last \in Int /\ last <= size
  <2> HIDE DEF size
  <2>. QED
    BY <1>2, <1>3 DEF Smaller
<1> HIDE DEF last
<1>5. start + 1 \in Int /\ start + 1 >= 1
  BY <1>3
<1>6. SubSeq(file, start + 1, last) \in Seq(TextPiece)
  BY <1>4, <1>5, PartOf
<1>. QED
  BY <1>1, <1>6

Writers == [output : Seq(TextPiece), curWritePos : Int, writeLength : Int]

Writing(w, piece, startFrom, maxLength) ==
    IF piece[1] = "attachment" THEN Piped(w, Len(piece[2]), piece[3], startFrom, maxLength)
    ELSE WritePiece(w, piece, startFrom, maxLength)

(* A window of n pieces: how many are in it of the first i. *)
InWindow(i, startFrom, maxLength) ==
    IF maxLength = 0 THEN Larger(i - startFrom, 0)
    ELSE Smaller(Larger(i - startFrom, 0), maxLength)

WindowWritten(w, i, startFrom, maxLength) ==
    /\ w.curWritePos = i
    /\ Len(w.output) = InWindow(i, startFrom, maxLength)
    /\ maxLength # 0 => w.writeLength = InWindow(i, startFrom, maxLength)

(* A writer with other values. *)
LEMMA WriterWith ==
    ASSUME NEW w \in Writers, NEW x \in Int, NEW y \in Int, NEW o \in Seq(TextPiece)
    PROVE  /\ [w EXCEPT !.curWritePos = x] \in Writers
           /\ [w EXCEPT !.writeLength = y] \in Writers
           /\ [w EXCEPT !.curWritePos = x, !.writeLength = y, !.output = o] \in Writers
           /\ [w EXCEPT !.curWritePos = x, !.output = o, !.writeLength = y] \in Writers
  BY DEF Writers

(* The pipe of an attachment. *)
LEMMA PipedTyped ==
    ASSUME NEW w \in Writers, NEW size \in Nat, NEW file \in Seq(TextPiece),
           NEW startFrom \in Nat, NEW maxLength \in Nat
    PROVE  Piped(w, size, file, startFrom, maxLength) \in Writers
<1> DEFINE from == Larger(startFrom - w.curWritePos, 0)
           bytes == IF maxLength = 0 THEN 0 ELSE Smaller(size - from, maxLength - w.writeLength)
           a == [w EXCEPT !.curWritePos = @ + size]
           b == [w EXCEPT !.writeLength = @ + size]
           c == [w EXCEPT !.curWritePos = @ + from]
           got == AttachmentStream(file, from, bytes)
           d == [w EXCEPT !.curWritePos = @ + from + bytes, !.writeLength = @ + bytes,
                          !.output = @ \o got]
<1>1. w.output \in Seq(TextPiece) /\ w.curWritePos \in Int /\ w.writeLength \in Int
  BY DEF Writers
<1>2. Piped(w, size, file, startFrom, maxLength) \in {a, b, c, d}
  <2>1. Piped(w, size, file, startFrom, maxLength) =
          CASE w.curWritePos + size < startFrom -> a
            [] w.curWritePos + size >= startFrom /\ maxLength # 0 /\ w.writeLength >= maxLength -> b
            [] OTHER -> IF size <= from THEN c ELSE d
    BY Zenon DEF Piped
  <2> HIDE DEF a, b, c, d, from
  <2>. QED
    BY <2>1
<1>3. from \in Int /\ from >= 0
  <2> DEFINE x == w.curWritePos
  <2>1. x \in Int
    BY <1>1
  <2> HIDE DEF x
  <2>2. Larger(startFrom - x, 0) \in Int /\ Larger(startFrom - x, 0) >= 0
    BY <2>1 DEF Larger
  <2>. QED
    BY <2>2 DEF x
<1> HIDE DEF from
<1>4. bytes \in Int
  <2> DEFINE x == w.writeLength
  <2>1. x \in Int
    BY <1>1
  <2> HIDE DEF x
  <2>2. (IF maxLength = 0 THEN 0 ELSE Smaller(size - from, maxLength - x)) \in Int
    BY <1>3, <2>1 DEF Smaller
  <2>. QED
    BY <2>2 DEF x
<1> HIDE DEF bytes
<1>5. got \in Seq(TextPiece)
  BY <1>3, <1>4, AttachmentStreamTyped
<1> HIDE DEF got
<1>6. w.output \o got \in Seq(TextPiece)
  BY <1>1, <1>5, ConcatProperties
<1>7. w.curWritePos + size \in Int /\ w.writeLength + size \in Int /\ w.curWritePos + from \in Int
  BY <1>1, <1>3
<1>8. w.curWritePos + from + bytes \in Int /\ w.writeLength + bytes \in Int
  BY <1>1, <1>3, <1>4, SMTT(30)
<1>9. a \in Writers
  BY <1>7, WriterWith
<1>10. b \in Writers
  BY <1>7, WriterWith
<1>11. c \in Writers
  BY <1>7, WriterWith
<1>12. d \in Writers
  BY <1>6, <1>8, WriterWith
<1>. QED
  BY <1>2, <1>9, <1>10, <1>11, <1>12

(* A piece that is written, or left out. *)
LEMMA WritePieceTyped ==
    ASSUME NEW w \in Writers, NEW piece \in TextPiece, NEW startFrom \in Nat, NEW maxLength \in Nat
    PROVE  /\ WritePiece(w, piece, startFrom, maxLength) \in Writers
           /\ \A i \in Nat : WindowWritten(w, i, startFrom, maxLength)
                => WindowWritten(WritePiece(w, piece, startFrom, maxLength), i + 1, startFrom, maxLength)
<1> DEFINE o == w.output
           x == w.curWritePos
           y == w.writeLength
           a == [w EXCEPT !.curWritePos = @ + 1]
           n == y + (IF maxLength = 0 THEN 0 ELSE 1)
           b == [w EXCEPT !.curWritePos = @ + 1, !.output = Append(@, piece),
                          !.writeLength = @ + (IF maxLength = 0 THEN 0 ELSE 1)]
           skips == x < startFrom \/ (maxLength # 0 /\ y >= maxLength)
           new == WritePiece(w, piece, startFrom, maxLength)
<1>1. o \in Seq(TextPiece) /\ x \in Int /\ y \in Int
  BY DEF Writers
<1>2. new = IF skips THEN a ELSE b
  BY Zenon DEF WritePiece
<1>3. x + 1 \in Int /\ n \in Int
  <2> HIDE DEF x, y
  <2>. QED
    BY <1>1
<1>4. Append(o, piece) \in Seq(TextPiece) /\ Len(Append(o, piece)) = Len(o) + 1 /\ Len(o) \in Nat
  <2> HIDE DEF o
  <2>. QED
    BY <1>1
<1>5. a \in Writers /\ a.output = o /\ a.curWritePos = x + 1 /\ a.writeLength = y
  <2>1. a \in Writers
    BY <1>1, <1>3, WriterWith
  <2>. QED
    BY <2>1, SMTT(30) DEF Writers
<1>6. b \in Writers
  BY <1>3, <1>4, WriterWith
<1>7. b.output = Append(o, piece) /\ b.curWritePos = x + 1 /\ b.writeLength = n
  BY <1>6 DEF Writers
<1> HIDE DEF a, b, new
<1>8. new \in Writers
  BY <1>2, <1>5, <1>6
<1>9. ASSUME NEW i \in Nat, WindowWritten(w, i, startFrom, maxLength)
      PROVE  WindowWritten(new, i + 1, startFrom, maxLength)
  <2> DEFINE k == Len(o)
  <2>1. x = i /\ k = InWindow(i, startFrom, maxLength)
        /\ (maxLength # 0 => y = InWindow(i, startFrom, maxLength)) /\ k \in Nat
    BY <1>4, <1>9 DEF WindowWritten
  <2>2. CASE skips
    <3>1. new.curWritePos = x + 1 /\ Len(new.output) = k /\ new.writeLength = y
      BY <1>2, <1>5, <2>2
    <3> HIDE DEF x, y, k, n
    <3>2. InWindow(i + 1, startFrom, maxLength) = InWindow(i, startFrom, maxLength)
      BY <1>1, <2>1, <2>2 DEF InWindow, Larger, Smaller
    <3>. QED
      BY <2>1, <3>1, <3>2 DEF WindowWritten
  <2>3. CASE ~ skips
    <3>1. new.curWritePos = x + 1 /\ Len(new.output) = k + 1 /\ new.writeLength = n
      BY <1>2, <1>4, <1>7, <2>3
    <3>2. maxLength # 0 => n = y + 1
      OBVIOUS
    <3> HIDE DEF x, y, k, n
    <3>3. InWindow(i + 1, startFrom, maxLength) = InWindow(i, startFrom, maxLength) + 1
      BY <1>1, <2>1, <2>3 DEF InWindow, Larger, Smaller
    <3>. QED
      BY <2>1, <3>1, <3>2, <3>3 DEF WindowWritten
  <2>. QED
    BY <2>2, <2>3
<1>. QED
  BY <1>8, <1>9 DEF new

(* Nothing has to be read for a text. *)
NoFiles(text) == \A i \in DOMAIN text : text[i][1] # "attachment"

(* The writers after i pieces. *)
WritersAt(i, plain, startFrom, maxLength) ==
    {w \in Writers : plain => WindowWritten(w, i, startFrom, maxLength)}

(* The one that has not written yet is among them. *)
LEMMA FirstWriter ==
    ASSUME NEW plain, NEW startFrom \in Nat, NEW maxLength \in Nat
    PROVE  [output |-> <<>>, curWritePos |-> 0, writeLength |-> 0]
             \in WritersAt(0, plain, startFrom, maxLength)
<1> DEFINE w == [output |-> <<>>, curWritePos |-> 0, writeLength |-> 0]
<1>1. <<>> \in Seq(TextPiece)
  BY EmptySeq
<1>2. w.output = <<>> /\ w.curWritePos = 0 /\ w.writeLength = 0
  OBVIOUS
<1>3. w \in Writers
  BY <1>1 DEF Writers
<1>4. InWindow(0, startFrom, maxLength) = 0
  BY DEF InWindow, Larger, Smaller
<1>5. WindowWritten(w, 0, startFrom, maxLength)
  <2> HIDE DEF w
  <2>. QED
    BY <1>2, <1>4, Empty0 DEF WindowWritten
<1> HIDE DEF w
<1>6. w \in WritersAt(0, plain, startFrom, maxLength)
  BY <1>3, <1>5 DEF WritersAt
<1>. QED
  BY <1>6 DEF w

(* A piece takes one to one of the next. *)
LEMMA WritingTyped ==
    ASSUME NEW i \in Nat, NEW plain, NEW startFrom \in Nat, NEW maxLength \in Nat,
           NEW w \in WritersAt(i, plain, startFrom, maxLength), NEW piece \in StoredPiece,
           plain => piece[1] # "attachment"
    PROVE  Writing(w, piece, startFrom, maxLength) \in WritersAt(i + 1, plain, startFrom, maxLength)
<1> DEFINE new == Writing(w, piece, startFrom, maxLength)
<1>1. w \in Writers /\ (plain => WindowWritten(w, i, startFrom, maxLength))
  BY DEF WritersAt
<1>2. CASE piece[1] = "attachment"
  <2>1. piece[2] \in Seq(TextPiece) /\ piece[3] \in Seq(TextPiece)
    BY <1>2, StoredPieceIs
  <2>2. Len(piece[2]) \in Nat
    BY <2>1
  <2>3. new = Piped(w, Len(piece[2]), piece[3], startFrom, maxLength)
    BY <1>2 DEF Writing
  <2>4. new \in Writers
    BY <1>1, <2>1, <2>2, <2>3, PipedTyped
  <2> HIDE DEF new
  <2>5. new \in WritersAt(i + 1, plain, startFrom, maxLength)
    BY <1>2, <2>4 DEF WritersAt
  <2>. QED
    BY <2>5 DEF new
<1>3. CASE piece[1] # "attachment"
  <2>1. piece \in TextPiece
    BY <1>3, StoredPieceIs
  <2>2. new = WritePiece(w, piece, startFrom, maxLength)
    BY <1>3 DEF Writing
  <2>3. new \in Writers /\ (plain => WindowWritten(new, i + 1, startFrom, maxLength))
    BY <1>1, <2>1, <2>2, WritePieceTyped
  <2> HIDE DEF new
  <2>4. new \in WritersAt(i + 1, plain, startFrom, maxLength)
    BY <2>3 DEF WritersAt
  <2>. QED
    BY <2>4 DEF new
<1>. QED
  BY <1>2, <1>3

(* What is streamed of a text; without attachments, as much as is in the window. *)
LEMMA StreamedTyped ==
    ASSUME NEW text \in Seq(StoredPiece), NEW startFrom \in Nat, NEW maxLength \in Nat
    PROVE  /\ Streamed(text, startFrom, maxLength) \in Seq(TextPiece)
           /\ NoFiles(text) => Len(Streamed(text, startFrom, maxLength))
                                 = InWindow(Len(text), startFrom, maxLength)
<1> DEFINE k == Len(text)
           plain == NoFiles(text)
           first == [output |-> <<>>, curWritePos |-> 0, writeLength |-> 0]
           R(f) == f = [i \in 0 .. k |-> IF i = 0 THEN first
                                         ELSE Writing(f[i - 1], text[i], startFrom, maxLength)]
           c == CHOOSE f : R(f)
           T == [i \in Nat |-> WritersAt(i, plain, startFrom, maxLength)]
           U == UNION {T[i] : i \in Nat}
           step == [p \in Nat \X U |-> Writing(p[2], text[p[1] + 1], startFrom, maxLength)]
<1>1. Streamed(text, startFrom, maxLength) = c[k].output
  BY DEF Streamed, Writing
<1>2. k \in Nat /\ \A i \in Nat : i < k => i + 1 \in DOMAIN text /\ text[i + 1] \in StoredPiece
  <2>1. DOMAIN text = 1 .. Len(text) /\ Len(text) \in Nat /\ \A i \in DOMAIN text : text[i] \in StoredPiece
    BY Indexed
  <2>. QED
    BY <2>1
<1>3. \A i \in Nat : i < k /\ plain => text[i + 1][1] # "attachment"
  BY <1>2 DEF NoFiles
<1>4. \A i \in Nat : T[i] = WritersAt(i, plain, startFrom, maxLength)
  OBVIOUS
<1>5. \A i \in Nat : \A v \in T[i] :
        <<i, v>> \in Nat \X U /\ step[<<i, v>>] = Writing(v, text[i + 1], startFrom, maxLength)
  OBVIOUS
<1>6. first \in T[0]
  <2> HIDE DEF first, plain, T
  <2>1. first \in WritersAt(0, plain, startFrom, maxLength)
    BY FirstWriter DEF first
  <2>. QED
    BY <1>4, <2>1
<1> HIDE DEF T, U, step, k, first, plain
<1>7. ASSUME NEW i \in Nat, NEW v \in T[i], i < k
      PROVE  Writing(v, text[i + 1], startFrom, maxLength) \in T[i + 1]
  <2>1. v \in WritersAt(i, plain, startFrom, maxLength)
    BY <1>4
  <2>2. text[i + 1] \in StoredPiece /\ (plain => text[i + 1][1] # "attachment")
    BY <1>2, <1>3, <1>7
  <2>3. Writing(v, text[i + 1], startFrom, maxLength)
          \in WritersAt(i + 1, plain, startFrom, maxLength)
    BY <2>1, <2>2, WritingTyped
  <2>. QED
    BY <1>4, <2>3
<1>8. \A i \in Nat : \A v \in T[i] : i < k => step[<<i, v>>] \in T[i + 1]
  BY <1>5, <1>7
<1>9. PICK f : Ran(f, k, first, step) /\ \A i \in 0 .. k : f[i] \in T[i]
  <2> HIDE DEF R, c
  <2>. QED
    BY <1>2, <1>6, <1>8, RunTyped
<1>10. R(f)
  <2>1. ASSUME NEW i \in 0 .. k, i # 0
        PROVE  step[<<i - 1, f[i - 1]>>] = Writing(f[i - 1], text[i], startFrom, maxLength)
    <3>1. i - 1 \in Nat /\ i - 1 \in 0 .. k /\ (i - 1) + 1 = i
      BY <1>2, <2>1
    <3>2. f[i - 1] \in T[i - 1]
      BY <1>9, <3>1
    <3>. QED
      BY <1>5, <3>1, <3>2
  <2>2. [i \in 0 .. k |-> IF i = 0 THEN first ELSE step[<<i - 1, f[i - 1]>>]]
          = [i \in 0 .. k |-> IF i = 0 THEN first
                              ELSE Writing(f[i - 1], text[i], startFrom, maxLength)]
    BY <2>1
  <2>. QED
    BY <1>9, <2>2 DEF Ran
<1>11. R(c)
  BY <1>10
<1> HIDE DEF c
<1>12. c[0] = first /\ \A i \in 1 .. k : c[i] = Writing(c[i - 1], text[i], startFrom, maxLength)
  <2>1. 0 \in 0 .. k /\ \A i \in 1 .. k : i \in 0 .. k /\ i # 0
    BY <1>2
  <2>. QED
    BY <1>11, <2>1
<1> HIDE DEF R
<1>13. \A i \in 0 .. k : c[i] \in T[i]
  <2>1. ASSUME NEW i \in Nat, i < k, c[i] \in T[i] PROVE c[i + 1] \in T[i + 1]
    <3>1. i + 1 \in 1 .. k /\ (i + 1) - 1 = i
      BY <1>2, <2>1
    <3>2. c[i + 1] = Writing(c[i], text[i + 1], startFrom, maxLength)
      BY <1>12, <3>1
    <3>. QED
      BY <1>7, <2>1, <3>2
  <2>2. c[0] \in T[0]
    BY <1>6, <1>12
  <2>. QED
    BY <1>2, <2>1, <2>2, TypedRun
<1>14. c[k] \in WritersAt(k, plain, startFrom, maxLength)
  <2>1. k \in 0 .. k
    BY <1>2
  <2>. QED
    BY <1>2, <1>4, <1>13, <2>1
<1>15. c[k].output \in Seq(TextPiece)
  BY <1>14 DEF WritersAt, Writers
<1>16. plain => Len(c[k].output) = InWindow(k, startFrom, maxLength)
  BY <1>14 DEF WritersAt, WindowWritten
<1>. QED
  BY <1>1, <1>15, <1>16 DEF plain, k

(* Two values, and a third. *)
LEMMA ThirdAdded ==
    ASSUME NEW a, NEW b, NEW c
    PROVE  Append(<<a, b>>, c) = <<a, b, c>>
<1> DEFINE S == {a, b, c}
           s == <<a, b>>
           t == Append(s, c)
           u == <<a, b, c>>
<1>1. s \in Seq(S) /\ Len(s) = 2 /\ s[1] = a /\ s[2] = b /\ c \in S
  OBVIOUS
<1>2. u \in Seq(S) /\ Len(u) = 3 /\ u[1] = a /\ u[2] = b /\ u[3] = c
  OBVIOUS
<1> HIDE DEF S, s, u
<1>3. t \in Seq(S) /\ Len(t) = 3 /\ t[1] = a /\ t[2] = b /\ t[3] = c
  <2>1. s \in Seq(S) /\ c \in S
    BY <1>1
  <2>2. t \in Seq(S) /\ Len(t) = Len(s) + 1
        /\ (\A i \in 1 .. Len(s) : t[i] = s[i]) /\ t[Len(s) + 1] = c
    BY <2>1, AppendProperties
  <2> HIDE DEF t
  <2>3. 1 \in 1 .. Len(s) /\ 2 \in 1 .. Len(s) /\ Len(s) + 1 = 3
    BY <1>1
  <2>. QED
    BY <1>1, <2>2, <2>3
<1> HIDE DEF t
<1>4. \A i \in 1 .. 3 : t[i] = u[i]
  BY <1>2, <1>3
<1>5. t = u
  BY <1>2, <1>3, <1>4, SeqEqual
<1>. QED
  BY <1>5 DEF t, s, u

(* An attachment with what is stored of it. *)
LEMMA FileTyped ==
    ASSUME NEW text \in Seq(TextPiece)
    PROVE  File(text) \in Seq(TextPiece)
<1> DEFINE n == (Len(text) + 1) \div 2
<1>1. n \in Int /\ n <= Len(text)
  OBVIOUS
<1> HIDE DEF n
<1>2. SubSeq(text, 1, n) \in Seq(TextPiece)
  BY <1>1, PartOf
<1>. QED
  BY <1>2 DEF File, n

(* A text with its attachments. *)
LEMMA WithFilesTyped ==
    ASSUME NEW text \in Seq(Piece)
    PROVE  /\ WithFiles(text) \in Seq(StoredPiece)
           /\ Len(WithFiles(text)) = Len(text)
           /\ ~ Reads(text) => NoFiles(WithFiles(text))
<1> DEFINE with(p) == IF p[1] = "attachment" THEN Append(p, File(p[2])) ELSE p
           s == WithFiles(text)
<1>1. DOMAIN text = 1 .. Len(text) /\ Len(text) \in Nat /\ \A i \in DOMAIN text : text[i] \in Piece
  BY Indexed
<1>2. s = [i \in DOMAIN text |-> with(text[i])]
  BY DEF WithFiles
<1>3. ASSUME NEW p \in Piece PROVE with(p) \in StoredPiece
  <2>1. CASE p \in TextPiece
    <3>1. p[1] # "attachment"
      BY <2>1 DEF TextPiece
    <3> HIDE DEF TextPiece
    <3>. QED
      BY <2>1, <3>1 DEF StoredPiece
  <2>2. CASE p \in {"attachment"} \X Seq(TextPiece)
    <3> HIDE DEF TextPiece
    <3>1. PICK t \in Seq(TextPiece) : p = <<"attachment", t>>
      BY <2>2
    <3>2. p[1] = "attachment" /\ p[2] = t
      BY <3>1
    <3>3. Append(p, File(t)) = <<"attachment", t, File(t)>>
      BY <3>1, ThirdAdded
    <3>4. File(t) \in Seq(TextPiece)
      BY FileTyped
    <3>5. with(p) = <<"attachment", t, File(t)>>
      BY <3>2, <3>3
    <3>. QED
      BY <3>4, <3>5 DEF StoredPiece
  <2>. QED
    BY <2>1, <2>2 DEF Piece
<1>4. s \in Seq(StoredPiece) /\ Len(s) = Len(text) /\ DOMAIN s = DOMAIN text
  <2> HIDE DEF s
  <2>1. \A i \in DOMAIN text : with(text[i]) \in StoredPiece
    BY <1>1, <1>3
  <2> HIDE DEF with
  <2>. QED
    BY <1>1, <1>2, <2>1
<1>5. ASSUME ~ Reads(text) PROVE NoFiles(s)
  <2>1. \A i \in DOMAIN text : text[i][1] # "attachment"
    BY <1>5 DEF Reads
  <2>2. \A i \in DOMAIN s : s[i] = text[i]
    BY <1>2, <1>4, <2>1
  <2> HIDE DEF s
  <2>. QED
    BY <1>4, <2>1, <2>2 DEF NoFiles
<1>. QED
  BY <1>4, <1>5

(* What is cut out and what is padded make up what is expected. *)
LEMMA CutAndPadded ==
    ASSUME NEW expected \in Nat, NEW from \in Nat, NEW size \in Nat, from = 0 \/ from <= size,
           NEW end \in Int, end = IF expected < size THEN expected ELSE size
    PROVE  (IF from + 1 <= end THEN end - (from + 1) + 1 ELSE 0) + Larger(expected - size, 0)
             = Larger(expected - from, 0)
BY DEF Larger

(* The limiter gives what was expected, when it is not to begin beyond the stream. *)
LEMMA LimitedLength ==
    ASSUME NEW text \in Seq(TextPiece), NEW expectedLength \in Nat, NEW startFrom \in Nat,
           startFrom = 0 \/ startFrom <= Len(text)
    PROVE  Len(Limited(text, expectedLength, startFrom)) = Larger(expectedLength - startFrom, 0)
<1> DEFINE end == Smaller(expectedLength, Len(text))
           n == expectedLength - Len(text)
           cut == SubSeq(text, startFrom + 1, end)
           pad == Padding(n)
<1>1. PICK m \in Nat : m = Len(text)
  OBVIOUS
<1>2. end \in Int /\ end <= Len(text) /\ end = IF expectedLength < m THEN expectedLength ELSE m
  BY <1>1 DEF Smaller
<1>3. n = expectedLength - m
  BY <1>1
<1> HIDE DEF end, n
<1>4. startFrom + 1 \in Int /\ startFrom + 1 >= 1
  OBVIOUS
<1>5. cut \in Seq(TextPiece) /\ Len(cut) = IF startFrom + 1 <= end THEN end - (startFrom + 1) + 1 ELSE 0
  BY <1>2, <1>4, PartOf
<1>6. pad \in Seq(TextPiece) /\ Len(pad) = Larger(n, 0)
  <2> DEFINE z == PADDING
  <2>1. z \in TextPiece
    BY PiecesAre
  <2>2. pad = [i \in 1 .. n |-> z]
    BY DEF Padding
  <2> HIDE DEF z, pad
  <2>3. n \in Int
    BY <1>3
  <2>4. CASE n >= 0
    <3>1. n \in Nat
      BY <2>3, <2>4
    <3>2. Larger(n, 0) = n
      BY <2>3, <2>4 DEF Larger
    <3>. QED
      BY <2>1, <2>2, <3>1, <3>2
  <2>5. CASE n < 0
    <3> DEFINE none == [i \in 1 .. 0 |-> z]
    <3>1. pad = none
      BY <2>2, <2>3, <2>5
    <3>3. none \in Seq(TextPiece) /\ Len(none) = 0
      BY <2>1
    <3>2. Larger(n, 0) = 0
      BY <2>3, <2>5 DEF Larger
    <3>. QED
      BY <3>1, <3>2, <3>3
  <2>. QED
    BY <2>3, <2>4, <2>5
<1>7. Limited(text, expectedLength, startFrom) = cut \o pad
  BY DEF Limited, end, n
<1> HIDE DEF cut, pad
<1>8. Len(cut \o pad) = Len(cut) + Len(pad)
  BY <1>5, <1>6, SMTT(30)
<1>10. startFrom = 0 \/ startFrom <= m
  BY <1>1
<1>9. (IF startFrom + 1 <= end THEN end - (startFrom + 1) + 1 ELSE 0) + Larger(n, 0)
        = Larger(expectedLength - startFrom, 0)
  BY <1>1, <1>2, <1>3, <1>10, CutAndPadded
<1>. QED
  BY <1>5, <1>6, <1>7, <1>8, <1>9

-----------------------------------------------------------------------------
(* The literals *)

(* What LiteralAsAnnounced says of one literal. *)
LiteralGood(l) ==
    l.query.startFrom = 0 \/ (l.query.startFrom <= Available(l) /\ ~ l.reads)
      => Len(l.content) = l.announced

AllOptions == [startFrom : Nat, maxLength : Nat]

QueryTyped(q) ==
    /\ q.startFrom \in Nat /\ q.maxLength \in Nat /\ Len(q.path) \in Nat

(* What is announced, and where the limiter ends. *)
LEMMA AnnouncedIsLeft ==
    ASSUME NEW expected \in Nat, NEW from \in Nat, NEW most \in Nat
    PROVE  Larger((IF most = 0 THEN expected ELSE Smaller(expected, from + most)) - from, 0)
             = Larger(IF most = 0 THEN expected - from ELSE Smaller(expected - from, most), 0)
BY DEF Larger, Smaller

(* Of an empty text nothing is announced. *)
LEMMA NothingAnnounced ==
    ASSUME NEW expected, expected = 0, NEW from \in Nat, NEW most \in Nat
    PROVE  Larger(IF most = 0 THEN expected - from ELSE Smaller(expected - from, most), 0) = 0
BY DEF Larger, Smaller

(* A literal that is streamed. *)
LEMMA StreamLiteralGood ==
    ASSUME NEW node \in MimeNodes[Depth], Depth \in Nat, NEW textOnly, NEW q, QueryTyped(q),
           NEW opts \in AllOptions
    PROVE  LiteralGood(StreamLiteral(node, textOnly, q, opts))
<1> DEFINE text == Rebuilt(Depth, node, textOnly)
           expected == Length(Depth, node, textOnly)
           from == q.startFrom
           most == q.maxLength
           end == IF most = 0 THEN expected ELSE Smaller(expected, from + most)
           stream == Streamed(WithFiles(text), opts.startFrom, opts.maxLength)
           announced == Larger(IF most = 0 THEN expected - from ELSE Smaller(expected - from, most), 0)
           content == IF expected = 0 THEN <<>> ELSE Limited(stream, end, from)
           l == StreamLiteral(node, textOnly, q, opts)
<1>1. l = [announced |-> announced, content |-> content,
           reads |-> Reads(text), whole |-> Len(text), query |-> q, opts |-> opts]
  BY DEF StreamLiteral
<1>2. from \in Nat /\ most \in Nat
  BY DEF QueryTyped
<1>3. opts.startFrom \in Nat /\ opts.maxLength \in Nat
  BY DEF AllOptions
<1>4. text \in Seq(Piece)
  BY RebuiltTyped
<1>5. expected \in Nat
  BY LengthTyped
<1> HIDE DEF text, expected
<1>6. /\ WithFiles(text) \in Seq(StoredPiece) /\ Len(WithFiles(text)) = Len(text)
      /\ ~ Reads(text) => NoFiles(WithFiles(text))
  BY <1>4, WithFilesTyped
<1>7. /\ stream \in Seq(TextPiece)
      /\ NoFiles(WithFiles(text)) => Len(stream) = InWindow(Len(text), opts.startFrom, opts.maxLength)
  BY <1>3, <1>6, StreamedTyped
<1> HIDE DEF stream
<1>8. end \in Nat
  <2> HIDE DEF from, most
  <2>. QED
    BY <1>2, <1>5 DEF Smaller
<1>9. Larger(end - from, 0) = announced
  <2> HIDE DEF from, most
  <2>. QED
    BY <1>2, <1>5, AnnouncedIsLeft
<1>10. expected = 0 => announced = 0
  <2> HIDE DEF from, most
  <2>. QED
    BY <1>2, <1>5, NothingAnnounced
<1> HIDE DEF end, announced
<1>11. /\ l.announced = announced /\ l.content = content /\ l.reads = Reads(text)
       /\ l.query.startFrom = from
       /\ Available(l) = InWindow(Len(text), opts.startFrom, opts.maxLength)
  BY <1>1 DEF Available, InWindow
<1> HIDE DEF l
<1>12. ASSUME from = 0 \/ (from <= Available(l) /\ ~ l.reads)
       PROVE  Len(content) = announced
  <2>1. CASE expected = 0
    BY <1>10, <2>1, Empty0
  <2>2. CASE expected # 0
    <3>1. from = 0 \/ from <= Len(stream)
      BY <1>6, <1>7, <1>11, <1>12
    <3> HIDE DEF from, most
    <3>2. Len(Limited(stream, end, from)) = Larger(end - from, 0)
      BY <1>2, <1>7, <1>8, <3>1, LimitedLength
    <3>. QED
      BY <1>9, <2>2, <3>2
  <2>. QED
    BY <2>1, <2>2
<1> HIDE DEF content, from
<1>. QED
  BY <1>11, <1>12 DEF LiteralGood, l

(* A literal whose text is at hand. *)
LEMMA TextLiteralGood ==
    ASSUME NEW text, NEW q, NEW opts
    PROVE  LiteralGood(TextLiteral(text, q, opts))
<1> DEFINE value == IF q.partial THEN SubSeq(text, q.startFrom + 1,
                                             Smaller(q.startFrom + q.maxLength, Len(text)))
                    ELSE text
           n == Len(value)
           l == TextLiteral(text, q, opts)
<1>1. l = [announced |-> n, content |-> value,
           reads |-> FALSE, whole |-> Len(text), query |-> q, opts |-> opts]
  BY DEF TextLiteral
<1> HIDE DEF value, l
<1>2. Len(l.content) = l.announced
  BY <1>1
<1>3. LiteralGood(l)
  BY <1>2 DEF LiteralGood
<1>. QED
  BY <1>3 DEF l

(* What is found is a node. *)
LEMMA FoundIs ==
    ASSUME NEW n \in Nat, NEW found \in Found(n), found # <<>>
    PROVE  found[1] \in MimeNodes[n]
BY DEF Found

(* What a query gets of a tree. *)
LEMMA ContentGood ==
    ASSUME NEW tree \in MimeNodes[Depth], Depth \in Nat, NEW q, QueryTyped(q), NEW opts \in AllOptions
    PROVE  LiteralGood(Content(tree, q, opts))
<1> DEFINE found == Resolve(tree, q.path)
           l == Content(tree, q, opts)
<1>1. found \in Found(Depth)
  <2>1. Len(q.path) \in Nat
    BY DEF QueryTyped
  <2>. QED
    BY <2>1, ResolveTyped
<1>2. found # <<>> => found[1] \in MimeNodes[Depth]
  BY <1>1, FoundIs
<1>3. \/ \E text : l = TextLiteral(text, q, opts)
      \/ found # <<>> /\ \E textOnly : l = StreamLiteral(found[1], textOnly, q, opts)
  <2>1. l = CASE found = <<>> -> TextLiteral(<<>>, q, opts)
              [] found # <<>> /\ q.type = "HEADER" /\ q.path = <<>> ->
                    TextLiteral(TextOf(tree.header) \o <<NEWLINE, NEWLINE>>, q, opts)
              [] found # <<>> /\ q.type # "HEADER" /\ (q.type = "CONTENT" \/ q.path = <<>>) ->
                    StreamLiteral(found[1], q.type = "TEXT" \/ q.path # <<>>, q, opts)
              [] OTHER -> TextLiteral(<<>>, q, opts)
    BY Zenon DEF Content
  <2> HIDE DEF l, found
  <2>. QED
    BY <2>1, Zenon
<1> HIDE DEF l, found
<1>4. LiteralGood(l)
  BY <1>2, <1>3, TextLiteralGood, StreamLiteralGood
<1>. QED
  BY <1>4 DEF l

AllQueriesTyped == Len(queries) \in Nat /\ \A i \in 1 .. Len(queries) : QueryTyped(queries[i])

(* What the queries of the FETCH can get. *)
Gettable(tree) ==
    {Content(tree, queries[p[1]], p[2]) : p \in (1 .. Len(queries)) \X AllOptions}

(* The answer to the first queries. *)
Answers(tree) == [opts : AllOptions, literals : Seq(Gettable(tree))]

Asked(r, tree, q) ==
    [r EXCEPT !.opts = Options(r.opts, q),
              !.literals = IF q.literal THEN Append(@, Content(tree, q, Options(r.opts, q))) ELSE @]

(* The options that a query leaves behind. *)
LEMMA OptionsTyped ==
    ASSUME NEW opts \in AllOptions, NEW q, QueryTyped(q)
    PROVE  Options(opts, q) \in AllOptions
<1> DEFINE x == IF q.startFrom # 0 THEN q.startFrom ELSE opts.startFrom
           y == IF q.maxLength # 0 THEN q.maxLength ELSE opts.maxLength
<1>1. x \in Nat
  BY DEF QueryTyped, AllOptions
<1>2. y \in Nat
  BY DEF QueryTyped, AllOptions
<1>3. Options(opts, q) = [startFrom |-> x, maxLength |-> y]
  BY DEF Options
<1> HIDE DEF x, y
<1>. QED
  BY <1>1, <1>2, <1>3 DEF AllOptions

(* One more query. *)
LEMMA AskedTyped ==
    ASSUME AllQueriesTyped, NEW tree, NEW r \in Answers(tree), NEW i \in 1 .. Len(queries)
    PROVE  Asked(r, tree, queries[i]) \in Answers(tree)
<1> DEFINE q == queries[i]
           o == Options(r.opts, q)
           x == Content(tree, q, o)
           A == Gettable(tree)
           s == IF q.literal THEN Append(r.literals, x) ELSE r.literals
<1>1. QueryTyped(q)
  BY DEF AllQueriesTyped
<1>2. r.opts \in AllOptions /\ r.literals \in Seq(A)
  BY DEF Answers
<1>3. o \in AllOptions
  BY <1>1, <1>2, OptionsTyped
<1>4. x \in A
  <2> HIDE DEF o
  <2> DEFINE p == <<i, o>>
  <2>1. p \in (1 .. Len(queries)) \X AllOptions /\ p[1] = i /\ p[2] = o
    BY <1>3
  <2>2. x = Content(tree, queries[p[1]], p[2])
    BY <2>1
  <2> HIDE DEF p, x
  <2>. QED
    BY <2>1, <2>2, Zenon DEF Gettable
<1>5. Asked(r, tree, q) = [r EXCEPT !.opts = o, !.literals = s]
  BY DEF Asked
<1> HIDE DEF q, o, x, A
<1>6. s \in Seq(A)
  BY <1>2, <1>4
<1> HIDE DEF s
<1>7. [r EXCEPT !.opts = o, !.literals = s] \in Answers(tree)
  BY <1>3, <1>6 DEF Answers, A
<1>8. Asked(r, tree, q) \in Answers(tree)
  BY <1>5, <1>7
<1>. QED
  BY <1>8 DEF q

(* Each literal of a response is as it was announced. *)
LEMMA ContentsGood ==
    ASSUME AllQueriesTyped, Depth \in Nat, NEW tree \in MimeNodes[Depth]
    PROVE  /\ Len(Contents(tree)) \in Nat /\ DOMAIN Contents(tree) = 1 .. Len(Contents(tree))
           /\ \A i \in DOMAIN Contents(tree) : LiteralGood(Contents(tree)[i])
<1> DEFINE k == Len(queries)
           first == [opts |-> [startFrom |-> 0, maxLength |-> 0], literals |-> <<>>]
           Add(r, q) == Asked(r, tree, q)
           R(f) == f = [i \in 0 .. k |-> IF i = 0 THEN first ELSE Add(f[i - 1], queries[i])]
           c == CHOOSE f : R(f)
           A == Answers(tree)
           T == [i \in Nat |-> A]
           step == [p \in Nat \X A |-> Add(p[2], queries[p[1] + 1])]
<1>1. Contents(tree) = c[k].literals
  BY Zenon DEF Contents, Asked
<1>2. k \in Nat
  BY DEF AllQueriesTyped
<1>3. \A v \in A : \A i \in 1 .. k : Add(v, queries[i]) \in A
  BY AskedTyped
<1>4. first \in A
  <2> DEFINE o == [startFrom |-> 0, maxLength |-> 0]
             S == Gettable(tree)
  <2>1. o \in AllOptions
    BY DEF AllOptions
  <2> HIDE DEF o, S
  <2>2. <<>> \in Seq(S)
    BY EmptySeq
  <2>3. [opts |-> o, literals |-> <<>>] \in [opts : AllOptions, literals : Seq(S)]
    BY <2>1, <2>2
  <2>. QED
    BY <2>3 DEF Answers, o, S
<1> HIDE DEF first, k, Add, A
<1>5. \A i \in Nat : \A v \in A : step[<<i, v>>] = Add(v, queries[i + 1])
  OBVIOUS
<1>6. \A i \in Nat : T[i] = A
  OBVIOUS
<1> HIDE DEF T, step
<1>7. \A i \in Nat : \A v \in T[i] : i < k => step[<<i, v>>] \in T[i + 1]
  <2> SUFFICES ASSUME NEW i \in Nat, NEW v \in T[i], i < k PROVE step[<<i, v>>] \in T[i + 1]
    OBVIOUS
  <2>1. i + 1 \in Nat /\ i + 1 \in 1 .. k
    BY <1>2
  <2>2. v \in A /\ T[i + 1] = A
    BY <1>6, <2>1
  <2>. QED
    BY <1>3, <1>5, <2>1, <2>2
<1>8. PICK f : Ran(f, k, first, step) /\ \A i \in 0 .. k : f[i] \in T[i]
  <2> HIDE DEF R, c
  <2>1. first \in T[0]
    BY <1>4, <1>6
  <2>. QED
    BY <1>2, <1>7, <2>1, RunTyped
<1>9. R(f)
  <2>1. ASSUME NEW i \in 0 .. k, i # 0 PROVE step[<<i - 1, f[i - 1]>>] = Add(f[i - 1], queries[i])
    <3>1. i - 1 \in Nat /\ i - 1 \in 0 .. k /\ (i - 1) + 1 = i
      BY <1>2, <2>1
    <3>2. f[i - 1] \in A
      BY <1>6, <1>8, <3>1
    <3>. QED
      BY <1>5, <3>1, <3>2
  <2>2. [i \in 0 .. k |-> IF i = 0 THEN first ELSE step[<<i - 1, f[i - 1]>>]]
          = [i \in 0 .. k |-> IF i = 0 THEN first ELSE Add(f[i - 1], queries[i])]
    BY <2>1
  <2>. QED
    BY <1>8, <2>2 DEF Ran
<1>10. R(c)
  BY <1>9
<1> HIDE DEF c
<1>11. c[0] = first /\ \A i \in 1 .. k : c[i] = Add(c[i - 1], queries[i])
  <2>1. 0 \in 0 .. k /\ \A i \in 1 .. k : i \in 0 .. k /\ i # 0
    BY <1>2
  <2>. QED
    BY <1>10, <2>1
<1> HIDE DEF R
<1>12. \A i \in 0 .. k : c[i] \in T[i]
  <2>1. ASSUME NEW i \in Nat, i < k, c[i] \in T[i] PROVE c[i + 1] \in T[i + 1]
    <3>1. i + 1 \in 1 .. k /\ (i + 1) - 1 = i /\ i + 1 \in Nat
      BY <1>2, <2>1
    <3>2. c[i + 1] = Add(c[i], queries[i + 1])
      BY <1>11, <3>1
    <3>. QED
      BY <1>3, <1>6, <2>1, <3>1, <3>2
  <2>2. c[0] \in T[0]
    BY <1>4, <1>6, <1>11
  <2>. QED
    BY <1>2, <2>1, <2>2, TypedRun
<1>13. c[k] \in A
  BY <1>2, <1>6, <1>12
<1> DEFINE s == Contents(tree)
           S == Gettable(tree)
<1>14. s \in Seq(S)
  BY <1>1, <1>13 DEF A, Answers
<1>15. ASSUME NEW x \in S PROVE LiteralGood(x)
  <2>1. PICK p \in (1 .. Len(queries)) \X AllOptions : x = Content(tree, queries[p[1]], p[2])
    BY Zenon DEF Gettable
  <2>2. p[1] \in 1 .. Len(queries) /\ p[2] \in AllOptions
    OBVIOUS
  <2>3. QueryTyped(queries[p[1]])
    BY <2>2 DEF AllQueriesTyped
  <2>4. LiteralGood(Content(tree, queries[p[1]], p[2]))
    BY <2>2, <2>3, ContentGood
  <2>. QED
    BY <2>1, <2>4
<1> HIDE DEF s, S
<1>16. Len(s) \in Nat /\ DOMAIN s = 1 .. Len(s) /\ \A i \in DOMAIN s : s[i] \in S
  BY <1>14, Indexed
<1>. QED
  BY <1>15, <1>16 DEF s

-----------------------------------------------------------------------------
(* The queries *)

(* A number in a text. *)
LEMMA NumberTyped ==
    ASSUME NEW S, NEW value \in Seq(S)
    PROVE  Number(value) \in Nat
<1> DEFINE k == Len(value)
           digit(d) == CHOOSE n \in 0 .. 5 : <<"0", "1", "2", "3", "4", "5">>[n + 1] = d
           R(f) == f = [i \in 0 .. k |-> IF i = 0 THEN 0 ELSE 10 * f[i - 1] + digit(value[i])]
           c == CHOOSE f : R(f)
           T == [i \in Nat |-> Nat]
           step == [p \in Nat \X Nat |-> 10 * p[2] + digit(value[p[1] + 1])]
<1>1. Number(value) = IF Range(value) \subseteq Digits THEN c[k] ELSE 0
  BY DEF Number
<1>2. CASE ~ (Range(value) \subseteq Digits)
  BY <1>1, <1>2
<1>3. CASE Range(value) \subseteq Digits
  <2>1. k \in Nat /\ \A i \in 1 .. k : value[i] \in Digits
    BY <1>3 DEF Range
  <2>2. \A d \in Digits : digit(d) \in Nat
    <3> SUFFICES ASSUME NEW d \in Digits PROVE digit(d) \in Nat
      OBVIOUS
    <3>1. \E n \in 0 .. 5 : <<"0", "1", "2", "3", "4", "5">>[n + 1] = d
      <4> DEFINE t == <<"0", "1", "2", "3", "4", "5">>
      <4>1. t[0 + 1] = "0" /\ t[1 + 1] = "1" /\ t[2 + 1] = "2"
        OBVIOUS
      <4>2. t[3 + 1] = "3" /\ t[4 + 1] = "4" /\ t[5 + 1] = "5"
        OBVIOUS
      <4>3. d = "0" \/ d = "1" \/ d = "2" \/ d = "3" \/ d = "4" \/ d = "5"
        BY DEF Digits
      <4> HIDE DEF t
      <4>4. \E n \in 0 .. 5 : t[n + 1] = d
        BY <4>1, <4>2, <4>3
      <4>. QED
        BY <4>4 DEF t
    <3>2. digit(d) \in 0 .. 5
      BY <3>1, Zenon
    <3> HIDE DEF digit
    <3>. QED
      BY <3>2
  <2> HIDE DEF digit, k
  <2>3. \A i \in Nat : T[i] = Nat
    OBVIOUS
  <2>4. \A i \in Nat : \A v \in Nat : step[<<i, v>>] = 10 * v + digit(value[i + 1])
    OBVIOUS
  <2> HIDE DEF T, step
  <2>5. \A i \in 1 .. k : \A v \in Nat : 10 * v + digit(value[i]) \in Nat
    <3> SUFFICES ASSUME NEW i \in 1 .. k, NEW v \in Nat PROVE 10 * v + digit(value[i]) \in Nat
      OBVIOUS
    <3>1. digit(value[i]) \in Nat
      BY <2>1, <2>2
    <3>2. \A x \in Nat : 10 * v + x \in Nat
      OBVIOUS
    <3>. QED
      BY <3>1, <3>2, Zenon
  <2>6. \A i \in Nat : \A v \in T[i] : i < k => step[<<i, v>>] \in T[i + 1]
    <3> SUFFICES ASSUME NEW i \in Nat, NEW v \in T[i], i < k PROVE step[<<i, v>>] \in T[i + 1]
      OBVIOUS
    <3>1. i + 1 \in Nat /\ i + 1 \in 1 .. k
      BY <2>1
    <3>2. v \in Nat /\ T[i + 1] = Nat
      BY <2>3, <3>1
    <3>3. 10 * v + digit(value[i + 1]) \in Nat
      BY <2>5, <3>1, <3>2, Zenon
    <3>. QED
      BY <2>4, <3>2, <3>3
  <2>7. PICK f : Ran(f, k, 0, step) /\ \A i \in 0 .. k : f[i] \in T[i]
    <3> HIDE DEF R, c
    <3>1. 0 \in T[0]
      BY <2>3
    <3>. QED
      BY <2>1, <2>6, <3>1, RunTyped
  <2>8. R(f)
    <3>1. ASSUME NEW i \in 0 .. k, i # 0
          PROVE  step[<<i - 1, f[i - 1]>>] = 10 * f[i - 1] + digit(value[i])
      <4>1. i - 1 \in Nat /\ i - 1 \in 0 .. k /\ (i - 1) + 1 = i
        BY <2>1, <3>1
      <4>2. f[i - 1] \in Nat
        BY <2>3, <2>7, <4>1
      <4>. QED
        BY <2>4, <4>1, <4>2
    <3>2. [i \in 0 .. k |-> IF i = 0 THEN 0 ELSE step[<<i - 1, f[i - 1]>>]]
            = [i \in 0 .. k |-> IF i = 0 THEN 0 ELSE 10 * f[i - 1] + digit(value[i])]
      BY <3>1
    <3>. QED
      BY <2>7, <3>2 DEF Ran
  <2>9. R(c)
    BY <2>8
  <2> HIDE DEF c
  <2>10. c[0] = 0 /\ \A i \in 1 .. k : c[i] = 10 * c[i - 1] + digit(value[i])
    <3>1. 0 \in 0 .. k /\ \A i \in 1 .. k : i \in 0 .. k /\ i # 0
      BY <2>1
    <3>. QED
      BY <2>9, <3>1
  <2> HIDE DEF R
  <2>11. \A i \in 0 .. k : c[i] \in T[i]
    <3>1. ASSUME NEW i \in Nat, i < k, c[i] \in T[i] PROVE c[i + 1] \in T[i + 1]
      <4>1. i + 1 \in 1 .. k /\ (i + 1) - 1 = i /\ i + 1 \in Nat
        BY <2>1, <3>1
      <4>2. c[i + 1] = 10 * c[i] + digit(value[i + 1])
        BY <2>10, <4>1
      <4>3. c[i] \in Nat /\ T[i + 1] = Nat
        BY <2>3, <3>1, <4>1
      <4>4. 10 * c[i] + digit(value[i + 1]) \in Nat
        BY <2>5, <4>1, <4>3, Zenon
      <4>. QED
        BY <4>2, <4>3, <4>4
    <3>2. c[0] \in T[0]
      BY <2>3, <2>10
    <3>. QED
      BY <2>1, <3>1, <3>2, TypedRun
  <2>12. c[k] \in Nat
    BY <2>1, <2>3, <2>11
  <2>. QED
    BY <1>1, <1>3, <2>12 DEF k
<1>. QED
  BY <1>2, <1>3

(* One more character of the texts between full stops. *)
LEMMA SplitTyped ==
    ASSUME NEW A, NEW split \in Seq(Seq(A)), split # <<>>, NEW c \in A, NEW stop \in BOOLEAN
    PROVE  LET next == IF stop THEN Append(split, <<>>)
                       ELSE Append(Front(split), Append(Last(split), c))
           IN  next \in Seq(Seq(A)) /\ next # <<>>
<1> DEFINE S == Seq(A)
           f == Front(split)
           x == Last(split)
           y == Append(x, c)
<1>1. f \in Seq(S) /\ x \in S
  BY Ended, Zenon
<1>2. y \in S
  <2> HIDE DEF x
  <2>. QED
    BY <1>1
<1>3. <<>> \in S
  BY EmptySeq
<1> HIDE DEF S, f, x, y
<1>4. Append(f, y) \in Seq(S) /\ Append(f, y) # <<>>
  BY <1>1, <1>2, AppendProperties
<1>5. split \in Seq(S)
  BY DEF S
<1>6. Append(split, <<>>) \in Seq(S) /\ Append(split, <<>>) # <<>>
  BY <1>3, <1>5, AppendProperties
<1>. QED
  BY <1>4, <1>6 DEF S, f, x, y

(* The numbers between full stops. *)
LEMMA NumbersTyped ==
    ASSUME NEW A, NEW value \in Seq(A)
    PROVE  Numbers(value) \in Seq(Nat)
<1> DEFINE k == Len(value)
           first == <<<<>>>>
           Add(split, x) == IF x = "." THEN Append(split, <<>>)
                            ELSE Append(Front(split), Append(Last(split), x))
           R(f) == f = [i \in 0 .. k |-> IF i = 0 THEN first ELSE Add(f[i - 1], value[i])]
           c == CHOOSE f : R(f)
           B == {s \in Seq(Seq(A)) : s # <<>>}
           T == [i \in Nat |-> B]
           step == [p \in Nat \X B |-> Add(p[2], value[p[1] + 1])]
           parts == c[k]
<1>1. Numbers(value) = [i \in DOMAIN parts |-> Number(parts[i])]
  BY DEF Numbers
<1>2. k \in Nat /\ \A i \in 1 .. k : value[i] \in A
  OBVIOUS
<1>3. \A v \in B : \A x \in A : Add(v, x) \in B
  <2> SUFFICES ASSUME NEW v \in B, NEW x \in A PROVE Add(v, x) \in B
    OBVIOUS
  <2> DEFINE stop == x = "."
             next == IF stop THEN Append(v, <<>>) ELSE Append(Front(v), Append(Last(v), x))
  <2>1. v \in Seq(Seq(A)) /\ v # <<>> /\ stop \in BOOLEAN
    OBVIOUS
  <2>2. next \in Seq(Seq(A)) /\ next # <<>>
    <3> HIDE DEF stop
    <3>. QED
      BY <2>1, SplitTyped, Zenon
  <2> HIDE DEF next
  <2>3. next \in B
    BY <2>2
  <2>. QED
    BY <2>3 DEF next
<1>4. first \in B
  <2> DEFINE x == <<>>
  <2>1. x \in Seq(A)
    BY EmptySeq
  <2> HIDE DEF x
  <2>2. <<x>> \in Seq(Seq(A)) /\ <<x>> # <<>>
    BY <2>1
  <2>. QED
    BY <2>2 DEF x
<1> HIDE DEF first, k, Add
<1>5. \A v \in B : v \in Seq(Seq(A))
  OBVIOUS
<1> HIDE DEF B
<1>6. \A i \in Nat : \A v \in B : step[<<i, v>>] = Add(v, value[i + 1])
  OBVIOUS
<1>7. \A i \in Nat : T[i] = B
  OBVIOUS
<1> HIDE DEF T, step
<1>8. \A i \in Nat : \A v \in T[i] : i < k => step[<<i, v>>] \in T[i + 1]
  <2> SUFFICES ASSUME NEW i \in Nat, NEW v \in T[i], i < k PROVE step[<<i, v>>] \in T[i + 1]
    OBVIOUS
  <2>1. i + 1 \in Nat /\ i + 1 \in 1 .. k
    BY <1>2
  <2>2. v \in B /\ T[i + 1] = B
    BY <1>7, <2>1
  <2>. QED
    BY <1>2, <1>3, <1>6, <2>1, <2>2
<1>9. PICK f : Ran(f, k, first, step) /\ \A i \in 0 .. k : f[i] \in T[i]
  <2> HIDE DEF R, c
  <2>1. first \in T[0]
    BY <1>4, <1>7
  <2>. QED
    BY <1>2, <1>8, <2>1, RunTyped
<1>10. R(f)
  <2>1. ASSUME NEW i \in 0 .. k, i # 0 PROVE step[<<i - 1, f[i - 1]>>] = Add(f[i - 1], value[i])
    <3>1. i - 1 \in Nat /\ i - 1 \in 0 .. k /\ (i - 1) + 1 = i
      BY <1>2, <2>1
    <3>2. f[i - 1] \in B
      BY <1>7, <1>9, <3>1
    <3>. QED
      BY <1>6, <3>1, <3>2
  <2>2. [i \in 0 .. k |-> IF i = 0 THEN first ELSE step[<<i - 1, f[i - 1]>>]]
          = [i \in 0 .. k |-> IF i = 0 THEN first ELSE Add(f[i - 1], value[i])]
    BY <2>1
  <2>. QED
    BY <1>9, <2>2 DEF Ran
<1>11. R(c)
  BY <1>10
<1> HIDE DEF c
<1>12. c[0] = first /\ \A i \in 1 .. k : c[i] = Add(c[i - 1], value[i])
  <2>1. 0 \in 0 .. k /\ \A i \in 1 .. k : i \in 0 .. k /\ i # 0
    BY <1>2
  <2>. QED
    BY <1>11, <2>1
<1> HIDE DEF R
<1>13. \A i \in 0 .. k : c[i] \in T[i]
  <2>1. ASSUME NEW i \in Nat, i < k, c[i] \in T[i] PROVE c[i + 1] \in T[i + 1]
    <3>1. i + 1 \in 1 .. k /\ (i + 1) - 1 = i /\ i + 1 \in Nat
      BY <1>2, <2>1
    <3>2. c[i + 1] = Add(c[i], value[i + 1])
      BY <1>12, <3>1
    <3>3. c[i] \in B /\ T[i + 1] = B
      BY <1>7, <2>1, <3>1
    <3>. QED
      BY <1>2, <1>3, <3>1, <3>2, <3>3
  <2>2. c[0] \in T[0]
    BY <1>4, <1>7, <1>12
  <2>. QED
    BY <1>2, <2>1, <2>2, TypedRun
<1>14. parts \in Seq(Seq(A))
  BY <1>2, <1>5, <1>7, <1>13
<1> HIDE DEF parts
<1>15. DOMAIN parts = 1 .. Len(parts) /\ Len(parts) \in Nat /\ \A i \in DOMAIN parts : parts[i] \in Seq(A)
  BY <1>14, Indexed
<1>16. \A i \in DOMAIN parts : Number(parts[i]) \in Nat
  BY <1>15, NumberTyped
<1>. QED
  BY <1>1, <1>15, <1>16

(* What a text begins with is no longer than it. *)
LEMMA PathEndTyped ==
    ASSUME NEW A, NEW value \in Seq(A)
    PROVE  PathEnd(value) \in 0 .. Len(value)
<1> DEFINE m == Len(value)
           IsPath(n) ==
              /\ Range(SubSeq(value, 1, n)) \subseteq Digits \cup {"."}
              /\ \A i \in 1 .. n : value[i] = "." => i > 1 /\ value[i - 1] # "."
              /\ n \in {0, Len(value)} \/ value[n] = "."
           Q(k) == IsPath(k) /\ \A n \in k + 1 .. m : ~ IsPath(n)
           S == {j \in Nat : j <= m /\ IsPath(m - j)}
<1>1. PathEnd(value) = CHOOSE k \in 0 .. m : Q(k)
  BY DEF PathEnd
<1>2. m \in Nat
  OBVIOUS
<1>3. IsPath(0)
  <2>1. \A i \in DOMAIN SubSeq(value, 1, 0) : FALSE
    BY PartOf
  <2>2. Range(SubSeq(value, 1, 0)) \subseteq Digits \cup {"."}
    BY <2>1 DEF Range
  <2>3. \A i \in 1 .. 0 : FALSE
    OBVIOUS
  <2>. QED
    BY <2>2, <2>3
<1> HIDE DEF m, IsPath
<1>4. m \in S
  BY <1>2, <1>3
<1>5. PICK j \in S : \A i \in S : j <= i
  BY <1>4, Least
<1>6. j \in Nat /\ j <= m /\ IsPath(m - j)
  BY <1>5
<1>7. ASSUME NEW n \in (m - j) + 1 .. m PROVE ~ IsPath(n)
  <2> SUFFICES ASSUME IsPath(n) PROVE FALSE
    OBVIOUS
  <2>1. m - n \in Nat /\ m - n <= m /\ m - (m - n) = n /\ ~ (j <= m - n)
    BY <1>2, <1>6, <1>7
  <2>2. m - n \in S
    BY <2>1
  <2>. QED
    BY <1>5, <2>1, <2>2
<1>8. m - j \in 0 .. m /\ Q(m - j)
  BY <1>2, <1>6, <1>7
<1> HIDE DEF Q
<1>. QED
  BY <1>1, <1>8 DEF m

(* The path of a section is made of numbers. *)
LEMMA PathTyped ==
    ASSUME NEW A, NEW value \in Seq(A)
    PROVE  LET k == PathEnd(value)
               path == IF k > 0 /\ value[k] = "." THEN SubSeq(value, 1, k - 1) ELSE SubSeq(value, 1, k)
           IN  (IF path = <<>> THEN <<>> ELSE Numbers(path)) \in Seq(Nat)
<1> DEFINE k == PathEnd(value)
           path == IF k > 0 /\ value[k] = "." THEN SubSeq(value, 1, k - 1) ELSE SubSeq(value, 1, k)
<1>1. k \in 0 .. Len(value)
  BY PathEndTyped
<1> HIDE DEF k
<1>2. k \in Int /\ k - 1 \in Int /\ k <= Len(value) /\ k - 1 <= Len(value)
  BY <1>1
<1>3. SubSeq(value, 1, k) \in Seq(A)
  BY <1>2, PartOf
<1>4. SubSeq(value, 1, k - 1) \in Seq(A)
  BY <1>2, PartOf
<1>5. path \in Seq(A)
  BY <1>3, <1>4
<1> HIDE DEF path
<1>6. Numbers(path) \in Seq(Nat)
  BY <1>5, NumbersTyped
<1>7. <<>> \in Seq(Nat)
  BY EmptySeq
<1>8. (IF path = <<>> THEN <<>> ELSE Numbers(path)) \in Seq(Nat)
  BY <1>6, <1>7
<1>. QED
  BY <1>8 DEF path, k

(* What is in an argument. *)
LEMMA ArgumentHas ==
    ASSUME NEW n \in Nat, NEW a \in Args(n)
    PROVE  /\ a.value \in Seq(Char) /\ a.items \in Lists(n) /\ a.sections \in Lists(n)
           /\ a.partial \in Seq(Seq(Char))
<1> HIDE DEF Char
<1> DEFINE C == Char
           L == Lists(n)
           types == {"LIST", "STRING", "LITERAL", "NIL", "ATOM", "SEQUENCE"}
<1>1. a \in [type : types, value : Seq(C), literal : Nat, items : L, section : BOOLEAN,
             sections : L, partial : Seq(Seq(C))]
  BY DEF Args, ArgumentsOver
<1> HIDE DEF C, L, types
<1>2. a.value \in Seq(C) /\ a.items \in L /\ a.sections \in L /\ a.partial \in Seq(Seq(C))
  BY <1>1
<1>. QED
  BY <1>2 DEF C, L

(* A list is one of arguments. *)
LEMMA ListHas ==
    ASSUME NEW n \in Nat, NEW list \in Lists(n)
    PROVE  \E m \in Nat : list \in Seq(Args(m))
<1>1. CASE n = 0
  <2>1. list = <<>>
    BY <1>1, ListsNone, Zenon
  <2> DEFINE A == Args(0)
  <2>2. <<>> \in Seq(A)
    BY EmptySeq
  <2>. QED
    BY <2>1, <2>2
<1>2. CASE n # 0
  <2>1. PICK m \in Nat : n = m + 1
    BY <1>2, Before
  <2>2. Lists(n) = Seq(Args(m))
    BY <2>1, ListsNext
  <2>. QED
    BY <2>2, Zenon
<1>. QED
  BY <1>1, <1>2

(* A section begins with a path. *)
LEMMA SectionTyped ==
    ASSUME NEW n \in Nat, NEW sections \in Lists(n)
    PROVE  SectionOf(sections).path \in Seq(Nat)
<1> DEFINE value == IF sections = <<>> \/ sections[1].type = "LIST" THEN <<>> ELSE sections[1].value
           k == PathEnd(value)
           path == IF k > 0 /\ value[k] = "." THEN SubSeq(value, 1, k - 1) ELSE SubSeq(value, 1, k)
           numbers == IF path = <<>> THEN <<>> ELSE Numbers(path)
           A == Char
<1>1. value \in Seq(A)
  <2>1. CASE sections = <<>>
    BY <2>1, EmptySeq
  <2>2. CASE sections # <<>>
    <3>1. PICK m \in Nat : sections \in Seq(Args(m))
      BY ListHas
    <3> DEFINE B == Args(m)
    <3>2. sections \in Seq(B)
      BY <3>1
    <3> HIDE DEF B
    <3>3. sections[1] \in B
      BY <2>2, <3>2, EmptySeq
    <3>4. sections[1].value \in Seq(A)
      BY <3>3, ArgumentHas DEF B
    <3>. QED
      BY <2>2, <3>4, EmptySeq
  <2>. QED
    BY <2>1, <2>2
<1>2. SectionOf(sections).path = numbers
  BY DEF SectionOf
<1> HIDE DEF value, A
<1>3. numbers \in Seq(Nat)
  BY <1>1, PathTyped, Zenon
<1>. QED
  BY <1>2, <1>3, Zenon

(* A query's bounds are numbers, and its path is a sequence. *)
LEMMA QueryIsTyped ==
    ASSUME NEW n \in Nat, NEW param \in Args(n)
    PROVE  QueryTyped(Query(param))
<1> DEFINE partial == IF param.partial = <<>> THEN <<>> ELSE Numbers(param.partial[1])
           section == SectionOf(param.sections)
           from == IF partial = <<>> THEN 0 ELSE partial[1]
           most == IF Len(partial) < 2 THEN 0 ELSE partial[2]
           q == Query(param)
<1>1. partial \in Seq(Nat)
  <2> DEFINE S == Seq(Char)
             p == param.partial
  <2>1. p \in Seq(S)
    BY ArgumentHas
  <2> HIDE DEF S, p
  <2>2. p # <<>> => p[1] \in S
    BY <2>1, EmptySeq
  <2>3. p # <<>> => Numbers(p[1]) \in Seq(Nat)
    BY <2>2, NumbersTyped DEF S
  <2>. QED
    BY <2>3, EmptySeq DEF p
<1>2. q.startFrom = from /\ q.maxLength = most /\ q.path = section.path
  BY DEF Query
<1>3. section.path \in Seq(Nat)
  <2>1. param.sections \in Lists(n)
    BY ArgumentHas
  <2>. QED
    BY <2>1, SectionTyped
<1> HIDE DEF partial, section, q
<1>4. from \in Nat
  BY <1>1, EmptySeq
<1>5. most \in Nat
  <2>1. Len(partial) \in Nat
    BY <1>1
  <2>2. CASE Len(partial) < 2
    BY <2>2
  <2>3. CASE ~ (Len(partial) < 2)
    <3>1. 2 \in 1 .. Len(partial)
      BY <2>1, <2>3
    <3>2. partial[2] \in Nat
      BY <1>1, <3>1
    <3>. QED
      BY <2>3, <3>2
  <2>. QED
    BY <2>2, <2>3
<1>6. Len(q.path) \in Nat
  BY <1>2, <1>3
<1> HIDE DEF from, most
<1>7. QueryTyped(q)
  BY <1>2, <1>4, <1>5, <1>6 DEF QueryTyped
<1>. QED
  BY <1>7 DEF q

(* The queries of a list of arguments. *)
LEMMA QueriesTyped ==
    ASSUME NEW n \in Nat, NEW a \in Lists(n), Len(a) \in {2, 3}, NEW made,
           made = [i \in DOMAIN MessageData(a[2]) |-> Query(MessageData(a[2])[i])]
    PROVE  Len(made) \in Nat /\ \A i \in 1 .. Len(made) : QueryTyped(made[i])
<1> DEFINE data == MessageData(a[2])
<1>1. PICK m \in Nat : a \in Seq(Args(m))
  BY ListHas
<1>2. a[2] \in Args(m)
  <2> DEFINE B == Args(m)
  <2>1. a \in Seq(B)
    BY <1>1
  <2> HIDE DEF B
  <2>2. 2 \in 1 .. Len(a)
    OBVIOUS
  <2>3. a[2] \in B
    BY <2>1, <2>2
  <2>. QED
    BY <2>3 DEF B
<1>3. \E k \in Nat : data \in Seq(Args(k))
  <2>1. CASE a[2].type = "LIST"
    <3>1. data = a[2].items
      BY <2>1 DEF MessageData
    <3>2. a[2].items \in Lists(m)
      BY <1>2, ArgumentHas
    <3>. QED
      BY <3>1, <3>2, ListHas
  <2>2. CASE a[2].type # "LIST"
    <3> DEFINE x == a[2]
               B == Args(m)
    <3>1. data = <<x>>
      BY <2>2 DEF MessageData
    <3>2. x \in B
      BY <1>2
    <3> HIDE DEF x, B
    <3>3. <<x>> \in Seq(B)
      BY <3>2
    <3>. QED
      BY <3>1, <3>3 DEF B
  <2>. QED
    BY <2>1, <2>2
<1>4. PICK k \in Nat : data \in Seq(Args(k))
  BY <1>3
<1> DEFINE B == Args(k)
<1>5. made = [i \in DOMAIN data |-> Query(data[i])]
  OBVIOUS
<1>6. data \in Seq(B)
  BY <1>4
<1> HIDE DEF data, B
<1>7. DOMAIN data = 1 .. Len(data) /\ Len(data) \in Nat /\ \A i \in DOMAIN data : data[i] \in B
  BY <1>6, Indexed
<1>8. Len(made) = Len(data) /\ \A i \in 1 .. Len(data) : made[i] = Query(data[i])
  <2> DEFINE Q == {Query(x) : x \in B}
  <2>1. \A i \in DOMAIN data : Query(data[i]) \in Q
    BY <1>7
  <2>2. made \in [1 .. Len(data) -> Q] /\ \A i \in 1 .. Len(data) : made[i] = Query(data[i])
    BY <1>5, <1>7, <2>1
  <2> HIDE DEF Q
  <2>. QED
    BY <1>7, <2>2
<1>9. \A x \in B : QueryTyped(Query(x))
  BY QueryIsTyped DEF B
<1>. QED
  BY <1>7, <1>8, <1>9

-----------------------------------------------------------------------------
(* The invariant *)

(* The queries are what the handler makes of arguments; the literals are what   *)
(* was announced, and the client has got the first of them.                   *)
LiteralsInv ==
    /\ Len(literals) \in Nat /\ DOMAIN literals = 1 .. Len(literals)
    /\ \A i \in DOMAIN literals : LiteralGood(literals[i])

SentInv ==
    /\ Len(sent) \in Nat /\ DOMAIN sent = 1 .. Len(sent) /\ Len(sent) <= Len(literals)
    /\ \E S : sent \in Seq(S)
    /\ \A i \in DOMAIN sent : sent[i] = literals[i].content

FetchInv ==
    /\ ParserInv
    /\ AllQueriesTyped
    /\ mail \in Seq(MailLine)
    /\ stage \in {"typing", "reading"} => sent = <<>>
    /\ LiteralsInv
    /\ SentInv

(* At the start there is nothing. *)
LEMMA FetchStart == Init => FetchInv
<1> SUFFICES ASSUME Init PROVE FetchInv
  OBVIOUS
<1>1. ParserInv
  BY InvStart DEF Init
<1>2. queries = <<>> /\ mail = <<>> /\ literals = <<>> /\ sent = <<>>
  BY DEF Init
<1>3. Len(<<>>) \in Nat /\ DOMAIN <<>> = 1 .. Len(<<>>) /\ Len(<<>>) = 0
  BY Empty0
<1>4. AllQueriesTyped
  BY <1>2, <1>3 DEF AllQueriesTyped
<1>5. mail \in Seq(MailLine)
  BY <1>2, EmptySeq
<1>6. LiteralsInv
  BY <1>2, <1>3 DEF LiteralsInv
<1>7. SentInv
  <2>1. <<>> \in Seq(Nat)
    BY EmptySeq
  <2>. QED
    BY <1>2, <1>3, <2>1 DEF SentInv
<1>. QED
  BY <1>1, <1>2, <1>4, <1>5, <1>6, <1>7 DEF FetchInv

(* The queries, the mail and the response are what they were. *)
LEMMA RestKept ==
    ASSUME FetchInv, queries' = queries, mail' = mail, literals' = literals, sent' = sent
    PROVE  AllQueriesTyped' /\ (mail \in Seq(MailLine))' /\ LiteralsInv' /\ SentInv'
<1>1. AllQueriesTyped'
  BY DEF FetchInv, AllQueriesTyped
<1>2. (mail \in Seq(MailLine))'
  BY DEF FetchInv
<1>3. LiteralsInv'
  BY DEF FetchInv, LiteralsInv
<1>4. SentInv'
  BY DEF FetchInv, SentInv
<1>. QED
  BY <1>1, <1>2, <1>3, <1>4

(* A step that leaves the command alone leaves what the parser made of it. *)
LEMMA CommandKept == ParserInv /\ UNCHANGED parserVars => ParserInv'
BY InvStep

(* The handler runs. *)
LEMMA HandleKeeps == ASSUME FetchInv, Handle PROVE FetchInv'
<1> DEFINE a == args.value
           n == Len(input) + 1
           made == [i \in DOMAIN MessageData(a[2]) |-> Query(MessageData(a[2])[i])]
<1>1. stage = "typing" /\ args.ok /\ sent = <<>>
  BY DEF Handle, FetchInv
<1>2. n \in Nat /\ a \in Lists(n)
  <2>1. Len(input) \in Nat
    BY DEF FetchInv, ParserInv
  <2>2. args.value \in Lists(Len(input) + 1)
    BY <1>1 DEF FetchInv, ParserInv
  <2>. QED
    BY <2>1, <2>2
<1>3. \/ Answered("BAD") \/ Answered("NO")
      \/ /\ ~ Refused(a) /\ queries' = made /\ stage' = "reading"
         /\ mail' \in Mails /\ UNCHANGED <<parserVars, response>>
  BY DEF Handle
<1>4. CASE Answered("BAD") \/ Answered("NO")
  <2>1. UNCHANGED parserVars /\ queries' = queries /\ mail' = mail /\ literals' = literals /\ sent' = sent
    BY <1>4 DEF Answered, message, response
  <2>2. ParserInv'
    BY <2>1, CommandKept DEF FetchInv
  <2>3. sent' = <<>>
    BY <1>1, <2>1
  <2>. QED
    BY <2>1, <2>2, <2>3, RestKept DEF FetchInv
<1>5. CASE /\ ~ Refused(a) /\ queries' = made /\ stage' = "reading"
           /\ mail' \in Mails /\ UNCHANGED <<parserVars, response>>
  <2>1. ParserInv'
    BY <1>5, CommandKept DEF FetchInv
  <2>2. Len(a) \in {2, 3}
    BY <1>5 DEF Refused
  <2>3. AllQueriesTyped'
    <3>1. queries' = [i \in DOMAIN MessageData(a[2]) |-> Query(MessageData(a[2])[i])]
      BY <1>5
    <3> HIDE DEF a, n, made
    <3>2. Len(queries') \in Nat /\ \A i \in 1 .. Len(queries') : QueryTyped(queries'[i])
      BY <1>2, <2>2, <3>1, QueriesTyped
    <3>. QED
      BY <3>2 DEF AllQueriesTyped
  <2>4. mail' \in Seq(MailLine)
    BY <1>5, FetchAssumption
  <2>5. literals' = literals /\ sent' = sent
    BY <1>5 DEF response
  <2>6. LiteralsInv'
    BY <2>5 DEF FetchInv, LiteralsInv
  <2>7. SentInv'
    BY <2>5 DEF FetchInv, SentInv
  <2>8. sent' = <<>>
    BY <1>1, <2>5
  <2>. QED
    BY <2>1, <2>3, <2>4, <2>6, <2>7, <2>8 DEF FetchInv
<1>. QED
  BY <1>3, <1>4, <1>5

(* The message is read. *)
LEMMA ReadMessageKeeps == ASSUME FetchInv, ReadMessage PROVE FetchInv'
<1> DEFINE tree == Parse(mail)
<1>1. stage = "reading" /\ sent = <<>>
  BY DEF ReadMessage, FetchInv
<1>2. \/ Answered("NO")
      \/ /\ literals' = Contents(tree) /\ stage' = "sending"
         /\ UNCHANGED <<parserVars, queries, message, sent, failed>>
  BY DEF ReadMessage
<1>3. CASE Answered("NO")
  <2>1. UNCHANGED parserVars /\ queries' = queries /\ mail' = mail /\ literals' = literals /\ sent' = sent
    BY <1>3 DEF Answered, message, response
  <2>2. ParserInv'
    BY <2>1, CommandKept DEF FetchInv
  <2>3. sent' = <<>>
    BY <1>1, <2>1
  <2>. QED
    BY <2>1, <2>2, <2>3, RestKept DEF FetchInv
<1>4. CASE /\ literals' = Contents(tree) /\ stage' = "sending"
           /\ UNCHANGED <<parserVars, queries, message, sent, failed>>
  <2>1. ParserInv'
    BY <1>4, CommandKept DEF FetchInv
  <2>2. AllQueriesTyped /\ mail \in Seq(MailLine)
    BY DEF FetchInv
  <2>3. AllQueriesTyped'
    BY <1>4, <2>2 DEF AllQueriesTyped
  <2>4. (mail \in Seq(MailLine))'
    BY <1>4, <2>2 DEF message
  <2>5. tree \in MimeNodes[Depth] /\ Depth \in Nat
    BY <2>2, ParseTyped DEF Depth
  <2> HIDE DEF tree
  <2>6. /\ Len(literals') \in Nat /\ DOMAIN literals' = 1 .. Len(literals')
        /\ \A i \in DOMAIN literals' : LiteralGood(literals'[i])
    <3> DEFINE s == Contents(tree)
    <3>1. Len(s) \in Nat /\ DOMAIN s = 1 .. Len(s) /\ \A i \in DOMAIN s : LiteralGood(s[i])
      BY <2>2, <2>5, ContentsGood
    <3>2. literals' = s
      BY <1>4
    <3> HIDE DEF s
    <3>. QED
      BY <3>1, <3>2
  <2>7. LiteralsInv'
    BY <2>6 DEF LiteralsInv, LiteralGood, Available
  <2>8. SentInv'
    <3>1. sent' = <<>>
      BY <1>1, <1>4
    <3>2. Len(<<>>) \in Nat /\ DOMAIN <<>> = 1 .. Len(<<>>) /\ Len(<<>>) = 0
      BY Empty0
    <3>3. <<>> \in Seq(Nat)
      BY EmptySeq
    <3>4. \A i \in 1 .. 0 : FALSE
      OBVIOUS
    <3>. QED
      BY <2>6, <3>1, <3>2, <3>3, <3>4 DEF SentInv
  <2>9. stage' \notin {"typing", "reading"}
    BY <1>4
  <2>. QED
    BY <2>1, <2>3, <2>4, <2>7, <2>8, <2>9 DEF FetchInv
<1>. QED
  BY <1>2, <1>3, <1>4

(* A literal is sent. *)
LEMMA SendLiteralKeeps ==
    ASSUME FetchInv, NEW i \in DOMAIN literals, SendLiteral(i)
    PROVE  FetchInv'
<1> DEFINE x == literals[i].content
<1>1. /\ stage = "sending" /\ i = Len(sent) + 1 /\ i \in DOMAIN literals
      /\ sent' = Append(sent, x)
      /\ UNCHANGED parserVars /\ stage' = stage /\ queries' = queries /\ mail' = mail
      /\ literals' = literals
  BY DEF SendLiteral, Emitting, message
<1>2. ParserInv'
  BY <1>1, CommandKept DEF FetchInv
<1>3. AllQueriesTyped'
  BY <1>1 DEF FetchInv, AllQueriesTyped
<1>4. (mail \in Seq(MailLine))'
  BY <1>1 DEF FetchInv
<1>5. LiteralsInv'
  BY <1>1 DEF FetchInv, LiteralsInv
<1>6. SentInv'
  <2>1. /\ Len(sent) \in Nat /\ DOMAIN sent = 1 .. Len(sent)
        /\ \A j \in DOMAIN sent : sent[j] = literals[j].content
    BY DEF FetchInv, SentInv
  <2>2. DOMAIN literals = 1 .. Len(literals) /\ Len(literals) \in Nat
    BY DEF FetchInv, LiteralsInv
  <2>3. PICK S : sent \in Seq(S)
    BY DEF FetchInv, SentInv
  <2> DEFINE A == S \cup {x}
             t == Append(sent, x)
  <2>4. sent \in Seq(A) /\ x \in A
    BY <2>3
  <2> HIDE DEF A, x
  <2>5. /\ t \in Seq(A) /\ Len(t) = Len(sent) + 1 /\ t[Len(sent) + 1] = x
        /\ \A j \in 1 .. Len(sent) : t[j] = sent[j]
    BY <2>4, AppendProperties
  <2> HIDE DEF t
  <2>6. DOMAIN t = 1 .. Len(t) /\ Len(t) \in Nat
    BY <2>5, Indexed
  <2>7. Len(t) <= Len(literals)
    BY <1>1, <2>1, <2>2, <2>5
  <2>8. ASSUME NEW j \in DOMAIN t PROVE t[j] = literals[j].content
    <3>1. CASE j = Len(sent) + 1
      <4>1. j = i
        BY <1>1, <3>1
      <4>2. t[j] = x
        BY <2>5, <3>1
      <4>. QED
        BY <4>1, <4>2 DEF x
    <3>2. CASE j # Len(sent) + 1
      <4>1. j \in 1 .. Len(sent)
        BY <2>1, <2>5, <2>6, <3>2
      <4>. QED
        BY <2>1, <2>5, <4>1
    <3>. QED
      BY <3>1, <3>2
  <2>9. sent' = t
    BY <1>1 DEF t
  <2>. QED
    BY <1>1, <2>5, <2>6, <2>7, <2>8, <2>9 DEF SentInv
<1>7. stage' \notin {"typing", "reading"}
  BY <1>1
<1>. QED
  BY <1>2, <1>3, <1>4, <1>5, <1>6, <1>7 DEF FetchInv

(* The client types or stops reading, and a stream fails or the response is
   complete. *)
LEMMA OthersKeep ==
    ASSUME FetchInv,
           \/ Typing \/ Complete \/ StopsReading \/ UNCHANGED vars
           \/ \E i \in DOMAIN literals : StreamFails(i)
    PROVE  FetchInv'
<1>1. queries' = queries /\ mail' = mail /\ literals' = literals /\ sent' = sent
  BY DEF Typing, Complete, Answered, StopsReading, StreamFails, vars, message, response
<1>2. [ParserNext]_parserVars
  BY DEF Typing, Complete, Answered, StopsReading, StreamFails, vars
<1>3. ParserInv'
  BY <1>2, InvStep DEF FetchInv
<1>4. stage' \in {"typing", "reading"} => stage' = stage
  BY DEF Typing, Complete, Answered, StopsReading, StreamFails, vars
<1>5. stage' \in {"typing", "reading"} => sent' = <<>>
  BY <1>1, <1>4 DEF FetchInv
<1>. QED
  BY <1>1, <1>3, <1>5, RestKept DEF FetchInv

(* Every step keeps the invariant. *)
LEMMA FetchStep == FetchInv /\ [Next]_vars => FetchInv'
<1> SUFFICES ASSUME FetchInv, [Next]_vars PROVE FetchInv'
  OBVIOUS
<1>1. CASE Handle
  BY <1>1, HandleKeeps
<1>2. CASE ReadMessage
  BY <1>2, ReadMessageKeeps
<1>3. ASSUME NEW i \in DOMAIN literals, SendLiteral(i) PROVE FetchInv'
  BY <1>3, SendLiteralKeeps
<1>4. CASE \/ Typing \/ Complete \/ StopsReading \/ UNCHANGED vars
           \/ \E i \in DOMAIN literals : StreamFails(i)
  BY <1>4, OthersKeep
<1>. QED
  BY <1>1, <1>2, <1>3, <1>4 DEF Next, Streaming

(* What the server's FETCH works on is the command that the client typed: also
   while it is answered, the arguments are what was typed (ParsedAsTyped). *)
THEOREM FetchParsedAsTyped == Spec => []ParsedAsTyped
<1>1. FetchInv => ParsedAsTyped
  BY DEF FetchInv, ParserInv
<1>. QED
  BY <1>1, FetchStart, FetchStep, PTL DEF Spec

(* A client that gets a literal whole gets as much of it as was announced, for
   all mails, commands and ways to store attachments (LiteralAsAnnounced). *)
THEOREM LiteralsAnnounced == Spec => []LiteralAsAnnounced
<1>1. FetchInv => LiteralAsAnnounced
  <2> SUFFICES ASSUME FetchInv, NEW i \in DOMAIN sent
               PROVE  LET l == literals[i]
                          start == l.query.startFrom
                      IN  start = 0 \/ (start <= Available(l) /\ ~ l.reads)
                            => Len(sent[i]) = l.announced
    BY DEF LiteralAsAnnounced
  <2>1. sent[i] = literals[i].content /\ i \in DOMAIN literals
    BY DEF FetchInv, SentInv, LiteralsInv
  <2>2. LiteralGood(literals[i])
    BY <2>1 DEF FetchInv, LiteralsInv
  <2>. QED
    BY <2>1, <2>2 DEF LiteralGood
<1>. QED
  BY <1>1, FetchStart, FetchStep, PTL DEF Spec
=============================================================================
