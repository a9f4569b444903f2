--------------------------- MODULE CommandParserProofs ---------------------------
(***************************************************************************)
(* imapCommandParser understands what it accepts (CommandParsedAsTyped), for   *)
(* inputs of any length, over any symbols and at any depth of lists.           *)
(*                                                                          *)
(* Good is the inductive invariant: what has been read of the open nodes, from *)
(* the tree's root to the current one, is one after the other the input, and   *)
(* the literals among it are those announced, in their order; the nodes are     *)
(* nested as lists and sections are; and the state fits the current node and    *)
(* the last characters of the input.  There is a lemma for each operation on    *)
(* the stack, and one for each state of processString.                        *)
(***************************************************************************)
EXTENDS CommandParser, TLAPS, NaturalsInduction, SequenceTheorems, WellFoundedInduction

(* A set of numbers has a least one. *)
LEMMA Least ==
    ASSUME NEW S, S \subseteq Nat, S # {}
    PROVE  \E n \in S : \A m \in S : n <= m
<1>1. PICK R : IsWellFoundedOn(R, Nat) /\ \A x, y \in Nat : x < y => <<x, y>> \in R
  <2> DEFINE R == OpToRel(<, Nat)
  <2>1. IsWellFoundedOn(R, Nat)
    BY NatLessThanWellFounded
  <2>2. \A x, y \in Nat : x < y => <<x, y>> \in R
    BY DEF OpToRel
  <2> HIDE DEF R
  <2>. QED
    BY <2>1, <2>2
<1>2. IsWellFoundedOn(R, Nat)
  BY <1>1
<1>3. PICK x \in S : \A y \in S : ~ (<<y, x>> \in R)
  BY <1>2, WFMin, Zenon
<1>4. \A m \in S : x <= m
  <2> SUFFICES ASSUME NEW m \in S, ~ (x <= m) PROVE FALSE
    OBVIOUS
  <2>1. m \in Nat /\ x \in Nat
    OBVIOUS
  <2>2. m < x
    BY <2>1
  <2>3. <<m, x>> \in R
    BY <1>1, <2>1, <2>2, Zenon
  <2>. QED
    BY <2>3, <1>3, Zenon
<1>. QED
  BY <1>4

(* A set of numbers that has 0, and with each number the next, has them all. *)
LEMMA AllNumbers ==
    ASSUME NEW S, 0 \in S, \A n \in Nat : n \in S => n + 1 \in S
    PROVE  Nat \subseteq S
<1> SUFFICES ASSUME Nat \ S # {} PROVE FALSE
  OBVIOUS
<1>1. PICK n \in Nat \ S : \A m \in Nat \ S : n <= m
  BY Least
<1>2. n # 0 /\ n \in Nat
  OBVIOUS
<1>3. n - 1 \in Nat /\ ~ (n <= n - 1) /\ (n - 1) + 1 = n
  BY <1>2
<1>4. n - 1 \in S
  BY <1>1, <1>3
<1>. QED
  BY <1>1, <1>3, <1>4

-----------------------------------------------------------------------------
(* FlattenSeq *)

(* f has the first i of s one after the other, for each i. *)
Runs(s, f) == f = [i \in 1 .. Len(s) |-> IF i = 1 THEN s[i] ELSE f[i - 1] \o s[i]]

(* Such an f is there, and gives sequences over the same set. *)
LEMMA RunsExist ==
    ASSUME NEW A, NEW s \in Seq(Seq(A)), Len(s) # 0
    PROVE  \E f : Runs(s, f) /\ f[Len(s)] \in Seq(A)
<1> DEFINE N == Len(s)
           Up(f, m) == /\ f \in [1 .. N -> Seq(A)]
                       /\ \A i \in 1 .. N : i <= m => f[i] = IF i = 1 THEN s[i] ELSE f[i - 1] \o s[i]
           S == {m \in Nat : \E f : Up(f, m)}
<1>1. N \in Nat /\ N # 0 /\ \A i \in 1 .. N : s[i] \in Seq(A)
  OBVIOUS
<1> HIDE DEF N
<1>2. 0 \in S
  <2> DEFINE f == [i \in 1 .. N |-> s[i]]
  <2>1. f \in [1 .. N -> Seq(A)] /\ \A i \in 1 .. N : ~ (i <= 0)
    BY <1>1
  <2>2. Up(f, 0)
    BY <2>1
  <2>. QED
    BY <2>2
<1>3. ASSUME NEW m \in Nat, m \in S PROVE m + 1 \in S
  <2>1. PICK f : Up(f, m)
    BY <1>3
  <2>2. CASE m + 1 \in 1 .. N
    <3> DEFINE x == IF m = 0 THEN s[m + 1] ELSE f[m] \o s[m + 1]
               g == [f EXCEPT ![m + 1] = x]
    <3>1. s[m + 1] \in Seq(A) /\ f \in [1 .. N -> Seq(A)] /\ (m # 0 => m \in 1 .. N)
      BY <1>1, <2>1, <2>2
    <3>2. x \in Seq(A)
      <4>1. CASE m = 0
        BY <4>1, <3>1
      <4>2. CASE m # 0
        <5>1. f[m] \in Seq(A)
          BY <4>2, <3>1
        <5>2. f[m] \o s[m + 1] \in Seq(A)
          BY <5>1, <3>1, ConcatProperties
        <5>. QED
          BY <4>2, <5>2
      <4>. QED
        BY <4>1, <4>2
    <3> HIDE DEF x
    <3>3. g \in [1 .. N -> Seq(A)] /\ g[m + 1] = x /\ \A i \in 1 .. N : i # m + 1 => g[i] = f[i]
      BY <2>2, <3>1, <3>2
    <3> HIDE DEF g
    <3>4. ASSUME NEW i \in 1 .. N, i <= m + 1
          PROVE  g[i] = IF i = 1 THEN s[i] ELSE g[i - 1] \o s[i]
      <4>1. i \in Nat /\ (i # 1 => i - 1 \in 1 .. N /\ i - 1 # m + 1)
        BY <3>4, <1>1
      <4>2. CASE i = m + 1
        <5>1. m + 1 = 1 <=> m = 0
          OBVIOUS
        <5>2. i - 1 = m
          BY <4>2
        <5>3. i # 1 => g[i - 1] = f[m]
          BY <4>1, <3>3, <5>2
        <5>. QED
          BY <4>2, <3>3, <5>1, <5>3 DEF x
      <4>3. CASE i # m + 1
        <5>1. i <= m
          BY <4>3, <4>1, <3>4
        <5>2. f[i] = IF i = 1 THEN s[i] ELSE f[i - 1] \o s[i]
          BY <5>1, <2>1
        <5>3. g[i] = f[i] /\ (i # 1 => g[i - 1] = f[i - 1])
          BY <4>1, <4>3, <3>3
        <5>. QED
          BY <5>2, <5>3
      <4>. QED
        BY <4>2, <4>3
    <3>5. Up(g, m + 1)
      BY <3>3, <3>4
    <3> HIDE DEF Up
    <3>. QED
      BY <3>5
  <2>3. CASE m + 1 \notin 1 .. N
    <3>1. \A i \in 1 .. N : i <= m + 1 => i <= m
      BY <1>1, <2>3
    <3>2. Up(f, m + 1)
      BY <3>1, <2>1
    <3> HIDE DEF Up
    <3>. QED
      BY <3>2 DEF S
  <2>. QED
    BY <2>2, <2>3
<1>4. N \in S
  <2> HIDE DEF S
  <2>. QED
    BY <1>1, <1>2, <1>3, AllNumbers
<1>5. PICK f : Up(f, N)
  BY <1>4
<1>6. \A i \in 1 .. N : f[i] = IF i = 1 THEN s[i] ELSE f[i - 1] \o s[i]
  <2>1. \A i \in 1 .. N : i <= N
    BY <1>1
  <2>. QED
    BY <1>5, <2>1
<1>7. f = [i \in 1 .. N |-> f[i]]
  BY <1>5
<1>8. f = [i \in 1 .. N |-> IF i = 1 THEN s[i] ELSE f[i - 1] \o s[i]]
  BY <1>6, <1>7
<1>9. N \in 1 .. N
  BY <1>1
<1>. QED
  BY <1>5, <1>8, <1>9 DEF Runs, N

(* They begin in the same way, if the sequences do. *)
Begins(s, t) ==
    Len(s) \in Nat /\ Len(t) \in Nat /\ Len(s) <= Len(t) /\ \A i \in 1 .. Len(s) : s[i] = t[i]

(* It begins in the same way for sequences that begin in the same way. *)
LEMMA RunsAgree ==
    ASSUME NEW s, NEW t, NEW f, NEW g, Runs(s, f), Runs(t, g), Begins(s, t)
    PROVE  \A i \in 1 .. Len(s) : f[i] = g[i]
<1> USE DEF Begins
<1> DEFINE k == Len(s)
           S == {m \in Nat : m \in 1 .. k => f[m] = g[m]}
<1>1. /\ \A i \in 1 .. k : f[i] = IF i = 1 THEN s[i] ELSE f[i - 1] \o s[i]
      /\ \A i \in 1 .. k : g[i] = IF i = 1 THEN t[i] ELSE g[i - 1] \o t[i]
  <2>1. \A i \in 1 .. k : i \in 1 .. Len(s) /\ i \in 1 .. Len(t)
    OBVIOUS
  <2>. QED
    BY <2>1 DEF Runs
<1>2. 0 \in S
  OBVIOUS
<1>3. ASSUME NEW m \in Nat, m \in S PROVE m + 1 \in S
  <2> SUFFICES ASSUME m + 1 \in 1 .. k PROVE f[m + 1] = g[m + 1]
    OBVIOUS
  <2>1. (m + 1) - 1 = m /\ (m + 1 # 1 => m \in 1 .. k)
    OBVIOUS
  <2>2. m + 1 # 1 => f[m] = g[m]
    BY <1>3, <2>1
  <2>3. f[m + 1] = IF m + 1 = 1 THEN s[m + 1] ELSE f[m] \o s[m + 1]
    BY <1>1, <2>1
  <2>4. g[m + 1] = IF m + 1 = 1 THEN t[m + 1] ELSE g[m] \o t[m + 1]
    BY <1>1, <2>1
  <2>. QED
    BY <2>2, <2>3, <2>4
<1> HIDE DEF S
<1>4. Nat \subseteq S
  BY <1>2, <1>3, AllNumbers
<1>. QED
  BY <1>4 DEF S

(* FlattenSeq is the last of them. *)
LEMMA FlattenRuns ==
    ASSUME NEW A, NEW s \in Seq(Seq(A)), Len(s) # 0
    PROVE  \E f : Runs(s, f) /\ FlattenSeq(s) = f[Len(s)] /\ f[Len(s)] \in Seq(A)
<1> DEFINE c == CHOOSE f : Runs(s, f)
<1>1. PICK f : Runs(s, f) /\ f[Len(s)] \in Seq(A)
  BY RunsExist
<1>2. Runs(s, c)
  BY <1>1
<1>3. FlattenSeq(s) = c[Len(s)]
  BY DEF FlattenSeq, Runs
<1> HIDE DEF c
<1>4. c[Len(s)] = f[Len(s)]
  <2>1. Len(s) \in Nat /\ Len(s) <= Len(s) /\ Len(s) \in 1 .. Len(s)
    OBVIOUS
  <2>2. \A i \in 1 .. Len(s) : c[i] = f[i]
    <3>1. Begins(s, s)
      BY <2>1 DEF Begins
    <3>. QED
      BY <1>1, <1>2, <3>1, RunsAgree
  <2>. QED
    BY <2>1, <2>2
<1>. QED
  BY <1>1, <1>2, <1>3, <1>4

(* Flattening goes on from the end. *)
LEMMA Flattened ==
    ASSUME NEW A, NEW s \in Seq(Seq(A)), NEW x \in Seq(A)
    PROVE  /\ FlattenSeq(s) \in Seq(A)
           /\ FlattenSeq(Append(s, x)) = FlattenSeq(s) \o x
<1>1. PICK t \in Seq(Seq(A)) :
         /\ t = Append(s, x)
         /\ Len(t) = Len(s) + 1 /\ Len(s) \in Nat /\ Len(t) # 0
         /\ t[Len(t)] = x /\ \A i \in 1 .. Len(s) : s[i] = t[i]
  <2> DEFINE t == Append(s, x)
  <2>1. t \in Seq(Seq(A)) /\ Len(t) = Len(s) + 1 /\ t[Len(t)] = x /\ \A i \in 1 .. Len(s) : t[i] = s[i]
    BY AppendProperties
  <2> HIDE DEF t
  <2>2. \A i \in 1 .. Len(s) : s[i] = t[i]
    BY <2>1
  <2>3. Len(t) # 0
    BY <2>1
  <2>4. t = Append(s, x)
    BY DEF t
  <2>5. Len(s) \in Nat
    OBVIOUS
  <2>. QED
    BY <2>1, <2>2, <2>3, <2>4, <2>5, Zenon
<1>2. PICK g : Runs(t, g) /\ FlattenSeq(t) = g[Len(t)]
  BY <1>1, FlattenRuns
<1>3. g[Len(t)] = IF Len(t) = 1 THEN t[Len(t)] ELSE g[Len(t) - 1] \o t[Len(t)]
  <2>1. Len(t) \in 1 .. Len(t)
    BY <1>1
  <2>. QED
    BY <1>2, <2>1 DEF Runs
<1>4. CASE Len(s) = 0
  <2>1. FlattenSeq(s) = s /\ s = <<>>
    BY <1>4, EmptySeq DEF FlattenSeq
  <2>2. <<>> \o x = x
    OBVIOUS
  <2>3. FlattenSeq(t) = x
    BY <1>1, <1>2, <1>3, <1>4
  <2>4. <<>> \in Seq(A)
    OBVIOUS
  <2>. QED
    BY <2>1, <2>2, <2>3, <2>4, <1>1
<1>5. CASE Len(s) # 0
  <2>1. PICK f : Runs(s, f) /\ FlattenSeq(s) = f[Len(s)] /\ f[Len(s)] \in Seq(A)
    BY <1>5, FlattenRuns
  <2>2. Len(s) \in 1 .. Len(s) /\ Len(s) <= Len(s) /\ Len(s) <= Len(t) /\ Len(t) \in Nat /\ Len(t) - 1 = Len(s)
    BY <1>1, <1>5
  <2>3. \A i \in 1 .. Len(s) : f[i] = g[i]
    <3>1. Begins(s, t)
      BY <1>1, <2>2 DEF Begins
    <3>. QED
      BY <1>2, <2>1, <3>1, RunsAgree
  <2>4. g[Len(s)] = FlattenSeq(s)
    BY <2>1, <2>2, <2>3
  <2>5. FlattenSeq(t) = FlattenSeq(s) \o x
    <3>1. Len(t) # 1
      BY <1>1, <1>5
    <3>2. g[Len(t)] = g[Len(s)] \o x
      BY <1>1, <1>3, <2>2, <3>1
    <3>. QED
      BY <1>2, <2>4, <3>2
  <2>. QED
    BY <2>1, <2>5, <1>1
<1>. QED
  BY <1>4, <1>5

(* What becomes of each of the parts, one after the other. *)
Pieces(F, B, A) == F \in [B -> Seq(A)]
FlatOver(F, s) == FlattenSeq([i \in DOMAIN s |-> F[s[i]]])

(* Flattening what F makes of each element goes on with each element that
   is added. *)
LEMMA FlatMap ==
    ASSUME NEW A, NEW B, NEW F, Pieces(F, B, A), NEW s \in Seq(B), NEW c \in B
    PROVE  /\ FlatOver(F, s) \in Seq(A)
           /\ FlatOver(F, Append(s, c)) = FlatOver(F, s) \o F[c]
<1> USE DEF Pieces
<1> DEFINE t == Append(s, c)
           p == [i \in DOMAIN s |-> F[s[i]]]
           q == [i \in DOMAIN t |-> F[t[i]]]
<1>1. /\ t \in Seq(B) /\ Len(t) = Len(s) + 1 /\ Len(s) \in Nat
      /\ DOMAIN t = 1 .. Len(s) + 1 /\ DOMAIN s = 1 .. Len(s)
      /\ t[Len(s) + 1] = c /\ \A i \in 1 .. Len(s) : t[i] = s[i]
  BY AppendProperties
<1> HIDE DEF t
<1>2. p \in Seq(Seq(A)) /\ Len(p) = Len(s) /\ \A i \in 1 .. Len(s) : p[i] = F[s[i]]
  <2>1. \A i \in 1 .. Len(s) : F[s[i]] \in Seq(A)
    BY <1>1
  <2>2. p \in [1 .. Len(s) -> Seq(A)]
    BY <1>1, <2>1
  <2>. QED
    BY <1>1, <2>2
<1>3. q \in Seq(Seq(A)) /\ Len(q) = Len(s) + 1 /\ \A i \in 1 .. Len(s) + 1 : q[i] = F[t[i]]
  <2>1. \A i \in 1 .. Len(s) + 1 : F[t[i]] \in Seq(A)
    BY <1>1
  <2>2. q \in [1 .. Len(s) + 1 -> Seq(A)]
    BY <1>1, <2>1
  <2>. QED
    BY <1>1, <2>2
<1>4. F[c] \in Seq(A)
  OBVIOUS
<1> HIDE DEF p, q
<1>5. q = Append(p, F[c])
  <2>1. Append(p, F[c]) \in Seq(Seq(A)) /\ Len(Append(p, F[c])) = Len(s) + 1
        /\ Append(p, F[c])[Len(s) + 1] = F[c] /\ \A i \in 1 .. Len(s) : Append(p, F[c])[i] = p[i]
    BY <1>1, <1>2, <1>4, AppendProperties
  <2>2. \A i \in 1 .. Len(s) + 1 : i = Len(s) + 1 \/ i \in 1 .. Len(s)
    BY <1>1
  <2>3. \A i \in 1 .. Len(s) + 1 : q[i] = Append(p, F[c])[i]
    BY <1>1, <1>2, <1>3, <2>1, <2>2
  <2>. QED
    BY <1>3, <2>1, <2>3, SeqEqual
<1>6. FlattenSeq(p) \in Seq(A) /\ FlattenSeq(Append(p, F[c])) = FlattenSeq(p) \o F[c]
  BY <1>2, <1>4, Flattened
<1>7. FlattenSeq(q) = FlattenSeq(p) \o F[c]
  BY <1>5, <1>6
<1>. QED
  BY <1>2, <1>6, <1>7 DEF p, q, t, FlatOver

(* Nothing is flattened to nothing. *)
LEMMA FlattenNone == FlattenSeq(<<>>) = <<>>
BY DEF FlattenSeq

(* The same, of what F makes of no elements. *)
LEMMA FlatMapNone == ASSUME NEW F PROVE FlatOver(F, <<>>) = <<>>
<1>1. [i \in DOMAIN <<>> |-> F[<<>>[i]]] = <<>>
  OBVIOUS
<1>. QED
  BY <1>1, FlattenNone DEF FlatOver

-----------------------------------------------------------------------------
(* Written is the function that its definition says. *)

WrittenNone == [list \in {<<>>} |-> [text |-> <<>>, literals |-> <<>>]]

Upto(f, m) ==
    /\ f = [n \in 0 .. m |-> f[n]]
    /\ f[0] = WrittenNone
    /\ \A n \in 0 .. m : n # 0 => f[n] = WrittenOver(f[n - 1])

(* A function that is Written for the depths up to m is there. *)
LEMMA UptoExists == ASSUME NEW m \in Nat PROVE \E f : Upto(f, m)
<1> DEFINE S == {k \in Nat : \E f : Upto(f, k)}
<1>1. 0 \in S
  <2> DEFINE f == [n \in 0 .. 0 |-> WrittenNone]
  <2>1. Upto(f, 0)
    BY DEF Upto
  <2>. QED
    BY <2>1
<1>2. ASSUME NEW k \in Nat, k \in S PROVE k + 1 \in S
  <2>1. PICK f : Upto(f, k)
    BY <1>2
  <2> DEFINE g == [n \in 0 .. k + 1 |-> IF n = k + 1 THEN WrittenOver(f[k]) ELSE f[n]]
  <2>2. /\ g = [n \in 0 .. k + 1 |-> g[n]]
        /\ g[k + 1] = WrittenOver(f[k]) /\ \A n \in 0 .. k : g[n] = f[n]
    OBVIOUS
  <2> HIDE DEF g
  <2>3. f[0] = WrittenNone /\ \A n \in 0 .. k : n # 0 => f[n] = WrittenOver(f[n - 1])
    BY <2>1 DEF Upto
  <2>4. g[0] = WrittenNone
    <3>1. 0 \in 0 .. k
      OBVIOUS
    <3>. QED
      BY <2>2, <2>3, <3>1
  <2>5. ASSUME NEW n \in 0 .. k + 1, n # 0 PROVE g[n] = WrittenOver(g[n - 1])
    <3>1. n - 1 \in 0 .. k
      BY <2>5
    <3>2. g[n - 1] = f[n - 1]
      BY <2>2, <3>1
    <3>3. CASE n = k + 1
      BY <2>2, <3>2, <3>3
    <3>4. CASE n # k + 1
      <4>1. n \in 0 .. k
        BY <3>4
      <4>. QED
        BY <2>2, <2>3, <2>5, <3>2, <4>1
    <3>. QED
      BY <3>3, <3>4
  <2>6. Upto(g, k + 1)
    BY <2>2, <2>4, <2>5 DEF Upto
  <2>. QED
    BY <2>6
<1> HIDE DEF S
<1>3. m \in S
  BY <1>1, <1>2, AllNumbers
<1>. QED
  BY <1>3 DEF S

(* Two of them agree on the depths they have in common. *)
LEMMA UptoAgree ==
    ASSUME NEW m \in Nat, NEW k \in Nat, m <= k, NEW f, NEW g, Upto(f, m), Upto(g, k)
    PROVE  f[m] = g[m]
<1> DEFINE S == {n \in Nat : n <= m => f[n] = g[n]}
<1>1. f[0] = WrittenNone /\ \A n \in 0 .. m : n # 0 => f[n] = WrittenOver(f[n - 1])
  BY DEF Upto
<1>2. g[0] = WrittenNone /\ \A n \in 0 .. k : n # 0 => g[n] = WrittenOver(g[n - 1])
  BY DEF Upto
<1>3. 0 \in S
  BY <1>1, <1>2
<1>4. ASSUME NEW n \in Nat, n \in S PROVE n + 1 \in S
  <2> SUFFICES ASSUME n + 1 <= m PROVE f[n + 1] = g[n + 1]
    OBVIOUS
  <2>1. n <= m /\ n + 1 \in 0 .. m /\ n + 1 \in 0 .. k /\ n + 1 # 0 /\ (n + 1) - 1 = n
    OBVIOUS
  <2>2. f[n] = g[n]
    BY <1>4, <2>1
  <2>3. f[n + 1] = WrittenOver(f[n])
    BY <1>1, <2>1
  <2>4. g[n + 1] = WrittenOver(g[n])
    BY <1>2, <2>1
  <2>. QED
    BY <2>2, <2>3, <2>4
<1> HIDE DEF S
<1>5. m \in S
  BY <1>3, <1>4, AllNumbers
<1>6. m <= m
  OBVIOUS
<1>. QED
  BY <1>5, <1>6 DEF S

(* So Written is what its definition says, at each depth. *)
LEMMA WrittenIs ==
    /\ Written[0] = WrittenNone
    /\ \A n \in Nat : Written[n + 1] = WrittenOver(Written[n])
<1> DEFINE h == [n \in Nat |-> CHOOSE f : Upto(f, n)]
           w == [n \in Nat |-> h[n][n]]
           W(f) == f = [n \in Nat |-> IF n = 0 THEN WrittenNone ELSE WrittenOver(f[n - 1])]
<1>1. \A n \in Nat : Upto(h[n], n)
  <2> SUFFICES ASSUME NEW n \in Nat PROVE Upto(h[n], n)
    OBVIOUS
  <2>1. \E f : Upto(f, n)
    BY UptoExists
  <2>2. h[n] = CHOOSE f : Upto(f, n)
    OBVIOUS
  <2>. QED
    BY <2>1, <2>2
<1>2. w = [n \in Nat |-> w[n]] /\ \A n \in Nat : w[n] = h[n][n]
  OBVIOUS
<1> HIDE DEF h, w
<1>3. \A n \in Nat : w[n] = IF n = 0 THEN WrittenNone ELSE WrittenOver(w[n - 1])
  <2> SUFFICES ASSUME NEW n \in Nat
               PROVE  w[n] = IF n = 0 THEN WrittenNone ELSE WrittenOver(w[n - 1])
    OBVIOUS
  <2>1. CASE n = 0
    BY <1>1, <1>2, <2>1 DEF Upto
  <2>2. CASE n # 0
    <3>1. n - 1 \in Nat /\ n - 1 <= n /\ n \in 0 .. n
      BY <2>2
    <3>2. h[n][n] = WrittenOver(h[n][n - 1])
      <4>1. Upto(h[n], n)
        BY <1>1
      <4>. QED
        BY <4>1, <2>2, <3>1 DEF Upto
    <3>3. h[n - 1][n - 1] = h[n][n - 1]
      <4>1. Upto(h[n], n) /\ Upto(h[n - 1], n - 1)
        BY <1>1, <3>1
      <4>. QED
        BY <4>1, <3>1, UptoAgree
    <3>4. w[n - 1] = h[n - 1][n - 1] /\ w[n] = h[n][n]
      BY <1>2, <3>1
    <3>. QED
      BY <2>2, <3>2, <3>3, <3>4
  <2>. QED
    BY <2>1, <2>2
<1>4. W(w)
  <2>1. [n \in Nat |-> w[n]] = [n \in Nat |-> IF n = 0 THEN WrittenNone ELSE WrittenOver(w[n - 1])]
    BY <1>3
  <2>. QED
    BY <1>2, <2>1
<1>5. Written = CHOOSE f : W(f)
  BY DEF Written, WrittenNone
<1>6. W(Written)
  BY <1>4, <1>5
<1>7. \A n \in Nat : Written[n] = IF n = 0 THEN WrittenNone ELSE WrittenOver(Written[n - 1])
  BY <1>6
<1>8. \A n \in Nat : n + 1 \in Nat /\ n + 1 # 0 /\ (n + 1) - 1 = n
  OBVIOUS
<1>9. ASSUME NEW n \in Nat PROVE Written[n + 1] = WrittenOver(Written[n])
  <2>1. n + 1 \in Nat /\ n + 1 # 0 /\ (n + 1) - 1 = n
    OBVIOUS
  <2>2. Written[n + 1] = WrittenOver(Written[(n + 1) - 1])
    BY <1>7, <2>1
  <2>. QED
    BY <2>1, <2>2
<1>. QED
  BY <1>7, <1>9

(* The lists nested less than n deep, and what they are written as. *)
Lists(n) == DOMAIN Written[n]
Text(n, list) == Written[n][list].text
Numbered(n, list) == Written[n][list].literals
Args(n) == ArgumentsOver(Lists(n))

Mark == Char \cup {"literal", "NIL", "(", ")", "[", "]", "<", ">", "\"", "\\"}

(* The lists of one depth more are those of arguments over the lists of
   this depth. *)
LEMMA ListsNext ==
    ASSUME NEW n \in Nat
    PROVE  /\ Lists(n + 1) = Seq(Args(n))
           /\ \A list \in Seq(Args(n)) :
                 /\ Text(n + 1, list) = FlattenSeq([i \in DOMAIN list |-> ArgumentText(list[i], Written[n])])
                 /\ Numbered(n + 1, list) = FlattenSeq([i \in DOMAIN list |-> ArgumentLiterals(list[i], Written[n])])
<1>1. Written[n + 1] = WrittenOver(Written[n])
  BY WrittenIs
<1>. QED
  BY <1>1 DEF WrittenOver, Lists, Text, Numbered, Args

(* At depth 0 there is the empty list only. *)
LEMMA ListsNone ==
    /\ Lists(0) = {<<>>} /\ Text(0, <<>>) = <<>> /\ Numbered(0, <<>>) = <<>>
BY WrittenIs DEF WrittenNone, Lists, Text, Numbered

(* The empty list is there at every depth, and reads as nothing. *)
LEMMA EmptyList ==
    ASSUME NEW n \in Nat
    PROVE  <<>> \in Lists(n) /\ Text(n, <<>>) = <<>> /\ Numbered(n, <<>>) = <<>>
<1>1. CASE n = 0
  BY <1>1, ListsNone
<1>2. CASE n # 0
  <2>1. n - 1 \in Nat /\ (n - 1) + 1 = n
    BY <1>2
  <2> DEFINE m == n - 1
  <2>2. m \in Nat /\ m + 1 = n
    BY <2>1
  <2> HIDE DEF m
  <2>3. <<>> \in Seq(Args(m))
    OBVIOUS
  <2>4. /\ Lists(m + 1) = Seq(Args(m))
        /\ Text(m + 1, <<>>) = FlattenSeq([i \in DOMAIN <<>> |-> ArgumentText(<<>>[i], Written[m])])
        /\ Numbered(m + 1, <<>>) = FlattenSeq([i \in DOMAIN <<>> |-> ArgumentLiterals(<<>>[i], Written[m])])
    BY <2>2, <2>3, ListsNext
  <2>5. /\ [i \in DOMAIN <<>> |-> ArgumentText(<<>>[i], Written[m])] = <<>>
        /\ [i \in DOMAIN <<>> |-> ArgumentLiterals(<<>>[i], Written[m])] = <<>>
    OBVIOUS
  <2>6. /\ Text(m + 1, <<>>) = <<>>
        /\ Numbered(m + 1, <<>>) = <<>>
    BY <2>4, <2>5, FlattenNone
  <2>. QED
    BY <2>2, <2>3, <2>4, <2>6
<1>. QED
  BY <1>1, <1>2

(* What texts are made of, the one-character ones among them. *)
LEMMA Marks ==
    /\ \A v \in Seq(Char) : v \in Seq(Mark)
    /\ <<"literal">> \in Seq(Mark) /\ <<"NIL">> \in Seq(Mark) /\ <<"(">> \in Seq(Mark)
    /\ <<")">> \in Seq(Mark) /\ <<"[">> \in Seq(Mark) /\ <<"]">> \in Seq(Mark)
    /\ <<"<">> \in Seq(Mark) /\ <<">">> \in Seq(Mark) /\ <<"\"">> \in Seq(Mark)
    /\ <<>> \in Seq(Mark)
<1>1. Char \subseteq Mark
  BY DEF Mark
<1>2. ASSUME NEW v \in Seq(Char) PROVE v \in Seq(Mark)
  BY <1>1
<1>3. /\ "literal" \in Mark /\ "NIL" \in Mark /\ "(" \in Mark /\ ")" \in Mark /\ "[" \in Mark
      /\ "]" \in Mark /\ "<" \in Mark /\ ">" \in Mark /\ "\"" \in Mark
  BY DEF Mark
<1>4. ASSUME NEW m \in Mark PROVE <<m>> \in Seq(Mark)
  OBVIOUS
<1>5. <<>> \in Seq(Mark)
  OBVIOUS
<1>. QED
  BY <1>2, <1>3, <1>4, <1>5, Zenon

-----------------------------------------------------------------------------
(* Escaping *)

EscapedChar == [c \in Mark |-> IF c \in {"\"", "\\"} THEN <<"\\", c>> ELSE <<c>>]

(* Escaping a character gives one or two marks. *)
LEMMA EscapedIs ==
    /\ Pieces(EscapedChar, Mark, Mark)
    /\ \A s \in Seq(Mark) : Escaped(s) = FlatOver(EscapedChar, s)
<1>1. ASSUME NEW c \in Mark
      PROVE (IF c \in {"\"", "\\"} THEN <<"\\", c>> ELSE <<c>>) \in Seq(Mark)
  <2>1. "\\" \in Mark
    BY DEF Mark
  <2>2. <<"\\", c>> \in Seq(Mark) /\ <<c>> \in Seq(Mark)
    BY <2>1
  <2>. QED
    BY <2>2
<1>2. Pieces(EscapedChar, Mark, Mark)
  BY <1>1 DEF EscapedChar, Pieces
<1>3. ASSUME NEW s \in Seq(Mark)
      PROVE  Escaped(s) = FlatOver(EscapedChar, s)
  <2>1. \A i \in DOMAIN s : s[i] \in Mark
    OBVIOUS
  <2>2. [i \in DOMAIN s |-> IF s[i] \in {"\"", "\\"} THEN <<"\\", s[i]>> ELSE <<s[i]>>]
          = [i \in DOMAIN s |-> EscapedChar[s[i]]]
    BY <2>1 DEF EscapedChar
  <2>. QED
    BY <2>2 DEF Escaped, FlatOver
<1>. QED
  BY <1>2, <1>3

(* Escaping goes on with each character that is added. *)
LEMMA EscapedAppend ==
    ASSUME NEW s \in Seq(Mark), NEW c \in Mark
    PROVE  /\ Escaped(s) \in Seq(Mark)
           /\ Escaped(Append(s, c)) = Escaped(s) \o EscapedChar[c]
           /\ Escaped(<<c>>) = EscapedChar[c]
           /\ Escaped(<<>>) = <<>>
<1>1. <<>> \in Seq(Mark) /\ <<c>> \in Seq(Mark) /\ Append(s, c) \in Seq(Mark) /\ Append(<<>>, c) = <<c>>
  OBVIOUS
<1>2. \A u \in Seq(Mark) : Escaped(u) \in Seq(Mark) /\ Escaped(Append(u, c)) = Escaped(u) \o EscapedChar[c]
  <2> SUFFICES ASSUME NEW u \in Seq(Mark)
               PROVE  Escaped(u) \in Seq(Mark) /\ Escaped(Append(u, c)) = Escaped(u) \o EscapedChar[c]
    OBVIOUS
  <2>1. Append(u, c) \in Seq(Mark)
    OBVIOUS
  <2>2. Pieces(EscapedChar, Mark, Mark)
        /\ Escaped(u) = FlatOver(EscapedChar, u)
        /\ Escaped(Append(u, c)) = FlatOver(EscapedChar, Append(u, c))
    BY <2>1, EscapedIs
  <2>3. /\ FlatOver(EscapedChar, u) \in Seq(Mark)
        /\ FlatOver(EscapedChar, Append(u, c)) = FlatOver(EscapedChar, u) \o EscapedChar[c]
    <3>1. FlatOver(EscapedChar, u) \in Seq(Mark)
      BY <2>2, FlatMap
    <3>2. FlatOver(EscapedChar, Append(u, c)) = FlatOver(EscapedChar, u) \o EscapedChar[c]
      <4>1. Pieces(EscapedChar, Mark, Mark)
        BY <2>2
      <4>. QED
        BY <4>1, FlatMap
    <3>. QED
      BY <3>1, <3>2
  <2>. QED
    BY <2>2, <2>3
<1>3. Escaped(<<>>) = <<>>
  BY <1>1, EscapedIs, FlatMapNone
<1>4. EscapedChar[c] \in Seq(Mark)
  BY EscapedIs DEF Pieces
<1>5. Escaped(<<c>>) = EscapedChar[c]
  <2>1. Escaped(Append(<<>>, c)) = Escaped(<<>>) \o EscapedChar[c]
    BY <1>1, <1>2
  <2>2. <<>> \o EscapedChar[c] = EscapedChar[c]
    BY <1>4
  <2>. QED
    BY <1>1, <1>3, <2>1, <2>2
<1>. QED
  BY <1>2, <1>3, <1>5

-----------------------------------------------------------------------------
(* Lists *)

(* An argument is written in marks if the lists that it has are. *)
LEMMA ArgumentTyped ==
    ASSUME NEW n \in Nat, NEW a \in Args(n),
           \A list \in Lists(n) : Text(n, list) \in Seq(Mark) /\ Numbered(n, list) \in Seq(Nat)
    PROVE  /\ ArgumentText(a, Written[n]) \in Seq(Mark)
           /\ ArgumentLiterals(a, Written[n]) \in Seq(Nat)
<1>1. /\ a.items \in Lists(n) /\ a.sections \in Lists(n) /\ a.value \in Seq(Char) /\ a.literal \in Nat
      /\ a.partial \in Seq(Seq(Char))
  BY DEF Args, ArgumentsOver
<1>2. /\ Written[n][a.items].text \in Seq(Mark) /\ Written[n][a.sections].text \in Seq(Mark)
      /\ Written[n][a.items].literals \in Seq(Nat) /\ Written[n][a.sections].literals \in Seq(Nat)
  BY <1>1 DEF Text, Numbered
<1> DEFINE ti == Written[n][a.items].text
           ts == Written[n][a.sections].text
           li == Written[n][a.items].literals
           ls == Written[n][a.sections].literals
<1>3. ti \in Seq(Mark) /\ ts \in Seq(Mark) /\ li \in Seq(Nat) /\ ls \in Seq(Nat)
  BY <1>2
<1>4. \A v \in Seq(Char) : v \in Seq(Mark)
  BY Marks
<1>5. a.value \in Seq(Mark) /\ Escaped(a.value) \in Seq(Mark)
  <2>1. "(" \in Mark
    BY DEF Mark
  <2>. QED
    BY <1>1, <1>4, <2>1, EscapedAppend
<1>6. a.partial # <<>> => a.partial[1] \in Seq(Mark)
  BY <1>1, <1>4
<1> HIDE DEF ti, ts, li, ls
<1>8. \A u, v \in Seq(Mark) : u \o v \in Seq(Mark)
  OBVIOUS
<1> DEFINE text == CASE a.type = "LIST" -> <<"(">> \o ti \o <<")">>
                     [] a.type = "STRING" -> <<"\"">> \o Escaped(a.value) \o <<"\"">>
                     [] a.type = "LITERAL" -> <<"literal">>
                     [] a.type = "NIL" -> <<"NIL">>
                     [] OTHER -> a.value
           section == IF a.section THEN <<"[">> \o ts \o <<"]">> ELSE <<>>
           partial == IF a.partial # <<>> THEN <<"<">> \o a.partial[1] \o <<">">> ELSE <<>>
<1>9. <<"(">> \o ti \o <<")">> \in Seq(Mark) /\ <<"\"">> \o Escaped(a.value) \o <<"\"">> \in Seq(Mark)
  BY <1>3, <1>5, <1>8, Marks
<1>10. text \in Seq(Mark)
  BY <1>5, <1>9, Marks
<1>11. section \in Seq(Mark)
  <2>1. <<"[">> \o ts \in Seq(Mark)
    BY <1>3, <1>8, Marks
  <2>2. <<"[">> \o ts \o <<"]">> \in Seq(Mark)
    BY <2>1, <1>8, Marks
  <2>3. <<>> \in Seq(Mark)
    BY Marks
  <2>. QED
    BY <2>2, <2>3
<1>12. partial \in Seq(Mark)
  <2>1. CASE a.partial # <<>>
    <3>1. a.partial[1] \in Seq(Mark)
      BY <1>6, <2>1
    <3>2. <<"<">> \o a.partial[1] \in Seq(Mark)
      BY <3>1, <1>8, Marks
    <3>3. <<"<">> \o a.partial[1] \o <<">">> \in Seq(Mark)
      BY <3>2, <1>8, Marks
    <3>. QED
      BY <2>1, <3>3
  <2>2. CASE a.partial = <<>>
    BY <2>2, Marks
  <2>. QED
    BY <2>1, <2>2
<1>13. ArgumentText(a, Written[n]) = text \o section \o partial
  BY DEF ArgumentText, ti, ts
<1> HIDE DEF text, section, partial
<1>14. ArgumentText(a, Written[n]) \in Seq(Mark)
  BY <1>8, <1>10, <1>11, <1>12, <1>13
<1>15. ArgumentLiterals(a, Written[n]) = (IF a.literal = 0 THEN <<>> ELSE <<a.literal>>) \o li \o ls
  BY DEF ArgumentLiterals, li, ls
<1>16. (IF a.literal = 0 THEN <<>> ELSE <<a.literal>>) \in Seq(Nat)
  BY <1>1
<1>17. \A u, v \in Seq(Nat) : u \o v \in Seq(Nat)
  OBVIOUS
<1>. QED
  BY <1>3, <1>14, <1>15, <1>16, <1>17

(* A list goes on from its end. *)
LEMMA ListGrows ==
    ASSUME NEW n \in Nat, NEW list \in Lists(n + 1), NEW a \in Args(n),
           \A l \in Lists(n) : Text(n, l) \in Seq(Mark) /\ Numbered(n, l) \in Seq(Nat)
    PROVE  /\ Append(list, a) \in Lists(n + 1)
           /\ Text(n + 1, list) \in Seq(Mark) /\ Numbered(n + 1, list) \in Seq(Nat)
           /\ Text(n + 1, Append(list, a)) = Text(n + 1, list) \o ArgumentText(a, Written[n])
           /\ Numbered(n + 1, Append(list, a)) = Numbered(n + 1, list) \o ArgumentLiterals(a, Written[n])
<1> DEFINE w == Written[n]
           T == [b \in Args(n) |-> ArgumentText(b, w)]
           L == [b \in Args(n) |-> ArgumentLiterals(b, w)]
           more == Append(list, a)
<1>1. list \in Seq(Args(n)) /\ more \in Seq(Args(n))
  BY ListsNext
<1>2. Pieces(T, Args(n), Mark) /\ Pieces(L, Args(n), Nat) /\ T[a] = ArgumentText(a, w) /\ L[a] = ArgumentLiterals(a, w)
  BY ArgumentTyped DEF Pieces
<1>3. \A l \in Seq(Args(n)) :
         /\ Text(n + 1, l) = FlatOver(T, l)
         /\ Numbered(n + 1, l) = FlatOver(L, l)
  <2> SUFFICES ASSUME NEW l \in Seq(Args(n))
               PROVE  /\ Text(n + 1, l) = FlatOver(T, l)
                      /\ Numbered(n + 1, l) = FlatOver(L, l)
    OBVIOUS
  <2>1. \A i \in DOMAIN l : T[l[i]] = ArgumentText(l[i], w) /\ L[l[i]] = ArgumentLiterals(l[i], w)
    OBVIOUS
  <2>2. /\ [i \in DOMAIN l |-> T[l[i]]] = [i \in DOMAIN l |-> ArgumentText(l[i], w)]
        /\ [i \in DOMAIN l |-> L[l[i]]] = [i \in DOMAIN l |-> ArgumentLiterals(l[i], w)]
    BY <2>1
  <2>. QED
    BY <2>2, ListsNext DEF FlatOver
<1> HIDE DEF T, L
<1>4. FlatOver(T, list) \in Seq(Mark)
  BY <1>1, <1>2, FlatMap
<1>5. FlatOver(T, Append(list, a)) = FlatOver(T, list) \o T[a]
  <2>1. list \in Seq(Args(n)) /\ Pieces(T, Args(n), Mark)
    BY <1>1, <1>2
  <2>. QED
    BY <2>1, FlatMap
<1>6. FlatOver(L, list) \in Seq(Nat)
  BY <1>1, <1>2, FlatMap
<1>7. FlatOver(L, Append(list, a)) = FlatOver(L, list) \o L[a]
  <2>1. list \in Seq(Args(n)) /\ Pieces(L, Args(n), Nat)
    BY <1>1, <1>2
  <2>. QED
    BY <2>1, FlatMap
<1>. QED
  BY <1>1, <1>2, <1>3, <1>4, <1>5, <1>6, <1>7, ListsNext

(* Whatever is written, is written in marks. *)
LEMMA ListsTyped ==
    ASSUME NEW n \in Nat
    PROVE  \A list \in Lists(n) : Text(n, list) \in Seq(Mark) /\ Numbered(n, list) \in Seq(Nat)
<1> DEFINE Typed_(m) == \A list \in Lists(m) : Text(m, list) \in Seq(Mark) /\ Numbered(m, list) \in Seq(Nat)
           S == {m \in Nat : Typed_(m)}
<1>1. 0 \in S
  <2>0. <<>> \in Seq(Mark) /\ <<>> \in Seq(Nat)
    OBVIOUS
  <2>1. Typed_(0)
    BY <2>0, ListsNone, Zenon
  <2>. QED
    BY <2>1
<1>2. ASSUME NEW m \in Nat, m \in S PROVE m + 1 \in S
  <2> SUFFICES ASSUME NEW list \in Lists(m + 1)
               PROVE  Text(m + 1, list) \in Seq(Mark) /\ Numbered(m + 1, list) \in Seq(Nat)
    OBVIOUS
  <2>1. list \in Seq(Args(m)) /\ Typed_(m)
    BY <1>2, ListsNext
  <2>2. CASE list = <<>>
    <3>1. m + 1 \in Nat
      OBVIOUS
    <3>2. Text(m + 1, <<>>) = <<>> /\ Numbered(m + 1, <<>>) = <<>>
      BY <3>1, EmptyList
    <3>3. <<>> \in Seq(Mark) /\ <<>> \in Seq(Nat)
      OBVIOUS
    <3>. QED
      BY <2>2, <3>2, <3>3
  <2>3. CASE list # <<>>
    <3>1. list[1] \in Args(m)
      BY <2>1, <2>3
    <3>. QED
      BY <2>1, <3>1, ListGrows
  <2>. QED
    BY <2>2, <2>3
<1> HIDE DEF S
<1>3. n \in S
  BY <1>1, <1>2, AllNumbers
<1>. QED
  BY <1>3 DEF S

(* A deeper nesting allows for the same lists, written the same. *)
LEMMA Deeper ==
    ASSUME NEW n \in Nat, NEW list \in Lists(n)
    PROVE  list \in Lists(n + 1) /\ Text(n + 1, list) = Text(n, list) /\ Numbered(n + 1, list) = Numbered(n, list)
<1> DEFINE Same(m) == \A l \in Lists(m) :
                         l \in Lists(m + 1) /\ Text(m + 1, l) = Text(m, l) /\ Numbered(m + 1, l) = Numbered(m, l)
           S == {m \in Nat : Same(m)}
<1>1. 0 \in S
  <2>1. 0 \in Nat /\ 0 + 1 \in Nat
    OBVIOUS
  <2>2. <<>> \in Lists(0 + 1) /\ Text(0 + 1, <<>>) = <<>> /\ Numbered(0 + 1, <<>>) = <<>>
    BY <2>1, EmptyList
  <2>3. Same(0)
    BY <2>2, ListsNone
  <2>. QED
    BY <2>3
<1>2. ASSUME NEW m \in Nat, m \in S PROVE m + 1 \in S
  <2> SUFFICES ASSUME NEW l \in Lists(m + 1)
               PROVE  /\ l \in Lists((m + 1) + 1) /\ Text((m + 1) + 1, l) = Text(m + 1, l)
                      /\ Numbered((m + 1) + 1, l) = Numbered(m + 1, l)
    OBVIOUS
  <2>1. m + 1 \in Nat /\ Same(m)
    BY <1>2
  <2>2. l \in Seq(Args(m))
    BY ListsNext
  <2>3. ASSUME NEW a \in Args(m)
        PROVE  /\ a \in Args(m + 1)
               /\ ArgumentText(a, Written[m + 1]) = ArgumentText(a, Written[m])
               /\ ArgumentLiterals(a, Written[m + 1]) = ArgumentLiterals(a, Written[m])
    <3>1. a.items \in Lists(m) /\ a.sections \in Lists(m)
      BY DEF Args, ArgumentsOver
    <3>2. a.items \in Lists(m + 1) /\ a.sections \in Lists(m + 1)
      BY <2>1, <3>1
    <3>3. a \in Args(m + 1)
      BY <3>2 DEF Args, ArgumentsOver
    <3>4. /\ Written[m + 1][a.items].text = Written[m][a.items].text
          /\ Written[m + 1][a.sections].text = Written[m][a.sections].text
          /\ Written[m + 1][a.items].literals = Written[m][a.items].literals
          /\ Written[m + 1][a.sections].literals = Written[m][a.sections].literals
      BY <2>1, <3>1 DEF Text, Numbered
    <3>. QED
      BY <3>3, <3>4 DEF ArgumentText, ArgumentLiterals
  <2>4. l \in Seq(Args(m + 1))
    BY <2>2, <2>3
  <2>5. /\ [i \in DOMAIN l |-> ArgumentText(l[i], Written[m + 1])] = [i \in DOMAIN l |-> ArgumentText(l[i], Written[m])]
        /\ [i \in DOMAIN l |-> ArgumentLiterals(l[i], Written[m + 1])] = [i \in DOMAIN l |-> ArgumentLiterals(l[i], Written[m])]
    BY <2>2, <2>3
  <2>6. /\ Text(m + 1, l) = FlattenSeq([i \in DOMAIN l |-> ArgumentText(l[i], Written[m])])
        /\ Numbered(m + 1, l) = FlattenSeq([i \in DOMAIN l |-> ArgumentLiterals(l[i], Written[m])])
    BY <2>2, ListsNext
  <2>7. /\ Lists((m + 1) + 1) = Seq(Args(m + 1))
        /\ Text((m + 1) + 1, l) = FlattenSeq([i \in DOMAIN l |-> ArgumentText(l[i], Written[m + 1])])
        /\ Numbered((m + 1) + 1, l) = FlattenSeq([i \in DOMAIN l |-> ArgumentLiterals(l[i], Written[m + 1])])
    BY <2>1, <2>4, ListsNext
  <2>. QED
    BY <2>4, <2>5, <2>6, <2>7
<1> HIDE DEF S
<1>3. n \in S
  BY <1>1, <1>2, AllNumbers
<1>. QED
  BY <1>3 DEF S

(* A sequence that is not empty has a last element, and others before it. *)
LEMMA Ended ==
    ASSUME NEW S, NEW s \in Seq(S), s # <<>>
    PROVE  Front(s) \in Seq(S) /\ Last(s) \in S /\ s = Append(Front(s), Last(s)) /\ Len(s) \in Nat \ {0}
<1>1. Len(s) \in Nat /\ Len(s) # 0
  BY EmptySeq
<1>2. Last(s) \in S /\ Last(s) = s[Len(s)]
  BY <1>1 DEF Last
<1>3. Front(s) \in Seq(S) /\ Len(Front(s)) = Len(s) - 1 /\ \A i \in 1 .. Len(s) - 1 : Front(s)[i] = s[i]
  <2>1. Front(s) = [i \in 1 .. Len(s) - 1 |-> s[i]]
    BY <1>1 DEF Front, SubSeq
  <2> DEFINE m == Len(s) - 1
  <2>2. m \in Nat /\ \A i \in 1 .. m : i \in 1 .. Len(s) /\ s[i] \in S
    BY <1>1
  <2> HIDE DEF m
  <2>3. [i \in 1 .. m |-> s[i]] \in Seq(S) /\ Len([i \in 1 .. m |-> s[i]]) = m
    BY <2>2
  <2>. QED
    BY <2>1, <2>3 DEF m
<1>4. Append(Front(s), Last(s)) \in Seq(S) /\ Len(Append(Front(s), Last(s))) = Len(s)
      /\ \A i \in 1 .. Len(s) : Append(Front(s), Last(s))[i] = s[i]
  <2> DEFINE f == Front(s)
             x == Last(s)
  <2>1. f \in Seq(S) /\ x \in S /\ Len(f) = Len(s) - 1 /\ x = s[Len(s)] /\ \A i \in 1 .. Len(s) - 1 : f[i] = s[i]
    BY <1>2, <1>3
  <2> HIDE DEF f, x
  <2>2. Append(f, x) \in Seq(S) /\ Len(Append(f, x)) = Len(f) + 1 /\ Append(f, x)[Len(f) + 1] = x
        /\ \A i \in 1 .. Len(f) : Append(f, x)[i] = f[i]
    BY <2>1, AppendProperties
  <2>3. \A i \in 1 .. Len(s) : i = Len(s) \/ i \in 1 .. Len(s) - 1
    BY <1>1
  <2>4. \A i \in 1 .. Len(s) : Append(f, x)[i] = s[i]
    BY <1>1, <2>1, <2>2, <2>3
  <2>5. Len(Append(f, x)) = Len(s)
    BY <1>1, <2>1, <2>2
  <2>. QED
    BY <2>2, <2>4, <2>5 DEF f, x
<1>5. s = Append(Front(s), Last(s))
  BY <1>4, SeqEqual
<1>. QED
  BY <1>1, <1>2, <1>3, <1>5

(* The front, the end and the places of a sequence with an element added. *)
LEMMA EndOfAppend ==
    ASSUME NEW S, NEW s \in Seq(S), NEW x \in S
    PROVE  /\ Append(s, x) \in Seq(S) /\ Append(s, x) # <<>>
           /\ Front(Append(s, x)) = s /\ Last(Append(s, x)) = x
           /\ Len(Append(s, x)) = Len(s) + 1 /\ Append(s, x)[Len(s) + 1] = x
           /\ \A i \in 1 .. Len(s) : Append(s, x)[i] = s[i]
<1> DEFINE t == Append(s, x)
<1>1. /\ t \in Seq(S) /\ Len(t) = Len(s) + 1 /\ Len(s) \in Nat /\ t[Len(s) + 1] = x
      /\ \A i \in 1 .. Len(s) : t[i] = s[i]
  BY AppendProperties
<1> HIDE DEF t
<1>2. t # <<>> /\ Last(t) = x
  BY <1>1 DEF Last
<1>3. Front(t) \in Seq(S) /\ Len(Front(t)) = Len(s) /\ \A i \in 1 .. Len(s) : Front(t)[i] = t[i]
  BY <1>1 DEF Front
<1>4. Front(t) = s
  <2>1. \A i \in 1 .. Len(s) : Front(t)[i] = s[i]
    BY <1>1, <1>3
  <2>. QED
    BY <1>3, <2>1, SeqEqual
<1>. QED
  BY <1>1, <1>2, <1>4 DEF t

(* Text is put together in any grouping. *)
LEMMA Grouped ==
    ASSUME NEW S, NEW u \in Seq(S), NEW v \in Seq(S), NEW w \in Seq(S)
    PROVE  u \o v \in Seq(S) /\ (u \o v) \o w = u \o (v \o w) /\ <<>> \o u = u /\ u \o <<>> = u
BY ConcatProperties, ConcatAssociative, ConcatEmptySeq

(* Texts may be grouped as one likes. *)
LEMMA GroupedMarks ==
    \A x, y, z \in Seq(Mark) : (x \o y) \o z = x \o (y \o z)
<1> SUFFICES ASSUME NEW x \in Seq(Mark), NEW y \in Seq(Mark), NEW z \in Seq(Mark)
             PROVE  (x \o y) \o z = x \o (y \o z)
  OBVIOUS
<1>. QED
  BY Grouped

(* And so may sequences of numbers. *)
LEMMA GroupedNumbers ==
    \A x, y, z \in Seq(Nat) : (x \o y) \o z = x \o (y \o z)
<1> SUFFICES ASSUME NEW x \in Seq(Nat), NEW y \in Seq(Nat), NEW z \in Seq(Nat)
             PROVE  (x \o y) \o z = x \o (y \o z)
  OBVIOUS
<1>. QED
  BY Grouped

(* Two texts after one another are a text. *)
LEMMA MarksClosed == \A x, y \in Seq(Mark) : x \o y \in Seq(Mark)
OBVIOUS

(* And two sequences of numbers one of numbers. *)
LEMMA NumbersClosed == \A x, y \in Seq(Nat) : x \o y \in Seq(Nat)
OBVIOUS

(* Adding a mark is adding the text that has only that mark. *)
LEMMA AppendIs ==
    ASSUME NEW S, NEW u \in Seq(S), NEW x \in S
    PROVE  Append(u, x) = u \o <<x>> /\ <<x>> \in Seq(S)
OBVIOUS

-----------------------------------------------------------------------------
(* getAttributes *)

NodeType == {"TREE", "LIST", "SECTION", "STRING", "PARTIAL", "LITERAL", "SEQUENCE", "ATOM"}
Leaf == {"STRING", "PARTIAL", "LITERAL", "SEQUENCE", "ATOM"}
Inner == {"TREE", "LIST", "SECTION"}

Nodes(n) ==
    [type : NodeType, value : Seq(Char), literal : Nat, closed : BOOLEAN,
     items : Lists(n), whole : BOOLEAN]

(* A list whose last argument may take a partial, and one that may take a section. *)
Bare(list) == list # <<>> /\ Last(list).partial = <<>>
Fresh(list) == Bare(list) /\ Last(list).section = FALSE /\ Last(list).sections = <<>>

PlainText(type, value) ==
    CASE type = "STRING" -> <<"\"">> \o Escaped(value) \o <<"\"">>
      [] type = "LITERAL" -> <<"literal">>
      [] type = "NIL" -> <<"NIL">>
      [] OTHER -> value

OneNumber(k) == IF k = 0 THEN <<>> ELSE <<k>>

LeafText(node) ==
    IF node.type = "PARTIAL" THEN <<"<">> \o node.value \o <<">">> ELSE PlainText(node.type, node.value)

LeafNumbers(node) == IF node.type = "LITERAL" THEN OneNumber(node.literal) ELSE <<>>

(* An argument without a section and a partial reads as its value. *)
LEMMA Plainly ==
    ASSUME NEW n \in Nat, NEW t \in {"STRING", "LITERAL", "NIL", "ATOM", "SEQUENCE"},
           NEW v \in Seq(Char), NEW k \in Nat
    PROVE  /\ Argument(t, v, k, <<>>) \in Args(n)
           /\ ArgumentText(Argument(t, v, k, <<>>), Written[n]) = PlainText(t, v)
           /\ ArgumentLiterals(Argument(t, v, k, <<>>), Written[n]) = OneNumber(k)
           /\ PlainText(t, v) \in Seq(Mark) /\ OneNumber(k) \in Seq(Nat)
<1> DEFINE a == Argument(t, v, k, <<>>)
<1>1. a = [type |-> t, value |-> v, literal |-> k, items |-> <<>>,
           section |-> FALSE, sections |-> <<>>, partial |-> <<>>]
  BY DEF Argument
<1> HIDE DEF a
<1>2. <<>> \in Lists(n) /\ Numbered(n, <<>>) = <<>> /\ <<>> \in Seq(Seq(Char))
  BY EmptyList
<1>3. a \in Args(n)
  <2>1. ASSUME NEW L, <<>> \in L
        PROVE  [type |-> t, value |-> v, literal |-> k, items |-> <<>>,
                section |-> FALSE, sections |-> <<>>, partial |-> <<>>] \in ArgumentsOver(L)
    BY <2>1, <1>2 DEF ArgumentsOver
  <2>. QED
    BY <1>1, <1>2, <2>1 DEF Args
<1>4. Escaped(v) \in Seq(Mark) /\ v \in Seq(Mark)
  <2>1. "(" \in Mark
    BY DEF Mark
  <2>. QED
    BY <2>1, Marks, EscapedAppend
<1>5. PlainText(t, v) \in Seq(Mark)
  <2>1. <<"\"">> \o Escaped(v) \in Seq(Mark)
    BY <1>4, Marks, Grouped
  <2>2. <<"\"">> \o Escaped(v) \o <<"\"">> \in Seq(Mark)
    BY <2>1, Marks, Grouped
  <2>. QED
    BY <1>4, <2>2, Marks DEF PlainText
<1>6. ArgumentText(a, Written[n]) = PlainText(t, v) \o <<>> \o <<>>
  <2>1. a.type = t /\ a.value = v /\ a.section = FALSE /\ a.partial = <<>>
    BY <1>1
  <2>. QED
    BY <2>1 DEF ArgumentText, PlainText
<1>7. ArgumentLiterals(a, Written[n]) = OneNumber(k) \o <<>> \o <<>>
  <2>1. a.literal = k /\ a.items = <<>> /\ a.sections = <<>>
    BY <1>1
  <2>. QED
    BY <2>1, <1>2 DEF ArgumentLiterals, Numbered, OneNumber
<1>8. OneNumber(k) \in Seq(Nat)
  BY DEF OneNumber
<1>9. PlainText(t, v) \o <<>> \o <<>> = PlainText(t, v) /\ OneNumber(k) \o <<>> \o <<>> = OneNumber(k)
  BY <1>5, <1>8, ConcatEmptySeq
<1>. QED
  BY <1>3, <1>5, <1>6, <1>7, <1>8, <1>9 DEF a

(* An argument is written in three parts: itself, its section and its partial. *)
Itself(a, inner) ==
    CASE a.type = "LIST" -> <<"(">> \o inner[a.items].text \o <<")">>
      [] a.type = "STRING" -> <<"\"">> \o Escaped(a.value) \o <<"\"">>
      [] a.type = "LITERAL" -> <<"literal">>
      [] a.type = "NIL" -> <<"NIL">>
      [] OTHER -> a.value
SectionText(a, inner) == IF a.section THEN <<"[">> \o inner[a.sections].text \o <<"]">> ELSE <<>>
PartialText(a) == IF a.partial # <<>> THEN <<"<">> \o a.partial[1] \o <<">">> ELSE <<>>
OwnNumber(a) == IF a.literal = 0 THEN <<>> ELSE <<a.literal>>

(* An argument reads as itself, its section and its partial, one after the
   other. *)
LEMMA ArgumentParts ==
    ASSUME NEW n \in Nat, NEW a \in Args(n)
    PROVE  /\ Itself(a, Written[n]) \in Seq(Mark) /\ SectionText(a, Written[n]) \in Seq(Mark)
           /\ PartialText(a) \in Seq(Mark) /\ OwnNumber(a) \in Seq(Nat)
           /\ Numbered(n, a.items) \in Seq(Nat) /\ Numbered(n, a.sections) \in Seq(Nat)
           /\ ArgumentText(a, Written[n]) = Itself(a, Written[n]) \o SectionText(a, Written[n]) \o PartialText(a)
           /\ ArgumentLiterals(a, Written[n]) = OwnNumber(a) \o Numbered(n, a.items) \o Numbered(n, a.sections)
<1>1. /\ a.items \in Lists(n) /\ a.sections \in Lists(n) /\ a.value \in Seq(Char) /\ a.literal \in Nat
      /\ a.partial \in Seq(Seq(Char))
  BY DEF Args, ArgumentsOver
<1>2. /\ Text(n, a.items) \in Seq(Mark) /\ Text(n, a.sections) \in Seq(Mark)
      /\ Numbered(n, a.items) \in Seq(Nat) /\ Numbered(n, a.sections) \in Seq(Nat)
  BY <1>1, ListsTyped
<1>3. a.value \in Seq(Mark) /\ Escaped(a.value) \in Seq(Mark)
  <2>1. "(" \in Mark
    BY DEF Mark
  <2>. QED
    BY <1>1, Marks, <2>1, EscapedAppend
<1>4. a.partial # <<>> => a.partial[1] \in Seq(Mark)
  <2>1. \A p \in Seq(Seq(Char)) : p # <<>> => p[1] \in Seq(Char)
    OBVIOUS
  <2>. QED
    BY <1>1, <2>1, Marks
<1>5. \A u, v \in Seq(Mark) : u \o v \in Seq(Mark)
  BY Grouped
<1>6. Itself(a, Written[n]) \in Seq(Mark)
  <2>1. <<"(">> \o Text(n, a.items) \o <<")">> \in Seq(Mark)
    BY <1>2, <1>5, Marks
  <2>2. <<"\"">> \o Escaped(a.value) \o <<"\"">> \in Seq(Mark)
    BY <1>3, <1>5, Marks
  <2> DEFINE x == <<"(">> \o Text(n, a.items) \o <<")">>
             y == <<"\"">> \o Escaped(a.value) \o <<"\"">>
  <2>3. Itself(a, Written[n]) = CASE a.type = "LIST" -> x
      [] a.type = "STRING" -> y
      [] a.type = "LITERAL" -> <<"literal">>
      [] a.type = "NIL" -> <<"NIL">>
      [] OTHER -> a.value
    BY DEF Itself, Text
  <2>4. x \in Seq(Mark) /\ y \in Seq(Mark)
    BY <2>1, <2>2
  <2> HIDE DEF x, y
  <2>. QED
    BY <1>3, <2>3, <2>4, Marks
<1>7. SectionText(a, Written[n]) \in Seq(Mark)
  <2>1. <<"[">> \o Text(n, a.sections) \o <<"]">> \in Seq(Mark)
    BY <1>2, <1>5, Marks
  <2>. QED
    BY <2>1, Marks DEF SectionText, Text
<1>8. PartialText(a) \in Seq(Mark)
  <2>1. CASE a.partial # <<>>
    <3>1. <<"<">> \o a.partial[1] \o <<">">> \in Seq(Mark)
      BY <1>4, <2>1, <1>5, Marks
    <3>. QED
      BY <2>1, <3>1 DEF PartialText
  <2>2. CASE a.partial = <<>>
    BY <2>2, Marks DEF PartialText
  <2>. QED
    BY <2>1, <2>2
<1>9. OwnNumber(a) \in Seq(Nat)
  BY <1>1 DEF OwnNumber
<1>10. ArgumentText(a, Written[n]) = Itself(a, Written[n]) \o SectionText(a, Written[n]) \o PartialText(a)
  BY DEF ArgumentText, Itself, SectionText, PartialText
<1>11. ArgumentLiterals(a, Written[n]) = OwnNumber(a) \o Numbered(n, a.items) \o Numbered(n, a.sections)
  BY DEF ArgumentLiterals, OwnNumber, Numbered
<1>. QED
  BY <1>2, <1>6, <1>7, <1>8, <1>9, <1>10, <1>11

(* The partial is put after the argument that has none. *)
LEMMA PartialAdded ==
    ASSUME NEW n \in Nat, NEW a \in Args(n), a.partial = <<>>, NEW v \in Seq(Char),
           NEW b, b = WithPartial(a, v)
    PROVE  /\ b \in Args(n)
           /\ ArgumentText(b, Written[n]) = ArgumentText(a, Written[n]) \o (<<"<">> \o v \o <<">">>)
           /\ ArgumentLiterals(b, Written[n]) = ArgumentLiterals(a, Written[n])
<1>1. <<v>> \in Seq(Seq(Char)) /\ <<v>> # <<>> /\ <<v>>[1] = v
  OBVIOUS
<1>2. /\ b \in Args(n) /\ b.type = a.type /\ b.value = a.value /\ b.literal = a.literal
      /\ b.items = a.items /\ b.section = a.section /\ b.sections = a.sections /\ b.partial = <<v>>
  BY <1>1 DEF WithPartial, Args, ArgumentsOver
<1>3. /\ Itself(b, Written[n]) = Itself(a, Written[n]) /\ SectionText(b, Written[n]) = SectionText(a, Written[n])
      /\ OwnNumber(b) = OwnNumber(a) /\ PartialText(a) = <<>> /\ PartialText(b) = <<"<">> \o v \o <<">">>
  BY <1>1, <1>2 DEF Itself, SectionText, OwnNumber, PartialText
<1>4. /\ Itself(a, Written[n]) \in Seq(Mark) /\ SectionText(a, Written[n]) \in Seq(Mark)
      /\ ArgumentText(a, Written[n]) = Itself(a, Written[n]) \o SectionText(a, Written[n]) \o PartialText(a)
      /\ ArgumentLiterals(a, Written[n]) = OwnNumber(a) \o Numbered(n, a.items) \o Numbered(n, a.sections)
  BY ArgumentParts
<1>5. /\ PartialText(b) \in Seq(Mark)
      /\ ArgumentText(b, Written[n]) = Itself(b, Written[n]) \o SectionText(b, Written[n]) \o PartialText(b)
      /\ ArgumentLiterals(b, Written[n]) = OwnNumber(b) \o Numbered(n, b.items) \o Numbered(n, b.sections)
  BY <1>2, ArgumentParts
<1>6. (Itself(a, Written[n]) \o SectionText(a, Written[n])) \o PartialText(a) = Itself(a, Written[n]) \o SectionText(a, Written[n])
  BY <1>3, <1>4, Grouped
<1>. QED
  BY <1>2, <1>3, <1>4, <1>5, <1>6

(* The section is put after the atom that has none. *)
LEMMA SectionAdded ==
    ASSUME NEW n \in Nat, NEW a \in Args(n), a.partial = <<>>, a.section = FALSE, NEW l \in Lists(n + 1),
           Numbered(n, a.sections) = <<>>,
           NEW b, b = WithSection(a, l)
    PROVE  /\ b \in Args(n + 1)
           /\ ArgumentText(b, Written[n + 1])
                = ArgumentText(a, Written[n]) \o (<<"[">> \o Text(n + 1, l) \o <<"]">>)
           /\ ArgumentLiterals(b, Written[n + 1]) = ArgumentLiterals(a, Written[n]) \o Numbered(n + 1, l)
<1>1. a.items \in Lists(n)
  BY DEF Args, ArgumentsOver
<1>2. /\ a.items \in Lists(n + 1) /\ Text(n + 1, a.items) = Text(n, a.items)
      /\ Numbered(n + 1, a.items) = Numbered(n, a.items)
  BY <1>1, Deeper
<1>3. /\ b \in Args(n + 1) /\ b.type = a.type /\ b.value = a.value /\ b.literal = a.literal
      /\ b.items = a.items /\ b.section = TRUE /\ b.sections = l /\ b.partial = <<>>
  BY <1>2 DEF WithSection, Args, ArgumentsOver
<1>4. /\ Itself(b, Written[n + 1]) = Itself(a, Written[n])
      /\ SectionText(b, Written[n + 1]) = <<"[">> \o Text(n + 1, l) \o <<"]">>
      /\ SectionText(a, Written[n]) = <<>> /\ PartialText(a) = <<>> /\ PartialText(b) = <<>>
      /\ OwnNumber(b) = OwnNumber(a)
  <2>1. Written[n + 1][a.items].text = Written[n][a.items].text
    BY <1>2 DEF Text
  <2>2. Itself(b, Written[n + 1]) = Itself(a, Written[n])
    BY <2>1, <1>3 DEF Itself
  <2>3. SectionText(b, Written[n + 1]) = <<"[">> \o Text(n + 1, l) \o <<"]">> /\ SectionText(a, Written[n]) = <<>>
    BY <1>3 DEF SectionText, Text
  <2>4. PartialText(a) = <<>> /\ PartialText(b) = <<>>
    BY <1>3 DEF PartialText
  <2>5. OwnNumber(b) = OwnNumber(a)
    BY <1>3 DEF OwnNumber
  <2>. QED
    BY <2>2, <2>3, <2>4, <2>5
<1>5. /\ Itself(a, Written[n]) \in Seq(Mark) /\ SectionText(a, Written[n]) \in Seq(Mark)
      /\ OwnNumber(a) \in Seq(Nat) /\ Numbered(n, a.items) \in Seq(Nat)
      /\ ArgumentText(a, Written[n]) = Itself(a, Written[n]) \o SectionText(a, Written[n]) \o PartialText(a)
      /\ ArgumentLiterals(a, Written[n]) = OwnNumber(a) \o Numbered(n, a.items) \o Numbered(n, a.sections)
  BY ArgumentParts
<1>6. /\ SectionText(b, Written[n + 1]) \in Seq(Mark)
      /\ ArgumentText(b, Written[n + 1]) = Itself(b, Written[n + 1]) \o SectionText(b, Written[n + 1]) \o PartialText(b)
      /\ ArgumentLiterals(b, Written[n + 1])
           = OwnNumber(b) \o Numbered(n + 1, b.items) \o Numbered(n + 1, b.sections)
  <2> DEFINE m == n + 1
  <2>1. m \in Nat /\ b \in Args(m)
    BY <1>3
  <2> HIDE DEF m
  <2>2. /\ SectionText(b, Written[m]) \in Seq(Mark)
        /\ ArgumentText(b, Written[m]) = Itself(b, Written[m]) \o SectionText(b, Written[m]) \o PartialText(b)
        /\ ArgumentLiterals(b, Written[m]) = OwnNumber(b) \o Numbered(m, b.items) \o Numbered(m, b.sections)
    BY <2>1, ArgumentParts
  <2>. QED
    BY <2>2 DEF m
<1>7. ArgumentText(a, Written[n]) = Itself(a, Written[n])
  <2>1. \A u \in Seq(Mark) : u \o <<>> = u
    BY Grouped
  <2>. QED
    BY <1>4, <1>5, <2>1
<1>8. ArgumentText(b, Written[n + 1]) = Itself(a, Written[n]) \o SectionText(b, Written[n + 1])
  <2>1. \A u \in Seq(Mark) : u \o <<>> = u
    BY Grouped
  <2>2. \A u, v \in Seq(Mark) : u \o v \in Seq(Mark)
    BY Grouped
  <2>3. Itself(a, Written[n]) \o SectionText(b, Written[n + 1]) \in Seq(Mark)
    BY <1>5, <1>6, <2>2
  <2>. QED
    BY <1>4, <1>6, <2>1, <2>3
<1>9. ArgumentLiterals(a, Written[n]) = OwnNumber(a) \o Numbered(n, a.items)
  <2>1. OwnNumber(a) \o Numbered(n, a.items) \in Seq(Nat)
    BY <1>5, Grouped
  <2>2. (OwnNumber(a) \o Numbered(n, a.items)) \o <<>> = OwnNumber(a) \o Numbered(n, a.items)
    BY <2>1, Grouped
  <2>. QED
    BY <1>5, <2>2
<1>. QED
  BY <1>2, <1>3, <1>4, <1>6, <1>7, <1>8, <1>9

(* A list became another one, which is written with more at the end. *)
Grows(n, list, more, text, numbers) ==
    /\ more \in Lists(n + 1)
    /\ Text(n + 1, more) = Text(n + 1, list) \o text
    /\ Numbered(n + 1, more) = Numbered(n + 1, list) \o numbers

(* A leaf is written at the end of the list. *)
LEMMA LeafAppended ==
    ASSUME NEW n \in Nat, NEW list \in Lists(n + 1),
           NEW t \in {"STRING", "LITERAL", "NIL", "ATOM", "SEQUENCE"},
           NEW v \in Seq(Char), NEW k \in Nat
    PROVE  Grows(n, list, Append(list, Argument(t, v, k, <<>>)), PlainText(t, v), OneNumber(k))
<1> DEFINE a == Argument(t, v, k, <<>>)
<1>1. a \in Args(n) /\ ArgumentText(a, Written[n]) = PlainText(t, v) /\ ArgumentLiterals(a, Written[n]) = OneNumber(k)
  BY Plainly
<1>2. \A l \in Lists(n) : Text(n, l) \in Seq(Mark) /\ Numbered(n, l) \in Seq(Nat)
  BY ListsTyped
<1> HIDE DEF a
<1>4. /\ Append(list, a) \in Lists(n + 1)
      /\ Text(n + 1, Append(list, a)) = Text(n + 1, list) \o ArgumentText(a, Written[n])
      /\ Numbered(n + 1, Append(list, a)) = Numbered(n + 1, list) \o ArgumentLiterals(a, Written[n])
  BY <1>1, <1>2, ListGrows
<1>. QED
  BY <1>1, <1>4 DEF a, Grows

(* The list's last argument is changed, and the list's text ends otherwise. *)
LEMMA LastChanged ==
    ASSUME NEW n \in Nat, NEW list \in Lists(n + 1), list # <<>>, NEW b \in Args(n),
           NEW more \in Seq(Mark),
           ArgumentText(b, Written[n]) = ArgumentText(Last(list), Written[n]) \o more,
           ArgumentLiterals(b, Written[n]) = ArgumentLiterals(Last(list), Written[n])
    PROVE  /\ Append(Front(list), b) \in Lists(n + 1)
           /\ Text(n + 1, Append(Front(list), b)) = Text(n + 1, list) \o more
           /\ Numbered(n + 1, Append(Front(list), b)) = Numbered(n + 1, list)
<1> DEFINE f == Front(list)
           a == Last(list)
           w == Written[n]
<1>1. /\ Lists(n + 1) = Seq(Args(n)) /\ list \in Seq(Args(n))
      /\ f \in Lists(n + 1) /\ a \in Args(n) /\ list = Append(f, a)
  BY ListsNext, Ended
<1>2. \A l \in Lists(n) : Text(n, l) \in Seq(Mark) /\ Numbered(n, l) \in Seq(Nat)
  BY ListsTyped
<1>3. ArgumentText(b, w) = ArgumentText(a, w) \o more /\ ArgumentLiterals(b, w) = ArgumentLiterals(a, w)
  OBVIOUS
<1> HIDE DEF f, a, w
<1>4. /\ Append(f, b) \in Lists(n + 1)
      /\ Text(n + 1, f) \in Seq(Mark)
      /\ Text(n + 1, Append(f, b)) = Text(n + 1, f) \o ArgumentText(b, w)
      /\ Numbered(n + 1, Append(f, b)) = Numbered(n + 1, f) \o ArgumentLiterals(b, w)
  BY <1>1, <1>2, ListGrows DEF w
<1>5. /\ Text(n + 1, list) = Text(n + 1, f) \o ArgumentText(a, w)
      /\ Numbered(n + 1, list) = Numbered(n + 1, f) \o ArgumentLiterals(a, w)
  <2>1. /\ Text(n + 1, Append(f, a)) = Text(n + 1, f) \o ArgumentText(a, w)
        /\ Numbered(n + 1, Append(f, a)) = Numbered(n + 1, f) \o ArgumentLiterals(a, w)
    BY <1>1, <1>2, ListGrows DEF w
  <2>. QED
    BY <1>1, <2>1
<1>6. ArgumentText(a, w) \in Seq(Mark)
  BY <1>1, <1>2, ArgumentTyped DEF w
<1>7. Text(n + 1, f) \o (ArgumentText(a, w) \o more) = (Text(n + 1, f) \o ArgumentText(a, w)) \o more
  <2>1. Text(n + 1, f) \in Seq(Mark) /\ ArgumentText(a, w) \in Seq(Mark) /\ more \in Seq(Mark)
    BY <1>4, <1>6
  <2>. QED
    BY <2>1, GroupedMarks, Zenon
<1>. QED
  BY <1>3, <1>4, <1>5, <1>7 DEF f

(* A leaf that ends adds its text and its number to the list around it. *)
LEMMA LeafAdded ==
    ASSUME NEW n \in Nat, NEW list \in Lists(n + 1), NEW node, node.type \in Leaf,
           node.value \in Seq(Char), node.literal \in Nat, node.type = "PARTIAL" => Bare(list)
    PROVE  Grows(n, list, Added(list, node), LeafText(node), LeafNumbers(node))
<1> DEFINE more == Added(list, node)
           what == node.value
<1>1. Text(n + 1, list) \in Seq(Mark) /\ Numbered(n + 1, list) \in Seq(Nat)
  <2>1. n + 1 \in Nat
    OBVIOUS
  <2>. QED
    BY <2>1, ListsTyped
<1>2. Numbered(n + 1, list) \o <<>> = Numbered(n + 1, list)
  BY <1>1, Grouped
<1>3. what \in Seq(Char) /\ <<>> \in Seq(Char) /\ node.literal \in Nat
  OBVIOUS
<1>4. CASE node.type = "PARTIAL"
  <2> DEFINE a == Last(list)
             b == WithPartial(a, what)
             piece == <<"<">> \o what \o <<">">>
  <2>1. more = Append(Front(list), b) /\ LeafText(node) = piece /\ LeafNumbers(node) = <<>>
    BY <1>4 DEF Added, LeafText, LeafNumbers, Star
  <2>2. list # <<>> /\ a.partial = <<>> /\ a \in Args(n)
    <3>1. list \in Seq(Args(n)) /\ list # <<>> /\ a.partial = <<>>
      BY <1>4, ListsNext DEF Bare
    <3>. QED
      BY <3>1, Ended
  <2> HIDE DEF more, a
  <2>3. /\ b \in Args(n)
        /\ ArgumentText(b, Written[n]) = ArgumentText(a, Written[n]) \o piece
        /\ ArgumentLiterals(b, Written[n]) = ArgumentLiterals(a, Written[n])
    BY <1>3, <2>2, PartialAdded
  <2>4. piece \in Seq(Mark)
    <3>1. what \in Seq(Mark)
      BY <1>3, Marks
    <3>2. <<"<">> \o what \in Seq(Mark)
      BY <3>1, Marks, Grouped
    <3>. QED
      BY <3>2, Marks, Grouped
  <2> HIDE DEF b, piece
  <2>5. /\ Append(Front(list), b) \in Lists(n + 1)
        /\ Text(n + 1, Append(Front(list), b)) = Text(n + 1, list) \o piece
        /\ Numbered(n + 1, Append(Front(list), b)) = Numbered(n + 1, list)
    BY <2>2, <2>3, <2>4, LastChanged DEF a
  <2>. QED
    BY <2>1, <2>5, <1>2 DEF more, Grows
<1>5. CASE node.type # "PARTIAL"
  <2>1. PICK t \in {"STRING", "LITERAL", "NIL", "ATOM", "SEQUENCE"}, u \in Seq(Char), k \in Nat :
           /\ more = Append(list, Argument(t, u, k, <<>>))
           /\ LeafText(node) = PlainText(t, u) /\ LeafNumbers(node) = OneNumber(k)
    <3>0. OneNumber(0) = <<>> /\ LeafText(node) = PlainText(node.type, what)
      BY <1>5 DEF OneNumber, LeafText
    <3>1. CASE node.type = "LITERAL"
      <4>1. /\ more = Append(list, Argument("LITERAL", <<>>, node.literal, <<>>))
            /\ LeafNumbers(node) = OneNumber(node.literal)
        BY <3>1 DEF Added, LeafNumbers, Star
      <4>2. PlainText(node.type, what) = PlainText("LITERAL", <<>>)
        BY <3>1 DEF PlainText
      <4> HIDE DEF more
      <4>. QED
        BY <1>3, <3>0, <4>1, <4>2
    <3>2. CASE node.type = "ATOM" /\ what = <<"NIL">>
      <4>1. more = Append(list, Argument("NIL", <<>>, 0, <<>>)) /\ LeafNumbers(node) = <<>>
        BY <3>2 DEF Added, LeafNumbers, Star
      <4>2. PlainText(node.type, what) = PlainText("NIL", <<>>)
        BY <3>2 DEF PlainText
      <4> HIDE DEF more
      <4>. QED
        BY <1>3, <3>0, <4>1, <4>2
    <3>3. CASE node.type # "LITERAL" /\ ~ (node.type = "ATOM" /\ what = <<"NIL">>) /\ Star(node) /\ ~ node.closed
      <4>1. more = Append(list, Argument("ATOM", what, 0, <<>>)) /\ LeafNumbers(node) = <<>>
        BY <1>5, <3>3 DEF Added, LeafNumbers, Star
      <4>2. PlainText(node.type, what) = PlainText("ATOM", what)
        BY <3>3 DEF PlainText, Star
      <4> HIDE DEF more
      <4>. QED
        BY <1>3, <3>0, <4>1, <4>2
    <3>4. CASE node.type # "LITERAL" /\ ~ (node.type = "ATOM" /\ what = <<"NIL">>) /\ ~ (Star(node) /\ ~ node.closed)
      <4>1. more = Append(list, Argument(node.type, what, 0, <<>>)) /\ LeafNumbers(node) = <<>>
        BY <1>5, <3>4 DEF Added, LeafNumbers, Leaf, Star
      <4>2. node.type \in {"STRING", "LITERAL", "NIL", "ATOM", "SEQUENCE"}
        BY <1>5 DEF Leaf
      <4> HIDE DEF more
      <4>. QED
        BY <1>3, <3>0, <4>1, <4>2
    <3>. QED
      BY <3>1, <3>2, <3>3, <3>4
  <2> HIDE DEF more
  <2>2. Grows(n, list, Append(list, Argument(t, u, k, <<>>)), PlainText(t, u), OneNumber(k))
    BY LeafAppended
  <2>. QED
    BY <2>1, <2>2, Zenon DEF more
<1>. QED
  BY <1>4, <1>5

(* A list that ends is an argument of the one around it. *)
LEMMA ListAdded ==
    ASSUME NEW n \in Nat, NEW list \in Lists(n + 1), NEW node, node.type = "LIST",
           node.items \in Lists(n + 1)
    PROVE  Grows(n + 1, list, Added(list, node),
                 <<"(">> \o Text(n + 1, node.items) \o <<")">>, Numbered(n + 1, node.items))
<1> DEFINE m == n + 1
           l == node.items
           a == Argument("LIST", <<>>, 0, l)
           text == <<"(">> \o Text(m, l) \o <<")">>
<1>1. Added(list, node) = Append(list, a)
  BY DEF Added, Star
<1>2. m \in Nat /\ l \in Lists(m) /\ list \in Lists(m) /\ l \in Lists(n + 1)
  OBVIOUS
<1>3. list \in Lists(m + 1)
  BY <1>2, Deeper
<1>4. a = [type |-> "LIST", value |-> <<>>, literal |-> 0, items |-> l,
           section |-> FALSE, sections |-> <<>>, partial |-> <<>>]
  BY DEF Argument
<1> HIDE DEF a, m, l
<1>5. <<>> \in Lists(m) /\ Numbered(m, <<>>) = <<>> /\ <<>> \in Seq(Seq(Char)) /\ <<>> \in Seq(Char)
  BY <1>2, EmptyList
<1>6. a \in Args(m)
  <2>1. ASSUME NEW L, <<>> \in L, l \in L
        PROVE  [type |-> "LIST", value |-> <<>>, literal |-> 0, items |-> l,
                section |-> FALSE, sections |-> <<>>, partial |-> <<>>] \in ArgumentsOver(L)
    BY <2>1, <1>5 DEF ArgumentsOver
  <2>. QED
    BY <1>2, <1>4, <1>5, <2>1 DEF Args
<1>7. /\ Itself(a, Written[m]) = text /\ SectionText(a, Written[m]) = <<>> /\ PartialText(a) = <<>>
      /\ OwnNumber(a) = <<>> /\ a.items = l /\ a.sections = <<>>
  <2>1. /\ a.type = "LIST" /\ a.items = l /\ a.section = FALSE /\ a.partial = <<>> /\ a.literal = 0
        /\ a.sections = <<>>
    BY <1>4
  <2>2. Itself(a, Written[m]) = text
    BY <2>1 DEF Itself, Text
  <2>3. SectionText(a, Written[m]) = <<>> /\ PartialText(a) = <<>> /\ OwnNumber(a) = <<>>
    BY <2>1 DEF SectionText, PartialText, OwnNumber
  <2>. QED
    BY <2>1, <2>2, <2>3
<1>8. /\ Itself(a, Written[m]) \in Seq(Mark)
      /\ ArgumentText(a, Written[m]) = Itself(a, Written[m]) \o SectionText(a, Written[m]) \o PartialText(a)
      /\ ArgumentLiterals(a, Written[m]) = OwnNumber(a) \o Numbered(m, a.items) \o Numbered(m, a.sections)
      /\ Numbered(m, a.items) \in Seq(Nat)
  BY <1>2, <1>6, ArgumentParts
<1> HIDE DEF text
<1>9. ArgumentText(a, Written[m]) = text
  BY <1>7, <1>8, Grouped
<1>10. ArgumentLiterals(a, Written[m]) = Numbered(m, l)
  <2>1. ArgumentLiterals(a, Written[m]) = <<>> \o Numbered(m, l) \o <<>> /\ Numbered(m, l) \in Seq(Nat)
    BY <1>5, <1>7, <1>8
  <2>. QED
    BY <2>1, Grouped
<1>11. \A k \in Lists(m) : Text(m, k) \in Seq(Mark) /\ Numbered(m, k) \in Seq(Nat)
  BY <1>2, ListsTyped
<1>12. /\ Append(list, a) \in Lists(m + 1)
       /\ Text(m + 1, Append(list, a)) = Text(m + 1, list) \o ArgumentText(a, Written[m])
       /\ Numbered(m + 1, Append(list, a)) = Numbered(m + 1, list) \o ArgumentLiterals(a, Written[m])
  BY <1>2, <1>3, <1>6, <1>11, ListGrows
<1>13. Grows(m, list, Append(list, a), text, Numbered(m, l))
  BY <1>9, <1>10, <1>12 DEF Grows
<1>. QED
  BY <1>1, <1>13 DEF m, l, text

(* A section that ends belongs to the atom before it. *)
LEMMA SectionPut ==
    ASSUME NEW n \in Nat, NEW list \in Lists(n + 1), NEW node, node.type = "SECTION",
           node.items \in Lists(n + 1), Fresh(list)
    PROVE  /\ Grows(n + 1, list, Added(list, node),
                    <<"[">> \o Text(n + 1, node.items) \o <<"]">>, Numbered(n + 1, node.items))
           /\ Bare(Added(list, node))
<1> DEFINE m == n + 1
           l == node.items
           f == Front(list)
           a == Last(list)
           b == WithSection(a, l)
           text == <<"[">> \o Text(n + 1, l) \o <<"]">>
<1>1. Added(list, node) = Append(f, b)
  BY DEF Added, Star
<1>2. m \in Nat /\ l \in Lists(n + 1) /\ list \in Lists(m) /\ m = n + 1 /\ text = <<"[">> \o Text(m, l) \o <<"]">>
  OBVIOUS
<1>3. /\ f \in Lists(m) /\ a \in Args(n) /\ list = Append(f, a)
      /\ a.partial = <<>> /\ a.section = FALSE /\ a.sections = <<>>
  <2>1. list \in Seq(Args(n)) /\ Lists(m) = Seq(Args(n))
    BY ListsNext
  <2>2. list # <<>> /\ a.partial = <<>> /\ a.section = FALSE /\ a.sections = <<>>
    BY DEF Fresh, Bare
  <2>3. f \in Seq(Args(n)) /\ a \in Args(n) /\ list = Append(f, a)
    BY <2>1, <2>2, Ended
  <2>. QED
    BY <2>1, <2>2, <2>3
<1> HIDE DEF l, f, a
<1>4. Numbered(n, a.sections) = <<>>
  BY <1>3, EmptyList
<1>5. b \in Args(m) /\ b.partial = <<>>
  <2>1. b \in Args(n + 1)
    BY <1>2, <1>3, <1>4, SectionAdded
  <2>2. a.partial = <<>> /\ a \in ArgumentsOver(Lists(n))
    BY <1>3 DEF Args
  <2>3. b.partial = <<>>
    BY <2>2 DEF WithSection, ArgumentsOver
  <2>. QED
    BY <2>1, <2>3
<1> HIDE DEF m
<1>6. /\ ArgumentText(b, Written[m]) = ArgumentText(a, Written[n]) \o text
      /\ ArgumentLiterals(b, Written[m]) = ArgumentLiterals(a, Written[n]) \o Numbered(m, l)
  <2>1. ArgumentText(b, Written[n + 1]) = ArgumentText(a, Written[n]) \o text
    BY <1>2, <1>3, <1>4, SectionAdded
  <2>2. ArgumentLiterals(b, Written[n + 1]) = ArgumentLiterals(a, Written[n]) \o Numbered(n + 1, l)
    BY <1>2, <1>3, <1>4, SectionAdded
  <2>. QED
    BY <1>2, <2>1, <2>2
<1> HIDE DEF b
<1>7. /\ f \in Lists(m + 1) /\ Text(m + 1, f) = Text(m, f) /\ Numbered(m + 1, f) = Numbered(m, f)
      /\ list \in Lists(m + 1) /\ Text(m + 1, list) = Text(m, list) /\ Numbered(m + 1, list) = Numbered(m, list)
  BY <1>2, <1>3, Deeper
<1>8. \A k \in Lists(m) : Text(m, k) \in Seq(Mark) /\ Numbered(m, k) \in Seq(Nat)
  BY <1>2, ListsTyped
<1>9. \A k \in Lists(n) : Text(n, k) \in Seq(Mark) /\ Numbered(n, k) \in Seq(Nat)
  BY ListsTyped
<1>10. Text(m, list) = Text(m, f) \o ArgumentText(a, Written[n])
       /\ Numbered(m, list) = Numbered(m, f) \o ArgumentLiterals(a, Written[n])
  <2>1. f \in Lists(n + 1) /\ a \in Args(n)
    BY <1>2, <1>3
  <2>2. Text(n + 1, Append(f, a)) = Text(n + 1, f) \o ArgumentText(a, Written[n])
    BY <2>1, <1>9, ListGrows
  <2>3. Numbered(n + 1, Append(f, a)) = Numbered(n + 1, f) \o ArgumentLiterals(a, Written[n])
    BY <2>1, <1>9, ListGrows
  <2>. QED
    BY <1>2, <1>3, <2>2, <2>3
<1>11. /\ Append(f, b) \in Lists(m + 1)
       /\ Text(m + 1, Append(f, b)) = Text(m + 1, f) \o ArgumentText(b, Written[m])
       /\ Numbered(m + 1, Append(f, b)) = Numbered(m + 1, f) \o ArgumentLiterals(b, Written[m])
  BY <1>2, <1>5, <1>7, <1>8, ListGrows
<1>12. /\ Text(m, f) \in Seq(Mark) /\ Numbered(m, f) \in Seq(Nat) /\ Numbered(m, l) \in Seq(Nat) /\ Text(m, l) \in Seq(Mark)
       /\ ArgumentText(a, Written[n]) \in Seq(Mark) /\ ArgumentLiterals(a, Written[n]) \in Seq(Nat)
  <2>1. ArgumentText(a, Written[n]) \in Seq(Mark) /\ ArgumentLiterals(a, Written[n]) \in Seq(Nat)
    BY <1>3, <1>9, ArgumentTyped
  <2>. QED
    BY <2>1, <1>2, <1>3, <1>8
<1>13. text \in Seq(Mark)
  <2>1. <<"[">> \o Text(m, l) \in Seq(Mark)
    BY <1>12, Marks, Grouped
  <2>2. <<"[">> \o Text(m, l) \o <<"]">> \in Seq(Mark)
    BY <2>1, Marks, Grouped
  <2>. QED
    BY <1>2, <2>2
<1> HIDE DEF text
<1>14. Text(m, f) \o (ArgumentText(a, Written[n]) \o text) = (Text(m, f) \o ArgumentText(a, Written[n])) \o text
  BY <1>12, <1>13, GroupedMarks, Zenon
<1>15. Numbered(m, f) \o (ArgumentLiterals(a, Written[n]) \o Numbered(m, l))
         = (Numbered(m, f) \o ArgumentLiterals(a, Written[n])) \o Numbered(m, l)
  BY <1>12, GroupedNumbers, Zenon
<1>16. Text(m + 1, Append(f, b)) = Text(m + 1, list) \o text
  BY <1>6, <1>7, <1>10, <1>11, <1>14, Zenon
<1>17. Numbered(m + 1, Append(f, b)) = Numbered(m + 1, list) \o Numbered(m, l)
  BY <1>6, <1>7, <1>10, <1>11, <1>15, Zenon
<1>18. Grows(m, list, Append(f, b), text, Numbered(m, l))
  BY <1>11, <1>16, <1>17 DEF Grows
<1>19. Bare(Append(f, b))
  <2>1. f \in Seq(Args(n)) /\ Lists(m) = Seq(Args(n))
    BY <1>2, <1>3, ListsNext
  <2>2. Lists(m + 1) = Seq(Args(m))
    BY <1>2, ListsNext
  <2>3. Append(f, b) # <<>> /\ Last(Append(f, b)) = b
    BY <1>5, <1>7, <2>2, EndOfAppend
  <2>. QED
    BY <2>3, <1>5 DEF Bare
<1>20. Grows(n + 1, list, Append(f, b), <<"[">> \o Text(n + 1, l) \o <<"]">>, Numbered(n + 1, l))
  BY <1>2, <1>18
<1>. QED
  BY <1>1, <1>19, <1>20 DEF l

(* Open nodes, and what has been read of them. *)
FrameText(n, node) ==
    CASE node.type = "TREE" -> Text(n, node.items)
      [] node.type = "LIST" -> <<"(">> \o Text(n, node.items)
      [] node.type = "SECTION" -> <<"[">> \o Text(n, node.items)
      [] node.type = "STRING" -> <<"\"">> \o Escaped(node.value)
      [] node.type = "PARTIAL" -> <<"<">> \o node.value
      [] node.type = "LITERAL" -> <<>>
      [] OTHER -> node.value

FrameTexts(n) == [node \in Nodes(n) |-> FrameText(n, node)]
FrameNumbers(n) == [node \in Nodes(n) |-> Numbered(n, node.items)]

StackText(n, stack) == FlatOver(FrameTexts(n), stack)
StackNumbers(n, stack) == FlatOver(FrameNumbers(n), stack)

(* What has been read of a node is a text, and its literals are numbers. *)
LEMMA FramesTyped ==
    ASSUME NEW n \in Nat, NEW node \in Nodes(n)
    PROVE  FrameText(n, node) \in Seq(Mark) /\ Numbered(n, node.items) \in Seq(Nat)
<1>1. node.items \in Lists(n) /\ node.value \in Seq(Char)
  BY DEF Nodes
<1>2. Text(n, node.items) \in Seq(Mark) /\ Numbered(n, node.items) \in Seq(Nat)
  BY <1>1, ListsTyped
<1>3. node.value \in Seq(Mark) /\ Escaped(node.value) \in Seq(Mark)
  <2>1. "(" \in Mark
    BY DEF Mark
  <2>. QED
    BY <1>1, <2>1, Marks, EscapedAppend
<1>4. /\ <<"(">> \o Text(n, node.items) \in Seq(Mark) /\ <<"[">> \o Text(n, node.items) \in Seq(Mark)
      /\ <<"\"">> \o Escaped(node.value) \in Seq(Mark) /\ <<"<">> \o node.value \in Seq(Mark)
  BY <1>2, <1>3, Marks, Grouped
<1>. QED
  BY <1>2, <1>3, <1>4, Marks DEF FrameText

(* What has been read of the open nodes goes on with each node that is
   opened. *)
LEMMA StackGrows ==
    ASSUME NEW n \in Nat, NEW stack \in Seq(Nodes(n)), NEW node \in Nodes(n)
    PROVE  /\ StackText(n, stack) \in Seq(Mark) /\ StackNumbers(n, stack) \in Seq(Nat)
           /\ StackText(n, Append(stack, node)) = StackText(n, stack) \o FrameText(n, node)
           /\ StackNumbers(n, Append(stack, node)) = StackNumbers(n, stack) \o Numbered(n, node.items)
<1> DEFINE F == FrameTexts(n)
           G == FrameNumbers(n)
           N == Nodes(n)
<1>1. Pieces(F, N, Mark) /\ Pieces(G, N, Nat)
  BY FramesTyped DEF Pieces, FrameTexts, FrameNumbers
<1>2. F[node] = FrameText(n, node) /\ G[node] = Numbered(n, node.items)
  BY DEF FrameTexts, FrameNumbers
<1>3. stack \in Seq(N) /\ node \in N
  OBVIOUS
<1> HIDE DEF F, G, N
<1>4. FlatOver(F, stack) \in Seq(Mark)
  BY <1>1, <1>3, FlatMap
<1>5. FlatOver(F, Append(stack, node)) = FlatOver(F, stack) \o F[node]
  <2>1. Pieces(F, N, Mark)
    BY <1>1
  <2>. QED
    BY <2>1, <1>3, FlatMap
<1>6. FlatOver(G, stack) \in Seq(Nat)
  BY <1>1, <1>3, FlatMap
<1>7. FlatOver(G, Append(stack, node)) = FlatOver(G, stack) \o G[node]
  <2>1. Pieces(G, N, Nat)
    BY <1>1
  <2>. QED
    BY <2>1, <1>3, FlatMap
<1>. QED
  BY <1>2, <1>4, <1>5, <1>6, <1>7 DEF StackText, StackNumbers, F, G

(* With no open node nothing has been read. *)
LEMMA StackNone ==
    ASSUME NEW n \in Nat
    PROVE  StackText(n, <<>>) = <<>> /\ StackNumbers(n, <<>>) = <<>>
BY FlatMapNone DEF StackText, StackNumbers

(* A node is also one of the next depth, and reads the same there. *)
LEMMA NodesDeeper ==
    ASSUME NEW n \in Nat, NEW node \in Nodes(n)
    PROVE  /\ node \in Nodes(n + 1) /\ FrameText(n + 1, node) = FrameText(n, node)
           /\ Numbered(n + 1, node.items) = Numbered(n, node.items)
<1>1. node.items \in Lists(n)
  BY DEF Nodes
<1>2. /\ node.items \in Lists(n + 1) /\ Text(n + 1, node.items) = Text(n, node.items)
      /\ Numbered(n + 1, node.items) = Numbered(n, node.items)
  BY <1>1, Deeper
<1>3. node \in Nodes(n + 1)
  BY <1>2 DEF Nodes
<1>4. FrameText(n + 1, node) = FrameText(n, node)
  BY <1>2 DEF FrameText
<1>. QED
  BY <1>2, <1>3, <1>4

(* So do the open nodes. *)
LEMMA StackDeeper ==
    ASSUME NEW n \in Nat, NEW stack \in Seq(Nodes(n))
    PROVE  /\ stack \in Seq(Nodes(n + 1)) /\ StackText(n + 1, stack) = StackText(n, stack)
           /\ StackNumbers(n + 1, stack) = StackNumbers(n, stack)
<1>1. \A i \in DOMAIN stack :
        /\ stack[i] \in Nodes(n) /\ stack[i] \in Nodes(n + 1) /\ FrameText(n + 1, stack[i]) = FrameText(n, stack[i])
        /\ Numbered(n + 1, stack[i].items) = Numbered(n, stack[i].items)
  BY NodesDeeper
<1>2. stack \in Seq(Nodes(n + 1))
  BY <1>1
<1>3. [i \in DOMAIN stack |-> FrameTexts(n + 1)[stack[i]]] = [i \in DOMAIN stack |-> FrameTexts(n)[stack[i]]]
  BY <1>1 DEF FrameTexts
<1>4. [i \in DOMAIN stack |-> FrameNumbers(n + 1)[stack[i]]] = [i \in DOMAIN stack |-> FrameNumbers(n)[stack[i]]]
  BY <1>1 DEF FrameNumbers
<1>. QED
  BY <1>2, <1>3, <1>4 DEF StackText, StackNumbers, FlatOver

-----------------------------------------------------------------------------
(* The nodes that are open are nested: the tree, and in it lists and sections. *)
Fits(rest, node) ==
    /\ node.type \in Inner
    /\ node.type = "TREE" <=> rest = <<>>
    /\ node.type # "TREE" => node.closed = FALSE
    /\ node.type = "SECTION" => Fresh(Last(rest).items)

Nested(stack) ==
    \A i \in 1 .. Len(stack) : Fits(SubSeq(stack, 1, i - 1), stack[i])

(* One more open node is nested if it fits. *)
LEMMA NestedAppend ==
    ASSUME NEW S, NEW stack \in Seq(S), NEW node \in S
    PROVE  Nested(Append(stack, node)) <=> Nested(stack) /\ Fits(stack, node)
<1> DEFINE t == Append(stack, node)
           k == Len(stack)
<1>1. t \in Seq(S) /\ Len(t) = k + 1 /\ t[k + 1] = node /\ k \in Nat /\ \A i \in 1 .. k : t[i] = stack[i]
  BY EndOfAppend
<1> HIDE DEF t
<1>2. ASSUME NEW i \in 1 .. k + 1
      PROVE  SubSeq(t, 1, i - 1) = SubSeq(stack, 1, i - 1)
  <2>1. \A j \in 1 .. i - 1 : t[j] = stack[j]
    BY <1>1
  <2>2. SubSeq(t, 1, i - 1) = [j \in 1 .. i - 1 |-> t[j]] /\ SubSeq(stack, 1, i - 1) = [j \in 1 .. i - 1 |-> stack[j]]
    BY <1>1 DEF SubSeq
  <2>. QED
    BY <2>1, <2>2
<1>3. SubSeq(stack, 1, (k + 1) - 1) = stack
  <2>1. (k + 1) - 1 = k
    BY <1>1
  <2>2. SubSeq(stack, 1, k) = stack
    OBVIOUS
  <2>. QED
    BY <2>1, <2>2
<1>4. \A i \in 1 .. k + 1 : i = k + 1 \/ i \in 1 .. k
  BY <1>1
<1>5. \A i \in 1 .. k : i \in 1 .. k + 1
  BY <1>1
<1>6. k + 1 \in 1 .. k + 1
  BY <1>1
<1>7. Nested(t) <=> \A i \in 1 .. k + 1 : Fits(SubSeq(stack, 1, i - 1), t[i])
  BY <1>1, <1>2 DEF Nested
<1>8. Nested(stack) <=> \A i \in 1 .. k : Fits(SubSeq(stack, 1, i - 1), t[i])
  BY <1>1 DEF Nested
<1>9. Fits(SubSeq(stack, 1, (k + 1) - 1), t[k + 1]) <=> Fits(stack, node)
  BY <1>1, <1>3
<1> HIDE DEF k
<1>. QED
  BY <1>4, <1>5, <1>6, <1>7, <1>8, <1>9 DEF t

(* The open nodes are rest and then node, and this is what has been read of them. *)
Holding(n, rest, node, text, numbers) ==
    /\ rest \in Seq(Nodes(n)) /\ node \in Nodes(n) /\ Nested(rest)
    /\ text = StackText(n, rest) \o FrameText(n, node)
    /\ numbers = StackNumbers(n, rest) \o Numbered(n, node.items)

(* What has been read is a text, and its literals are numbers. *)
LEMMA HoldingTyped ==
    ASSUME NEW n \in Nat, NEW rest, NEW node, NEW text, NEW numbers, Holding(n, rest, node, text, numbers)
    PROVE  text \in Seq(Mark) /\ numbers \in Seq(Nat)
<1>1. /\ rest \in Seq(Nodes(n)) /\ node \in Nodes(n)
      /\ text = StackText(n, rest) \o FrameText(n, node)
      /\ numbers = StackNumbers(n, rest) \o Numbered(n, node.items)
  BY DEF Holding
<1>2. StackText(n, rest) \in Seq(Mark) /\ StackNumbers(n, rest) \in Seq(Nat)
  BY <1>1, StackGrows
<1>3. FrameText(n, node) \in Seq(Mark) /\ Numbered(n, node.items) \in Seq(Nat)
  BY <1>1, FramesTyped
<1>. QED
  BY <1>1, <1>2, <1>3, Grouped

(* It reads the same at the next depth. *)
LEMMA HoldingDeeper ==
    ASSUME NEW n \in Nat, NEW rest, NEW node, NEW text, NEW numbers, Holding(n, rest, node, text, numbers)
    PROVE  Holding(n + 1, rest, node, text, numbers)
<1>1. rest \in Seq(Nodes(n)) /\ node \in Nodes(n)
  BY DEF Holding
<1>2. /\ rest \in Seq(Nodes(n + 1)) /\ StackText(n + 1, rest) = StackText(n, rest)
      /\ StackNumbers(n + 1, rest) = StackNumbers(n, rest)
  BY <1>1, StackDeeper
<1>3. /\ node \in Nodes(n + 1) /\ FrameText(n + 1, node) = FrameText(n, node)
      /\ Numbered(n + 1, node.items) = Numbered(n, node.items)
  BY <1>1, NodesDeeper
<1>. QED
  BY <1>2, <1>3 DEF Holding

(* A node is opened in another one. *)
LEMMA HoldingOpen ==
    ASSUME NEW n \in Nat, NEW rest, NEW node, NEW text, NEW numbers, Holding(n, rest, node, text, numbers),
           Fits(rest, node), NEW next \in Nodes(n), next.items = <<>>
    PROVE  Holding(n, Append(rest, node), next, text \o FrameText(n, next), numbers)
<1>1. /\ rest \in Seq(Nodes(n)) /\ node \in Nodes(n) /\ Nested(rest)
      /\ text = StackText(n, rest) \o FrameText(n, node)
      /\ numbers = StackNumbers(n, rest) \o Numbered(n, node.items)
  BY DEF Holding
<1>2. /\ StackText(n, Append(rest, node)) = StackText(n, rest) \o FrameText(n, node)
      /\ StackNumbers(n, Append(rest, node)) = StackNumbers(n, rest) \o Numbered(n, node.items)
  BY <1>1, StackGrows
<1>3. Append(rest, node) \in Seq(Nodes(n))
  BY <1>1
<1>4. Nested(Append(rest, node))
  BY <1>1, NestedAppend
<1>5. Numbered(n, next.items) = <<>>
  BY EmptyList
<1>6. numbers \o <<>> = numbers
  BY HoldingTyped, Grouped
<1>. QED
  BY <1>1, <1>2, <1>3, <1>4, <1>5, <1>6, Zenon DEF Holding

(* More is read of the node. *)
LEMMA HoldingTake ==
    ASSUME NEW n \in Nat, NEW rest, NEW node, NEW text, NEW numbers, Holding(n, rest, node, text, numbers),
           NEW next \in Nodes(n), next.items = node.items, NEW more \in Seq(Mark),
           FrameText(n, next) = FrameText(n, node) \o more
    PROVE  Holding(n, rest, next, text \o more, numbers)
<1>1. /\ rest \in Seq(Nodes(n)) /\ node \in Nodes(n) /\ Nested(rest)
      /\ text = StackText(n, rest) \o FrameText(n, node)
      /\ numbers = StackNumbers(n, rest) \o Numbered(n, node.items)
  BY DEF Holding
<1>2. StackText(n, rest) \in Seq(Mark)
  BY <1>1, StackGrows
<1>3. FrameText(n, node) \in Seq(Mark)
  BY <1>1, FramesTyped
<1>4. (StackText(n, rest) \o FrameText(n, node)) \o more = StackText(n, rest) \o (FrameText(n, node) \o more)
  BY <1>2, <1>3, GroupedMarks, Zenon
<1>. QED
  BY <1>1, <1>4, Zenon DEF Holding

(* The node around the one that ends, with that one among its children. *)
LEMMA ChildAdded ==
    ASSUME NEW n \in Nat, NEW parent \in Nodes(n), NEW child, NEW list \in Lists(n),
           list = Added(parent.items, child)
    PROVE  /\ WithChild(parent, child).items = list
           /\ WithChild(parent, child).type = parent.type
           /\ WithChild(parent, child).closed = parent.closed
           /\ WithChild(parent, child) \in Nodes(n)
<1>1. (parent.whole /\ Whole(child)) \in BOOLEAN
  OBVIOUS
<1>. QED
  BY <1>1 DEF WithChild, Nodes

(* What has been read of a list goes on with its children. *)
LEMMA InnerGrows ==
    ASSUME NEW n \in Nat, NEW parent \in Nodes(n), NEW child \in Nodes(n), parent.type \in Inner,
           child.type = parent.type, NEW more \in Seq(Mark),
           Text(n, child.items) = Text(n, parent.items) \o more
    PROVE  FrameText(n, child) = FrameText(n, parent) \o more
<1> DEFINE t == Text(n, parent.items)
<1>1. t \in Seq(Mark)
  BY ListsTyped DEF Nodes
<1>2. <<"(">> \o (t \o more) = (<<"(">> \o t) \o more /\ <<"[">> \o (t \o more) = (<<"[">> \o t) \o more
  <2> HIDE DEF t
  <2>1. <<"(">> \in Seq(Mark)
    BY Marks
  <2>2. <<"[">> \in Seq(Mark)
    BY Marks
  <2>3. <<"(">> \o (t \o more) = (<<"(">> \o t) \o more
    BY <1>1, <2>1, GroupedMarks, Zenon
  <2>4. <<"[">> \o (t \o more) = (<<"[">> \o t) \o more
    BY <1>1, <2>2, GroupedMarks, Zenon
  <2>. QED
    BY <2>3, <2>4
<1>3. CASE parent.type = "TREE"
  BY <1>3 DEF FrameText
<1>4. CASE parent.type = "LIST"
  BY <1>2, <1>4 DEF FrameText
<1>5. CASE parent.type = "SECTION"
  BY <1>2, <1>5 DEF FrameText
<1>. QED
  BY <1>3, <1>4, <1>5 DEF Inner

(* And so does what has been read of the nodes below it. *)
LEMMA ParentGrows ==
    ASSUME NEW n \in Nat, NEW f \in Seq(Nodes(n)), NEW parent \in Nodes(n), NEW child \in Nodes(n),
           parent.type \in Inner, child.type = parent.type,
           NEW more \in Seq(Mark), NEW numbers \in Seq(Nat),
           Text(n, child.items) = Text(n, parent.items) \o more,
           Numbered(n, child.items) = Numbered(n, parent.items) \o numbers
    PROVE  /\ StackText(n, f) \o FrameText(n, child) = StackText(n, Append(f, parent)) \o more
           /\ StackNumbers(n, f) \o Numbered(n, child.items) = StackNumbers(n, Append(f, parent)) \o numbers
<1>1. FrameText(n, child) = FrameText(n, parent) \o more
  BY InnerGrows
<1>2. /\ StackText(n, f) \in Seq(Mark) /\ StackNumbers(n, f) \in Seq(Nat)
      /\ StackText(n, Append(f, parent)) = StackText(n, f) \o FrameText(n, parent)
      /\ StackNumbers(n, Append(f, parent)) = StackNumbers(n, f) \o Numbered(n, parent.items)
  BY StackGrows
<1>3. FrameText(n, parent) \in Seq(Mark) /\ Numbered(n, parent.items) \in Seq(Nat)
  BY FramesTyped
<1>4. (StackText(n, f) \o FrameText(n, parent)) \o more = StackText(n, f) \o (FrameText(n, parent) \o more)
  BY <1>2, <1>3, GroupedMarks, Zenon
<1>5. (StackNumbers(n, f) \o Numbered(n, parent.items)) \o numbers
        = StackNumbers(n, f) \o (Numbered(n, parent.items) \o numbers)
  BY <1>2, <1>3, GroupedNumbers, Zenon
<1>. QED
  BY <1>1, <1>2, <1>4, <1>5, Zenon

(* The node around the last one. *)
LEMMA Around ==
    ASSUME NEW n \in Nat, NEW rest, NEW node, NEW text, NEW numbers, Holding(n, rest, node, text, numbers),
           rest # <<>>
    PROVE  /\ Front(rest) \in Seq(Nodes(n)) /\ Last(rest) \in Nodes(n) /\ rest = Append(Front(rest), Last(rest))
           /\ Nested(Front(rest)) /\ Fits(Front(rest), Last(rest)) /\ Last(rest).items \in Lists(n)
<1>1. rest \in Seq(Nodes(n)) /\ Nested(rest)
  BY DEF Holding
<1>2. Front(rest) \in Seq(Nodes(n)) /\ Last(rest) \in Nodes(n) /\ rest = Append(Front(rest), Last(rest))
  BY <1>1, Ended
<1>3. Nested(Front(rest)) /\ Fits(Front(rest), Last(rest))
  BY <1>1, <1>2, NestedAppend
<1>. QED
  BY <1>2, <1>3 DEF Nodes

(* A leaf that ends. *)
LEMMA HoldingLeave ==
    ASSUME NEW n \in Nat, NEW rest, NEW node, NEW text, NEW numbers, Holding(n + 1, rest, node, text, numbers),
           rest # <<>>, node.items = <<>>, node.type \in Leaf,
           node.type = "PARTIAL" => Bare(Last(rest).items),
           NEW next, next.type = node.type, next.value = node.value, next.literal \in Nat,
           NEW more \in Seq(Mark), LeafText(next) = FrameText(n + 1, node) \o more
    PROVE  /\ Holding(n + 1, Front(rest), WithChild(Last(rest), next), text \o more, numbers \o LeafNumbers(next))
           /\ Fits(Front(rest), WithChild(Last(rest), next))
<1> DEFINE m == n + 1
           f == Front(rest)
           parent == Last(rest)
           child == WithChild(parent, next)
           list == Added(parent.items, next)
           lt == LeafText(next)
           ln == LeafNumbers(next)
<1>1. m \in Nat /\ m = n + 1 /\ Holding(m, rest, node, text, numbers)
  OBVIOUS
<1> HIDE DEF m
<1>2. /\ f \in Seq(Nodes(m)) /\ parent \in Nodes(m) /\ rest = Append(f, parent)
      /\ Nested(f) /\ Fits(f, parent) /\ parent.items \in Lists(m)
  BY <1>1, Around
<1>3. /\ node \in Nodes(m)
      /\ text = StackText(m, rest) \o FrameText(m, node)
      /\ numbers = StackNumbers(m, rest) \o Numbered(m, node.items)
  BY <1>1 DEF Holding
<1>4. next.value \in Seq(Char) /\ next.type \in Leaf /\ next.literal \in Nat
      /\ (next.type = "PARTIAL" => Bare(parent.items))
  BY <1>3 DEF Nodes
<1>5. lt = FrameText(m, node) \o more
  BY <1>1
<1> HIDE DEF f, parent
<1>6. Grows(n, parent.items, list, lt, ln)
  <2>1. parent.items \in Lists(n + 1)
    BY <1>1, <1>2
  <2>. QED
    BY <1>4, <2>1, LeafAdded
<1>7. /\ list \in Lists(m) /\ Text(m, list) = Text(m, parent.items) \o lt
      /\ Numbered(m, list) = Numbered(m, parent.items) \o ln
  BY <1>1, <1>6 DEF Grows
<1> HIDE DEF list
<1>8. /\ child.items = list /\ child.type = parent.type /\ child.closed = parent.closed /\ child \in Nodes(m)
  BY <1>1, <1>2, <1>7, ChildAdded DEF list
<1> HIDE DEF child
<1>9. FrameText(m, node) \in Seq(Mark) /\ StackText(m, rest) \in Seq(Mark) /\ StackNumbers(m, rest) \in Seq(Nat)
  <2>1. rest \in Seq(Nodes(m))
    BY <1>1 DEF Holding
  <2>. QED
    BY <1>1, <1>3, <2>1, StackGrows, FramesTyped
<1>10. lt \in Seq(Mark) /\ ln \in Seq(Nat)
  <2>1. lt \in Seq(Mark)
    BY <1>5, <1>9, MarksClosed, Zenon
  <2>2. ln \in Seq(Nat)
    BY <1>4 DEF LeafNumbers, OneNumber
  <2>. QED
    BY <2>1, <2>2
<1> HIDE DEF lt, ln
<1>11. /\ StackText(m, f) \o FrameText(m, child) = StackText(m, rest) \o lt
       /\ StackNumbers(m, f) \o Numbered(m, child.items) = StackNumbers(m, rest) \o ln
  <2>1. parent.type \in Inner
    BY <1>2 DEF Fits
  <2>2. /\ m \in Nat /\ f \in Seq(Nodes(m)) /\ parent \in Nodes(m) /\ child \in Nodes(m)
        /\ child.type = parent.type /\ lt \in Seq(Mark) /\ ln \in Seq(Nat)
        /\ Text(m, child.items) = Text(m, parent.items) \o lt
        /\ Numbered(m, child.items) = Numbered(m, parent.items) \o ln
    BY <1>1, <1>2, <1>7, <1>8, <1>10
  <2>3. /\ StackText(m, f) \o FrameText(m, child) = StackText(m, Append(f, parent)) \o lt
        /\ StackNumbers(m, f) \o Numbered(m, child.items) = StackNumbers(m, Append(f, parent)) \o ln
    BY <2>1, <2>2, ParentGrows
  <2>. QED
    BY <1>2, <2>3
<1>12. text \o more = StackText(m, rest) \o lt
  <2>1. (StackText(m, rest) \o FrameText(m, node)) \o more = StackText(m, rest) \o (FrameText(m, node) \o more)
    BY <1>9, GroupedMarks, Zenon
  <2>. QED
    BY <1>3, <1>5, <2>1, Zenon
<1>13. numbers \o ln = StackNumbers(m, rest) \o ln
  <2>1. Numbered(m, node.items) = <<>>
    BY <1>1, EmptyList
  <2>2. StackNumbers(m, rest) \o <<>> = StackNumbers(m, rest)
    BY <1>9, Grouped
  <2>. QED
    BY <1>3, <2>1, <2>2, Zenon
<1>14. Holding(m, f, child, text \o more, numbers \o ln)
  BY <1>2, <1>8, <1>11, <1>12, <1>13, Zenon DEF Holding
<1>15. Fits(f, child)
  BY <1>2, <1>8, Zenon DEF Fits
<1>. QED
  BY <1>1, <1>14, <1>15 DEF f, parent, child, ln

(* A list or a section that ends. *)
Closing(node) == IF node.type = "LIST" THEN <<")">> ELSE <<"]">>

(* A list or a section that ends. *)
LEMMA HoldingClose ==
    ASSUME NEW n \in Nat, NEW rest, NEW node, NEW text, NEW numbers, Holding(n + 1, rest, node, text, numbers),
           Fits(rest, node), node.type \in {"LIST", "SECTION"},
           NEW next, next.type = node.type, next.items = node.items
    PROVE  /\ Holding((n + 1) + 1, Front(rest), WithChild(Last(rest), next), text \o Closing(node), numbers)
           /\ Fits(Front(rest), WithChild(Last(rest), next))
           /\ node.type = "SECTION" => Bare(WithChild(Last(rest), next).items)
<1> DEFINE m == n + 1
           f == Front(rest)
           parent == Last(rest)
           child == WithChild(parent, next)
           list == Added(parent.items, next)
           more == FrameText(m, node) \o Closing(node)
           nn == Numbered(m, node.items)
<1>1. m \in Nat /\ m = n + 1 /\ Holding(m, rest, node, text, numbers) /\ m + 1 \in Nat
  OBVIOUS
<1> HIDE DEF m
<1>2. rest # <<>> /\ (node.type = "SECTION" => Fresh(parent.items))
  BY DEF Fits
<1>3. /\ f \in Seq(Nodes(m)) /\ parent \in Nodes(m) /\ rest = Append(f, parent)
      /\ Nested(f) /\ Fits(f, parent) /\ parent.items \in Lists(m)
  BY <1>1, <1>2, Around
<1>4. /\ node \in Nodes(m) /\ rest \in Seq(Nodes(m)) /\ node.items \in Lists(m)
      /\ text = StackText(m, rest) \o FrameText(m, node)
      /\ numbers = StackNumbers(m, rest) \o nn
  BY <1>1 DEF Holding, Nodes
<1> HIDE DEF f, parent
<1>5. Text(m, node.items) \in Seq(Mark) /\ nn \in Seq(Nat) /\ FrameText(m, node) \in Seq(Mark)
      /\ StackText(m, rest) \in Seq(Mark) /\ StackNumbers(m, rest) \in Seq(Nat)
      /\ Closing(node) \in Seq(Mark)
  <2>1. Closing(node) \in Seq(Mark)
    BY Marks DEF Closing
  <2>. QED
    BY <1>1, <1>4, <2>1, ListsTyped, FramesTyped, StackGrows
<1> HIDE DEF nn
<1>6. Grows(m, parent.items, list, more, nn) /\ (node.type = "SECTION" => Bare(list))
  <2>1. parent.items \in Lists(n + 1) /\ node.items \in Lists(n + 1) /\ next.items \in Lists(n + 1)
    BY <1>1, <1>3, <1>4
  <2>2. CASE node.type = "LIST"
    <3>1. Grows(n + 1, parent.items, list, <<"(">> \o Text(n + 1, next.items) \o <<")">>, Numbered(n + 1, next.items))
      BY <2>1, <2>2, ListAdded
    <3>2. more = <<"(">> \o Text(m, node.items) \o <<")">>
      BY <2>2 DEF FrameText, Closing
    <3>. QED
      BY <1>1, <2>2, <3>1, <3>2 DEF nn
  <2>3. CASE node.type = "SECTION"
    <3>0. Fresh(parent.items) /\ next.type = "SECTION"
      BY <1>2, <2>3
    <3>1. Grows(n + 1, parent.items, list, <<"[">> \o Text(n + 1, next.items) \o <<"]">>, Numbered(n + 1, next.items))
      BY <2>1, <3>0, SectionPut
    <3>2. Bare(list)
      BY <2>1, <3>0, SectionPut
    <3>3. more = <<"[">> \o Text(m, node.items) \o <<"]">>
      BY <2>3 DEF FrameText, Closing
    <3>. QED
      BY <1>1, <3>1, <3>2, <3>3 DEF nn
  <2>. QED
    BY <2>2, <2>3
<1>7. /\ list \in Lists(m + 1) /\ Text(m + 1, list) = Text(m + 1, parent.items) \o more
      /\ Numbered(m + 1, list) = Numbered(m + 1, parent.items) \o nn
  BY <1>6 DEF Grows
<1>8. /\ f \in Seq(Nodes(m + 1)) /\ parent \in Nodes(m + 1) /\ parent.items \in Lists(m + 1)
  <2>1. f \in Seq(Nodes(m + 1)) /\ parent \in Nodes(m + 1)
    BY <1>1, <1>3, StackDeeper, NodesDeeper
  <2>. QED
    BY <2>1 DEF Nodes
<1>9. StackText(m + 1, rest) = StackText(m, rest) /\ StackNumbers(m + 1, rest) = StackNumbers(m, rest)
  BY <1>1, <1>4, StackDeeper
<1> HIDE DEF list
<1>10. /\ child.items = list /\ child.type = parent.type /\ child.closed = parent.closed /\ child \in Nodes(m + 1)
  BY <1>1, <1>7, <1>8, ChildAdded DEF list
<1> HIDE DEF child
<1>11. more \in Seq(Mark)
  BY <1>5, Grouped
<1>12. text \o Closing(node) = StackText(m, rest) \o more
  BY <1>4, <1>5, GroupedMarks, Zenon
<1> HIDE DEF more
<1>13. /\ StackText(m + 1, f) \o FrameText(m + 1, child) = StackText(m + 1, rest) \o more
       /\ StackNumbers(m + 1, f) \o Numbered(m + 1, child.items) = StackNumbers(m + 1, rest) \o nn
  <2>1. parent.type \in Inner
    BY <1>3 DEF Fits
  <2> DEFINE k == m + 1
  <2>2. k \in Nat /\ f \in Seq(Nodes(k)) /\ parent \in Nodes(k) /\ child \in Nodes(k) /\ child.type = parent.type
        /\ nn \in Seq(Nat)
        /\ Text(k, child.items) = Text(k, parent.items) \o more
        /\ Numbered(k, child.items) = Numbered(k, parent.items) \o nn
    BY <1>1, <1>5, <1>7, <1>8, <1>10
  <2> HIDE DEF k
  <2>3. /\ StackText(k, f) \o FrameText(k, child) = StackText(k, Append(f, parent)) \o more
        /\ StackNumbers(k, f) \o Numbered(k, child.items) = StackNumbers(k, Append(f, parent)) \o nn
    BY <1>11, <2>1, <2>2, ParentGrows
  <2>. QED
    BY <1>3, <2>3 DEF k
<1>14. Holding(m + 1, f, child, text \o Closing(node), numbers)
  BY <1>3, <1>4, <1>8, <1>9, <1>10, <1>12, <1>13, Zenon DEF Holding
<1>15. Fits(f, child)
  BY <1>3, <1>10, Zenon DEF Fits
<1>16. node.type = "SECTION" => Bare(child.items)
  BY <1>6, <1>10
<1>. QED
  BY <1>1, <1>14, <1>15, <1>16 DEF f, parent, child

States == {"NORMAL", "ATOM", "STRING", "ESCAPE", "PARTIAL", "LITERAL", "LITERAL END", "SEQUENCE"}

Parsers(A, B) == [state : A, stack : B, literals : Nat, error : BOOLEAN]
IsParser(p) == \E A, B : p \in Parsers(A, B)

Readings == [in : {"text", "string", "escape", "size"}, text : Seq(Mark), announced : Nat, broken : BOOLEAN]

LeafType(state) ==
    CASE state = "ATOM" -> "ATOM"
      [] state \in {"STRING", "ESCAPE"} -> "STRING"
      [] state = "PARTIAL" -> "PARTIAL"
      [] state \in {"LITERAL", "LITERAL END"} -> "LITERAL"
      [] state = "SEQUENCE" -> "SEQUENCE"

ReadIn(state) ==
    CASE state = "STRING" -> "string"
      [] state = "ESCAPE" -> "escape"
      [] state \in {"LITERAL", "LITERAL END"} -> "size"
      [] OTHER -> "text"

InLeaf(rest, node, state) ==
    /\ rest # <<>> /\ node.type = LeafType(state) /\ node.items = <<>> /\ node.literal = 0
    /\ state \notin {"ATOM", "SEQUENCE"} => node.closed = FALSE
    /\ state = "PARTIAL" => Bare(Last(rest).items)

(* The input ends with the digits of a literal's size. *)
SizeRead(s, value) == \E u \in Seq(Char) : s = (u \o <<"{">>) \o value /\ value \in Seq(DIGIT)

Behind(s, state, node) ==
    /\ state = "NORMAL" /\ Ends(s, {"]"}) => Bare(node.items)
    /\ state = "LITERAL" => SizeRead(s, node.value)
    /\ state = "LITERAL END" => Ends(s, {"}"}) /\ SizeRead(Front(s), node.value)
    /\ state = "ESCAPE" => Ends(s, {"\\"})

Count(k) == [i \in 1 .. k |-> i]

(* What the parser has when it has read s: the open nodes are rest and then node. *)
Stands(n, s, p, r, rest, node) ==
    /\ s \in Seq(Char) /\ IsParser(p) /\ r \in Readings /\ p.state \in States
    /\ p.stack = Append(rest, node)
    /\ Holding(n, rest, node, r.text, Count(p.literals))
    /\ p.state = "NORMAL" => Fits(rest, node)
    /\ p.state # "NORMAL" => InLeaf(rest, node, p.state)
    /\ Behind(s, p.state, node)
    /\ r.in = ReadIn(p.state)
    /\ r.broken = FALSE => r.announced = p.literals

Good(n, s, p, r) == \E rest, node : Stands(n, s, p, r, rest, node)

-----------------------------------------------------------------------------
(* The operations on the stack *)

(* A record with the fields of TokenParser is a parser. *)
LEMMA IsParserOf ==
    ASSUME NEW state, NEW stack, NEW literals \in Nat, NEW error \in BOOLEAN
    PROVE  IsParser([state |-> state, stack |-> stack, literals |-> literals, error |-> error])
<1>1. [state |-> state, stack |-> stack, literals |-> literals, error |-> error] \in Parsers({state}, {stack})
  BY DEF Parsers
<1>. QED
  BY <1>1 DEF IsParser

(* createNode: one more node on the stack, and the state it brings. *)
LEMMA OpenIs ==
    ASSUME NEW p, IsParser(p), NEW x, NEW state
    PROVE  /\ IsParser(Open(p, x, state)) /\ Open(p, x, state).state = state
           /\ Open(p, x, state).stack = Append(p.stack, x)
           /\ Open(p, x, state).literals = p.literals /\ Open(p, x, state).error = p.error
<1>1. PICK A, B : p \in Parsers(A, B)
  BY DEF IsParser
<1> DEFINE st == Append(p.stack, x)
<1>2. Open(p, x, state) = [p EXCEPT !.stack = st, !.state = state]
  BY DEF Open
<1> HIDE DEF st
<1>3. Open(p, x, state) = [state |-> state, stack |-> st, literals |-> p.literals, error |-> p.error]
  BY <1>1, <1>2 DEF Parsers
<1>4. p.literals \in Nat /\ p.error \in BOOLEAN
  BY <1>1 DEF Parsers
<1>5. IsParser(Open(p, x, state))
  BY <1>3, <1>4, IsParserOf
<1>. QED
  BY <1>3, <1>5 DEF st

(* The current node is another one; the rest stays. *)
LEMMA ChangeIs ==
    ASSUME NEW S, NEW p, IsParser(p), NEW rest \in Seq(S), NEW node \in S, p.stack = Append(rest, node), NEW x
    PROVE  /\ IsParser(Change(p, x)) /\ Change(p, x).state = p.state
           /\ Change(p, x).stack = Append(rest, x)
           /\ Change(p, x).literals = p.literals /\ Change(p, x).error = p.error
           /\ Current(p) = node
<1>1. Front(p.stack) = rest /\ Current(p) = node
  BY EndOfAppend DEF Current
<1>2. PICK A, B : p \in Parsers(A, B)
  BY DEF IsParser
<1> DEFINE st == Append(rest, x)
<1>3. Change(p, x) = [p EXCEPT !.stack = st]
  BY <1>1 DEF Change
<1> HIDE DEF st
<1>4. Change(p, x) = [state |-> p.state, stack |-> st, literals |-> p.literals, error |-> p.error]
  BY <1>2, <1>3 DEF Parsers
<1>5. p.literals \in Nat /\ p.error \in BOOLEAN
  BY <1>2 DEF Parsers
<1>6. IsParser(Change(p, x))
  BY <1>4, <1>5, IsParserOf
<1>. QED
  BY <1>1, <1>4, <1>6 DEF st

(* The current node becomes a child of the one below, and the state is
   NORMAL. *)
LEMMA LeaveIs ==
    ASSUME NEW S, NEW p, IsParser(p), NEW rest \in Seq(S), NEW node \in S, p.stack = Append(rest, node), NEW x
    PROVE  /\ IsParser(LeaveAs(p, x)) /\ LeaveAs(p, x).state = "NORMAL"
           /\ LeaveAs(p, x).stack = Append(Front(rest), WithChild(Last(rest), x))
           /\ LeaveAs(p, x).literals = p.literals /\ LeaveAs(p, x).error = p.error
           /\ Current(p) = node /\ Parent(p) = Last(rest)
<1>1. Front(p.stack) = rest /\ Current(p) = node
  BY EndOfAppend DEF Current
<1>2. Parent(p) = Last(rest)
  BY <1>1 DEF Parent
<1>3. PICK A, B : p \in Parsers(A, B)
  BY DEF IsParser
<1> DEFINE st == Append(Front(rest), WithChild(Last(rest), x))
<1>4. LeaveAs(p, x) = [p EXCEPT !.state = "NORMAL", !.stack = st]
  BY <1>1, <1>2 DEF LeaveAs
<1> HIDE DEF st
<1>5. LeaveAs(p, x) = [state |-> "NORMAL", stack |-> st, literals |-> p.literals, error |-> p.error]
  BY <1>3, <1>4 DEF Parsers
<1>6. p.literals \in Nat /\ p.error \in BOOLEAN
  BY <1>3 DEF Parsers
<1>7. IsParser(LeaveAs(p, x))
  BY <1>5, <1>6, IsParserOf
<1>. QED
  BY <1>1, <1>2, <1>5, <1>7 DEF st

(* Only the state is another one. *)
LEMMA StateIs ==
    ASSUME NEW p, IsParser(p), NEW state
    PROVE  /\ IsParser([p EXCEPT !.state = state]) /\ [p EXCEPT !.state = state].state = state
           /\ [p EXCEPT !.state = state].stack = p.stack
           /\ [p EXCEPT !.state = state].literals = p.literals /\ [p EXCEPT !.state = state].error = p.error
<1>1. PICK A, B : p \in Parsers(A, B)
  BY DEF IsParser
<1> DEFINE q == [p EXCEPT !.state = state]
<1>2. q = [state |-> state, stack |-> p.stack, literals |-> p.literals, error |-> p.error]
  BY <1>1 DEF Parsers
<1>3. p.literals \in Nat /\ p.error \in BOOLEAN
  BY <1>1 DEF Parsers
<1> HIDE DEF q
<1>4. IsParser(q)
  BY <1>2, <1>3, IsParserOf
<1>5. IsParser(q) /\ q.state = state /\ q.stack = p.stack /\ q.literals = p.literals /\ q.error = p.error
  BY <1>2, <1>4
<1>. QED
  BY <1>5 DEF q

(* Only the number of the literals taken is another one. *)
LEMMA LiteralsIs ==
    ASSUME NEW p, IsParser(p), NEW k \in Nat
    PROVE  /\ IsParser([p EXCEPT !.literals = k]) /\ [p EXCEPT !.literals = k].state = p.state
           /\ [p EXCEPT !.literals = k].stack = p.stack
           /\ [p EXCEPT !.literals = k].literals = k /\ [p EXCEPT !.literals = k].error = p.error
<1>1. PICK A, B : p \in Parsers(A, B)
  BY DEF IsParser
<1> DEFINE q == [p EXCEPT !.literals = k]
<1>2. q = [state |-> p.state, stack |-> p.stack, literals |-> k, error |-> p.error]
  BY <1>1 DEF Parsers
<1>3. p.error \in BOOLEAN
  BY <1>1 DEF Parsers
<1> HIDE DEF q
<1>4. IsParser(q)
  BY <1>2, <1>3, IsParserOf
<1>5. IsParser(q) /\ q.state = p.state /\ q.stack = p.stack /\ q.literals = k /\ q.error = p.error
  BY <1>2, <1>4
<1>. QED
  BY <1>5 DEF q

(* A parser that throws has its error. *)
LEMMA ThrowIs == ASSUME NEW p, IsParser(p) PROVE Throw(p).error = TRUE
<1>1. PICK A, B : p \in Parsers(A, B)
  BY DEF IsParser
<1>. QED
  BY <1>1 DEF Throw, Parsers

(* A new node has no children and no literal. *)
LEMMA NodeIs ==
    ASSUME NEW n \in Nat, NEW t \in NodeType, NEW v \in Seq(Char), NEW b \in BOOLEAN
    PROVE  /\ Node(t, v, b) \in Nodes(n) /\ Node(t, v, b).type = t /\ Node(t, v, b).value = v
           /\ Node(t, v, b).closed = b /\ Node(t, v, b).items = <<>> /\ Node(t, v, b).literal = 0
<1>1. <<>> \in Lists(n)
  BY EmptyList
<1>. QED
  BY <1>1 DEF Node, Nodes

-----------------------------------------------------------------------------
(* The reading *)

Became(r, in, text, announced, broken) ==
    r \in Readings /\ r.in = in /\ r.text = text /\ r.announced = announced /\ r.broken = broken

(* Characters are marks. *)
LEMMA CharsMarked == Char \subseteq Mark /\ "literal" \in Mark /\ \A k \in Nat : k + 1 \in Nat
<1>1. Char \subseteq Mark
  BY DEF Mark
<1>2. "literal" \in Mark
  BY DEF Mark
<1>3. \A k \in Nat : k + 1 \in Nat
  OBVIOUS
<1>. QED
  BY <1>1, <1>2, <1>3

(* Reading outside of strings and sizes. *)
LEMMA ReadTextIs ==
    ASSUME NEW r \in Readings, r.in = "text", NEW c \in Char, c # "CRLF"
    PROVE  /\ c = " " => Became(Read(r, c), "text", r.text, r.announced, r.broken)
           /\ c = "{" => Became(Read(r, c), "size", r.text, r.announced, r.broken)
           /\ c = "\"" => Became(Read(r, c), "string", r.text \o <<c>>, r.announced, r.broken)
           /\ c \notin {" ", "{", "\""} => Became(Read(r, c), "text", r.text \o <<c>>, r.announced, r.broken)
<1>1. r.text \in Seq(Mark) /\ c \in Mark
  BY CharsMarked DEF Readings
<1>2. Append(r.text, c) = r.text \o <<c>> /\ Append(r.text, c) \in Seq(Mark)
  BY <1>1, AppendIs
<1>3. Read(r, c) = ReadText(r, c)
  BY DEF Read
<1>4. CASE c = " "
  BY <1>3, <1>4 DEF ReadText, Became
<1>5. CASE c = "{"
  BY <1>3, <1>5 DEF ReadText, Became, Readings
<1>6. CASE c = "\""
  <2>1. ReadText(r, c) = [r EXCEPT !.in = "string", !.text = Append(r.text, c)]
    BY <1>6 DEF ReadText, Readings
  <2>2. Became(ReadText(r, c), "string", r.text \o <<c>>, r.announced, r.broken)
    BY <1>2, <2>1 DEF Became, Readings
  <2>. QED
    BY <1>3, <1>6, <2>2
<1>7. CASE c \notin {" ", "{", "\""}
  <2>1. ReadText(r, c) = [r EXCEPT !.text = Append(r.text, c)]
    BY <1>7 DEF ReadText, Readings
  <2>2. Became(ReadText(r, c), "text", r.text \o <<c>>, r.announced, r.broken)
    BY <1>2, <2>1 DEF Became, Readings
  <2>. QED
    BY <1>3, <1>7, <2>2
<1>. QED
  BY <1>4, <1>5, <1>6, <1>7

(* Reading in a string. *)
LEMMA ReadStringIs ==
    ASSUME NEW r \in Readings, r.in = "string", NEW c \in Char
    PROVE  /\ c = "\\" => Became(Read(r, c), "escape", r.text, r.announced, r.broken)
           /\ c = "\"" => Became(Read(r, c), "text", r.text \o <<c>>, r.announced, r.broken)
           /\ c \notin {"\\", "\"", "CRLF"} => Became(Read(r, c), "string", r.text \o <<c>>, r.announced, r.broken)
           /\ c = "CRLF" => Became(Read(r, c), "string", r.text \o <<c>>, r.announced + 1, TRUE)
<1>1. r.text \in Seq(Mark) /\ c \in Mark /\ r.announced \in Nat /\ r.announced + 1 \in Nat
  BY CharsMarked DEF Readings
<1>2. Append(r.text, c) = r.text \o <<c>> /\ Append(r.text, c) \in Seq(Mark)
  BY <1>1, AppendIs
<1>3. c # "CRLF" => Read(r, c) = ReadString(r, c)
  BY DEF Read
<1>4. CASE c = "\\"
  BY <1>3, <1>4 DEF ReadString, Became, Readings
<1>5. CASE c = "\""
  <2>1. ReadString(r, c) = [r EXCEPT !.in = "text", !.text = Append(r.text, c)]
    BY <1>5 DEF ReadString, Readings
  <2>2. Became(ReadString(r, c), "text", r.text \o <<c>>, r.announced, r.broken)
    BY <1>2, <2>1 DEF Became, Readings
  <2>. QED
    BY <1>3, <1>5, <2>2
<1>6. CASE c \notin {"\\", "\"", "CRLF"}
  <2>1. ReadString(r, c) = [r EXCEPT !.text = Append(r.text, c), !.broken = r.broken]
    BY <1>6 DEF ReadString, Readings
  <2>2. Became(ReadString(r, c), "string", r.text \o <<c>>, r.announced, r.broken)
    BY <1>2, <2>1 DEF Became, Readings
  <2>. QED
    BY <1>3, <1>6, <2>2
<1>7. CASE c = "CRLF"
  <2>1. ReadString(r, c) = [r EXCEPT !.text = Append(r.text, c), !.broken = TRUE]
    BY <1>7 DEF ReadString, Readings
  <2>2. Read(r, c) = [ReadString(r, c) EXCEPT !.announced = @ + 1]
    BY <1>7 DEF Read
  <2>3. Read(r, c) = [in |-> "string", text |-> Append(r.text, c), announced |-> r.announced + 1, broken |-> TRUE]
    BY <2>1, <2>2 DEF Readings
  <2>4. Became(Read(r, c), "string", r.text \o <<c>>, r.announced + 1, TRUE)
    BY <1>1, <1>2, <2>3 DEF Became, Readings
  <2>. QED
    BY <1>7, <2>4
<1>. QED
  BY <1>4, <1>5, <1>6, <1>7

(* Reading the character that is escaped. *)
LEMMA ReadEscapeIs ==
    ASSUME NEW r \in Readings, r.in = "escape", NEW c \in Char, c # "CRLF"
    PROVE  Became(Read(r, c), "string", r.text \o EscapedChar[c], r.announced, r.broken)
<1>1. r.text \in Seq(Mark) /\ c \in Mark
  BY CharsMarked DEF Readings
<1>2. Escaped(<<c>>) = EscapedChar[c] /\ EscapedChar[c] \in Seq(Mark)
  BY <1>1, EscapedAppend, EscapedIs DEF Pieces
<1>3. Read(r, c) = [r EXCEPT !.in = "string", !.text = r.text \o Escaped(<<c>>)]
  BY DEF Read, Readings
<1>4. r.text \o EscapedChar[c] \in Seq(Mark)
  BY <1>1, <1>2, MarksClosed
<1>. QED
  <2> DEFINE text == r.text \o EscapedChar[c]
  <2>1. Read(r, c) = [r EXCEPT !.in = "string", !.text = text]
    BY <1>2, <1>3
  <2>2. text \in Seq(Mark)
    BY <1>4
  <2> HIDE DEF text
  <2>3. Became(Read(r, c), "string", text, r.announced, r.broken)
    BY <2>1, <2>2 DEF Became, Readings
  <2>. QED
    BY <2>3 DEF text

(* Reading a literal's size. *)
LEMMA ReadSizeIs ==
    ASSUME NEW r \in Readings, r.in = "size", NEW c \in Char
    PROVE  /\ c # "CRLF" => Became(Read(r, c), "size", r.text, r.announced, r.broken)
           /\ c = "CRLF" => Became(Read(r, c), "text", r.text \o <<"literal">>, r.announced + 1, r.broken)
<1>1. r.text \in Seq(Mark) /\ "literal" \in Mark /\ r.announced \in Nat /\ r.announced + 1 \in Nat
  BY CharsMarked DEF Readings
<1>2. Append(r.text, "literal") = r.text \o <<"literal">> /\ Append(r.text, "literal") \in Seq(Mark)
  BY <1>1, AppendIs
<1>3. CASE c # "CRLF"
  BY <1>3 DEF Read, ReadSize, Became
<1>4. CASE c = "CRLF"
  <2>1. ReadSize(r, c) = [r EXCEPT !.in = "text", !.text = Append(r.text, "literal")]
    BY <1>4 DEF ReadSize, Readings
  <2>2. Read(r, c) = [ReadSize(r, c) EXCEPT !.announced = @ + 1]
    BY <1>4 DEF Read
  <2>3. Read(r, c) = [in |-> "text", text |-> Append(r.text, "literal"), announced |-> r.announced + 1, broken |-> r.broken]
    BY <2>1, <2>2 DEF Readings
  <2>4. r.broken \in BOOLEAN
    BY DEF Readings
  <2>5. Became(Read(r, c), "text", r.text \o <<"literal">>, r.announced + 1, r.broken)
    BY <1>1, <1>2, <2>3, <2>4 DEF Became, Readings
  <2>. QED
    BY <1>4, <2>5
<1>. QED
  BY <1>3, <1>4

(* What is to be shown of a parser after a step, part by part. *)
LEMMA GoodNext ==
    ASSUME NEW n \in Nat, NEW s \in Seq(Char), NEW p, IsParser(p), p.state \in States,
           NEW rest, NEW node, p.stack = Append(rest, node),
           NEW text, Holding(n, rest, node, text, Count(p.literals)),
           p.state = "NORMAL" => Fits(rest, node),
           p.state # "NORMAL" => InLeaf(rest, node, p.state),
           Behind(s, p.state, node),
           NEW r, NEW announced, NEW broken, Became(r, ReadIn(p.state), text, announced, broken),
           broken = FALSE => announced = p.literals
    PROVE  Good(n, s, p, r)
<1>1. r \in Readings /\ r.in = ReadIn(p.state) /\ r.text = text /\ r.announced = announced /\ r.broken = broken
  BY DEF Became
<1>2. r.broken = FALSE => r.announced = p.literals
  BY <1>1
<1>3. Stands(n, s, p, r, rest, node)
  BY <1>1, <1>2 DEF Stands
<1>. QED
  BY <1>3 DEF Good

(* pushChar on a node. *)
LEMMA TakenIs ==
    ASSUME NEW n \in Nat, NEW node \in Nodes(n), NEW c \in Char, NEW x, x = [node EXCEPT !.value = Append(@, c)]
    PROVE  /\ x \in Nodes(n) /\ x.type = node.type /\ x.value = Append(node.value, c) /\ x.literal = node.literal
           /\ x.closed = node.closed /\ x.items = node.items
<1>1. Append(node.value, c) \in Seq(Char)
  BY DEF Nodes
<1>2. x = [node EXCEPT !.value = Append(node.value, c)]
  BY DEF Nodes
<1>. QED
  BY <1>1, <1>2 DEF Nodes

(* Taking a character, the end of what was read of the node. *)
Taken(type, c) ==
    CASE type = "STRING" -> EscapedChar[c]
      [] type = "LITERAL" -> <<>>
      [] OTHER -> <<c>>

(* A leaf that takes a character reads as before, and then that character. *)
LEMMA TakenText ==
    ASSUME NEW n \in Nat, NEW node \in Nodes(n), node.type \in Leaf, NEW c \in Char,
           NEW x, x.type \in Leaf, x.value = Append(node.value, c),
           x.type = node.type \/ (node.type = "ATOM" /\ x.type = "SEQUENCE")
    PROVE  FrameText(n, x) = FrameText(n, node) \o Taken(node.type, c) /\ Taken(node.type, c) \in Seq(Mark)
<1> DEFINE v == node.value
<1>1. v \in Seq(Char) /\ c \in Mark
  BY CharsMarked DEF Nodes
<1>2. v \in Seq(Mark)
  BY <1>1, Marks
<1> HIDE DEF v
<1>3. Append(v, c) = v \o <<c>> /\ <<c>> \in Seq(Mark)
  BY <1>1, <1>2, AppendIs
<1>4. Escaped(Append(v, c)) = Escaped(v) \o EscapedChar[c] /\ Escaped(v) \in Seq(Mark)
  BY <1>1, <1>2, EscapedAppend
<1>5. EscapedChar[c] \in Seq(Mark)
  BY <1>1, EscapedIs DEF Pieces
<1>6. CASE node.type = "STRING"
  <2>1. FrameText(n, x) = <<"\"">> \o Escaped(Append(v, c)) /\ FrameText(n, node) = <<"\"">> \o Escaped(v)
    BY <1>6 DEF FrameText, v
  <2>2. Taken(node.type, c) = EscapedChar[c]
    BY <1>6 DEF Taken
  <2>3. <<"\"">> \in Seq(Mark)
    BY Marks
  <2>4. (<<"\"">> \o Escaped(v)) \o EscapedChar[c] = <<"\"">> \o (Escaped(v) \o EscapedChar[c])
    BY <1>4, <1>5, <2>3, GroupedMarks, Zenon
  <2>. QED
    BY <1>4, <1>5, <2>1, <2>2, <2>4
<1>7. CASE node.type = "PARTIAL"
  <2>1. FrameText(n, x) = <<"<">> \o Append(v, c) /\ FrameText(n, node) = <<"<">> \o v
    BY <1>7 DEF FrameText, v
  <2>2. Taken(node.type, c) = <<c>>
    BY <1>7 DEF Taken
  <2>3. <<"<">> \in Seq(Mark)
    BY Marks
  <2>4. (<<"<">> \o v) \o <<c>> = <<"<">> \o (v \o <<c>>)
    BY <1>2, <1>3, <2>3, GroupedMarks, Zenon
  <2>. QED
    BY <1>3, <2>1, <2>2, <2>4
<1>8. CASE node.type = "LITERAL"
  <2>1. FrameText(n, x) = <<>> /\ FrameText(n, node) = <<>> /\ Taken(node.type, c) = <<>>
    BY <1>8 DEF FrameText, Taken
  <2>2. <<>> \o <<>> = <<>> /\ <<>> \in Seq(Mark)
    BY Marks, Grouped
  <2>. QED
    BY <2>1, <2>2
<1>9. CASE node.type \in {"ATOM", "SEQUENCE"}
  <2>1. FrameText(n, x) = Append(v, c) /\ FrameText(n, node) = v
    BY <1>9 DEF FrameText, v
  <2>2. Taken(node.type, c) = <<c>>
    BY <1>9 DEF Taken
  <2>. QED
    BY <1>3, <2>1, <2>2
<1>. QED
  BY <1>6, <1>7, <1>8, <1>9 DEF Leaf

(* The end of the input. *)
LEMMA EndsAppend ==
    ASSUME NEW s \in Seq(Char), NEW c \in Char, NEW d
    PROVE  /\ Ends(Append(s, c), {d}) <=> c = d
           /\ Append(s, c) \in Seq(Char) /\ Front(Append(s, c)) = s
<1>1. Append(s, c) \in Seq(Char) /\ Append(s, c) # <<>> /\ Last(Append(s, c)) = c /\ Front(Append(s, c)) = s
  BY EndOfAppend
<1>. QED
  BY <1>1 DEF Ends

(* In most states nothing is to be known of what was read before. *)
LEMMA BehindPlainly ==
    ASSUME NEW s \in Seq(Char), NEW c \in Char, NEW node, NEW state,
           state \notin {"LITERAL", "LITERAL END", "ESCAPE"},
           state = "NORMAL" => c # "]" \/ Bare(node.items)
    PROVE  Behind(Append(s, c), state, node)
BY EndsAppend DEF Behind

-----------------------------------------------------------------------------
(* A leaf that is opened. *)
LEMMA OpenLeaf ==
    ASSUME NEW n \in Nat, NEW rest, NEW node, NEW text, NEW numbers, Holding(n, rest, node, text, numbers),
           Fits(rest, node), NEW x \in Nodes(n), x.items = <<>>, NEW more \in Seq(Mark), FrameText(n, x) = more
    PROVE  Holding(n + 1, Append(rest, node), x, text \o more, numbers) /\ Append(rest, node) # <<>>
           /\ Last(Append(rest, node)) = node
<1>1. Holding(n, Append(rest, node), x, text \o more, numbers)
  BY HoldingOpen
<1>2. Holding(n + 1, Append(rest, node), x, text \o more, numbers)
  BY <1>1, HoldingDeeper
<1>3. rest \in Seq(Nodes(n)) /\ node \in Nodes(n)
  BY DEF Holding
<1>. QED
  BY <1>2, <1>3, EndOfAppend

(* A leaf is opened by the character that begins it. *)
Opens(s, node, state, v, b) ==
    /\ state \in {"ATOM", "STRING", "PARTIAL", "LITERAL", "SEQUENCE"} /\ v \in Seq(Char) /\ b \in BOOLEAN
    /\ state \notin {"ATOM", "SEQUENCE"} => b = FALSE
    /\ state = "PARTIAL" => Bare(node.items)
    /\ state = "LITERAL" => SizeRead(s, v)

(* A node is opened in the current one. *)
LEMMA OpenGood ==
    ASSUME NEW n \in Nat, NEW s, NEW p, NEW r, NEW rest, NEW node, Stands(n, s, p, r, rest, node),
           p.state = "NORMAL", NEW c \in Char,
           NEW state, NEW v, NEW b, Opens(Append(s, c), node, state, v, b),
           NEW more \in Seq(Mark), FrameText(n, Node(state, v, b)) = more,
           NEW next, Became(next, ReadIn(state), r.text \o more, r.announced, r.broken)
    PROVE  Good(n + 1, Append(s, c), Open(p, Node(state, v, b), state), next)
<1> DEFINE x == Node(state, v, b)
           q == Open(p, x, state)
           stack == Append(rest, node)
           text == r.text \o more
<1>1. /\ s \in Seq(Char) /\ IsParser(p) /\ p.stack = stack /\ Holding(n, rest, node, r.text, Count(p.literals))
      /\ Fits(rest, node) /\ (r.broken = FALSE => r.announced = p.literals)
  BY DEF Stands
<1>2. /\ state \in {"ATOM", "STRING", "PARTIAL", "LITERAL", "SEQUENCE"} /\ v \in Seq(Char) /\ b \in BOOLEAN
      /\ (state \notin {"ATOM", "SEQUENCE"} => b = FALSE) /\ (state = "PARTIAL" => Bare(node.items))
      /\ (state = "LITERAL" => SizeRead(Append(s, c), v))
  BY DEF Opens
<1>3. state \in NodeType /\ state \in Leaf /\ state \in States /\ state # "NORMAL" /\ LeafType(state) = state
  BY <1>2 DEF LeafType, NodeType, Leaf, States
<1>4. x \in Nodes(n) /\ x.type = state /\ x.value = v /\ x.closed = b /\ x.items = <<>> /\ x.literal = 0
  BY <1>2, <1>3, NodeIs
<1>5. IsParser(q) /\ q.state = state /\ q.stack = Append(stack, x) /\ q.literals = p.literals
  BY <1>1, OpenIs
<1> HIDE DEF x, q
<1>6. Holding(n + 1, stack, x, text, Count(p.literals)) /\ stack # <<>> /\ Last(stack) = node
  BY <1>1, <1>4, OpenLeaf DEF x
<1>7. InLeaf(stack, x, state)
  BY <1>2, <1>3, <1>4, <1>6 DEF InLeaf
<1>8. Append(s, c) \in Seq(Char) /\ n + 1 \in Nat
  BY <1>1
<1>9. Behind(Append(s, c), state, x)
  BY <1>2, <1>3, <1>4 DEF Behind
<1> HIDE DEF stack, text
<1>10. /\ q.state \in States /\ Holding(n + 1, stack, x, text, Count(q.literals))
       /\ InLeaf(stack, x, q.state) /\ Behind(Append(s, c), q.state, x) /\ q.state # "NORMAL"
       /\ (r.broken = FALSE => r.announced = q.literals)
  BY <1>1, <1>3, <1>5, <1>6, <1>7, <1>9
<1>11. Became(next, ReadIn(q.state), text, r.announced, r.broken)
  BY <1>5 DEF text
<1>12. Good(n + 1, Append(s, c), q, next)
  BY <1>5, <1>8, <1>10, <1>11, GoodNext
<1>. QED
  BY <1>12 DEF q, x

(* A list or a section is closed. *)
Closes(n, p, rest, node, text, c) ==
    /\ IsParser(p) /\ p.stack = Append(rest, node)
    /\ Holding(n, rest, node, text, Count(p.literals)) /\ Fits(rest, node)
    /\ c \in {")", "]"} /\ node.type = IF c = ")" THEN "LIST" ELSE "SECTION"

(* The current list or section ends. *)
LEMMA CloseGood ==
    ASSUME NEW n \in Nat, NEW s \in Seq(Char), NEW c \in Char, NEW p,
           NEW rest, NEW node, NEW text, Closes(n + 1, p, rest, node, text, c),
           NEW r, NEW announced, NEW broken, Became(r, "text", text \o <<c>>, announced, broken),
           broken = FALSE => announced = p.literals
    PROVE  Good((n + 1) + 1, Append(s, c), Close(p), r)
<1> DEFINE next == [node EXCEPT !.closed = TRUE]
           q == LeaveAs(p, next)
           child == WithChild(Last(rest), next)
<1>0. /\ IsParser(p) /\ p.stack = Append(rest, node)
      /\ Holding(n + 1, rest, node, text, Count(p.literals)) /\ Fits(rest, node)
      /\ c \in {")", "]"} /\ node.type = IF c = ")" THEN "LIST" ELSE "SECTION"
  BY DEF Closes
<1>1. rest \in Seq(Nodes(n + 1)) /\ node \in Nodes(n + 1)
  BY <1>0 DEF Holding
<1>2. next.type = node.type /\ next.items = node.items
  BY <1>1 DEF Nodes
<1>3. Current(p) = node
  BY <1>0, <1>1, LeaveIs
<1>4. Close(p) = q
  BY <1>3 DEF Close
<1> HIDE DEF next
<1>5. /\ IsParser(q) /\ q.state = "NORMAL" /\ q.stack = Append(Front(rest), child) /\ q.literals = p.literals
  BY <1>0, <1>1, LeaveIs
<1>6. Closing(node) = <<c>> /\ node.type \in {"LIST", "SECTION"}
  BY <1>0 DEF Closing
<1>7. /\ Holding((n + 1) + 1, Front(rest), child, text \o <<c>>, Count(p.literals))
      /\ Fits(Front(rest), child)
      /\ node.type = "SECTION" => Bare(child.items)
  BY <1>0, <1>2, <1>6, HoldingClose
<1> HIDE DEF child, q
<1>8. Behind(Append(s, c), "NORMAL", child)
  <2>1. c = "]" => Bare(child.items)
    BY <1>0, <1>7
  <2>. QED
    BY <2>1, BehindPlainly
<1>9. Append(s, c) \in Seq(Char) /\ (n + 1) + 1 \in Nat /\ "NORMAL" \in States /\ ReadIn("NORMAL") = "text"
  BY DEF States, ReadIn
<1>10. Good((n + 1) + 1, Append(s, c), q, r)
  <2> DEFINE k == (n + 1) + 1
             f == Front(rest)
             read_ == text \o <<c>>
             ss == Append(s, c)
  <2>1. /\ k \in Nat /\ ss \in Seq(Char) /\ IsParser(q) /\ q.state \in States /\ q.stack = Append(f, child)
        /\ Holding(k, f, child, read_, Count(q.literals)) /\ Fits(f, child) /\ q.state = "NORMAL"
        /\ Behind(ss, q.state, child) /\ Became(r, ReadIn(q.state), read_, announced, broken)
        /\ (broken = FALSE => announced = q.literals)
    BY <1>0, <1>5, <1>7, <1>8, <1>9
  <2> HIDE DEF k, f, read_, ss
  <2>2. Good(k, ss, q, r)
    BY <2>1, GoodNext
  <2>. QED
    BY <2>2 DEF k, ss
<1>. QED
  BY <1>4, <1>10

NormalSymbols == {"\"", "(", ")", "]", "<", "{", "*", " "}

(* The cases of Normal as implications. *)
LEMMA NormalIs ==
    ASSUME NEW p, NEW c
    PROVE  /\ c = "\"" => Normal(p, c) = Open(p, Node("STRING", <<>>, FALSE), "STRING")
           /\ c = "(" => Normal(p, c) = Open(p, Node("LIST", <<>>, FALSE), "NORMAL")
           /\ c = ")" => Normal(p, c) = IF Current(p).type = "LIST" THEN Close(p) ELSE Throw(p)
           /\ c = "]" => Normal(p, c) = IF Current(p).type = "SECTION" THEN Close(p) ELSE Throw(p)
           /\ c = "<" /\ Ends(input, {"]"}) => Normal(p, c) = Open(p, Node("PARTIAL", <<>>, FALSE), "PARTIAL")
           /\ c = "<" /\ ~ Ends(input, {"]"}) => Normal(p, c) = Open(p, Node("ATOM", <<c>>, TRUE), "ATOM")
           /\ c = "{" => Normal(p, c) = Open(p, Node("LITERAL", <<>>, FALSE), "LITERAL")
           /\ c = "*" => Normal(p, c) = Open(p, Node("SEQUENCE", <<c>>, FALSE), "SEQUENCE")
           /\ c = " " => Normal(p, c) = p
           /\ c \notin NormalSymbols =>
                 \/ Normal(p, c) = Throw(p)
                 \/ c # "CRLF" /\ Normal(p, c) = Open(p, Node("ATOM", <<c>>, TRUE), "ATOM")
<1> DEFINE e == input # <<>> /\ Last(input) \in {"]"}
           N == CASE c = "\"" -> Open(p, Node("STRING", <<>>, FALSE), "STRING")
                  [] c = "(" -> Open(p, Node("LIST", <<>>, FALSE), "NORMAL")
                  [] c = ")" -> IF Current(p).type = "LIST" THEN Close(p) ELSE Throw(p)
                  [] c = "]" -> IF Current(p).type = "SECTION" THEN Close(p) ELSE Throw(p)
                  [] c = "<" /\ e -> Open(p, Node("PARTIAL", <<>>, FALSE), "PARTIAL")
                  [] c = "{" -> Open(p, Node("LITERAL", <<>>, FALSE), "LITERAL")
                  [] c = "*" -> Open(p, Node("SEQUENCE", <<c>>, FALSE), "SEQUENCE")
                  [] c = " " -> p
                  [] c \in AtomChars \cup {"\\", "%"} /\ ~ (c = "<" /\ e) -> Open(p, Node("ATOM", <<c>>, TRUE), "ATOM")
                  [] OTHER -> Throw(p)
<1>1. Normal(p, c) = N
  BY DEF Normal, Ends
<1>2. Ends(input, {"]"}) <=> e
  BY DEF Ends
<1>3. c \in AtomChars \cup {"\\", "%"} => c # "CRLF"
  BY DEF AtomChars, Digits, Words
<1>4. "<" \in AtomChars
  BY DEF AtomChars
<1>5. c = "\"" => N = Open(p, Node("STRING", <<>>, FALSE), "STRING")
  BY DEF AtomChars, Digits, Words
<1>6. c = "(" => N = Open(p, Node("LIST", <<>>, FALSE), "NORMAL")
  BY DEF AtomChars, Digits, Words
<1>7. c = ")" => N = IF Current(p).type = "LIST" THEN Close(p) ELSE Throw(p)
  BY DEF AtomChars, Digits, Words
<1>8. c = "]" => N = IF Current(p).type = "SECTION" THEN Close(p) ELSE Throw(p)
  BY DEF AtomChars, Digits, Words
<1>9. c = "<" /\ e => N = Open(p, Node("PARTIAL", <<>>, FALSE), "PARTIAL")
  BY DEF AtomChars, Digits, Words
<1>10. c = "<" /\ ~ e => N = Open(p, Node("ATOM", <<c>>, TRUE), "ATOM")
  BY DEF AtomChars, Digits, Words
<1>11. c = "{" => N = Open(p, Node("LITERAL", <<>>, FALSE), "LITERAL")
  BY DEF AtomChars, Digits, Words
<1>12. c = "*" => N = Open(p, Node("SEQUENCE", <<c>>, FALSE), "SEQUENCE")
  BY DEF AtomChars, Digits, Words
<1>13. c = " " => N = p
  BY DEF AtomChars, Digits, Words
<1>14. c \notin NormalSymbols =>
                 \/ N = Throw(p)
                 \/ c # "CRLF" /\ N = Open(p, Node("ATOM", <<c>>, TRUE), "ATOM")
  BY <1>3 DEF NormalSymbols
<1> HIDE DEF N, e
<1>. QED
  BY <1>1, <1>2, <1>5, <1>6, <1>7, <1>8, <1>9, <1>10, <1>11, <1>12, <1>13, <1>14


(* What the empty leaves are written as. *)
LEMMA EmptyText ==
    ASSUME NEW n \in Nat
    PROVE  /\ FrameText(n, Node("STRING", <<>>, FALSE)) = <<"\"">>
           /\ FrameText(n, Node("PARTIAL", <<>>, FALSE)) = <<"<">>
           /\ FrameText(n, Node("LITERAL", <<>>, FALSE)) = <<>>
           /\ FrameText(n, Node("LIST", <<>>, FALSE)) = <<"(">>
           /\ FrameText(n, Node("SECTION", <<>>, FALSE)) = <<"[">>
<1>1. Escaped(<<>>) = <<>>
  <2>1. "(" \in Mark /\ <<>> \in Seq(Mark)
    BY DEF Mark
  <2>. QED
    BY <2>1, EscapedAppend
<1>2. Text(n, <<>>) = <<>>
  BY EmptyList
<1>3. <<"\"">> \in Seq(Mark) /\ <<"<">> \in Seq(Mark) /\ <<"(">> \in Seq(Mark) /\ <<"[">> \in Seq(Mark)
  BY Marks
<1>4. /\ <<"\"">> \o <<>> = <<"\"">> /\ <<"<">> \o <<>> = <<"<">> /\ <<"(">> \o <<>> = <<"(">>
      /\ <<"[">> \o <<>> = <<"[">>
  BY <1>3, Grouped
<1>. QED
  BY <1>1, <1>2, <1>4 DEF FrameText, Node

(* The types of what a parser stands at. *)
LEMMA StandsTyped ==
    ASSUME NEW n, NEW s, NEW p, NEW r, NEW rest, NEW node, Stands(n, s, p, r, rest, node)
    PROVE  s \in Seq(Char) /\ r \in Readings /\ r.in = ReadIn(p.state) /\ IsParser(p)
           /\ p.stack = Append(rest, node) /\ rest \in Seq(Nodes(n)) /\ node \in Nodes(n)
           /\ (p.state = "NORMAL" => Fits(rest, node))
           /\ (p.state # "NORMAL" => InLeaf(rest, node, p.state)) /\ Behind(s, p.state, node)
BY DEF Stands, Holding

(* A character that is no space, brace or quote is read as itself. *)
LEMMA CharText ==
    ASSUME NEW n \in Nat, NEW c \in Char, NEW t \in {"ATOM", "SEQUENCE"}, NEW b \in BOOLEAN
    PROVE  FrameText(n, Node(t, <<c>>, b)) = <<c>> /\ <<c>> \in Seq(Mark) /\ <<c>> \in Seq(Char)
<1>1. c \in Mark
  BY CharsMarked
<1>2. FrameText(n, Node(t, <<c>>, b)) = <<c>>
  <2>1. CASE t = "ATOM"
    BY <2>1 DEF FrameText, Node
  <2>2. CASE t = "SEQUENCE"
    BY <2>2 DEF FrameText, Node
  <2>. QED
    BY <2>1, <2>2
<1>3. <<c>> \in Seq(Mark)
  BY <1>1
<1>. QED
  BY <1>2, <1>3

(* An atom begins. *)
LEMMA OpenAtom ==
    ASSUME NEW n \in Nat, NEW s, NEW p, NEW r, Good(n, s, p, r), p.state = "NORMAL",
           NEW c \in Char, c \notin {" ", "{", "\"", "CRLF"}, NEW t \in {"ATOM", "SEQUENCE"}, NEW b \in BOOLEAN
    PROVE  Good(n + 1, Append(s, c), Open(p, Node(t, <<c>>, b), t), Read(r, c))
<1>1. PICK rest, node : Stands(n, s, p, r, rest, node)
  BY DEF Good
<1>2. r \in Readings /\ r.in = "text"
  BY <1>1, StandsTyped DEF ReadIn
<1>3. FrameText(n, Node(t, <<c>>, b)) = <<c>> /\ <<c>> \in Seq(Mark) /\ <<c>> \in Seq(Char)
  BY CharText
<1>4. ReadIn(t) = "text"
  BY DEF ReadIn
<1>5. Became(Read(r, c), ReadIn(t), r.text \o <<c>>, r.announced, r.broken)
  BY <1>2, <1>4, ReadTextIs
<1>6. Opens(Append(s, c), node, t, <<c>>, b)
  BY <1>3 DEF Opens
<1>. QED
  BY <1>1, <1>3, <1>5, <1>6, OpenGood

(* A string begins. *)
LEMMA OpenString ==
    ASSUME NEW n \in Nat, NEW s, NEW p, NEW r, Good(n, s, p, r), p.state = "NORMAL",
           NEW c \in Char, c = "\""
    PROVE  Good(n + 1, Append(s, c), Open(p, Node("STRING", <<>>, FALSE), "STRING"), Read(r, c))
<1>1. PICK rest, node : Stands(n, s, p, r, rest, node)
  BY DEF Good
<1>2. r \in Readings /\ r.in = "text"
  BY <1>1, StandsTyped DEF ReadIn
<1>3. FrameText(n, Node("STRING", <<>>, FALSE)) = <<c>>
  BY EmptyText
<1>4. <<c>> \in Seq(Mark)
  BY CharText
<1>5. ReadIn("STRING") = "string"
  BY DEF ReadIn
<1>6. Became(Read(r, c), ReadIn("STRING"), r.text \o <<c>>, r.announced, r.broken)
  BY <1>2, <1>5, ReadTextIs
<1>7. Opens(Append(s, c), node, "STRING", <<>>, FALSE)
  <2>1. <<>> \in Seq(Char)
    BY EmptySeq
  <2>. QED
    BY <2>1 DEF Opens
<1>. QED
  BY <1>1, <1>3, <1>4, <1>6, <1>7, OpenGood

(* A partial begins, after the ] of a section. *)
LEMMA OpenPartial ==
    ASSUME NEW n \in Nat, NEW s, NEW p, NEW r, Good(n, s, p, r), p.state = "NORMAL", Ends(s, {"]"}),
           NEW c \in Char, c = "<"
    PROVE  Good(n + 1, Append(s, c), Open(p, Node("PARTIAL", <<>>, FALSE), "PARTIAL"), Read(r, c))
<1>1. PICK rest, node : Stands(n, s, p, r, rest, node)
  BY DEF Good
<1>2. r \in Readings /\ r.in = "text" /\ Bare(node.items)
  BY <1>1, StandsTyped DEF ReadIn, Behind
<1>3. FrameText(n, Node("PARTIAL", <<>>, FALSE)) = <<c>>
  BY EmptyText
<1>4. <<c>> \in Seq(Mark)
  BY CharText
<1>5. ReadIn("PARTIAL") = "text"
  BY DEF ReadIn
<1>6. Became(Read(r, c), ReadIn("PARTIAL"), r.text \o <<c>>, r.announced, r.broken)
  BY <1>2, <1>5, ReadTextIs
<1>7. Opens(Append(s, c), node, "PARTIAL", <<>>, FALSE)
  <2>1. <<>> \in Seq(Char)
    BY EmptySeq
  <2>. QED
    BY <1>2, <2>1 DEF Opens
<1>. QED
  BY <1>1, <1>3, <1>4, <1>6, <1>7, OpenGood

(* A literal's size begins. *)
LEMMA OpenLiteral ==
    ASSUME NEW n \in Nat, NEW s, NEW p, NEW r, Good(n, s, p, r), p.state = "NORMAL",
           NEW c \in Char, c = "{"
    PROVE  Good(n + 1, Append(s, c), Open(p, Node("LITERAL", <<>>, FALSE), "LITERAL"), Read(r, c))
<1>1. PICK rest, node : Stands(n, s, p, r, rest, node)
  BY DEF Good
<1>2. r \in Readings /\ r.in = "text" /\ s \in Seq(Char)
  BY <1>1, StandsTyped DEF ReadIn
<1>3. FrameText(n, Node("LITERAL", <<>>, FALSE)) = <<>> /\ <<>> \in Seq(Mark)
  BY EmptyText, Marks
<1>4. r.text \o <<>> = r.text
  <2>1. r.text \in Seq(Mark)
    BY <1>2 DEF Readings
  <2>. QED
    BY <2>1, Grouped
<1>5. ReadIn("LITERAL") = "size"
  BY DEF ReadIn
<1>6. Became(Read(r, c), ReadIn("LITERAL"), r.text \o <<>>, r.announced, r.broken)
  BY <1>2, <1>4, <1>5, ReadTextIs
<1>7. SizeRead(Append(s, c), <<>>)
  <2>1. Append(s, c) = s \o <<"{">> /\ Append(s, c) \in Seq(Char)
    <3>1. s \in Seq(Char)
      BY <1>2
    <3>. QED
      BY <3>1, AppendIs, EndsAppend
  <2>2. Append(s, c) \o <<>> = Append(s, c)
    BY <2>1, Grouped
  <2>3. Append(s, c) = (s \o <<"{">>) \o <<>>
    BY <2>1, <2>2
  <2>4. <<>> \in Seq(DIGIT)
    BY EmptySeq
  <2>. QED
    BY <1>2, <2>3, <2>4 DEF SizeRead
<1>8. Opens(Append(s, c), node, "LITERAL", <<>>, FALSE)
  <2>1. <<>> \in Seq(Char)
    BY EmptySeq
  <2>. QED
    BY <1>7, <2>1 DEF Opens
<1>. QED
  BY <1>1, <1>3, <1>6, <1>8, OpenGood

(* A list begins. *)
LEMMA OpenList ==
    ASSUME NEW n \in Nat, NEW s, NEW p, NEW r, Good(n, s, p, r), p.state = "NORMAL",
           NEW c \in Char, c = "("
    PROVE  Good(n + 1, Append(s, c), Open(p, Node("LIST", <<>>, FALSE), "NORMAL"), Read(r, c))
<1>1. PICK rest, node : Stands(n, s, p, r, rest, node)
  BY DEF Good
<1> DEFINE x == Node("LIST", <<>>, FALSE)
           stack == Append(rest, node)
           t == r.text \o <<c>>
           o == Open(p, x, "NORMAL")
           u == Append(s, c)
<1>2. /\ r \in Readings /\ r.in = "text" /\ s \in Seq(Char) /\ IsParser(p) /\ p.stack = stack /\ Fits(rest, node)
      /\ (r.broken = FALSE => r.announced = p.literals) /\ Holding(n, rest, node, r.text, Count(p.literals))
  BY <1>1 DEF ReadIn, Stands
<1>3. ReadIn("NORMAL") = "text"
  BY DEF ReadIn
<1>4. Became(Read(r, c), "text", t, r.announced, r.broken)
  BY <1>2, ReadTextIs
<1>5. x \in Nodes(n) /\ x.type = "LIST" /\ x.closed = FALSE /\ x.items = <<>>
  <2>1. "LIST" \in NodeType
    BY DEF NodeType
  <2>2. <<>> \in Seq(Char) /\ FALSE \in BOOLEAN
    BY EmptySeq
  <2>3. x \in Nodes(n)
    BY <2>1, <2>2, NodeIs
  <2>4. x.type = "LIST" /\ x.closed = FALSE /\ x.items = <<>>
    BY DEF Node
  <2>. QED
    BY <2>3, <2>4
<1>6. FrameText(n, x) = <<c>>
  BY EmptyText
<1>7. <<c>> \in Seq(Mark)
  BY CharText
<1> HIDE DEF x
<1>8. IsParser(o) /\ o.state = "NORMAL" /\ o.stack = Append(stack, x) /\ o.literals = p.literals
  <2>1. IsParser(p) /\ p.stack = stack
    BY <1>2
  <2> HIDE DEF stack
  <2>. QED
    BY <2>1, OpenIs
<1> HIDE DEF o
<1>9. Holding(n + 1, stack, x, t, Count(p.literals)) /\ stack # <<>>
  BY <1>2, <1>5, <1>6, <1>7, OpenLeaf
<1>10. Fits(stack, x)
  BY <1>5, <1>9 DEF Fits, Inner
<1>11. Behind(u, "NORMAL", x)
  BY <1>2, BehindPlainly
<1>12. "NORMAL" \in States /\ n + 1 \in Nat /\ u \in Seq(Char)
  BY <1>2 DEF States
<1> HIDE DEF stack, t, u
<1>13. Good(n + 1, u, o, Read(r, c))
  <2>1. /\ o.state \in States /\ Holding(n + 1, stack, x, t, Count(o.literals)) /\ Behind(u, o.state, x)
        /\ Became(Read(r, c), ReadIn(o.state), t, r.announced, r.broken)
        /\ (r.broken = FALSE => r.announced = o.literals) /\ o.state = "NORMAL"
    BY <1>2, <1>3, <1>4, <1>8, <1>9, <1>11, <1>12
  <2>. QED
    BY <1>8, <1>10, <1>12, <2>1, GoodNext
<1>. QED
  BY <1>13 DEF o, x, u

(* A ) or a ] ends what it closes. *)
LEMMA CloseInner ==
    ASSUME NEW n \in Nat, NEW s, NEW p, NEW r, NEW rest, NEW node, Stands(n + 1, s, p, r, rest, node),
           p.state = "NORMAL", NEW c \in {")", "]"}, c \in Char,
           node.type = IF c = ")" THEN "LIST" ELSE "SECTION"
    PROVE  Good((n + 1) + 1, Append(s, c), Close(p), Read(r, c))
<1>1. /\ s \in Seq(Char) /\ r \in Readings /\ r.in = "text" /\ IsParser(p) /\ p.stack = Append(rest, node)
      /\ Fits(rest, node) /\ Holding(n + 1, rest, node, r.text, Count(p.literals))
      /\ (r.broken = FALSE => r.announced = p.literals)
  BY DEF Stands, ReadIn
<1>2. Became(Read(r, c), "text", r.text \o <<c>>, r.announced, r.broken)
  BY <1>1, ReadTextIs
<1>3. Closes(n + 1, p, rest, node, r.text, c)
  BY <1>1 DEF Closes
<1>. QED
  BY <1>1, <1>2, <1>3, CloseGood

(* One character in the state NORMAL. *)
LEMMA NormalStep ==
    ASSUME NEW n \in Nat, NEW p, NEW r, Good(n + 1, input, p, r), p.state = "NORMAL",
           NEW c \in Char, Normal(p, c).error # TRUE
    PROVE  Good((n + 1) + 1, Append(input, c), Normal(p, c), Read(r, c))
<1> DEFINE k == n + 1
           s == Append(input, c)
           q == Normal(p, c)
           G == Good(k + 1, s, q, Read(r, c))
<1> SUFFICES G
  OBVIOUS
<1>1. k \in Nat /\ Good(k, input, p, r)
  OBVIOUS
<1>2. PICK rest, node : Stands(k, input, p, r, rest, node)
  BY <1>1 DEF Good
<1>3. IsParser(p) /\ p.stack = Append(rest, node) /\ rest \in Seq(Nodes(k)) /\ node \in Nodes(k)
  BY <1>2, StandsTyped
<1>4. Current(p) = node
  BY <1>3, ChangeIs
<1>5. Throw(p).error = TRUE
  BY <1>3, ThrowIs
<1>6. TRUE \in BOOLEAN /\ FALSE \in BOOLEAN
  OBVIOUS
<1>7. ASSUME c \notin {" ", "{", "\"", "CRLF"}, q = Open(p, Node("ATOM", <<c>>, TRUE), "ATOM") PROVE G
  <2>1. Good(k + 1, s, Open(p, Node("ATOM", <<c>>, TRUE), "ATOM"), Read(r, c))
    BY <1>1, <1>6, <1>7, OpenAtom
  <2>. QED
    BY <1>7, <2>1
<1>8. CASE c = "\""
  <2>1. Good(k + 1, s, Open(p, Node("STRING", <<>>, FALSE), "STRING"), Read(r, c))
    BY <1>1, <1>8, OpenString
  <2>2. q = Open(p, Node("STRING", <<>>, FALSE), "STRING")
    BY <1>8, NormalIs
  <2>. QED
    BY <2>1, <2>2
<1>9. CASE c = "("
  <2>1. Good(k + 1, s, Open(p, Node("LIST", <<>>, FALSE), "NORMAL"), Read(r, c))
    BY <1>1, <1>9, OpenList
  <2>2. q = Open(p, Node("LIST", <<>>, FALSE), "NORMAL")
    BY <1>9, NormalIs
  <2>. QED
    BY <2>1, <2>2
<1>10. CASE c \in {")", "]"}
  <2>1. CASE c = ")"
    <3>1. q = IF Current(p).type = "LIST" THEN Close(p) ELSE Throw(p)
      BY <2>1, NormalIs
    <3>2. node.type = "LIST" /\ q = Close(p)
      BY <1>4, <1>5, <3>1
    <3>3. Good((n + 1) + 1, Append(input, c), Close(p), Read(r, c))
      BY <1>2, <2>1, <3>2, CloseInner
    <3>. QED
      BY <3>2, <3>3
  <2>2. CASE c = "]"
    <3>1. q = IF Current(p).type = "SECTION" THEN Close(p) ELSE Throw(p)
      BY <2>2, NormalIs
    <3>2. node.type = "SECTION" /\ q = Close(p)
      BY <1>4, <1>5, <3>1
    <3>3. Good((n + 1) + 1, Append(input, c), Close(p), Read(r, c))
      BY <1>2, <2>2, <3>2, CloseInner
    <3>. QED
      BY <3>2, <3>3
  <2>. QED
    BY <1>10, <2>1, <2>2
<1>11. CASE c = "<" /\ Ends(input, {"]"})
  <2>1. Good(k + 1, s, Open(p, Node("PARTIAL", <<>>, FALSE), "PARTIAL"), Read(r, c))
    BY <1>1, <1>11, OpenPartial
  <2>2. q = Open(p, Node("PARTIAL", <<>>, FALSE), "PARTIAL")
    BY <1>11, NormalIs
  <2>. QED
    BY <2>1, <2>2
<1>12. CASE c = "<" /\ ~ Ends(input, {"]"})
  <2>1. q = Open(p, Node("ATOM", <<c>>, TRUE), "ATOM")
    BY <1>12, NormalIs
  <2> HIDE DEF q, G
  <2>. QED
    BY <1>7, <1>12, <2>1
<1>13. CASE c = "{"
  <2>1. Good(k + 1, s, Open(p, Node("LITERAL", <<>>, FALSE), "LITERAL"), Read(r, c))
    BY <1>1, <1>13, OpenLiteral
  <2>2. q = Open(p, Node("LITERAL", <<>>, FALSE), "LITERAL")
    BY <1>13, NormalIs
  <2>. QED
    BY <2>1, <2>2
<1>14. CASE c = "*"
  <2>1. Good(k + 1, s, Open(p, Node("SEQUENCE", <<c>>, FALSE), "SEQUENCE"), Read(r, c))
    BY <1>1, <1>6, <1>14, OpenAtom
  <2>2. q = Open(p, Node("SEQUENCE", <<c>>, FALSE), "SEQUENCE")
    BY <1>14, NormalIs
  <2>. QED
    BY <2>1, <2>2
<1>15. CASE c = " "
  <2>1. /\ input \in Seq(Char) /\ r \in Readings /\ r.in = "text" /\ Fits(rest, node)
        /\ Holding(k, rest, node, r.text, Count(p.literals)) /\ (r.broken = FALSE => r.announced = p.literals)
    BY <1>2 DEF Stands, ReadIn
  <2>2. Became(Read(r, c), "text", r.text, r.announced, r.broken)
    BY <1>15, <2>1, ReadTextIs
  <2>3. Holding(k + 1, rest, node, r.text, Count(p.literals))
    BY <1>1, <2>1, HoldingDeeper
  <2>4. Behind(s, p.state, node)
    BY <1>15, <2>1, BehindPlainly
  <2>5. p.state \in States /\ k + 1 \in Nat /\ s \in Seq(Char) /\ ReadIn(p.state) = "text"
    BY <1>1, <2>1 DEF States, ReadIn
  <2>6. q = p
    BY <1>15, NormalIs
  <2> DEFINE m == k + 1
             text == r.text
             announced == r.announced
             broken == r.broken
  <2>7. /\ m \in Nat /\ s \in Seq(Char) /\ p.state \in States
        /\ Holding(m, rest, node, text, Count(p.literals)) /\ Fits(rest, node) /\ Behind(s, p.state, node)
        /\ Became(Read(r, c), ReadIn(p.state), text, announced, broken) /\ (broken = FALSE => announced = p.literals)
    BY <2>1, <2>2, <2>3, <2>4, <2>5
  <2> HIDE DEF m, s, text, announced, broken
  <2>8. Good(m, s, p, Read(r, c))
    BY <1>3, <2>7, GoodNext
  <2>. QED
    BY <2>6, <2>8 DEF m, s
<1>16. CASE c \notin NormalSymbols
  <2>1. c # "CRLF" /\ q = Open(p, Node("ATOM", <<c>>, TRUE), "ATOM")
    BY <1>5, <1>16, NormalIs
  <2>2. c \notin {" ", "{", "\"", "CRLF"}
    BY <1>16, <2>1 DEF NormalSymbols
  <2> HIDE DEF q, G
  <2>. QED
    BY <1>7, <2>1, <2>2
<1> HIDE DEF G
<1>. QED
  BY <1>8, <1>9, <1>10, <1>11, <1>12, <1>13, <1>14, <1>15, <1>16 DEF NormalSymbols

(* What it has understood at one depth, it has at the next. *)
LEMMA GoodDeeper ==
    ASSUME NEW n \in Nat, NEW s, NEW p, NEW r, Good(n, s, p, r)
    PROVE  Good(n + 1, s, p, r)
<1>1. PICK rest, node : Stands(n, s, p, r, rest, node)
  BY DEF Good
<1>2. Holding(n, rest, node, r.text, Count(p.literals))
  BY <1>1 DEF Stands
<1>3. Holding(n + 1, rest, node, r.text, Count(p.literals))
  BY <1>2, HoldingDeeper
<1>4. Stands(n + 1, s, p, r, rest, node)
  BY <1>1, <1>3 DEF Stands
<1>. QED
  BY <1>4 DEF Good

(* In any other state the current node is a leaf. *)
LEMMA LeafStates ==
    \A state \in States \ {"NORMAL"} : LeafType(state) \in Leaf
BY DEF States, LeafType, Leaf

(* A node with a child keeps its type. *)
LEMMA ChildType ==
    ASSUME NEW n, NEW node \in Nodes(n), NEW child
    PROVE  WithChild(node, child).type = node.type
BY DEF WithChild, Nodes

(* How a leaf reads that is left: as next. *)
Leaves(n, node, next, more) ==
    /\ next.type = node.type /\ next.value = node.value /\ next.literal \in Nat
    /\ more \in Seq(Mark) /\ LeafText(next) = FrameText(n, node) \o more

Stood(n, q, f, node, text, numbers) ==
    /\ IsParser(q) /\ q.state = "NORMAL" /\ q.stack = Append(f, node)
    /\ Holding(n, f, node, text, numbers) /\ Fits(f, node)

(* The leaf becomes a child of the node below, and all reads as before. *)
LEMMA Left ==
    ASSUME NEW k \in Nat, k # 0, NEW s, NEW p, NEW r, NEW rest, NEW node, Stands(k, s, p, r, rest, node),
           p.state # "NORMAL", NEW next, NEW more, Leaves(k, node, next, more)
    PROVE  /\ Stood(k, LeaveAs(p, next), Front(rest), WithChild(Last(rest), next), r.text \o more,
                      Count(p.literals) \o LeafNumbers(next))
           /\ LeaveAs(p, next).literals = p.literals
<1>1. /\ IsParser(p) /\ p.stack = Append(rest, node) /\ p.state \in States
      /\ Holding(k, rest, node, r.text, Count(p.literals)) /\ InLeaf(rest, node, p.state)
  BY DEF Stands
<1>2. rest \in Seq(Nodes(k)) /\ node \in Nodes(k)
  BY <1>1 DEF Holding
<1>3. /\ IsParser(LeaveAs(p, next)) /\ LeaveAs(p, next).state = "NORMAL"
      /\ LeaveAs(p, next).stack = Append(Front(rest), WithChild(Last(rest), next))
      /\ LeaveAs(p, next).literals = p.literals
  BY <1>1, <1>2, LeaveIs
<1>4. node.type = LeafType(p.state) /\ LeafType(p.state) \in Leaf
  BY <1>1, LeafStates DEF InLeaf
<1>5. node.type = "PARTIAL" => p.state = "PARTIAL"
  BY <1>1, <1>4 DEF LeafType, States
<1>6. rest # <<>> /\ node.items = <<>> /\ node.type \in Leaf /\ (node.type = "PARTIAL" => Bare(Last(rest).items))
  BY <1>1, <1>4, <1>5 DEF InLeaf
<1>7. PICK n \in Nat : k = n + 1
  <2>1. k - 1 \in Nat /\ k = (k - 1) + 1
    OBVIOUS
  <2>. QED
    BY <2>1
<1>8. /\ next.type = node.type /\ next.value = node.value /\ next.literal \in Nat
      /\ more \in Seq(Mark) /\ LeafText(next) = FrameText(n + 1, node) \o more
  BY <1>7 DEF Leaves
<1> DEFINE text == r.text
           numbers == Count(p.literals)
<1>9. Holding(n + 1, rest, node, text, numbers)
  BY <1>1, <1>7
<1> HIDE DEF text, numbers
<1>10. /\ Holding(n + 1, Front(rest), WithChild(Last(rest), next), text \o more, numbers \o LeafNumbers(next))
       /\ Fits(Front(rest), WithChild(Last(rest), next))
  BY <1>6, <1>8, <1>9, HoldingLeave
<1>11. Holding(k, Front(rest), WithChild(Last(rest), next), text \o more, numbers \o LeafNumbers(next))
  BY <1>7, <1>10
<1>. QED
  BY <1>3, <1>10, <1>11 DEF text, numbers, Stood

(* Counting on. *)
LEMMA CountTyped ==
    ASSUME NEW k \in Nat
    PROVE  Count(k) \in Seq(Nat) /\ Count(k) \o <<>> = Count(k) /\ Count(k) \o <<k + 1>> = Count(k + 1)
<1>1. Count(k) \in Seq(Nat) /\ Len(Count(k)) = k /\ \A i \in 1 .. k : Count(k)[i] = i
  BY DEF Count
<1>2. Count(k + 1) \in Seq(Nat) /\ Len(Count(k + 1)) = k + 1 /\ \A i \in 1 .. k + 1 : Count(k + 1)[i] = i
  BY DEF Count
<1>3. Count(k) \o <<>> = Count(k)
  BY <1>1, Grouped
<1> DEFINE u == Count(k)
           v == Count(k) \o <<k + 1>>
           w == Count(k + 1)
<1>4. v \in Seq(Nat) /\ Len(v) = k + 1 /\ \A i \in 1 .. k + 1 : v[i] = i
  BY <1>1
<1>5. w \in Seq(Nat) /\ Len(w) = k + 1 /\ \A i \in 1 .. k + 1 : w[i] = i
  BY <1>2
<1> HIDE DEF v, w
<1>6. v = w
  BY <1>4, <1>5, SeqEqual
<1>. QED
  BY <1>1, <1>3, <1>6 DEF v, w

(* The number of the literals taken is one. *)
LEMMA LiteralsTyped == ASSUME NEW p, IsParser(p) PROVE p.literals \in Nat
<1>1. PICK A, B : p \in Parsers(A, B)
  BY DEF IsParser
<1>. QED
  BY <1>1 DEF Parsers

(* What is read now, and how many literals it announces. *)
Follows(t, in, text, k) ==
    t \in Readings /\ t.in = in /\ t.text = text /\ (t.broken = FALSE => t.announced = k)

(* The parts of Follows. *)
LEMMA FollowsIs ==
    ASSUME NEW t, NEW in, NEW text, NEW k, Follows(t, in, text, k)
    PROVE  Became(t, in, text, t.announced, t.broken) /\ (t.broken = FALSE => t.announced = k)
BY DEF Follows, Became

(* A leaf is left that is no literal, at a character other than that which ends a section. *)
LEMMA LeaveGood ==
    ASSUME NEW n \in Nat, n # 0, NEW s, NEW p, NEW r, NEW rest, NEW node, Stands(n, s, p, r, rest, node),
           p.state # "NORMAL", NEW c \in Char, c # "]",
           NEW next, NEW more, Leaves(n, node, next, more), next.type # "LITERAL",
           NEW t, Follows(t, "text", r.text \o more, p.literals)
    PROVE  Good(n + 1, Append(s, c), LeaveAs(p, next), t)
<1> DEFINE q == LeaveAs(p, next)
           f == Front(rest)
           child == WithChild(Last(rest), next)
           u == Append(s, c)
           text == r.text \o more
           announced == t.announced
           broken == t.broken
<1>0. Stood(n, q, f, child, text, Count(p.literals) \o LeafNumbers(next)) /\ q.literals = p.literals
  BY Left
<1>1. /\ IsParser(q) /\ q.state = "NORMAL" /\ q.stack = Append(f, child) /\ q.literals = p.literals
      /\ Holding(n, f, child, text, Count(p.literals) \o LeafNumbers(next)) /\ Fits(f, child)
  BY <1>0 DEF Stood
<1>2. s \in Seq(Char) /\ IsParser(p)
  BY DEF Stands
<1>3. Count(p.literals) \o LeafNumbers(next) = Count(q.literals)
  <2>1. LeafNumbers(next) = <<>>
    BY DEF LeafNumbers
  <2>. QED
    BY <1>1, <1>2, <2>1, LiteralsTyped, CountTyped
<1>4. u \in Seq(Char) /\ n \in Nat /\ "NORMAL" \in States /\ ReadIn("NORMAL") = "text"
  BY <1>2 DEF States, ReadIn
<1>5. Behind(u, "NORMAL", child)
  BY <1>2, BehindPlainly
<1>6. Became(t, "text", text, announced, broken) /\ (broken = FALSE => announced = p.literals)
  BY FollowsIs
<1> HIDE DEF q, f, child, u, text, announced, broken
<1>7. /\ q.state \in States /\ Holding(n, f, child, text, Count(q.literals)) /\ Behind(u, q.state, child)
      /\ Became(t, ReadIn(q.state), text, announced, broken) /\ (broken = FALSE => announced = q.literals)
  BY <1>1, <1>3, <1>4, <1>5, <1>6
<1>8. Good(n, u, q, t)
  BY <1>1, <1>4, <1>7, GoodNext
<1>9. Good(n + 1, u, q, t)
  BY <1>4, <1>8, GoodDeeper
<1>. QED
  BY <1>9 DEF q, u

(* An atom or a sequence is what its characters are. *)
LEMMA AtomLeaves ==
    ASSUME NEW n \in Nat, NEW node \in Nodes(n), node.type \in {"ATOM", "SEQUENCE"}
    PROVE  Leaves(n, node, node, <<>>)
<1>1. node.value \in Seq(Mark) /\ node.literal \in Nat /\ <<>> \in Seq(Mark)
  BY Marks DEF Nodes
<1>2. LeafText(node) = node.value /\ FrameText(n, node) = node.value
  BY DEF LeafText, PlainText, FrameText
<1>3. node.value \o <<>> = node.value
  BY <1>1, Grouped
<1>. QED
  BY <1>1, <1>2, <1>3 DEF Leaves

(* An atom or a sequence is left as it is, and all reads as before. *)
LEMMA AtomLeft ==
    ASSUME NEW n \in Nat, n # 0, NEW s, NEW p, NEW r, NEW rest, NEW node, Stands(n, s, p, r, rest, node),
           p.state \in {"ATOM", "SEQUENCE"}
    PROVE  /\ Stood(n, Leave(p), Front(rest), WithChild(Last(rest), node), r.text, Count(p.literals))
           /\ Leave(p).literals = p.literals /\ Current(p) = node /\ Parent(p) = Last(rest)
           /\ rest # <<>> /\ Last(rest) \in Nodes(n) /\ node.type \in {"ATOM", "SEQUENCE"}
           /\ r.text \o <<>> = r.text
<1>1. /\ r \in Readings /\ IsParser(p) /\ p.stack = Append(rest, node)
      /\ rest \in Seq(Nodes(n)) /\ node \in Nodes(n) /\ InLeaf(rest, node, p.state)
  BY DEF Stands, Holding
<1>2. rest # <<>> /\ node.type \in {"ATOM", "SEQUENCE"}
  BY <1>1 DEF InLeaf, LeafType
<1>3. Current(p) = node /\ Parent(p) = Last(rest)
  BY <1>1, LeaveIs
<1> DEFINE more == <<>>
           text == r.text \o more
           numbers == Count(p.literals) \o LeafNumbers(node)
<1>4. Leaves(n, node, node, more)
  BY <1>1, <1>2, AtomLeaves
<1>5. text = r.text
  <2>1. r.text \in Seq(Mark)
    BY <1>1 DEF Readings
  <2>. QED
    BY <2>1, Grouped
<1>6. numbers = Count(p.literals)
  <2>1. p.literals \in Nat
    BY <1>1, LiteralsTyped
  <2>2. LeafNumbers(node) = <<>>
    BY <1>2 DEF LeafNumbers
  <2>. QED
    BY <2>1, <2>2, CountTyped
<1> HIDE DEF more
<1>7. p.state # "NORMAL"
  OBVIOUS
<1>8. /\ Stood(n, LeaveAs(p, node), Front(rest), WithChild(Last(rest), node), text, numbers)
      /\ LeaveAs(p, node).literals = p.literals
  BY <1>4, <1>7, Left
<1> HIDE DEF text, numbers
<1>9. Leave(p) = LeaveAs(p, node)
  BY <1>3 DEF Leave
<1>10. Last(rest) \in Nodes(n)
  BY <1>1, <1>2, Ended
<1>11. r.text \o <<>> = r.text
  BY <1>5 DEF text, more
<1>. QED
  BY <1>2, <1>3, <1>5, <1>6, <1>8, <1>9, <1>10, <1>11

(* It ends where the list or the section around it does. *)
LEMMA LeaveClose ==
    ASSUME NEW n \in Nat, n # 0, NEW s, NEW p, NEW r, NEW rest, NEW node, Stands(n, s, p, r, rest, node),
           p.state \in {"ATOM", "SEQUENCE"}, NEW c \in Char, c \in {")", "]"},
           Parent(p).type = IF c = ")" THEN "LIST" ELSE "SECTION"
    PROVE  Good(n + 1, Append(s, c), Close(Leave(p)), Read(r, c))
<1> DEFINE q == Leave(p)
           f == Front(rest)
           child == WithChild(Last(rest), node)
<1>1. /\ s \in Seq(Char) /\ r \in Readings /\ r.in = "text" /\ (r.broken = FALSE => r.announced = p.literals)
  BY DEF Stands, ReadIn
<1>2. /\ Stood(n, q, f, child, r.text, Count(p.literals)) /\ q.literals = p.literals
      /\ Parent(p) = Last(rest) /\ Last(rest) \in Nodes(n)
  BY AtomLeft
<1>3. child.type = IF c = ")" THEN "LIST" ELSE "SECTION"
  BY <1>2, ChildType
<1>4. PICK m \in Nat : n = m + 1
  <2>1. n - 1 \in Nat /\ n = (n - 1) + 1
    OBVIOUS
  <2>. QED
    BY <2>1
<1> HIDE DEF q, f, child
<1>5. Closes(m + 1, q, f, child, r.text, c)
  BY <1>2, <1>3, <1>4 DEF Closes, Stood
<1>6. Became(Read(r, c), "text", r.text \o <<c>>, r.announced, r.broken)
  BY <1>1, ReadTextIs
<1>7. r.broken = FALSE => r.announced = q.literals
  BY <1>1, <1>2
<1>8. Good((m + 1) + 1, Append(s, c), Close(q), Read(r, c))
  BY <1>1, <1>5, <1>6, <1>7, CloseGood
<1>. QED
  BY <1>4, <1>8 DEF q

(* A character is taken by a leaf. *)
Takes(n, s, node, x, c, state) ==
    /\ x \in Nodes(n) /\ x.value = Append(node.value, c) /\ x.items = node.items /\ x.literal = node.literal
    /\ x.closed = node.closed
    /\ x.type = node.type \/ (node.type = "ATOM" /\ x.type = "SEQUENCE")
    /\ x.type = LeafType(state) /\ state \in States \ {"NORMAL"}
    /\ Behind(Append(s, c), state, x)

Stepped(q, state, stack, k) ==
    IsParser(q) /\ q.state = state /\ q.stack = stack /\ q.literals = k

(* The leaf takes the character, and so does the reading. *)
LEMMA TakeGood ==
    ASSUME NEW n \in Nat, NEW s, NEW p, NEW r, NEW rest, NEW node, Stands(n, s, p, r, rest, node),
           p.state # "NORMAL", NEW c \in Char, NEW x, NEW state, Takes(n, s, node, x, c, state),
           NEW q, Stepped(q, state, Append(rest, x), p.literals),
           NEW t, Follows(t, ReadIn(state), r.text \o Taken(node.type, c), p.literals)
    PROVE  Good(n + 1, Append(s, c), q, t)
<1> DEFINE more == Taken(node.type, c)
           text == r.text \o more
           u == Append(s, c)
           announced == t.announced
           broken == t.broken
<1>1. /\ s \in Seq(Char) /\ p.state \in States \ {"NORMAL"} /\ IsParser(p)
      /\ Holding(n, rest, node, r.text, Count(p.literals)) /\ InLeaf(rest, node, p.state)
  BY DEF Stands
<1>2. /\ x \in Nodes(n) /\ x.value = Append(node.value, c) /\ x.items = node.items /\ x.literal = node.literal
      /\ x.closed = node.closed /\ (x.type = node.type \/ (node.type = "ATOM" /\ x.type = "SEQUENCE"))
      /\ x.type = LeafType(state) /\ state \in States \ {"NORMAL"}
      /\ Behind(u, state, x)
  BY DEF Takes
<1>3. IsParser(q) /\ q.state = state /\ q.stack = Append(rest, x) /\ q.literals = p.literals
  BY DEF Stepped
<1>4. node.type \in Leaf /\ x.type \in Leaf /\ node \in Nodes(n)
  BY <1>1, <1>2, LeafStates DEF InLeaf, Holding
<1>5. FrameText(n, x) = FrameText(n, node) \o more /\ more \in Seq(Mark)
  BY <1>2, <1>4, TakenText
<1>6. InLeaf(rest, x, state)
  <2>1. /\ rest # <<>> /\ node.type = LeafType(p.state) /\ node.items = <<>> /\ node.literal = 0
        /\ p.state \notin {"ATOM", "SEQUENCE"} => node.closed = FALSE
        /\ p.state = "PARTIAL" => Bare(Last(rest).items)
    BY <1>1 DEF InLeaf
  <2>2. state \notin {"ATOM", "SEQUENCE"} => p.state \notin {"ATOM", "SEQUENCE"}
    BY <1>1, <1>2, <2>1 DEF LeafType, States
  <2>3. state = "PARTIAL" => p.state = "PARTIAL"
    BY <1>1, <1>2, <2>1 DEF LeafType, States
  <2>. QED
    BY <1>2, <2>1, <2>2, <2>3 DEF InLeaf
<1>7. Holding(n, rest, x, text, Count(p.literals))
  <2> DEFINE old == r.text
             numbers == Count(p.literals)
  <2>1. Holding(n, rest, node, old, numbers)
    BY <1>1
  <2> HIDE DEF more, old, numbers
  <2>2. Holding(n, rest, x, old \o more, numbers)
    BY <1>2, <1>5, <2>1, HoldingTake
  <2>. QED
    BY <2>2 DEF old, numbers
<1>8. Became(t, ReadIn(state), text, announced, broken) /\ (broken = FALSE => announced = p.literals)
  BY FollowsIs
<1>9. u \in Seq(Char)
  BY <1>1
<1> HIDE DEF text, u, announced, broken
<1>10. /\ q.state \in States /\ Holding(n, rest, x, text, Count(q.literals)) /\ Behind(u, q.state, x)
       /\ Became(t, ReadIn(q.state), text, announced, broken) /\ (broken = FALSE => announced = q.literals)
       /\ q.state # "NORMAL" /\ InLeaf(rest, x, q.state)
  BY <1>1, <1>2, <1>3, <1>6, <1>7, <1>8
<1>11. Good(n, u, q, t)
  BY <1>3, <1>9, <1>10, GoodNext
<1>12. Good(n + 1, u, q, t)
  BY <1>11, GoodDeeper
<1>. QED
  BY <1>12 DEF u

(* processString's pushChar on the current node. *)
LEMMA TakeIs ==
    ASSUME NEW n \in Nat, NEW p, IsParser(p), NEW rest \in Seq(Nodes(n)), NEW node \in Nodes(n),
           p.stack = Append(rest, node), NEW c \in Char
    PROVE  \E x : /\ Stepped(Take(p, c), p.state, Append(rest, x), p.literals) /\ x \in Nodes(n)
                  /\ x.type = node.type /\ x.value = Append(node.value, c) /\ x.literal = node.literal
                  /\ x.closed = node.closed /\ x.items = node.items
<1> DEFINE x == [node EXCEPT !.value = Append(@, c)]
<1>1. /\ x \in Nodes(n) /\ x.type = node.type /\ x.value = Append(node.value, c) /\ x.literal = node.literal
      /\ x.closed = node.closed /\ x.items = node.items
  BY TakenIs
<1>2. Current(p) = node
  BY ChangeIs
<1>3. Take(p, c) = Change(p, x)
  BY <1>2 DEF Take
<1> HIDE DEF x
<1>4. /\ IsParser(Change(p, x)) /\ Change(p, x).state = p.state /\ Change(p, x).stack = Append(rest, x)
      /\ Change(p, x).literals = p.literals
  BY ChangeIs
<1>5. Stepped(Take(p, c), p.state, Append(rest, x), p.literals)
  BY <1>3, <1>4 DEF Stepped
<1>. QED
  BY <1>1, <1>5

(* A leaf takes a character and stays what it is. *)
LEMMA TakeStep ==
    ASSUME NEW n \in Nat, NEW s, NEW p, NEW r, NEW rest, NEW node, Stands(n, s, p, r, rest, node),
           p.state \in {"ATOM", "STRING", "PARTIAL", "SEQUENCE"}, NEW c \in Char,
           NEW t, Follows(t, ReadIn(p.state), r.text \o Taken(node.type, c), p.literals)
    PROVE  Good(n + 1, Append(s, c), Take(p, c), t)
<1>1. /\ s \in Seq(Char) /\ IsParser(p) /\ p.stack = Append(rest, node) /\ rest \in Seq(Nodes(n))
      /\ node \in Nodes(n) /\ p.state \in States \ {"NORMAL"} /\ node.type = LeafType(p.state)
  BY DEF Stands, Holding, InLeaf
<1>2. PICK x : /\ Stepped(Take(p, c), p.state, Append(rest, x), p.literals) /\ x \in Nodes(n)
               /\ x.type = node.type /\ x.value = Append(node.value, c) /\ x.literal = node.literal
               /\ x.closed = node.closed /\ x.items = node.items
  BY <1>1, TakeIs
<1>3. Behind(Append(s, c), p.state, x)
  BY <1>1, BehindPlainly
<1>4. Takes(n, s, node, x, c, p.state)
  BY <1>1, <1>2, <1>3 DEF Takes
<1> DEFINE q == Take(p, c)
           state == p.state
<1>5. Stepped(q, state, Append(rest, x), p.literals) /\ Takes(n, s, node, x, c, state)
      /\ Follows(t, ReadIn(state), r.text \o Taken(node.type, c), p.literals) /\ p.state # "NORMAL"
  BY <1>2, <1>4
<1> HIDE DEF q, state
<1>6. Good(n + 1, Append(s, c), q, t)
  BY <1>5, TakeGood
<1>. QED
  BY <1>6 DEF q

(* The reading goes on as the parser does. *)
LEMMA FollowsText ==
    ASSUME NEW n, NEW s, NEW p, NEW r, NEW rest, NEW node, Stands(n, s, p, r, rest, node),
           ReadIn(p.state) = "text", NEW c \in Char, c \notin {"{", "\"", "CRLF"}
    PROVE  /\ c = " " => Follows(Read(r, c), "text", r.text, p.literals)
           /\ c # " " => Follows(Read(r, c), "text", r.text \o <<c>>, p.literals)
<1>1. r \in Readings /\ r.in = "text" /\ (r.broken = FALSE => r.announced = p.literals)
  BY DEF Stands
<1>2. /\ c = " " => Became(Read(r, c), "text", r.text, r.announced, r.broken)
      /\ c # " " => Became(Read(r, c), "text", r.text \o <<c>>, r.announced, r.broken)
  BY <1>1, ReadTextIs
<1>. QED
  BY <1>1, <1>2 DEF Follows, Became

(* The cases of Atom as implications. *)
LEMMA AtomIs ==
    ASSUME NEW p, NEW c
    PROVE  \/ c = " " /\ Atom(p, c) = Leave(p)
           \/ /\ c \in {")", "]"} /\ Parent(p).type = IF c = ")" THEN "LIST" ELSE "SECTION"
              /\ Atom(p, c) = Close(Leave(p))
           \/ /\ c \in {",", ":"}
              /\ Atom(p, c) = [Change(p, [Current(p) EXCEPT !.type = "SEQUENCE", !.value = Append(@, c)])
                                  EXCEPT !.state = "SEQUENCE"]
           \/ /\ c = "[" /\ Current(p).value = <<"BODY">>
              /\ Atom(p, c) = Open(Leave(p), Node("SECTION", <<>>, FALSE), "NORMAL")
           \/ c \notin {" ", "{", "\"", "CRLF"} /\ Atom(p, c) = Take(p, c)
           \/ Atom(p, c) = Throw(p)
<1> DEFINE value == Current(p).value
           separates == c \in {",", ":"} /\ Range(value) \subseteq Digits
           allowed == \/ c \in (AtomChars \ {"<", "["}) \cup {"]"} /\ value # <<"\\", "*">>
                      \/ c = "*" /\ value = <<"\\">>
           closes == \/ c = ")" /\ Parent(p).type = "LIST"
                     \/ c = "]" /\ Parent(p).type = "SECTION"
           S == [Change(p, [Current(p) EXCEPT !.type = "SEQUENCE", !.value = Append(@, c)]) EXCEPT !.state = "SEQUENCE"]
           O == Open(Leave(p), Node("SECTION", <<>>, FALSE), "NORMAL")
           A == CASE c = " " -> Leave(p)
                  [] closes -> Close(Leave(p))
                  [] separates -> S
                  [] c = "[" -> IF value = <<"BODY">> THEN O ELSE Throw(p)
                  [] allowed /\ ~ separates /\ ~ closes -> Take(p, c)
                  [] OTHER -> Throw(p)
<1>1. Atom(p, c) = A
  BY DEF Atom, ClosesParent
<1>2. allowed => c \notin {" ", "{", "\"", "CRLF"}
  BY DEF AtomChars, Digits, Words
<1>3. allowed => c # "["
  BY DEF AtomChars, Digits, Words
<1>4. closes => c \in {")", "]"} /\ Parent(p).type = IF c = ")" THEN "LIST" ELSE "SECTION"
  OBVIOUS
<1>5. separates => c \in {",", ":"}
  OBVIOUS
<1>6. closes => c # " " /\ c # "[" /\ c \notin {",", ":"}
  OBVIOUS
<1> HIDE DEF value, separates, allowed, closes, S, O
<1>7. \/ c = " " /\ A = Leave(p)
      \/ closes /\ A = Close(Leave(p))
      \/ separates /\ A = S
      \/ c = "[" /\ value = <<"BODY">> /\ A = O
      \/ allowed /\ A = Take(p, c)
      \/ A = Throw(p)
  BY <1>2, <1>3, <1>5, <1>6
<1> HIDE DEF A
<1>. QED
  BY <1>1, <1>2, <1>4, <1>5, <1>7 DEF S, O, value

(* A list that an atom was added to last may get a section. *)
LEMMA AtomFresh ==
    ASSUME NEW n \in Nat, n # 0, NEW node \in Nodes(n), NEW child \in Nodes(n), child.type = "ATOM", child.value = <<"BODY">>
    PROVE  Fresh(WithChild(node, child).items)
<1> DEFINE a == Argument("ATOM", child.value, 0, <<>>)
<1>1. <<"BODY">> # <<"NIL">>
  OBVIOUS
<1>2. Added(node.items, child) = Append(node.items, Argument(child.type, child.value, 0, <<>>))
  BY <1>1 DEF Added, Star
<1>3. Added(node.items, child) = Append(node.items, a)
  BY <1>2
<1>4. WithChild(node, child).items = Added(node.items, child)
  BY DEF WithChild, Nodes
<1>5. PICK m \in Nat : n = m + 1
  <2>1. n - 1 \in Nat /\ n = (n - 1) + 1
    OBVIOUS
  <2>. QED
    BY <2>1
<1>6. node.items \in Lists(m + 1)
  BY <1>5 DEF Nodes
<1>7. node.items \in Seq(Args(m))
  BY <1>6, ListsNext
<1>8. a.partial = <<>> /\ a.section = FALSE /\ a.sections = <<>>
  BY DEF Argument
<1> DEFINE S == Args(m) \cup {a}
           list == node.items
<1>9. list \in Seq(S) /\ a \in S
  BY <1>7
<1> HIDE DEF a, S, list
<1>10. Append(list, a) # <<>> /\ Last(Append(list, a)) = a
  BY <1>9, EndOfAppend
<1>. QED
  BY <1>3, <1>4, <1>8, <1>10 DEF Fresh, Bare, list

(* BODY is left and its section begins. *)
LEMMA OpenSection ==
    ASSUME NEW n \in Nat, NEW s \in Seq(Char), NEW q, NEW f, NEW child, NEW text,
           Stood(n, q, f, child, text, Count(q.literals)), Fresh(child.items),
           NEW c \in Char, c = "[", NEW t, Follows(t, "text", text \o <<c>>, q.literals)
    PROVE  Good(n + 1, Append(s, c), Open(q, Node("SECTION", <<>>, FALSE), "NORMAL"), t)
<1> DEFINE x == Node("SECTION", <<>>, FALSE)
           stack == Append(f, child)
           more == text \o <<c>>
           o == Open(q, x, "NORMAL")
           u == Append(s, c)
           announced == t.announced
           broken == t.broken
<1>1. /\ IsParser(q) /\ q.stack = stack /\ Fits(f, child) /\ Holding(n, f, child, text, Count(q.literals))
  BY DEF Stood
<1>2. ReadIn("NORMAL") = "text"
  BY DEF ReadIn
<1>3. Became(t, "text", more, announced, broken) /\ (broken = FALSE => announced = q.literals)
  BY FollowsIs
<1>4. x \in Nodes(n) /\ x.type = "SECTION" /\ x.closed = FALSE /\ x.items = <<>>
  <2>1. "SECTION" \in NodeType
    BY DEF NodeType
  <2>2. <<>> \in Seq(Char) /\ FALSE \in BOOLEAN
    BY EmptySeq
  <2>3. x \in Nodes(n)
    BY <2>1, <2>2, NodeIs
  <2>4. x.type = "SECTION" /\ x.closed = FALSE /\ x.items = <<>>
    BY DEF Node
  <2>. QED
    BY <2>3, <2>4
<1>5. FrameText(n, x) = <<c>>
  BY EmptyText
<1>6. <<c>> \in Seq(Mark)
  BY CharText
<1> HIDE DEF x
<1>7. IsParser(o) /\ o.state = "NORMAL" /\ o.stack = Append(stack, x) /\ o.literals = q.literals
  <2>1. IsParser(q) /\ q.stack = stack
    BY <1>1
  <2> HIDE DEF stack
  <2>. QED
    BY <2>1, OpenIs
<1> HIDE DEF o
<1>8. Holding(n + 1, stack, x, more, Count(q.literals)) /\ stack # <<>> /\ Last(stack) = child
  <2> DEFINE numbers == Count(q.literals)
             piece == <<c>>
  <2>1. Holding(n, f, child, text, numbers) /\ FrameText(n, x) = piece /\ piece \in Seq(Mark)
    BY <1>1, <1>5, <1>6
  <2> HIDE DEF numbers, piece
  <2>2. Holding(n + 1, Append(f, child), x, text \o piece, numbers) /\ Append(f, child) # <<>>
        /\ Last(Append(f, child)) = child
    BY <1>1, <1>4, <2>1, OpenLeaf
  <2>. QED
    BY <2>2 DEF numbers, piece
<1>9. Fits(stack, x)
  BY <1>4, <1>8 DEF Fits, Inner
<1>10. Behind(u, "NORMAL", x)
  BY BehindPlainly
<1>11. "NORMAL" \in States /\ n + 1 \in Nat /\ u \in Seq(Char)
  BY DEF States
<1> HIDE DEF stack, more, u, announced, broken
<1>12. Good(n + 1, u, o, t)
  <2>1. /\ o.state \in States /\ Holding(n + 1, stack, x, more, Count(o.literals)) /\ Behind(u, o.state, x)
        /\ Became(t, ReadIn(o.state), more, announced, broken)
        /\ (broken = FALSE => announced = o.literals) /\ o.state = "NORMAL"
    BY <1>2, <1>3, <1>7, <1>8, <1>10, <1>11
  <2>. QED
    BY <1>7, <1>9, <1>11, <2>1, GoodNext
<1>. QED
  BY <1>12 DEF o, x, u

(* One character in the state ATOM. *)
LEMMA AtomStep ==
    ASSUME NEW n \in Nat, n # 0, NEW s, NEW p, NEW r, Good(n, s, p, r), p.state = "ATOM",
           NEW c \in Char, Atom(p, c).error # TRUE
    PROVE  Good(n + 1, Append(s, c), Atom(p, c), Read(r, c))
<1> DEFINE q == Atom(p, c)
           t == Read(r, c)
           G == Good(n + 1, Append(s, c), q, t)
<1> SUFFICES G
  OBVIOUS
<1>1. PICK rest, node : Stands(n, s, p, r, rest, node)
  BY DEF Good
<1>2. /\ s \in Seq(Char) /\ r \in Readings /\ IsParser(p) /\ p.stack = Append(rest, node)
      /\ rest \in Seq(Nodes(n)) /\ node \in Nodes(n) /\ node.type = "ATOM"
  BY <1>1 DEF Stands, Holding, InLeaf, LeafType
<1>3. ReadIn(p.state) = "text" /\ ReadIn("SEQUENCE") = "text"
  BY DEF ReadIn
<1>4. Throw(p).error = TRUE
  BY <1>2, ThrowIs
<1>5. /\ Stood(n, Leave(p), Front(rest), WithChild(Last(rest), node), r.text, Count(p.literals))
      /\ Leave(p).literals = p.literals /\ Current(p) = node
      /\ Last(rest) \in Nodes(n) /\ r.text \o <<>> = r.text
  <2>1. p.state \in {"ATOM", "SEQUENCE"}
    OBVIOUS
  <2>. QED
    BY <1>1, <2>1, AtomLeft
<1>6. Taken(node.type, c) = <<c>>
  BY <1>2 DEF Taken
<1>7. CASE c = " " /\ q = Leave(p)
  <2> DEFINE more == <<>>
  <2>1. Leaves(n, node, node, more)
    BY <1>2, AtomLeaves
  <2>2. Follows(t, "text", r.text, p.literals)
    BY <1>1, <1>3, <1>7, FollowsText
  <2>3. Follows(t, "text", r.text \o more, p.literals)
    BY <1>5, <2>2
  <2>4. Leave(p) = LeaveAs(p, node)
    BY <1>5 DEF Leave
  <2> HIDE DEF t, more
  <2>5. p.state # "NORMAL" /\ c # "]" /\ node.type # "LITERAL"
    BY <1>2, <1>7
  <2>6. Good(n + 1, Append(s, c), LeaveAs(p, node), t)
    BY <1>1, <2>1, <2>3, <2>5, LeaveGood
  <2>. QED
    BY <1>7, <2>4, <2>6
<1>8. CASE /\ c \in {")", "]"} /\ Parent(p).type = IF c = ")" THEN "LIST" ELSE "SECTION"
           /\ q = Close(Leave(p))
  <2>1. p.state \in {"ATOM", "SEQUENCE"}
    OBVIOUS
  <2>2. Good(n + 1, Append(s, c), Close(Leave(p)), Read(r, c))
    BY <1>1, <1>8, <2>1, LeaveClose
  <2>. QED
    BY <1>8, <2>2
<1>9. CASE /\ c \in {",", ":"}
           /\ q = [Change(p, [Current(p) EXCEPT !.type = "SEQUENCE", !.value = Append(@, c)]) EXCEPT !.state = "SEQUENCE"]
  <2> DEFINE x == [node EXCEPT !.type = "SEQUENCE", !.value = Append(@, c)]
             state == "SEQUENCE"
  <2>1. /\ x \in Nodes(n) /\ x.type = "SEQUENCE" /\ x.value = Append(node.value, c) /\ x.literal = node.literal
        /\ x.closed = node.closed /\ x.items = node.items
    <3>1. Append(node.value, c) \in Seq(Char) /\ "SEQUENCE" \in NodeType
      BY <1>2 DEF Nodes, NodeType
    <3>2. x = [node EXCEPT !.type = "SEQUENCE", !.value = Append(node.value, c)]
      BY <1>2 DEF Nodes
    <3>. QED
      BY <1>2, <3>1, <3>2 DEF Nodes
  <2>2. q = [Change(p, x) EXCEPT !.state = "SEQUENCE"]
    BY <1>5, <1>9
  <2> HIDE DEF x, q
  <2>3. IsParser(Change(p, x)) /\ Change(p, x).stack = Append(rest, x) /\ Change(p, x).literals = p.literals
    BY <1>2, ChangeIs
  <2>4. Stepped(q, "SEQUENCE", Append(rest, x), p.literals)
    BY <2>2, <2>3, StateIs DEF Stepped
  <2>5. Behind(Append(s, c), "SEQUENCE", x)
    BY <1>2, BehindPlainly
  <2>6. Takes(n, s, node, x, c, "SEQUENCE")
    BY <1>2, <2>1, <2>5 DEF Takes, LeafType, States
  <2>7. Follows(t, "text", r.text \o Taken(node.type, c), p.literals)
    BY <1>1, <1>3, <1>6, <1>9, FollowsText
  <2>8. /\ Stepped(q, state, Append(rest, x), p.literals) /\ Takes(n, s, node, x, c, state)
        /\ Follows(t, ReadIn(state), r.text \o Taken(node.type, c), p.literals) /\ p.state # "NORMAL"
    BY <1>3, <2>4, <2>6, <2>7
  <2> HIDE DEF state, t
  <2>. QED
    BY <1>1, <2>8, TakeGood
<1>10. CASE /\ c = "[" /\ Current(p).value = <<"BODY">>
            /\ q = Open(Leave(p), Node("SECTION", <<>>, FALSE), "NORMAL")
  <2> DEFINE l == Leave(p)
             f == Front(rest)
             child == WithChild(Last(rest), node)
             text == r.text
  <2>1. Stood(n, l, f, child, text, Count(l.literals)) /\ l.literals = p.literals
    BY <1>5
  <2>2. Fresh(child.items)
    BY <1>2, <1>5, <1>10, AtomFresh
  <2>3. Follows(t, "text", r.text \o <<c>>, p.literals)
    BY <1>1, <1>3, <1>10, FollowsText
  <2> HIDE DEF l, f, child, t
  <2>4. Follows(t, "text", text \o <<c>>, l.literals)
    BY <2>1, <2>3
  <2> HIDE DEF text
  <2>5. Good(n + 1, Append(s, c), Open(l, Node("SECTION", <<>>, FALSE), "NORMAL"), t)
    BY <1>2, <1>10, <2>1, <2>2, <2>4, OpenSection
  <2>. QED
    BY <1>10, <2>5 DEF l
<1>11. CASE c \notin {" ", "{", "\"", "CRLF"} /\ q = Take(p, c)
  <2>1. Follows(t, ReadIn(p.state), r.text \o Taken(node.type, c), p.literals)
    BY <1>1, <1>3, <1>6, <1>11, FollowsText
  <2>2. p.state \in {"ATOM", "STRING", "PARTIAL", "SEQUENCE"}
    OBVIOUS
  <2> HIDE DEF t
  <2>3. Good(n + 1, Append(s, c), Take(p, c), t)
    BY <1>1, <2>1, <2>2, TakeStep
  <2>. QED
    BY <1>11, <2>3
<1> HIDE DEF G
<1>. QED
  BY <1>4, <1>7, <1>8, <1>9, <1>10, <1>11, AtomIs

(* The reading of an escaped character. *)
LEMMA EscapeFollows ==
    ASSUME NEW n \in Nat, NEW s, NEW p, NEW r, NEW rest, NEW node, Stands(n, s, p, r, rest, node),
           p.state = "ESCAPE", NEW c \in Char, c = "CRLF" => AnnouncesLiteral(s)
    PROVE  Follows(Read(r, c), "string", r.text \o Taken(node.type, c), p.literals)
<1>1. /\ s \in Seq(Char) /\ r \in Readings /\ r.in = "escape" /\ (r.broken = FALSE => r.announced = p.literals)
      /\ Ends(s, {"\\"}) /\ node.type = "STRING"
  BY DEF Stands, ReadIn, Behind, InLeaf, LeafType
<1>2. c # "CRLF"
  <2>1. Last(s) = "\\"
    BY <1>1 DEF Ends
  <2>. QED
    BY <2>1 DEF AnnouncesLiteral
<1>3. Became(Read(r, c), "string", r.text \o EscapedChar[c], r.announced, r.broken)
  BY <1>1, <1>2, ReadEscapeIs
<1>4. Taken(node.type, c) = EscapedChar[c]
  BY <1>1 DEF Taken
<1>. QED
  BY <1>1, <1>3, <1>4 DEF Follows, Became

(* The reading of a character of a string. *)
LEMMA StringFollows ==
    ASSUME NEW n \in Nat, NEW s, NEW p, NEW r, NEW rest, NEW node, Stands(n, s, p, r, rest, node),
           p.state = "STRING", NEW c \in Char
    PROVE  /\ c = "\\" => Follows(Read(r, c), "escape", r.text, p.literals)
           /\ c = "\"" => Follows(Read(r, c), "text", r.text \o <<c>>, p.literals)
           /\ c \notin {"\\", "\""} => Follows(Read(r, c), "string", r.text \o Taken(node.type, c), p.literals)
<1>1. r \in Readings /\ r.in = "string" /\ (r.broken = FALSE => r.announced = p.literals) /\ node.type = "STRING"
  BY DEF Stands, ReadIn, InLeaf, LeafType
<1>2. c \in Mark
  BY CharsMarked
<1>3. c \notin {"\\", "\""} => Taken(node.type, c) = <<c>>
  BY <1>1, <1>2 DEF Taken, EscapedChar
<1>4. /\ c = "\\" => Became(Read(r, c), "escape", r.text, r.announced, r.broken)
      /\ c = "\"" => Became(Read(r, c), "text", r.text \o <<c>>, r.announced, r.broken)
      /\ c \notin {"\\", "\"", "CRLF"} => Became(Read(r, c), "string", r.text \o <<c>>, r.announced, r.broken)
      /\ c = "CRLF" => Became(Read(r, c), "string", r.text \o <<c>>, r.announced + 1, TRUE)
  BY <1>1, ReadStringIs
<1>5. CASE c = "\\"
  BY <1>1, <1>4, <1>5 DEF Follows, Became
<1>6. CASE c = "\""
  BY <1>1, <1>4, <1>6 DEF Follows, Became
<1>7. CASE c = "CRLF"
  BY <1>1, <1>3, <1>4, <1>7 DEF Follows, Became
<1>8. CASE c \notin {"\\", "\"", "CRLF"}
  BY <1>1, <1>3, <1>4, <1>8 DEF Follows, Became
<1>. QED
  BY <1>5, <1>6, <1>7, <1>8

(* The cases of String as implications. *)
LEMMA StringIs ==
    ASSUME NEW p, NEW c
    PROVE  /\ p.state = "ESCAPE" => String(p, c) = [Take(p, c) EXCEPT !.state = "STRING"]
           /\ p.state = "STRING" /\ c = "\"" => String(p, c) = Close(p)
           /\ p.state = "STRING" /\ c = "\\" => String(p, c) = [p EXCEPT !.state = "ESCAPE"]
           /\ p.state = "STRING" /\ c \notin {"\"", "\\"} => String(p, c) = Take(p, c)
BY DEF String

(* A parser in another state with the same stack. *)
LEMMA TakeFrom ==
    ASSUME NEW n \in Nat, NEW s, NEW p, NEW r, NEW rest, NEW node, Stands(n, s, p, r, rest, node), NEW c \in Char
    PROVE  \E x : /\ Stepped(Take(p, c), p.state, Append(rest, x), p.literals) /\ x \in Nodes(n)
                  /\ x.type = node.type /\ x.value = Append(node.value, c) /\ x.literal = node.literal
                  /\ x.closed = node.closed /\ x.items = node.items
<1>1. /\ IsParser(p) /\ p.stack = Append(rest, node) /\ rest \in Seq(Nodes(n)) /\ node \in Nodes(n)
  BY DEF Stands, Holding
<1>. QED
  BY <1>1, TakeIs

(* Another state, and nothing else. *)
LEMMA StateStepped ==
    ASSUME NEW p, NEW old, NEW stack, NEW k, Stepped(p, old, stack, k), NEW state
    PROVE  Stepped([p EXCEPT !.state = state], state, stack, k)
<1>1. IsParser(p) /\ p.stack = stack /\ p.literals = k
  BY DEF Stepped
<1> DEFINE q == [p EXCEPT !.state = state]
<1>2. IsParser(q) /\ q.state = state /\ q.stack = p.stack /\ q.literals = p.literals
  BY <1>1, StateIs
<1>. QED
  BY <1>1, <1>2 DEF Stepped

(* What a parser stands at, it stands at. *)
LEMMA StandsStepped ==
    ASSUME NEW n, NEW s, NEW p, NEW r, NEW rest, NEW node, Stands(n, s, p, r, rest, node)
    PROVE  Stepped(p, p.state, Append(rest, node), p.literals)
BY DEF Stands, Stepped

(* One character in the states STRING and ESCAPE. *)
LEMMA StringStep ==
    ASSUME NEW n \in Nat, n # 0, NEW s, NEW p, NEW r, Good(n, s, p, r), p.state \in {"STRING", "ESCAPE"},
           NEW c \in Char, c = "CRLF" => AnnouncesLiteral(s)
    PROVE  Good(n + 1, Append(s, c), String(p, c), Read(r, c))
<1> DEFINE q == String(p, c)
           t == Read(r, c)
           G == Good(n + 1, Append(s, c), q, t)
<1> SUFFICES G
  OBVIOUS
<1>1. PICK rest, node : Stands(n, s, p, r, rest, node)
  BY DEF Good
<1>2. /\ s \in Seq(Char) /\ r \in Readings /\ IsParser(p) /\ p.stack = Append(rest, node)
      /\ rest \in Seq(Nodes(n)) /\ node \in Nodes(n) /\ InLeaf(rest, node, p.state) /\ node.type = "STRING"
  BY <1>1 DEF Stands, Holding, InLeaf, LeafType
<1>3. node.closed = FALSE /\ node.items = <<>> /\ node.literal = 0
  BY <1>2 DEF InLeaf
<1>4. CASE p.state = "ESCAPE" /\ q = [Take(p, c) EXCEPT !.state = "STRING"]
  <2> DEFINE state == "STRING"
  <2>1. PICK x : /\ Stepped(Take(p, c), p.state, Append(rest, x), p.literals) /\ x \in Nodes(n)
                 /\ x.type = node.type /\ x.value = Append(node.value, c) /\ x.literal = node.literal
                 /\ x.closed = node.closed /\ x.items = node.items
    BY <1>1, TakeFrom
  <2>2. Stepped(q, state, Append(rest, x), p.literals)
    <3>1. Stepped([Take(p, c) EXCEPT !.state = "STRING"], "STRING", Append(rest, x), p.literals)
      BY <2>1, StateStepped
    <3>. QED
      BY <1>4, <3>1
  <2>3. Behind(Append(s, c), state, x)
    BY <1>2, BehindPlainly
  <2>4. Takes(n, s, node, x, c, state)
    BY <1>2, <2>1, <2>3 DEF Takes, LeafType, States
  <2>5. Follows(t, "string", r.text \o Taken(node.type, c), p.literals) /\ ReadIn(state) = "string"
    BY <1>1, <1>4, EscapeFollows DEF ReadIn
  <2> HIDE DEF q, t, state
  <2>6. p.state # "NORMAL" /\ Follows(t, ReadIn(state), r.text \o Taken(node.type, c), p.literals)
    BY <1>4, <2>5
  <2>. QED
    BY <1>1, <2>2, <2>4, <2>6, TakeGood
<1>5. CASE p.state = "STRING" /\ c = "\"" /\ q = Close(p)
  <2> DEFINE next == [node EXCEPT !.closed = TRUE]
             more == <<c>>
  <2>1. next.type = node.type /\ next.value = node.value /\ next.literal \in Nat
    BY <1>2 DEF Nodes
  <2>2. q = LeaveAs(p, next)
    <3>1. Current(p) = node
      BY <1>2, ChangeIs
    <3>. QED
      BY <1>5, <3>1 DEF Close
  <2> HIDE DEF next, q
  <2>3. LeafText(next) = FrameText(n, node) \o more /\ more \in Seq(Mark)
    BY <1>2, <1>5, <2>1, CharText DEF LeafText, PlainText, FrameText
  <2> HIDE DEF more
  <2>4. Leaves(n, node, next, more)
    BY <2>1, <2>3 DEF Leaves
  <2>5. Follows(t, "text", r.text \o more, p.literals)
    BY <1>1, <1>5, StringFollows DEF more
  <2> HIDE DEF t
  <2>6. p.state # "NORMAL" /\ c # "]" /\ next.type # "LITERAL"
    BY <1>2, <1>5, <2>1
  <2>7. Good(n + 1, Append(s, c), LeaveAs(p, next), t)
    BY <1>1, <2>4, <2>5, <2>6, LeaveGood
  <2>. QED
    BY <2>2, <2>7
<1>6. CASE p.state = "STRING" /\ c = "\\" /\ q = [p EXCEPT !.state = "ESCAPE"]
  <2> DEFINE u == Append(s, c)
             text == r.text
             announced == t.announced
             broken == t.broken
  <2>1. IsParser(q) /\ q.state = "ESCAPE" /\ q.stack = Append(rest, node) /\ q.literals = p.literals
    <3>1. Stepped([p EXCEPT !.state = "ESCAPE"], "ESCAPE", Append(rest, node), p.literals)
      BY <1>1, StandsStepped, StateStepped
    <3>. QED
      BY <1>6, <3>1 DEF Stepped
  <2>2. Holding(n, rest, node, r.text, Count(p.literals))
    BY <1>1 DEF Stands
  <2>3. InLeaf(rest, node, "ESCAPE")
    BY <1>2, <1>3 DEF InLeaf, LeafType
  <2>4. Behind(u, "ESCAPE", node) /\ u \in Seq(Char)
    BY <1>2, <1>6, EndsAppend DEF Behind
  <2>5. Became(t, "escape", text, announced, broken) /\ (broken = FALSE => announced = p.literals)
    BY <1>1, <1>6, StringFollows, FollowsIs
  <2>6. ReadIn("ESCAPE") = "escape" /\ "ESCAPE" \in States
    BY DEF ReadIn, States
  <2> HIDE DEF q, u, text, announced, broken, t
  <2>7. /\ q.state \in States /\ Holding(n, rest, node, text, Count(q.literals)) /\ q.state # "NORMAL"
        /\ InLeaf(rest, node, q.state) /\ Behind(u, q.state, node) /\ Became(t, ReadIn(q.state), text, announced, broken)
        /\ (broken = FALSE => announced = q.literals)
    BY <2>1, <2>2, <2>3, <2>4, <2>5, <2>6 DEF text
  <2>8. Good(n, u, q, t)
    BY <2>1, <2>4, <2>7, GoodNext
  <2>. QED
    BY <2>8, GoodDeeper DEF u
<1>7. CASE p.state = "STRING" /\ c \notin {"\"", "\\"} /\ q = Take(p, c)
  <2>1. Follows(t, ReadIn(p.state), r.text \o Taken(node.type, c), p.literals)
    BY <1>1, <1>7, StringFollows DEF ReadIn
  <2>2. p.state \in {"ATOM", "STRING", "PARTIAL", "SEQUENCE"}
    BY <1>7
  <2> HIDE DEF t
  <2>3. Good(n + 1, Append(s, c), Take(p, c), t)
    BY <1>1, <2>1, <2>2, TakeStep
  <2>. QED
    BY <1>7, <2>3
<1>8. /\ p.state = "ESCAPE" => q = [Take(p, c) EXCEPT !.state = "STRING"]
      /\ p.state = "STRING" /\ c = "\"" => q = Close(p)
      /\ p.state = "STRING" /\ c = "\\" => q = [p EXCEPT !.state = "ESCAPE"]
      /\ p.state = "STRING" /\ c \notin {"\"", "\\"} => q = Take(p, c)
  BY StringIs
<1> HIDE DEF G, q
<1>. QED
  BY <1>4, <1>5, <1>6, <1>7, <1>8

(* The node of a leaf that is closed. *)
LEMMA CloseFrom ==
    ASSUME NEW n \in Nat, NEW s, NEW p, NEW r, NEW rest, NEW node, Stands(n, s, p, r, rest, node)
    PROVE  \E next : /\ Close(p) = LeaveAs(p, next) /\ next.type = node.type /\ next.value = node.value
                     /\ next.literal = node.literal /\ next.literal \in Nat
<1> DEFINE next == [node EXCEPT !.closed = TRUE]
<1>1. /\ IsParser(p) /\ p.stack = Append(rest, node) /\ rest \in Seq(Nodes(n)) /\ node \in Nodes(n)
  BY DEF Stands, Holding
<1>2. Current(p) = node
  BY <1>1, ChangeIs
<1>3. Close(p) = LeaveAs(p, next)
  BY <1>2 DEF Close
<1>4. next.type = node.type /\ next.value = node.value /\ next.literal = node.literal /\ next.literal \in Nat
  BY <1>1 DEF Nodes
<1>. QED
  BY <1>3, <1>4

(* The cases of Partial as implications. *)
LEMMA PartialIs ==
    ASSUME NEW p, NEW c
    PROVE  \/ c = ">" /\ Partial(p, c) = Close(p)
           \/ c \in DIGIT \cup {"."} /\ Partial(p, c) = Take(p, c)
           \/ Partial(p, c) = Throw(p)
<1> DEFINE value == Current(p).value
           e == value # <<>> /\ Last(value) \in {"."}
           zero == (value # <<>> /\ Last(value) \in {"0"}) /\ (Len(value) = 1 \/ value[Len(value) - 1] = ".")
           P == CASE c = ">" -> IF e THEN Throw(p) ELSE Close(p)
                  [] c = "." /\ value # <<>> /\ "." \notin Range(value) -> Take(p, c)
                  [] c \in DIGIT /\ ~ zero -> Take(p, c)
                  [] OTHER -> Throw(p)
<1>1. Partial(p, c) = P
  BY DEF Partial, Ends
<1> HIDE DEF value, e, zero
<1>2. \/ c = ">" /\ P = Close(p)
      \/ c \in DIGIT \cup {"."} /\ P = Take(p, c)
      \/ P = Throw(p)
  OBVIOUS
<1> HIDE DEF P
<1>. QED
  BY <1>1, <1>2

(* One character in the state PARTIAL. *)
LEMMA PartialStep ==
    ASSUME NEW n \in Nat, n # 0, NEW s, NEW p, NEW r, Good(n, s, p, r), p.state = "PARTIAL",
           NEW c \in Char, Partial(p, c).error # TRUE
    PROVE  Good(n + 1, Append(s, c), Partial(p, c), Read(r, c))
<1> DEFINE q == Partial(p, c)
           t == Read(r, c)
           G == Good(n + 1, Append(s, c), q, t)
<1> SUFFICES G
  OBVIOUS
<1>1. PICK rest, node : Stands(n, s, p, r, rest, node)
  BY DEF Good
<1>2. IsParser(p) /\ node.type = "PARTIAL" /\ node \in Nodes(n)
  BY <1>1 DEF Stands, Holding, InLeaf, LeafType
<1>3. ReadIn(p.state) = "text" /\ Throw(p).error = TRUE
  BY <1>2, ThrowIs DEF ReadIn
<1>4. CASE c = ">" /\ q = Close(p)
  <2> DEFINE more == <<c>>
  <2>1. PICK next : /\ Close(p) = LeaveAs(p, next) /\ next.type = node.type /\ next.value = node.value
                    /\ next.literal = node.literal /\ next.literal \in Nat
    BY <1>1, CloseFrom
  <2>2. LeafText(next) = FrameText(n, node) \o more
    BY <1>2, <1>4, <2>1 DEF LeafText, FrameText
  <2>3. more \in Seq(Mark)
    BY CharText
  <2>4. Leaves(n, node, next, more)
    BY <2>1, <2>2, <2>3 DEF Leaves
  <2>5. Follows(t, "text", r.text \o more, p.literals)
    BY <1>1, <1>3, <1>4, FollowsText
  <2> HIDE DEF more, t
  <2>6. p.state # "NORMAL" /\ c # "]" /\ next.type # "LITERAL"
    BY <1>2, <1>4, <2>1
  <2>7. Good(n + 1, Append(s, c), LeaveAs(p, next), t)
    BY <1>1, <2>4, <2>5, <2>6, LeaveGood
  <2>. QED
    BY <1>4, <2>1, <2>7
<1>5. CASE c \in DIGIT \cup {"."} /\ q = Take(p, c)
  <2>1. c \notin {" ", "{", "\"", "CRLF"}
    BY <1>5 DEF DIGIT, Digits
  <2>2. Taken(node.type, c) = <<c>>
    BY <1>2 DEF Taken
  <2>3. Follows(t, ReadIn(p.state), r.text \o Taken(node.type, c), p.literals)
    BY <1>1, <1>3, <2>1, <2>2, FollowsText
  <2>4. p.state \in {"ATOM", "STRING", "PARTIAL", "SEQUENCE"}
    OBVIOUS
  <2> HIDE DEF t
  <2>5. Good(n + 1, Append(s, c), Take(p, c), t)
    BY <1>1, <2>3, <2>4, TakeStep
  <2>. QED
    BY <1>5, <2>5
<1> HIDE DEF G
<1>. QED
  BY <1>3, <1>4, <1>5, PartialIs

(* The cases of Sequence as implications. *)
LEMMA SequenceIs ==
    ASSUME NEW p, NEW c
    PROVE  \/ c = " " /\ Sequence(p, c) = Close(p)
           \/ c = "]" /\ Parent(p).type = "SECTION" /\ Sequence(p, c) = Close(Leave(p))
           \/ c \in Digits \cup {":", "*", ","} /\ Sequence(p, c) = Take(p, c)
           \/ Sequence(p, c) = Throw(p)
<1> DEFINE value == Current(p).value
           number == value # <<>> /\ Last(value) \in Digits
           wild == value # <<>> /\ Last(value) \in {"*"}
           open == wild /\ Len(value) > 1 /\ value[Len(value) - 1] # ":"
           mark == value # <<>> /\ Last(value) \in {",", ":"}
           takes == \/ c = ":" /\ (number \/ wild)
                    \/ c = "*" /\ mark
                    \/ c = "," /\ (number \/ wild) /\ (wild => Len(value) > 1 /\ ~ open)
                    \/ c \in Digits /\ ~ wild
           S == CASE c = " " -> IF (number \/ wild) /\ ~ open THEN Close(p) ELSE Throw(p)
                  [] c = "]" /\ Parent(p).type = "SECTION" -> Close(Leave(p))
                  [] takes -> Take(p, c)
                  [] OTHER -> Throw(p)
<1>1. Sequence(p, c) = S
  BY DEF Sequence, Ends
<1>2. takes => c \in Digits \cup {":", "*", ","}
  OBVIOUS
<1>3. takes => c # " " /\ c # "]"
  BY DEF Digits
<1> HIDE DEF value, number, wild, open, takes
<1>4. \/ c = " " /\ S = Close(p)
      \/ c = "]" /\ Parent(p).type = "SECTION" /\ S = Close(Leave(p))
      \/ takes /\ S = Take(p, c)
      \/ S = Throw(p)
  BY <1>3
<1> HIDE DEF S
<1>. QED
  BY <1>1, <1>2, <1>4

(* One character in the state SEQUENCE. *)
LEMMA SequenceStep ==
    ASSUME NEW n \in Nat, n # 0, NEW s, NEW p, NEW r, Good(n, s, p, r), p.state = "SEQUENCE",
           NEW c \in Char, Sequence(p, c).error # TRUE
    PROVE  Good(n + 1, Append(s, c), Sequence(p, c), Read(r, c))
<1> DEFINE q == Sequence(p, c)
           t == Read(r, c)
           G == Good(n + 1, Append(s, c), q, t)
<1> SUFFICES G
  OBVIOUS
<1>1. PICK rest, node : Stands(n, s, p, r, rest, node)
  BY DEF Good
<1>2. IsParser(p) /\ node.type = "SEQUENCE" /\ node \in Nodes(n)
  BY <1>1 DEF Stands, Holding, InLeaf, LeafType
<1>3. ReadIn(p.state) = "text" /\ Throw(p).error = TRUE
  BY <1>2, ThrowIs DEF ReadIn
<1>4. CASE c = " " /\ q = Close(p)
  <2> DEFINE more == <<>>
  <2>1. PICK next : /\ Close(p) = LeaveAs(p, next) /\ next.type = node.type /\ next.value = node.value
                    /\ next.literal = node.literal /\ next.literal \in Nat
    BY <1>1, CloseFrom
  <2>2. LeafText(next) = LeafText(node)
    BY <1>2, <2>1 DEF LeafText
  <2>3. Leaves(n, node, node, more)
    BY <1>2, AtomLeaves
  <2> HIDE DEF more
  <2>4. Leaves(n, node, next, more)
    BY <2>1, <2>2, <2>3 DEF Leaves
  <2>5. Follows(t, "text", r.text, p.literals)
    BY <1>1, <1>3, <1>4, FollowsText
  <2>6. r.text \o more = r.text
    <3>1. p.state \in {"ATOM", "SEQUENCE"}
      OBVIOUS
    <3>. QED
      BY <1>1, <3>1, AtomLeft DEF more
  <2>7. Follows(t, "text", r.text \o more, p.literals)
    BY <2>5, <2>6
  <2> HIDE DEF t
  <2>8. p.state # "NORMAL" /\ c # "]" /\ next.type # "LITERAL"
    BY <1>2, <1>4, <2>1
  <2>9. Good(n + 1, Append(s, c), LeaveAs(p, next), t)
    BY <1>1, <2>4, <2>7, <2>8, LeaveGood
  <2>. QED
    BY <1>4, <2>1, <2>9
<1>5. CASE c = "]" /\ Parent(p).type = "SECTION" /\ q = Close(Leave(p))
  <2>1. p.state \in {"ATOM", "SEQUENCE"} /\ c \in {")", "]"}
    BY <1>5
  <2>2. Parent(p).type = IF c = ")" THEN "LIST" ELSE "SECTION"
    BY <1>5
  <2>3. Good(n + 1, Append(s, c), Close(Leave(p)), Read(r, c))
    BY <1>1, <2>1, <2>2, LeaveClose
  <2>. QED
    BY <1>5, <2>3
<1>6. CASE c \in Digits \cup {":", "*", ","} /\ q = Take(p, c)
  <2>1. c \notin {" ", "{", "\"", "CRLF"}
    BY <1>6 DEF Digits
  <2>2. Taken(node.type, c) = <<c>>
    BY <1>2 DEF Taken
  <2>3. Follows(t, ReadIn(p.state), r.text \o Taken(node.type, c), p.literals)
    BY <1>1, <1>3, <2>1, <2>2, FollowsText
  <2>4. p.state \in {"ATOM", "STRING", "PARTIAL", "SEQUENCE"}
    OBVIOUS
  <2> HIDE DEF t
  <2>5. Good(n + 1, Append(s, c), Take(p, c), t)
    BY <1>1, <2>3, <2>4, TakeStep
  <2>. QED
    BY <1>6, <2>5
<1> HIDE DEF G
<1>. QED
  BY <1>3, <1>4, <1>5, <1>6, SequenceIs

(* No digit is a brace or a line end. *)
LEMMA DigitsOnly == Digits \subseteq DIGIT /\ "{" \notin DIGIT /\ "}" \notin DIGIT /\ "CRLF" \notin DIGIT
BY DEF DIGIT, Digits

(* The size that the parser has read is the one that was announced. *)
Sized(s, u, b, size) == s = (u \o <<b>>) \o size

(* The characters of a size, by their places in the input. *)
LEMMA SizedAt ==
    ASSUME NEW T, NEW s, NEW u \in Seq(T), NEW b \in T, NEW size \in Seq(T), Sized(s, u, b, size)
    PROVE  \E m \in Nat \ {0} :
              s[m] = b /\ Len(s) = m + Len(size) /\ \A i \in 1 .. Len(size) : s[m + i] = size[i]
<1> DEFINE w == u \o <<b>>
           m == Len(u) + 1
<1>1. Len(u) \in Nat /\ Len(size) \in Nat /\ m \in Nat \ {0}
  OBVIOUS
<1>2. w \in Seq(T) /\ Len(w) = m /\ w[m] = b
  OBVIOUS
<1>3. s = w \o size
  BY DEF Sized
<1> HIDE DEF w, m
<1>4. Len(w \o size) = m + Len(size) /\ \A i \in 1 .. m + Len(size) :
        (w \o size)[i] = IF i <= m THEN w[i] ELSE size[i - m]
  BY <1>1, <1>2
<1> DEFINE v == w \o size
           z == Len(size)
<1>5. Len(v) = m + z /\ \A i \in 1 .. m + z : v[i] = IF i <= m THEN w[i] ELSE size[i - m]
  BY <1>4
<1>6. s = v
  BY <1>3
<1>7. z \in Nat
  BY <1>1
<1> HIDE DEF v, z
<1>8. v[m] = b
  BY <1>1, <1>2, <1>5, <1>7
<1>9. \A i \in 1 .. z : v[m + i] = size[i]
  <2> TAKE i \in 1 .. z
  <2>1. m + i \in 1 .. m + z /\ ~ (m + i <= m) /\ (m + i) - m = i
    BY <1>1, <1>7
  <2>. QED
    BY <1>5, <2>1
<1>. QED
  BY <1>1, <1>5, <1>6, <1>8, <1>9 DEF z

(* Where addLine sees a literal the parser has read its size, which is not
   0. *)
LEMMA SizeAnnounced ==
    ASSUME NEW s \in Seq(Char), s # <<>>, NEW size, SizeRead(Front(s), size), AnnouncesLiteral(s)
    PROVE  Range(size) \subseteq Digits /\ size # <<"0">>
<1> DEFINE b == "{"
           f == Front(s)
           total == Len(s)
           z == Len(size)
           T == Char \cup {b} \cup DIGIT
<1>1. PICK u \in Seq(Char) : Sized(f, u, b, size) /\ size \in Seq(DIGIT)
  BY DEF SizeRead, Sized
<1> HIDE DEF b
<1>2. u \in Seq(T) /\ b \in T /\ size \in Seq(T)
  <2>1. size \in Seq(DIGIT)
    BY <1>1
  <2>. QED
    BY <2>1
<1>3. size \in Seq(DIGIT) /\ Sized(f, u, b, size)
  BY <1>1
<1>4. total \in Nat \ {0} /\ z \in Nat
  BY <1>3, Ended
<1>5. Len(f) = total - 1 /\ \A j \in 1 .. total - 1 : f[j] = s[j]
  <2> DEFINE x == Last(s)
  <2>1. f \in Seq(Char) /\ x \in Char /\ s = Append(f, x)
    BY Ended
  <2> HIDE DEF f, x
  <2>2. Len(Append(f, x)) = Len(f) + 1 /\ Len(f) \in Nat /\ \A i \in 1 .. Len(f) : Append(f, x)[i] = f[i]
    BY <2>1, EndOfAppend
  <2>3. Len(s) = Len(f) + 1 /\ \A i \in 1 .. Len(f) : s[i] = f[i]
    BY <2>1, <2>2, Zenon
  <2>4. Len(f) = total - 1
    BY <1>4, <2>2, <2>3
  <2>. QED
    BY <2>3, <2>4
<1> HIDE DEF f, T
<1>6. PICK m \in Nat \ {0} : f[m] = b /\ Len(f) = m + z /\ \A i \in 1 .. z : f[m + i] = size[i]
  BY <1>2, <1>3, SizedAt
<1>7. PICK k \in 1 .. total :
        /\ s[k] = b /\ k + 1 < total
        /\ \A j \in k + 1 .. total - 1 : s[j] \in Digits
        /\ \E j \in k + 1 .. total - 1 : s[j] # "0"
  BY Zenon DEF AnnouncesLiteral, b, total
<1>8. \A i \in 1 .. z : size[i] \in DIGIT
  BY <1>3
<1>9. DOMAIN size = 1 .. z
  BY <1>3
<1> HIDE DEF total, z
<1>10. m + z = total - 1
  BY <1>5, <1>6
<1>11. s[m] = b /\ \A i \in 1 .. z : s[m + i] = size[i]
  <2>1. m \in 1 .. total - 1 /\ \A i \in 1 .. z : m + i \in 1 .. total - 1
    BY <1>4, <1>10
  <2>. QED
    BY <1>5, <1>6, <2>1
<1>0. b \notin DIGIT /\ Digits \subseteq DIGIT
  BY DigitsOnly DEF b
<1>12. k = m
  <2>1. CASE k > m
    <3>1. k - m \in 1 .. z /\ k = m + (k - m)
      BY <1>4, <1>7, <1>10, <2>1
    <3>2. s[m + (k - m)] = size[k - m] /\ size[k - m] \in DIGIT
      BY <1>8, <1>11, <3>1
    <3>. QED
      BY <1>7, <3>1, <3>2, <1>0
  <2>2. CASE k < m
    <3>1. m \in k + 1 .. total - 1
      BY <1>4, <1>10, <2>2
    <3>2. s[m] \in Digits
      BY <1>7, <3>1
    <3>. QED
      BY <1>11, <3>2, <1>0
  <2>. QED
    BY <1>4, <2>1, <2>2
<1>13. \A i \in 1 .. z : size[i] \in Digits
  <2>1. \A i \in 1 .. z : m + i \in k + 1 .. total - 1
    BY <1>4, <1>10, <1>12
  <2>. QED
    BY <1>7, <1>11, <2>1
<1>14. \E i \in 1 .. z : size[i] # "0"
  <2>1. PICK j \in k + 1 .. total - 1 : s[j] # "0"
    BY <1>7
  <2>2. j - m \in 1 .. z /\ j = m + (j - m)
    BY <1>4, <1>10, <1>12, <2>1
  <2>3. s[m + (j - m)] = size[j - m]
    BY <1>11, <2>2
  <2>. QED
    BY <2>1, <2>2, <2>3
<1>15. Range(size) \subseteq Digits
  BY <1>9, <1>13 DEF Range
<1>16. size # <<"0">>
  <2>1. PICK i \in 1 .. z : size[i] # "0"
    BY <1>14
  <2>2. ASSUME size = <<"0">> PROVE FALSE
    <3>1. z = 1 /\ size[1] = "0"
      BY <2>2 DEF z
    <3>. QED
      BY <2>1, <3>1
  <2>. QED
    BY <2>2
<1>. QED
  BY <1>15, <1>16

(* A size goes on with each digit. *)
LEMMA SizeTaken ==
    ASSUME NEW s \in Seq(Char), NEW size, SizeRead(s, size), NEW c \in Char, c \in DIGIT
    PROVE  SizeRead(Append(s, c), Append(size, c))
<1> DEFINE b == "{"
<1>1. PICK u \in Seq(Char) : Sized(s, u, b, size) /\ size \in Seq(DIGIT)
  BY DEF SizeRead, Sized
<1> HIDE DEF b
<1> DEFINE w == u \o <<b>>
           T == Char \cup {b} \cup DIGIT
<1>2. size \in Seq(DIGIT)
  BY <1>1
<1>3. size \in Seq(T) /\ s \in Seq(T) /\ c \in T /\ Append(size, c) \in Seq(DIGIT)
  BY <1>2
<1>4. w \in Seq(T)
  OBVIOUS
<1> HIDE DEF w, T
<1>5. Append(s, c) = s \o <<c>> /\ Append(size, c) = size \o <<c>> /\ <<c>> \in Seq(T)
  BY <1>3, AppendIs
<1>6. (w \o size) \o <<c>> = w \o (size \o <<c>>)
  BY <1>3, <1>4, <1>5, Grouped
<1>7. s = w \o size
  BY <1>1 DEF Sized, w
<1>8. Append(s, c) = w \o Append(size, c)
  BY <1>5, <1>6, <1>7, Zenon
<1>. QED
  BY <1>3, <1>8, Zenon DEF SizeRead, w, b

(* The cases of Literal as implications. *)
LEMMA LiteralIs ==
    ASSUME NEW p, NEW c
    PROVE  \/ /\ p.state = "LITERAL END" /\ c = "CRLF"
              /\ Range(Current(p).value) \subseteq Digits /\ Current(p).value # <<"0">>
                 => Literal(p, c) = [LeaveAs(p, [Current(p) EXCEPT !.closed = TRUE, !.literal = p.literals + 1])
                                       EXCEPT !.literals = p.literals + 1]
           \/ p.state = "LITERAL" /\ c = "}" /\ Literal(p, c) = [p EXCEPT !.state = "LITERAL END"]
           \/ p.state = "LITERAL" /\ c \in DIGIT /\ Literal(p, c) = Take(p, c)
           \/ Literal(p, c) = Throw(p)
<1> DEFINE size == Current(p).value
           given == Range(size) \subseteq Digits /\ size # <<"0">>
           next == p.literals + 1
           E == [LeaveAs(p, [Current(p) EXCEPT !.closed = TRUE, !.literal = next]) EXCEPT !.literals = next]
           L == CASE p.state = "LITERAL END" /\ c # "CRLF" -> Throw(p)
                  [] p.state = "LITERAL END" /\ c = "CRLF" -> IF given THEN E ELSE Close(p)
                  [] p.state = "LITERAL" /\ c = "}" /\ size # <<>> -> [p EXCEPT !.state = "LITERAL END"]
                  [] p.state = "LITERAL" /\ c \in DIGIT /\ size # <<"0">> -> Take(p, c)
                  [] OTHER -> Throw(p)
<1>1. Literal(p, c) = L
  BY DEF Literal
<1> HIDE DEF E, given, size
<1>2. \/ p.state = "LITERAL END" /\ c = "CRLF" /\ (given => L = E)
      \/ p.state = "LITERAL" /\ c = "}" /\ L = [p EXCEPT !.state = "LITERAL END"]
      \/ p.state = "LITERAL" /\ c \in DIGIT /\ L = Take(p, c)
      \/ L = Throw(p)
  BY DigitsOnly
<1> HIDE DEF L
<1>. QED
  BY <1>1, <1>2 DEF E, given, size

LiteralMark == <<"literal">>

(* The reading of a literal's size. *)
LEMMA SizeFollows ==
    ASSUME NEW n \in Nat, NEW s, NEW p, NEW r, NEW rest, NEW node, Stands(n, s, p, r, rest, node),
           p.state \in {"LITERAL", "LITERAL END"}, NEW c \in Char
    PROVE  /\ c # "CRLF" => Follows(Read(r, c), "size", r.text, p.literals)
           /\ c = "CRLF" => Follows(Read(r, c), "text", r.text \o LiteralMark, p.literals + 1)
<1>1. r \in Readings /\ r.in = "size" /\ (r.broken = FALSE => r.announced = p.literals)
  BY DEF Stands, ReadIn
<1>2. /\ c # "CRLF" => Became(Read(r, c), "size", r.text, r.announced, r.broken)
      /\ c = "CRLF" => Became(Read(r, c), "text", r.text \o LiteralMark, r.announced + 1, r.broken)
  BY <1>1, ReadSizeIs DEF LiteralMark
<1>3. CASE c # "CRLF"
  BY <1>1, <1>2, <1>3 DEF Follows, Became
<1>4. CASE c = "CRLF"
  BY <1>1, <1>2, <1>4 DEF Follows, Became
<1>. QED
  BY <1>3, <1>4

(* The literal is the next one, as it is in the reading. *)
NextLiteral(p, node, next, k) ==
    k = p.literals + 1 /\ next.type = node.type /\ next.value = node.value /\ next.literal = k

(* The node with its literal. *)
LEMMA NextIs ==
    ASSUME NEW p, IsParser(p), NEW node, NEW next, NEW k, NextLiteral(p, node, next, k)
    PROVE  p.literals \in Nat /\ k \in Nat /\ k # 0 /\ k = p.literals + 1
<1>1. p.literals \in Nat
  BY LiteralsTyped
<1>. QED
  BY <1>1 DEF NextLiteral

(* A literal reads as one. *)
LEMMA MarkIs ==
    LiteralMark \in Seq(Mark) /\ <<>> \o LiteralMark = LiteralMark
<1>1. "literal" \in Mark
  BY CharsMarked
<1>2. LiteralMark \in Seq(Mark)
  BY <1>1 DEF LiteralMark
<1>. QED
  BY <1>2, Grouped

(* After the line end of a literal no partial can begin. *)
LEMMA PlainlyNormal ==
    ASSUME NEW s \in Seq(Char), NEW c \in Char, c # "]", NEW node
    PROVE  Behind(Append(s, c), "NORMAL", node) /\ Append(s, c) \in Seq(Char)
<1>1. Append(s, c) \in Seq(Char) /\ ~ Ends(Append(s, c), {"]"})
  BY EndsAppend
<1>. QED
  BY <1>1 DEF Behind

(* The line end after the size gives the node the next literal. *)
LEMMA LiteralGiven ==
    ASSUME NEW n \in Nat, n # 0, NEW s, NEW p, NEW r, NEW rest, NEW node, Stands(n, s, p, r, rest, node),
           p.state = "LITERAL END", NEW c \in Char, c # "]", NEW next, NEW k, NextLiteral(p, node, next, k),
           NEW t, Follows(t, "text", r.text \o LiteralMark, k)
    PROVE  Good(n + 1, Append(s, c), [LeaveAs(p, next) EXCEPT !.literals = k], t)
<1> DEFINE l == LeaveAs(p, next)
           q == [l EXCEPT !.literals = k]
           f == Front(rest)
           child == WithChild(Last(rest), next)
           u == Append(s, c)
           more == LiteralMark
           text == r.text \o more
           announced == t.announced
           broken == t.broken
<1>1. /\ s \in Seq(Char) /\ IsParser(p) /\ node \in Nodes(n) /\ node.type = "LITERAL"
  BY DEF Stands, Holding, InLeaf, LeafType
<1>2. p.literals \in Nat /\ k \in Nat /\ k # 0 /\ k = p.literals + 1
  BY <1>1, NextIs
<1>0. next.type = node.type /\ next.value = node.value /\ next.literal = k
  BY DEF NextLiteral
<1>3. LeafText(next) = more /\ FrameText(n, node) = <<>> /\ more \in Seq(Mark) /\ <<>> \o more = more
  <2>1. LeafText(next) = more
    BY <1>0, <1>1 DEF LeafText, PlainText, LiteralMark
  <2>2. FrameText(n, node) = <<>>
    BY <1>1 DEF FrameText
  <2>. QED
    BY <2>1, <2>2, MarkIs
<1>4. LeafNumbers(next) = <<k>>
  BY <1>0, <1>1, <1>2 DEF LeafNumbers, OneNumber
<1>5. Became(t, "text", text, announced, broken) /\ (broken = FALSE => announced = k)
  BY FollowsIs
<1>6. Count(p.literals) \o LeafNumbers(next) = Count(k)
  BY <1>2, <1>4, CountTyped
<1>7. Leaves(n, node, next, more)
  BY <1>0, <1>2, <1>3 DEF Leaves
<1>8. Behind(u, "NORMAL", child) /\ u \in Seq(Char)
  BY <1>1, PlainlyNormal
<1> HIDE DEF more, u, announced, broken
<1>9. Stood(n, l, f, child, text, Count(p.literals) \o LeafNumbers(next))
  <2>1. p.state # "NORMAL"
    OBVIOUS
  <2>. QED
    BY <1>7, <2>1, Left
<1> HIDE DEF l, f, child, text
<1>10. /\ IsParser(l) /\ l.state = "NORMAL" /\ l.stack = Append(f, child)
       /\ Holding(n, f, child, text, Count(k)) /\ Fits(f, child)
  BY <1>6, <1>9 DEF Stood
<1>11. IsParser(q) /\ q.state = "NORMAL" /\ q.stack = Append(f, child) /\ q.literals = k
  BY <1>2, <1>10, LiteralsIs
<1>12. "NORMAL" \in States /\ ReadIn("NORMAL") = "text"
  BY DEF States, ReadIn
<1> HIDE DEF q
<1>13. /\ q.state \in States /\ Holding(n, f, child, text, Count(q.literals)) /\ Behind(u, q.state, child)
       /\ Became(t, ReadIn(q.state), text, announced, broken) /\ (broken = FALSE => announced = q.literals)
       /\ q.state = "NORMAL" /\ Fits(f, child)
  BY <1>5, <1>8, <1>10, <1>11, <1>12
<1>14. Good(n, u, q, t)
  BY <1>8, <1>11, <1>13, GoodNext
<1>15. Good(n + 1, u, q, t)
  BY <1>14, GoodDeeper
<1>. QED
  BY <1>15 DEF q, l, u

(* A digit of the size, or the brace after it. *)
LEMMA LiteralTake ==
    ASSUME NEW n \in Nat, NEW s, NEW p, NEW r, NEW rest, NEW node, Stands(n, s, p, r, rest, node),
           p.state = "LITERAL", NEW c \in Char, c \in DIGIT
    PROVE  Good(n + 1, Append(s, c), Take(p, c), Read(r, c))
<1> DEFINE q == Take(p, c)
           t == Read(r, c)
<1>2. /\ s \in Seq(Char) /\ r \in Readings /\ node.type = "LITERAL"
  BY DEF Stands, InLeaf, LeafType
<1>4. r.text \o <<>> = r.text
  <2>1. r.text \in Seq(Mark)
    BY <1>2 DEF Readings
  <2>. QED
    BY <2>1, Grouped
<1>6. Taken(node.type, c) = <<>>
  BY <1>2 DEF Taken
<1> DEFINE state == "LITERAL"
<1>11. PICK x : /\ Stepped(Take(p, c), p.state, Append(rest, x), p.literals) /\ x \in Nodes(n)
               /\ x.type = node.type /\ x.value = Append(node.value, c) /\ x.literal = node.literal
               /\ x.closed = node.closed /\ x.items = node.items
  BY TakeFrom
<1>12. Stepped(q, state, Append(rest, x), p.literals)
  BY <1>11
<1>13. SizeRead(Append(s, c), x.value)
  <2>1. SizeRead(s, node.value)
    BY DEF Stands, Behind
  <2> DEFINE size == node.value
  <2>2. SizeRead(s, size) /\ c \in DIGIT /\ x.value = Append(size, c)
    BY <1>11, <2>1
  <2> HIDE DEF size
  <2>. QED
    BY <1>2, <2>2, SizeTaken
<1>14. Behind(Append(s, c), state, x)
  BY <1>13 DEF Behind
<1>15. Takes(n, s, node, x, c, state)
  BY <1>2, <1>11, <1>14 DEF Takes, LeafType, States
<1>16. Follows(t, "size", r.text, p.literals) /\ ReadIn(state) = "size"
  BY SizeFollows, DigitsOnly DEF ReadIn
<1>17. Follows(t, ReadIn(state), r.text \o Taken(node.type, c), p.literals) /\ p.state # "NORMAL"
  BY <1>4, <1>6, <1>16
<1> HIDE DEF q, t, state
<1>18. Good(n + 1, Append(s, c), q, t)
  BY <1>12, <1>15, <1>17, TakeGood
<1>. QED
  BY <1>18 DEF q, t

(* One character in the states LITERAL and LITERAL END. *)
LEMMA LiteralStep ==
    ASSUME NEW n \in Nat, n # 0, NEW s, NEW p, NEW r, Good(n, s, p, r), p.state \in {"LITERAL", "LITERAL END"},
           NEW c \in Char, c = "CRLF" => AnnouncesLiteral(s), Literal(p, c).error # TRUE
    PROVE  Good(n + 1, Append(s, c), Literal(p, c), Read(r, c))
<1> DEFINE q == Literal(p, c)
           t == Read(r, c)
           G == Good(n + 1, Append(s, c), q, t)
<1> SUFFICES G
  OBVIOUS
<1>1. PICK rest, node : Stands(n, s, p, r, rest, node)
  BY DEF Good
<1>2. /\ s \in Seq(Char) /\ r \in Readings /\ IsParser(p) /\ p.stack = Append(rest, node)
      /\ rest \in Seq(Nodes(n)) /\ node \in Nodes(n) /\ InLeaf(rest, node, p.state) /\ node.type = "LITERAL"
  BY <1>1 DEF Stands, Holding, InLeaf, LeafType
<1>3. Throw(p).error = TRUE
  BY <1>2, ThrowIs
<1>4. r.text \in Seq(Mark) /\ r.text \o <<>> = r.text
  <2>1. r.text \in Seq(Mark)
    BY <1>2 DEF Readings
  <2>. QED
    BY <2>1, Grouped
<1>5. Current(p) = node
  BY <1>2, ChangeIs
<1>6. Taken(node.type, c) = <<>>
  BY <1>2 DEF Taken
<1>7. CASE /\ p.state = "LITERAL END" /\ c = "CRLF"
           /\ Range(Current(p).value) \subseteq Digits /\ Current(p).value # <<"0">>
                 => q = [LeaveAs(p, [Current(p) EXCEPT !.closed = TRUE, !.literal = p.literals + 1])
                                       EXCEPT !.literals = p.literals + 1]
  <2> DEFINE next == [node EXCEPT !.closed = TRUE, !.literal = p.literals + 1]
  <2>1. next.type = node.type /\ next.value = node.value /\ next.literal = p.literals + 1
    BY <1>2 DEF Nodes
  <2>2. SizeRead(Front(s), node.value) /\ s # <<>>
    BY <1>1, <1>7 DEF Stands, Behind, Ends
  <2>3. Range(node.value) \subseteq Digits /\ node.value # <<"0">>
    <3> DEFINE size == node.value
    <3>1. SizeRead(Front(s), size) /\ s # <<>> /\ AnnouncesLiteral(s)
      BY <1>7, <2>2
    <3> HIDE DEF size
    <3>2. Range(size) \subseteq Digits /\ size # <<"0">>
      BY <1>2, <3>1, SizeAnnounced
    <3>. QED
      BY <3>2 DEF size
  <2>4. q = [LeaveAs(p, next) EXCEPT !.literals = p.literals + 1]
    BY <1>5, <1>7, <2>3
  <2> HIDE DEF next
  <2>5. Follows(t, "text", r.text \o LiteralMark, p.literals + 1)
    <3>1. p.state \in {"LITERAL", "LITERAL END"}
      OBVIOUS
    <3>. QED
      BY <1>1, <1>7, <3>1, SizeFollows
  <2> DEFINE k == p.literals + 1
  <2>6. /\ NextLiteral(p, node, next, k) /\ c # "]"
        /\ Follows(t, "text", r.text \o LiteralMark, k) /\ q = [LeaveAs(p, next) EXCEPT !.literals = k]
    BY <1>7, <2>1, <2>4, <2>5 DEF NextLiteral
  <2> HIDE DEF t, k, q
  <2>7. Good(n + 1, Append(s, c), [LeaveAs(p, next) EXCEPT !.literals = k], t)
    BY <1>1, <1>7, <2>6, LiteralGiven
  <2>. QED
    BY <2>6, <2>7
<1>8. CASE p.state = "LITERAL" /\ c = "}" /\ q = [p EXCEPT !.state = "LITERAL END"]
  <2> DEFINE u == Append(s, c)
             text == r.text
             announced == t.announced
             broken == t.broken
             new == "LITERAL END"
  <2>1. IsParser(q) /\ q.state = new /\ q.stack = Append(rest, node) /\ q.literals = p.literals
    <3>1. Stepped([p EXCEPT !.state = new], new, Append(rest, node), p.literals)
      BY <1>1, StandsStepped, StateStepped
    <3>. QED
      BY <1>8, <3>1 DEF Stepped
  <2>2. Holding(n, rest, node, r.text, Count(p.literals)) /\ SizeRead(s, node.value)
    BY <1>1, <1>8 DEF Stands, Behind
  <2>3. InLeaf(rest, node, new)
    BY <1>2, <1>8 DEF InLeaf, LeafType
  <2>4. Behind(u, new, node) /\ u \in Seq(Char)
    <3>1. Ends(u, {"}"}) /\ Front(u) = s /\ u \in Seq(Char)
      BY <1>2, <1>8, EndsAppend
    <3>. QED
      BY <2>2, <3>1 DEF Behind
  <2>5. Became(t, "size", text, announced, broken) /\ (broken = FALSE => announced = p.literals)
    <3>1. Follows(t, "size", r.text, p.literals)
      BY <1>1, <1>8, SizeFollows
    <3>. QED
      BY <3>1, FollowsIs
  <2>6. ReadIn(new) = "size" /\ new \in States /\ new # "NORMAL"
    BY DEF ReadIn, States
  <2> HIDE DEF q, u, text, announced, broken, t, new
  <2>7. /\ q.state \in States /\ Holding(n, rest, node, text, Count(q.literals)) /\ q.state # "NORMAL"
        /\ InLeaf(rest, node, q.state) /\ Behind(u, q.state, node) /\ Became(t, ReadIn(q.state), text, announced, broken)
        /\ (broken = FALSE => announced = q.literals)
    BY <2>1, <2>2, <2>3, <2>4, <2>5, <2>6 DEF text
  <2>8. Good(n, u, q, t)
    BY <2>1, <2>4, <2>7, GoodNext
  <2>. QED
    BY <2>8, GoodDeeper DEF u
<1>9. CASE p.state = "LITERAL" /\ c \in DIGIT /\ q = Take(p, c)
  <2>1. Good(n + 1, Append(s, c), Take(p, c), t)
    BY <1>1, <1>9, LiteralTake
  <2>. QED
    BY <1>9, <2>1
<1> HIDE DEF G
<1>. QED
  BY <1>3, <1>7, <1>8, <1>9, LiteralIs

(* A step that throws no error keeps what the parser has understood. *)
LEMMA GoodStep ==
    ASSUME NEW n \in Nat, n # 0, NEW p, NEW r, Good(n, input, p, r),
           NEW c \in Char, c = "CRLF" => AnnouncesLiteral(input), Step(p, c).error # TRUE
    PROVE  Good(n + 1, Append(input, c), Step(p, c), Read(r, c))
<1> DEFINE q == Step(p, c)
           s == Append(input, c)
           t == Read(r, c)
           G == Good(n + 1, s, q, t)
<1> SUFFICES G
  OBVIOUS
<1>1. p.state \in States
  BY DEF Good, Stands
<1>2. CASE p.state = "NORMAL"
  <2>1. PICK m \in Nat : n = m + 1
    <3>1. n - 1 \in Nat /\ n = (n - 1) + 1
      OBVIOUS
    <3>. QED
      BY <3>1
  <2>2. q = Normal(p, c)
    BY <1>2 DEF Step
  <2>3. Good(m + 1, input, p, r) /\ Normal(p, c).error # TRUE
    BY <2>1, <2>2
  <2>4. Good((m + 1) + 1, Append(input, c), Normal(p, c), Read(r, c))
    BY <1>2, <2>3, NormalStep
  <2>. QED
    BY <2>1, <2>2, <2>4
<1>3. CASE p.state = "ATOM"
  <2>1. q = Atom(p, c)
    BY <1>3 DEF Step
  <2>2. Atom(p, c).error # TRUE
    BY <2>1
  <2>3. Good(n + 1, s, Atom(p, c), t)
    BY <1>3, <2>2, AtomStep
  <2>. QED
    BY <2>1, <2>3
<1>4. CASE p.state \in {"STRING", "ESCAPE"}
  <2>1. q = String(p, c)
    BY <1>4 DEF Step
  <2>2. Good(n + 1, s, String(p, c), t)
    BY <1>4, StringStep
  <2>. QED
    BY <2>1, <2>2
<1>5. CASE p.state = "PARTIAL"
  <2>1. q = Partial(p, c)
    BY <1>5 DEF Step
  <2>2. Partial(p, c).error # TRUE
    BY <2>1
  <2>3. Good(n + 1, s, Partial(p, c), t)
    BY <1>5, <2>2, PartialStep
  <2>. QED
    BY <2>1, <2>3
<1>6. CASE p.state \in {"LITERAL", "LITERAL END"}
  <2>1. q = Literal(p, c)
    BY <1>6 DEF Step
  <2>2. Literal(p, c).error # TRUE
    BY <2>1
  <2>3. Good(n + 1, s, Literal(p, c), t)
    BY <1>6, <2>2, LiteralStep
  <2>. QED
    BY <2>1, <2>3
<1>7. CASE p.state = "SEQUENCE"
  <2>1. q = Sequence(p, c)
    BY <1>7 DEF Step
  <2>2. Sequence(p, c).error # TRUE
    BY <2>1
  <2>3. Good(n + 1, s, Sequence(p, c), t)
    BY <1>7, <2>2, SequenceStep
  <2>. QED
    BY <2>1, <2>3
<1> HIDE DEF G
<1>. QED
  BY <1>1, <1>2, <1>3, <1>4, <1>5, <1>6, <1>7 DEF States

(* It has understood nothing, having read nothing. *)
LEMMA GoodStart == Good(1, <<>>, Start, NothingRead)
<1> DEFINE node == Node("TREE", <<>>, TRUE)
           none == <<>>
           k == 1
<1>1. node \in Nodes(k) /\ node.type = "TREE" /\ node.items = <<>>
  <2>1. "TREE" \in NodeType /\ none \in Seq(Char) /\ TRUE \in BOOLEAN /\ k \in Nat
    BY EmptySeq DEF NodeType
  <2>2. node \in Nodes(k)
    BY <2>1, NodeIs
  <2>3. node.type = "TREE" /\ node.items = <<>>
    BY DEF Node
  <2>. QED
    BY <2>2, <2>3
<1>2. k \in Nat /\ none \in Seq(Mark) /\ none \in Seq(Nat) /\ none \in Seq(Nodes(k)) /\ none \in Seq(Char) /\ Len(none) = 0
  BY EmptySeq
<1>3. FrameText(k, node) = none /\ Numbered(k, node.items) = none
  BY <1>1, <1>2, EmptyList DEF FrameText
<1>4. StackText(k, none) = none /\ StackNumbers(k, none) = none
  BY <1>2, StackNone
<1>5. none \o none = none
  BY <1>2, Grouped
<1>6. Count(0) = none
  BY DEF Count
<1>7. Nested(none)
  BY DEF Nested
<1>8. Start = [state |-> "NORMAL", stack |-> <<node>>, literals |-> 0, error |-> FALSE]
  BY DEF Start
<1>9. IsParser(Start)
  BY <1>8, IsParserOf
<1>10. <<node>> = Append(none, node)
  OBVIOUS
<1>11. NothingRead \in Readings /\ NothingRead.in = "text" /\ NothingRead.text = none
       /\ NothingRead.announced = 0
  BY <1>2 DEF NothingRead, Readings
<1> HIDE DEF node, none, k
<1>12. Holding(k, none, node, none, none)
  BY <1>1, <1>2, <1>3, <1>4, <1>5, <1>7 DEF Holding
<1>13. Start.state = "NORMAL" /\ Start.stack = Append(none, node) /\ Start.literals = 0
  BY <1>8, <1>10
<1>14. Fits(none, node)
  BY <1>1 DEF Fits, Inner, none
<1>15. Behind(none, "NORMAL", node)
  BY DEF Behind, Ends, none
<1>16. Stands(k, none, Start, NothingRead, none, node)
  BY <1>2, <1>6, <1>9, <1>11, <1>12, <1>13, <1>14, <1>15 DEF Stands, States, ReadIn
<1>. QED
  BY <1>16 DEF Good, k, none

(* A tree with a child that is not closed is refused. *)
LEMMA ChildWhole ==
    ASSUME NEW n, NEW a \in Nodes(n), NEW b, Whole(WithChild(a, b))
    PROVE  Whole(b)
<1>1. WithChild(a, b).whole = (a.whole /\ Whole(b))
  BY DEF WithChild, Nodes
<1>2. WithChild(a, b).whole
  BY DEF Whole
<1>. QED
  BY <1>1, <1>2

(* A node that is open is not whole. *)
LEMMA OpenRefused ==
    ASSUME NEW node, node.closed = FALSE, node.type # "SEQUENCE"
    PROVE  ~ Whole(node)
BY DEF Whole, Star

(* The arguments are those of the tree, and read as the whole input. *)
LEMMA RootAlone ==
    ASSUME NEW n \in Nat, NEW rest, NEW node, NEW text, NEW numbers,
           Holding(n, rest, node, text, numbers), Fits(rest, node), rest = <<>>
    PROVE  node.items \in Lists(n) /\ Text(n, node.items) = text /\ Numbered(n, node.items) = numbers
<1>1. /\ node \in Nodes(n) /\ text = StackText(n, <<>>) \o FrameText(n, node)
      /\ numbers = StackNumbers(n, <<>>) \o Numbered(n, node.items)
  BY DEF Holding
<1>2. text = <<>> \o FrameText(n, node) /\ numbers = <<>> \o Numbered(n, node.items)
  BY <1>1, StackNone
<1>3. FrameText(n, node) \in Seq(Mark) /\ Numbered(n, node.items) \in Seq(Nat)
  BY <1>1, FramesTyped
<1>4. <<>> \o FrameText(n, node) = FrameText(n, node)
  BY <1>3, Grouped
<1>5. <<>> \o Numbered(n, node.items) = Numbered(n, node.items)
  BY <1>3, Grouped
<1>6. node.type = "TREE"
  BY DEF Fits
<1>7. FrameText(n, node) = Text(n, node.items)
  BY <1>6 DEF FrameText
<1>8. node.items \in Lists(n)
  BY <1>1 DEF Nodes
<1>. QED
  BY <1>2, <1>4, <1>5, <1>7, <1>8

(* The empty sequence has no elements. *)
LEMMA Empty0 == Len(<<>>) = 0
OBVIOUS

(* When the tree is whole, at most an atom or a sequence is still open,
   just under the root. *)
LEMMA EndIs ==
    ASSUME NEW n \in Nat, NEW s, NEW p, NEW r, NEW rest, NEW node, Stands(n, s, p, r, rest, node),
           Whole(Tree(p)), p.state # "ESCAPE"
    PROVE  \/ rest = <<>> /\ p.state = "NORMAL" /\ Tree(p) = node
           \/ /\ Len(rest) = 1 /\ p.state \in {"ATOM", "SEQUENCE"} 
              /\ Tree(p) = WithChild(Last(rest), node)
<1>1. /\ rest \in Seq(Nodes(n)) /\ node \in Nodes(n) /\ Nested(rest) /\ p.stack = Append(rest, node)
      /\ p.state \in States
      /\ p.state = "NORMAL" => Fits(rest, node)
      /\ p.state # "NORMAL" => InLeaf(rest, node, p.state)
  BY DEF Stands, Holding
<1>2. CASE rest = <<>>
  <2>1. p.stack = <<node>>
    BY <1>1, <1>2
  <2>2. Tree(p) = node
    BY <2>1 DEF Tree
  <2>3. p.state = "NORMAL"
    BY <1>1, <1>2 DEF InLeaf
  <2>. QED
    BY <1>2, <2>2, <2>3
<1>3. CASE rest # <<>>
  <2> DEFINE below == p.stack[2]
  <2>1. Len(rest) \in Nat /\ Len(rest) >= 1 /\ rest[1] \in Nodes(n)
    BY <1>1, <1>3
  <2>2. Len(p.stack) = Len(rest) + 1 /\ p.stack[1] = rest[1]
    BY <1>1, <2>1
  <2>3. Tree(p) = WithChild(rest[1], below)
    BY <2>1, <2>2 DEF Tree
  <2>4. Whole(below)
    BY <2>1, <2>3, ChildWhole
  <2>5. Len(rest) = 1
    <3> SUFFICES ASSUME Len(rest) # 1 PROVE FALSE
      OBVIOUS
    <3> HIDE DEF below
    <3>1. 2 \in 1 .. Len(rest)
      <4> DEFINE k == Len(rest)
      <4>1. k \in Nat /\ k >= 1 /\ k # 1
        BY <2>1
      <4> HIDE DEF k
      <4>2. 2 \in 1 .. k
        BY <4>1
      <4>. QED
        BY <4>2 DEF k
    <3>2. Fits(SubSeq(rest, 1, 2 - 1), rest[2])
      BY <1>1, <3>1 DEF Nested
    <3>3. SubSeq(rest, 1, 2 - 1) # <<>>
      <4> DEFINE u == SubSeq(rest, 1, 2 - 1)
      <4>1. Len(u) = 1
        BY <1>1, <2>1
      <4> HIDE DEF u
      <4>2. u # <<>>
        BY <4>1, Empty0
      <4>. QED
        BY <4>2 DEF u
    <3>4. rest[2].closed = FALSE /\ rest[2].type # "SEQUENCE"
      BY <3>2, <3>3 DEF Fits, Inner
    <3>5. below = rest[2]
      BY <1>1, <3>1 DEF below
    <3>. QED
      BY <2>4, <3>4, <3>5, OpenRefused
  <2>6. below = node /\ Last(rest) = rest[1]
    <3>1. p.stack[Len(rest) + 1] = node
      BY <1>1, EndOfAppend
    <3>2. Len(rest) + 1 = 2
      BY <2>5
    <3>3. Last(rest) = rest[1]
      BY <2>5 DEF Last
    <3>. QED
      BY <3>1, <3>2, <3>3
  <2> HIDE DEF below
  <2>7. p.state \in {"ATOM", "SEQUENCE"}
    <3> SUFFICES ASSUME p.state \notin {"ATOM", "SEQUENCE"} PROVE FALSE
      OBVIOUS
    <3>1. node.closed = FALSE /\ node.type # "SEQUENCE"
      <4>1. CASE p.state = "NORMAL"
        BY <1>1, <1>3, <4>1 DEF Fits, Inner
      <4>2. CASE p.state # "NORMAL"
        <5>1. node.closed = FALSE /\ node.type = LeafType(p.state)
          BY <1>1, <4>2 DEF InLeaf
        <5>2. LeafType(p.state) # "SEQUENCE"
          BY <1>1, <4>2 DEF LeafType, States
        <5>. QED
          BY <5>1, <5>2
      <4>. QED
        BY <4>1, <4>2
    <3>. QED
      BY <2>4, <2>6, <3>1, OpenRefused
  <2>. QED
    BY <2>3, <2>5, <2>6, <2>7
<1>. QED
  BY <1>2, <1>3

Accepted(n, p, r) ==
    /\ Tree(p).items \in Lists(n) /\ Text(n, Tree(p).items) = r.text
    /\ r.broken = FALSE => Numbered(n, Tree(p).items) = Count(r.announced)

(* What is accepted is what was read. *)
LEMMA AcceptedAsRead ==
    ASSUME NEW n \in Nat, n # 0, NEW s, NEW p, NEW r, Good(n, s, p, r),
           Whole(Tree(p)), p.state # "ESCAPE"
    PROVE  Accepted(n, p, r)
<1>1. PICK rest, node : Stands(n, s, p, r, rest, node)
  BY DEF Good
<1> DEFINE text == r.text
           numbers == Count(p.literals)
<1>2. /\ Holding(n, rest, node, text, numbers) /\ (p.state = "NORMAL" => Fits(rest, node))
      /\ (r.broken = FALSE => r.announced = p.literals) /\ rest \in Seq(Nodes(n))
  BY <1>1 DEF Stands, Holding
<1>3. CASE rest = <<>> /\ p.state = "NORMAL" /\ Tree(p) = node
  <2> HIDE DEF text, numbers
  <2>1. node.items \in Lists(n) /\ Text(n, node.items) = text /\ Numbered(n, node.items) = numbers
    BY <1>2, <1>3, RootAlone
  <2>. QED
    BY <1>2, <1>3, <2>1 DEF Accepted, text, numbers
<1>4. CASE Len(rest) = 1 /\ p.state \in {"ATOM", "SEQUENCE"} /\ Tree(p) = WithChild(Last(rest), node)
  <2> DEFINE f == Front(rest)
             child == WithChild(Last(rest), node)
  <2>1. Stood(n, Leave(p), f, child, text, numbers)
    BY <1>1, <1>4, AtomLeft
  <2>2. f = <<>>
    BY <1>2, <1>4 DEF Front
  <2>3. Holding(n, f, child, text, numbers) /\ Fits(f, child)
    BY <2>1 DEF Stood
  <2> HIDE DEF text, numbers, f, child
  <2>4. child.items \in Lists(n) /\ Text(n, child.items) = text /\ Numbered(n, child.items) = numbers
    BY <2>2, <2>3, RootAlone
  <2>. QED
    BY <1>2, <1>4, <2>4 DEF Accepted, text, numbers, child
<1>. QED
  BY <1>1, <1>3, <1>4, EndIs

-----------------------------------------------------------------------------
(* The invariant *)

ParserInv ==
    /\ input \in Seq(Char)
    /\ Parsing => Good(Len(input) + 1, input, parser, read) /\ args.ok = FALSE
    /\ args.ok => args.value \in Lists(Len(input) + 1)
    /\ ParsedAsTyped

(* The invariant holds at the start. *)
LEMMA InvStart == ParserInit => ParserInv
<1> SUFFICES ASSUME ParserInit PROVE ParserInv
  OBVIOUS
<1>1. input = <<>> /\ parser = Start /\ args = NoArgs /\ read = NothingRead
  BY DEF ParserInit
<1>2. ParsedAsTyped
  BY <1>1 DEF ParsedAsTyped, NoArgs
<1>3. Len(input) + 1 = 1 /\ input \in Seq(Char)
  BY <1>1, EmptySeq
<1>4. Good(Len(input) + 1, input, parser, read)
  BY <1>1, <1>3, GoodStart
<1>. QED
  BY <1>1, <1>2, <1>3, <1>4 DEF ParserInv, NoArgs

(* A character keeps it. *)
LEMMA InvFeed ==
    ASSUME ParserInv, NEW c \in Char, Feed(c)
    PROVE  ParserInv'
<1>1. /\ Parsing /\ (c = "CRLF" => AnnouncesLiteral(input)) /\ input' = Append(input, c)
      /\ parser' = Step(parser, c) /\ read' = Read(read, c) /\ args' = args
  BY DEF Feed
<1> DEFINE n == Len(input) + 1
<1>2. input \in Seq(Char) /\ n \in Nat /\ n # 0 /\ Good(n, input, parser, read)
  BY <1>1 DEF ParserInv
<1>3. input' \in Seq(Char) /\ Len(input') + 1 = n + 1
  BY <1>1, <1>2
<1> HIDE DEF n
<1>4. ASSUME Parsing' PROVE Good(n + 1, input', parser', read')
  <2>1. Step(parser, c).error # TRUE
    BY <1>1, <1>4 DEF Parsing
  <2>2. Good(n + 1, Append(input, c), Step(parser, c), Read(read, c))
    BY <1>1, <1>2, <2>1, GoodStep
  <2>. QED
    BY <1>1, <2>2
<1>5. args.ok = FALSE
  BY <1>1 DEF ParserInv
<1>6. Parsing' => Good(Len(input') + 1, input', parser', read') /\ args'.ok = FALSE
  BY <1>1, <1>3, <1>4, <1>5
<1>7. ParsedAsTyped'
  BY <1>1, <1>5 DEF ParsedAsTyped
<1>8. args'.ok = FALSE
  BY <1>1, <1>5
<1>. QED
  BY <1>3, <1>6, <1>7, <1>8 DEF ParserInv

(* So does the end of the input, *)
LEMMA InvParsed ==
    ASSUME ParserInv, Parsed
    PROVE  ParserInv'
<1> DEFINE n == Len(input) + 1
<1>1. /\ Parsing /\ input' = input /\ read' = read /\ input \in Seq(Char)
      /\ Good(n, input, parser, read) /\ args.ok = FALSE /\ n \in Nat /\ n # 0
  BY DEF Parsed, ParserInv
<1>2. IsParser(parser)
  BY <1>1 DEF Good, Stands
<1> HIDE DEF n
<1>3. CASE parser.state # "ESCAPE" /\ Whole(Tree(parser))
  <2>1. /\ args' = [ok |-> TRUE, value |-> Tree(parser).items]
        /\ parser' = [parser EXCEPT !.state = "PARSED"]
    BY <1>3 DEF Parsed
  <2>2. ~ Parsing'
    <3>1. parser'.state = "PARSED"
      BY <1>2, <2>1, StateIs
    <3>. QED
      BY <3>1 DEF Parsing
  <2>3. Accepted(n, parser, read)
    BY <1>1, <1>3, AcceptedAsRead
  <2>4. ParsedAsTyped'
    <3>1. Written[n][args'.value].text = read.text
      BY <2>1, <2>3 DEF Accepted, Text
    <3>2. ~ read.broken => Written[n][args'.value].literals = [k \in 1 .. read.announced |-> k]
      <4>1. read \in Readings
        BY <1>1 DEF Good, Stands
      <4>2. ~ read.broken => read.broken = FALSE
        BY <4>1 DEF Readings
      <4>. QED
        BY <2>1, <2>3, <4>2 DEF Accepted, Numbered, Count
    <3>. QED
      BY <1>1, <3>1, <3>2 DEF ParsedAsTyped, n
  <2>5. args'.value \in Lists(Len(input') + 1)
    BY <1>1, <2>1, <2>3 DEF Accepted, n
  <2>. QED
    BY <1>1, <2>2, <2>4, <2>5 DEF ParserInv
<1>4. CASE ~ (parser.state # "ESCAPE" /\ Whole(Tree(parser)))
  <2>1. parser' = Throw(parser) /\ args' = args
    BY <1>4 DEF Parsed
  <2>2. ~ Parsing'
    BY <1>2, <2>1, ThrowIs DEF Parsing
  <2>3. ParsedAsTyped'
    BY <1>1, <2>1 DEF ParsedAsTyped
  <2>4. args'.ok = FALSE
    BY <1>1, <2>1
  <2>. QED
    BY <1>1, <2>2, <2>3, <2>4 DEF ParserInv
<1>. QED
  BY <1>3, <1>4

(* and so every step. *)
LEMMA InvStep == ParserInv /\ [ParserNext]_parserVars => ParserInv'
<1> SUFFICES ASSUME ParserInv, [ParserNext]_parserVars PROVE ParserInv'
  OBVIOUS
<1>1. ASSUME NEW c \in Char, Feed(c) PROVE ParserInv'
  BY <1>1, InvFeed
<1>2. CASE Parsed
  BY <1>2, InvParsed
<1>3. CASE UNCHANGED parserVars
  BY <1>3 DEF ParserInv, parserVars, Parsing, ParsedAsTyped
<1>. QED
  BY <1>1, <1>2, <1>3 DEF ParserNext

(* What imapCommandParser accepts it has understood, for inputs of any
   length over any symbols: its arguments, written out, are what was typed,
   and every literal goes to the argument it was sent for (ParsedAsTyped). *)
THEOREM CommandParsedAsTyped == ParserSpec => []ParsedAsTyped
<1>1. ParserInv => ParsedAsTyped
  BY DEF ParserInv
<1>. QED
  BY <1>1, InvStart, InvStep, PTL DEF ParserSpec
=============================================================================
