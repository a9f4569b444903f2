-------------------------- MODULE StreamHandlerProofs --------------------------
(***************************************************************************)
(* Theorems about StreamHandler, for any sessions and any MAX_LINE_LENGTH.    *)
(***************************************************************************)
EXTENDS StreamHandler, SequenceTheorems, WellFoundedInduction, TLAPS

-----------------------------------------------------------------------------
(* The inductive invariant for a careful client *)

(* The commands of session s, as StreamHandler has them of the current one.    *)
LinesOf(s, k) == Len(s.script[k].literals) + 1
TextOf(s, k, j) == [x \in 1 .. s.script[k].width |-> Sym("text", k, j, x)]
SizeOf(s, k, j) == IF j < LinesOf(s, k)
                   THEN <<Sym("size", k, j, s.script[k].literals[j])>>
                   ELSE <<>>
LineOf(s, k, j) == TextOf(s, k, j) \o SizeOf(s, k, j)
LiteralOf(s, k, j) == [x \in 1 .. s.script[k].literals[j] |-> Sym("byte", k, j, x)]
BytesOf(s, k, j) == IF j = 1 THEN 0 ELSE s.script[k].literals[j - 1]
BurstOf(s, k, j) ==
    (IF j = 1 THEN <<>> ELSE LiteralOf(s, k, j - 1))
      \o TextOf(s, k, j) \o SizeOf(s, k, j) \o <<Sym("crlf", k, j, 0)>>
MeantOf(s, k) == [lines |-> [j \in 1 .. LinesOf(s, k) |-> LineOf(s, k, j)],
                  literals |-> [j \in 1 .. LinesOf(s, k) - 1 |-> LiteralOf(s, k, j)]]
IsCareful(s) ==
    /\ ~ s.pipelining /\ ~ s.cutAfterLiteral
    /\ \A k \in DOMAIN s.script :
          /\ \A j \in 1 .. LinesOf(s, k) : Len(BurstOf(s, k, j)) <= MaxLine
          /\ \A j \in DOMAIN s.script[k].literals : s.script[k].literals[j] > 0

(* The lines of command k up to n, and its literals up to n. *)
FirstLines(s, k, n) == [i \in 1 .. n |-> LineOf(s, k, i)]
FirstLiterals(s, k, n) == [i \in 1 .. n |-> LiteralOf(s, k, i)]

(* The server has these, and all commands before. *)
Has(s, k, n, l) ==
    /\ finished = [i \in 1 .. k - 1 |-> MeantOf(s, i)]
    /\ command = [lines |-> FirstLines(s, k, n), literals |-> FirstLiterals(s, k, l)]

(* It waits for line j of command k, with the literal before it. *)
Waits(s, k, j) ==
    /\ wire = <<>> /\ remaining = <<>> /\ chunks = <<>>
    /\ expected = BytesOf(s, k, j)
    /\ Has(s, k, j - 1, IF j = 1 THEN 0 ELSE j - 2)

(* It has read c symbols of that burst; they end in the literal... *)
InLiteral(s, k, j, c) ==
    /\ c < BytesOf(s, k, j)
    /\ expected = BytesOf(s, k, j) - c
    /\ chunks = SubSeq(BurstOf(s, k, j), 1, c) /\ remaining = <<>>
    /\ Has(s, k, j - 1, j - 2)

(* ... or after it. *)
InLine(s, k, j, c) ==
    /\ BytesOf(s, k, j) <= c
    /\ expected = 0 /\ chunks = <<>>
    /\ remaining = SubSeq(BurstOf(s, k, j), BytesOf(s, k, j) + 1, c)
    /\ Has(s, k, j - 1, j - 1)

(* It has read some of that burst, and the rest is on its way. *)
Reads(s, k, j) ==
    \E c \in 0 .. Len(BurstOf(s, k, j)) - 1 :
        /\ wire = SubSeq(BurstOf(s, k, j), c + 1, Len(BurstOf(s, k, j)))
        /\ InLiteral(s, k, j, c) \/ InLine(s, k, j, c)

(* After line j of command k. *)
Following(s, k, j) == IF j < LinesOf(s, k) THEN <<k, j + 1>> ELSE <<k + 1, 1>>

(* Nothing is on its way and the client may send, *)
AtRest(s) ==
    \E k \in 1 .. Len(s.script) + 1 :
        \E j \in 1 .. IF k > Len(s.script) THEN 1 ELSE LinesOf(s, k) :
            prompted /\ next = <<k, j>> /\ Waits(s, k, j)

(* or its last burst is being read. *)
Underway(s) ==
    \E k \in 1 .. Len(s.script) : \E j \in 1 .. LinesOf(s, k) :
        ~ prompted /\ next = Following(s, k, j) /\ Reads(s, k, j)

(* A careful client and the server go in lockstep. *)
LockstepInv ==
    \E s \in Sessions : session = s /\ (IsCareful(s) => AtRest(s) \/ Underway(s))

-----------------------------------------------------------------------------
(* Sequences and their pieces *)

(* A literal, a line and its end, put together and taken apart. *)
LEMMA Slices ==
    ASSUME NEW S, NEW p \in Seq(S), NEW q \in Seq(S), NEW x \in S,
           NEW b, b = p \o q \o <<x>>
    PROVE  /\ b \in Seq(S) /\ Len(b) = Len(p) + Len(q) + 1
           /\ SubSeq(b, 1, Len(p)) = p
           /\ SubSeq(b, Len(p) + 1, Len(b) - 1) = q
           /\ \A i \in 1 .. Len(p) : b[i] = p[i]
           /\ \A i \in Len(p) + 1 .. Len(b) - 1 : b[i] = q[i - Len(p)]
           /\ b[Len(b)] = x
<1>1. Len(p) \in Nat /\ Len(q) \in Nat
  OBVIOUS
<1>2. p \o q \in Seq(S) /\ Len(p \o q) = Len(p) + Len(q) /\ <<x>> \in Seq(S) /\ Len(<<x>>) = 1
  OBVIOUS
<1>3. b \in Seq(S) /\ Len(b) = Len(p) + Len(q) + 1
  BY <1>1, <1>2
<1>4. \A i \in 1 .. Len(p) : b[i] = p[i]
  BY <1>1, <1>2
<1>5. \A i \in Len(p) + 1 .. Len(b) - 1 : b[i] = q[i - Len(p)]
  BY <1>1, <1>2, <1>3
<1>6. b[Len(b)] = x
  BY <1>1, <1>2, <1>3
<1>7. SubSeq(b, 1, Len(p)) = p
  <2>1. /\ SubSeq(b, 1, Len(p)) \in Seq(S) /\ Len(SubSeq(b, 1, Len(p))) = Len(p)
        /\ \A i \in 1 .. Len(p) : SubSeq(b, 1, Len(p))[i] = b[i]
    BY <1>1, <1>3
  <2>. QED
    BY <1>1, <1>4, <2>1, SeqEqual
<1>8. SubSeq(b, Len(p) + 1, Len(b) - 1) = q
  <2> DEFINE c == SubSeq(b, Len(p) + 1, Len(b) - 1)
  <2>1. /\ c \in Seq(S) /\ Len(c) = Len(q)
        /\ \A i \in 1 .. Len(q) : c[i] = b[Len(p) + i]
    BY <1>1, <1>3
  <2>2. \A i \in 1 .. Len(q) : b[Len(p) + i] = q[i]
    <3>1. \A i \in 1 .. Len(q) :
             Len(p) + i \in Len(p) + 1 .. Len(b) - 1 /\ (Len(p) + i) - Len(p) = i
      BY <1>1, <1>3
    <3>. QED
      BY <1>5, <3>1
  <2> HIDE DEF c
  <2>3. c = q
    BY <1>1, <2>1, <2>2, SeqEqual
  <2>. QED
    BY <2>3 DEF c
<1>. QED
  BY <1>3, <1>4, <1>5, <1>6, <1>7, <1>8

(* The piece of a sequence from one place to another. *)
LEMMA Piece ==
    ASSUME NEW S, NEW b \in Seq(S), NEW m \in Nat \ {0}, NEW n \in Nat, n <= Len(b)
    PROVE  /\ SubSeq(b, m, n) \in Seq(S)
           /\ Len(SubSeq(b, m, n)) = IF m <= n THEN n - m + 1 ELSE 0
           /\ \A x \in 1 .. n - m + 1 : SubSeq(b, m, n)[x] = b[m + x - 1]
<1>1. Len(b) \in Nat
  BY LenProperties
<1>2. \A x \in m .. n : b[x] \in S
  <2> SUFFICES ASSUME NEW x \in m .. n PROVE b[x] \in S
    OBVIOUS
  <2>1. x \in 1 .. Len(b)
    BY <1>1
  <2>. QED
    BY <2>1, ElementOfSeq
<1>. QED
  BY <1>2, SubSeqProperties

(* A piece of a piece. *)
LEMMA PieceOfPiece ==
    ASSUME NEW S, NEW b \in Seq(S), NEW m \in Nat \ {0}, NEW n \in Nat, n <= Len(b),
           NEW i \in Nat \ {0}, NEW j \in Nat, m + j - 1 <= n
    PROVE  SubSeq(SubSeq(b, m, n), i, j) = SubSeq(b, m + i - 1, m + j - 1)
<1>1. Len(b) \in Nat
  BY LenProperties
<1>2. ASSUME j < i PROVE SubSeq(SubSeq(b, m, n), i, j) = SubSeq(b, m + i - 1, m + j - 1)
  <2>1. SubSeq(SubSeq(b, m, n), i, j) = <<>>
    BY <1>2, SubSeqEmpty
  <2>2. m + i - 1 \in Int /\ m + j - 1 \in Int /\ m + j - 1 < m + i - 1
    BY <1>2
  <2>3. SubSeq(b, m + i - 1, m + j - 1) = <<>>
    BY <2>2, SubSeqEmpty
  <2>. QED
    BY <2>1, <2>3
<1>3. ASSUME i <= j PROVE SubSeq(SubSeq(b, m, n), i, j) = SubSeq(b, m + i - 1, m + j - 1)
  <2>1. m \in 1 .. Len(b) /\ n \in 1 .. Len(b) /\ i \in 1 .. n - m + 1 /\ j \in 1 .. n - m + 1
    BY <1>1, <1>3
  <2>. QED
    BY <2>1, SubSeqOfSubSeq
<1>. QED
  BY <1>2, <1>3

(* Two pieces that meet. *)
LEMMA Joined ==
    ASSUME NEW S, NEW b \in Seq(S), NEW m \in Nat \ {0}, NEW n \in Nat, NEW e \in Nat,
           m <= n + 1, n <= e, e <= Len(b)
    PROVE  SubSeq(b, m, n) \o SubSeq(b, n + 1, e) = SubSeq(b, m, e)
<1>1. Len(b) \in Nat
  BY LenProperties
<1>2. m \in 1 .. Len(b) + 1 /\ n \in m - 1 .. Len(b) /\ e \in n .. Len(b)
  BY <1>1
<1>. QED
  BY <1>2, ConcatAdjacentSubSeq

-----------------------------------------------------------------------------
(* What a careful client sends *)

(* What travels, as Symbols has it. *)
Kinds == {"text", "size", "crlf", "byte"}
Symbol == Kinds \X Nat \X Nat \X Nat

(* The script of a session is what SessionAssumption says. *)
LEMMA ScriptType ==
    ASSUME NEW s \in Sessions, NEW k \in 1 .. Len(s.script)
    PROVE  /\ Len(s.script) \in Nat /\ DOMAIN s.script = 1 .. Len(s.script)
           /\ s.script[k].width \in Nat \ {0}
           /\ s.script[k].literals \in Seq(Nat)
           /\ Len(s.script[k].literals) \in Nat
           /\ DOMAIN s.script[k].literals = 1 .. Len(s.script[k].literals)
           /\ LinesOf(s, k) \in Nat \ {0}
<1>1. s.script \in Seq([width : Nat \ {0}, literals : Seq(Nat)])
  BY SessionAssumption
<1>2. s.script[k] \in [width : Nat \ {0}, literals : Seq(Nat)]
  BY <1>1, ElementOfSeq
<1>3. Len(s.script) \in Nat /\ DOMAIN s.script = 1 .. Len(s.script)
  BY <1>1, LenProperties
<1>4. s.script[k].width \in Nat \ {0} /\ s.script[k].literals \in Seq(Nat)
  BY <1>2
<1>5. /\ Len(s.script[k].literals) \in Nat
      /\ DOMAIN s.script[k].literals = 1 .. Len(s.script[k].literals)
  BY <1>4, LenProperties
<1>. QED
  BY <1>3, <1>4, <1>5 DEF LinesOf

(* The two parts of a line are sequences of symbols. *)
LEMMA LineTypes ==
    ASSUME NEW s \in Sessions, NEW k \in 1 .. Len(s.script), NEW j \in 1 .. LinesOf(s, k)
    PROVE  /\ TextOf(s, k, j) \in Seq(Symbol) /\ SizeOf(s, k, j) \in Seq(Symbol)
           /\ Len(TextOf(s, k, j)) = s.script[k].width
           /\ \A i \in 1 .. s.script[k].width :
                 Kind(TextOf(s, k, j)[i]) = "text" /\ TextOf(s, k, j)[i][4] = i
           /\ j < LinesOf(s, k) =>
                 \E x \in Symbol : /\ SizeOf(s, k, j) = <<x>>
                                 /\ Kind(x) = "size" /\ x[4] = s.script[k].literals[j]
           /\ ~ (j < LinesOf(s, k)) => SizeOf(s, k, j) = <<>>
<1> DEFINE t == TextOf(s, k, j)
           z == SizeOf(s, k, j)
           w == s.script[k].width
           n == s.script[k].literals[j]
<1>1. /\ w \in Nat \ {0} /\ s.script[k].literals \in Seq(Nat) /\ k \in Nat /\ j \in Nat
      /\ Len(s.script) \in Nat /\ LinesOf(s, k) \in Nat
      /\ LinesOf(s, k) = Len(s.script[k].literals) + 1
  BY ScriptType DEF LinesOf
<1>2. \A i \in 1 .. w : /\ Sym("text", k, j, i) \in Symbol
                         /\ Kind(Sym("text", k, j, i)) = "text"
                         /\ Sym("text", k, j, i)[4] = i
  <2> SUFFICES ASSUME NEW i \in 1 .. w
               PROVE  /\ Sym("text", k, j, i) \in Symbol
                      /\ Kind(Sym("text", k, j, i)) = "text"
                      /\ Sym("text", k, j, i)[4] = i
    OBVIOUS
  <2>1. i \in Nat
    BY <1>1
  <2> HIDE DEF w
  <2>. QED
    BY <1>1, <2>1 DEF Sym, Symbol, Kinds, Kind
<1>3. t \in [1 .. w -> Symbol] /\ \A i \in 1 .. w : t[i] = Sym("text", k, j, i)
  BY <1>2 DEF TextOf
<1>4. /\ t \in Seq(Symbol) /\ Len(t) = w
      /\ \A i \in 1 .. w : Kind(t[i]) = "text" /\ t[i][4] = i
  <2> HIDE DEF t, w
  <2>. QED
    BY <1>1, <1>2, <1>3
<1>5. ASSUME j < LinesOf(s, k)
      PROVE  /\ z \in Seq(Symbol)
             /\ \E x \in Symbol : z = <<x>> /\ Kind(x) = "size" /\ x[4] = n
  <2>1. n \in Nat
    BY <1>1, <1>5
  <2>2. z = <<Sym("size", k, j, n)>>
    BY <1>5 DEF SizeOf
  <2>3. /\ Sym("size", k, j, n) \in Symbol /\ Kind(Sym("size", k, j, n)) = "size"
        /\ Sym("size", k, j, n)[4] = n
    <3> HIDE DEF n
    <3>. QED
      BY <1>1, <2>1 DEF Sym, Symbol, Kinds, Kind
  <2> HIDE DEF z, n
  <2>. QED
    BY <2>2, <2>3
<1>6. ASSUME ~ (j < LinesOf(s, k)) PROVE z = <<>> /\ z \in Seq(Symbol)
  <2>1. z = <<>>
    BY <1>6 DEF SizeOf
  <2> HIDE DEF z
  <2>. QED
    BY <2>1
<1>. QED
  BY <1>4, <1>5, <1>6

(* A line is not empty, and ends in the size of the literal after it, if any.  *)
LEMMA LineShape ==
    ASSUME NEW s \in Sessions, NEW k \in 1 .. Len(s.script), NEW j \in 1 .. LinesOf(s, k),
           NEW line, line = LineOf(s, k, j)
    PROVE  /\ line \in Seq(Symbol) /\ line # <<>> /\ line[1][4] = 1
           /\ \A i \in 1 .. Len(line) : Kind(line[i]) \in {"text", "size"}
           /\ HasLiteral(line) <=> j < LinesOf(s, k)
           /\ j < LinesOf(s, k) => line[Len(line)][4] = s.script[k].literals[j]
<1> DEFINE t == TextOf(s, k, j)
           z == SizeOf(s, k, j)
           w == s.script[k].width
<1>1. w \in Nat \ {0}
  BY ScriptType
<1>2. /\ t \in Seq(Symbol) /\ Len(t) = w
      /\ \A i \in 1 .. w : Kind(t[i]) = "text" /\ t[i][4] = i
      /\ line = t \o z
  BY LineTypes DEF LineOf
<1>3. CASE j < LinesOf(s, k)
  <2>1. PICK x \in Symbol : z = <<x>> /\ Kind(x) = "size" /\ x[4] = s.script[k].literals[j]
    BY <1>3, LineTypes
  <2> HIDE DEF t, z, w
  <2>2. <<x>> \in Seq(Symbol) /\ Len(<<x>>) = 1 /\ <<x>>[1] = x
    OBVIOUS
  <2>3. /\ line \in Seq(Symbol) /\ Len(line) = w + 1
        /\ \A i \in 1 .. w : line[i] = t[i]
        /\ line[w + 1] = x
    BY <1>1, <1>2, <2>1, <2>2, ConcatProperties
  <2>4. \A i \in 1 .. Len(line) : Kind(line[i]) \in {"text", "size"}
    BY <1>1, <1>2, <2>1, <2>3
  <2>5. line # <<>> /\ line[1][4] = 1
    BY <1>1, <1>2, <2>3
  <2>6. HasLiteral(line)
    BY <2>1, <2>3, <2>5 DEF HasLiteral
  <2>. QED
    BY <1>3, <2>1, <2>3, <2>4, <2>5, <2>6
<1>4. CASE ~ (j < LinesOf(s, k))
  <2>1. z = <<>>
    BY <1>4, LineTypes
  <2> HIDE DEF t, z, w
  <2>2. line = t
    BY <1>2, <2>1, ConcatEmptySeq
  <2>3. ~ HasLiteral(line)
    BY <1>1, <1>2, <2>2 DEF HasLiteral
  <2>. QED
    BY <1>1, <1>2, <1>4, <2>2, <2>3
<1>. QED
  BY <1>3, <1>4

(* A burst and the size of its literal, and what has been read after that. *)
IsBurst(s, k, j, b, l) == b = BurstOf(s, k, j) /\ l = BytesOf(s, k, j)
IsRead(b, l, e, data) == data = SubSeq(b, l + 1, e)

(* What the client sends at a time is the literal, the line and its end, and   *)
(* only the end is a CRLF.                                                   *)
LEMMA BurstShape ==
    ASSUME NEW s \in Sessions, NEW k \in 1 .. Len(s.script), NEW j \in 1 .. LinesOf(s, k),
           NEW b, NEW l, IsBurst(s, k, j, b, l)
    PROVE  /\ b \in Seq(Symbol) /\ Len(b) \in Nat /\ l \in Nat /\ l + 1 < Len(b)
           /\ \A i \in 1 .. l : Kind(b[i]) = "byte"
           /\ \A i \in l + 1 .. Len(b) - 1 : Kind(b[i]) \in {"text", "size"}
           /\ Kind(b[Len(b)]) = "crlf"
           /\ j > 1 => SubSeq(b, 1, l) = LiteralOf(s, k, j - 1)
           /\ SubSeq(b, l + 1, Len(b) - 1) = LineOf(s, k, j)
           /\ j = 1 => l = 0
<1> DEFINE p == IF j = 1 THEN <<>> ELSE LiteralOf(s, k, j - 1)
           q == LineOf(s, k, j)
           x == Sym("crlf", k, j, 0)
<1>0. b = BurstOf(s, k, j) /\ l = BytesOf(s, k, j)
  BY DEF IsBurst
<1>1. /\ s.script[k].literals \in Seq(Nat) /\ k \in Nat /\ j \in Nat \ {0}
      /\ Len(s.script[k].literals) \in Nat
      /\ LinesOf(s, k) = Len(s.script[k].literals) + 1
  BY ScriptType DEF LinesOf
<1>2. /\ q \in Seq(Symbol) /\ q # <<>>
      /\ \A i \in 1 .. Len(q) : Kind(q[i]) \in {"text", "size"}
  BY LineShape
<1>3. p \in Seq(Symbol) /\ Len(p) = l /\ l \in Nat /\ \A i \in 1 .. l : Kind(p[i]) = "byte"
  <2>1. ASSUME j = 1
        PROVE  p \in Seq(Symbol) /\ Len(p) = l /\ l \in Nat /\ \A i \in 1 .. l : Kind(p[i]) = "byte"
    <3>1. p = <<>> /\ l = 0
      BY <1>0, <2>1 DEF BytesOf
    <3> HIDE DEF p
    <3>. QED
      BY <3>1
  <2>2. ASSUME j # 1
        PROVE  p \in Seq(Symbol) /\ Len(p) = l /\ l \in Nat /\ \A i \in 1 .. l : Kind(p[i]) = "byte"
    <3>1. j - 1 \in 1 .. Len(s.script[k].literals) /\ j - 1 \in Nat
      BY <1>1, <2>2
    <3>2. l = s.script[k].literals[j - 1] /\ l \in Nat
      BY <1>0, <1>1, <3>1, <2>2, ElementOfSeq DEF BytesOf
    <3>3. p = [i \in 1 .. l |-> Sym("byte", k, j - 1, i)]
      BY <2>2, <3>2 DEF LiteralOf
    <3> HIDE DEF p
    <3>4. \A i \in 1 .. l : Sym("byte", k, j - 1, i) \in Symbol
                           /\ Kind(Sym("byte", k, j - 1, i)) = "byte"
      <4> SUFFICES ASSUME NEW i \in 1 .. l
                   PROVE  Sym("byte", k, j - 1, i) \in Symbol /\ Kind(Sym("byte", k, j - 1, i)) = "byte"
        OBVIOUS
      <4>1. i \in Nat
        BY <3>2
      <4>. QED
        BY <1>1, <3>1, <4>1 DEF Sym, Symbol, Kinds, Kind
    <3>5. p \in [1 .. l -> Symbol] /\ \A i \in 1 .. l : p[i] = Sym("byte", k, j - 1, i)
      BY <3>3, <3>4
    <3>. QED
      BY <3>2, <3>4, <3>5
  <2>. QED
    BY <2>1, <2>2
<1>4. x \in Symbol /\ Kind(x) = "crlf"
  BY <1>1 DEF Sym, Symbol, Kinds, Kind
<1>5. b = p \o q \o <<x>>
  <2>1. b = p \o TextOf(s, k, j) \o SizeOf(s, k, j) \o <<x>>
    BY <1>0 DEF BurstOf
  <2>2. TextOf(s, k, j) \in Seq(Symbol) /\ SizeOf(s, k, j) \in Seq(Symbol)
    BY LineTypes
  <2> HIDE DEF p, x
  <2>3. p \o TextOf(s, k, j) \o SizeOf(s, k, j) = p \o (TextOf(s, k, j) \o SizeOf(s, k, j))
    BY <1>3, <2>2, ConcatAssociative
  <2>. QED
    BY <2>1, <2>3 DEF LineOf
<1>6. j > 1 => p = LiteralOf(s, k, j - 1)
  OBVIOUS
<1>7. j = 1 => l = 0
  BY <1>0 DEF BytesOf
<1> HIDE DEF p, q, x
<1>8. Len(q) \in Nat \ {0}
  BY <1>2, EmptySeq
<1>9. /\ b \in Seq(Symbol) /\ Len(b) = l + Len(q) + 1
      /\ SubSeq(b, 1, l) = p
      /\ SubSeq(b, l + 1, Len(b) - 1) = q
      /\ \A i \in 1 .. l : b[i] = p[i]
      /\ \A i \in l + 1 .. Len(b) - 1 : b[i] = q[i - l]
      /\ b[Len(b)] = x
  <2>1. b \in Seq(Symbol) /\ Len(b) = Len(p) + Len(q) + 1
    <3>1. b \in Seq(Symbol)
      BY <1>2, <1>3, <1>4, <1>5, ConcatProperties
    <3>2. Len(b) = Len(p) + Len(q) + 1
      <4>1. p \o q \in Seq(Symbol) /\ Len(p \o q) = Len(p) + Len(q)
        BY <1>2, <1>3, ConcatProperties
      <4>2. <<x>> \in Seq(Symbol) /\ Len(<<x>>) = 1
        BY <1>4
      <4>. QED
        BY <1>5, <4>1, <4>2, ConcatProperties
    <3>. QED
      BY <3>1, <3>2
  <2>2. SubSeq(b, 1, Len(p)) = p
    BY <1>2, <1>3, <1>4, <1>5, Slices
  <2>3. SubSeq(b, Len(p) + 1, Len(b) - 1) = q
    BY <1>2, <1>3, <1>4, <1>5, Slices
  <2>4. \A i \in 1 .. Len(p) : b[i] = p[i]
    BY <1>2, <1>3, <1>4, <1>5, Slices
  <2>5. \A i \in Len(p) + 1 .. Len(b) - 1 : b[i] = q[i - Len(p)]
    BY <1>2, <1>3, <1>4, <1>5, Slices
  <2>6. b[Len(b)] = x
    BY <1>2, <1>3, <1>4, <1>5, Slices
  <2>. QED
    BY <1>3, <2>1, <2>2, <2>3, <2>4, <2>5, <2>6
<1>10. \A i \in l + 1 .. Len(b) - 1 : Kind(b[i]) \in {"text", "size"}
  <2> SUFFICES ASSUME NEW i \in l + 1 .. Len(b) - 1 PROVE Kind(b[i]) \in {"text", "size"}
    OBVIOUS
  <2>1. i - l \in 1 .. Len(q)
    BY <1>3, <1>8, <1>9
  <2>2. b[i] = q[i - l]
    BY <1>9
  <2>. QED
    BY <1>2, <2>1, <2>2
<1>11. \A i \in 1 .. l : Kind(b[i]) = "byte"
  BY <1>3, <1>9
<1>12. Kind(b[Len(b)]) = "crlf"
  BY <1>4, <1>9
<1>13. Len(b) \in Nat /\ l + 1 < Len(b)
  BY <1>3, <1>8, <1>9
<1>14. j > 1 => SubSeq(b, 1, l) = LiteralOf(s, k, j - 1)
  BY <1>6, <1>9
<1>. QED
  BY <1>3, <1>7, <1>9, <1>10, <1>11, <1>12, <1>13, <1>14 DEF q
-----------------------------------------------------------------------------
(* What the server makes of it *)

(* A sequence with one more element. *)
LEMMA OneMore ==
    ASSUME NEW S, NEW n \in Nat, NEW q \in [1 .. n + 1 -> S],
           NEW p, p = [i \in 1 .. n |-> q[i]]
    PROVE  Append(p, q[n + 1]) = q
<1>1. /\ q \in Seq(S) /\ Len(q) = n + 1 /\ q[n + 1] \in S
      /\ p \in Seq(S) /\ Len(p) = n /\ \A i \in 1 .. n : p[i] = q[i]
  <2>1. p \in [1 .. n -> S]
    OBVIOUS
  <2>. QED
    BY <2>1
<1>2. /\ Append(p, q[n + 1]) \in Seq(S) /\ Len(Append(p, q[n + 1])) = n + 1
      /\ \A i \in 1 .. n : Append(p, q[n + 1])[i] = p[i]
      /\ Append(p, q[n + 1])[n + 1] = q[n + 1]
  BY <1>1, AppendProperties
<1>3. \A i \in 1 .. n + 1 : Append(p, q[n + 1])[i] = q[i]
  BY <1>1, <1>2
<1>. QED
  BY <1>1, <1>2, <1>3, SeqEqual

(* The next line of a command, *)
LEMMA OneMoreLine ==
    ASSUME NEW s, NEW k, NEW n \in Nat
    PROVE  Append(FirstLines(s, k, n), LineOf(s, k, n + 1)) = FirstLines(s, k, n + 1)
<1> DEFINE q == FirstLines(s, k, n + 1)
<1>1. /\ q \in [1 .. n + 1 -> {LineOf(s, k, i) : i \in 1 .. n + 1}]
      /\ q[n + 1] = LineOf(s, k, n + 1)
  BY DEF FirstLines
<1>2. FirstLines(s, k, n) = [i \in 1 .. n |-> q[i]]
  BY DEF FirstLines
<1> HIDE DEF q
<1>3. Append(FirstLines(s, k, n), q[n + 1]) = q
  BY <1>1, <1>2, OneMore
<1>. QED
  BY <1>1, <1>3 DEF q

(* its next literal, *)
LEMMA OneMoreLiteral ==
    ASSUME NEW s, NEW k, NEW n \in Nat
    PROVE  Append(FirstLiterals(s, k, n), LiteralOf(s, k, n + 1)) = FirstLiterals(s, k, n + 1)
<1> DEFINE q == FirstLiterals(s, k, n + 1)
<1>1. /\ q \in [1 .. n + 1 -> {LiteralOf(s, k, i) : i \in 1 .. n + 1}]
      /\ q[n + 1] = LiteralOf(s, k, n + 1)
  BY DEF FirstLiterals
<1>2. FirstLiterals(s, k, n) = [i \in 1 .. n |-> q[i]]
  BY DEF FirstLiterals
<1> HIDE DEF q
<1>3. Append(FirstLiterals(s, k, n), q[n + 1]) = q
  BY <1>1, <1>2, OneMore
<1>. QED
  BY <1>1, <1>3 DEF q

(* and the next command. *)
LEMMA OneMoreCommand ==
    ASSUME NEW s, NEW n \in Nat
    PROVE  Append([i \in 1 .. n |-> MeantOf(s, i)], MeantOf(s, n + 1))
             = [i \in 1 .. n + 1 |-> MeantOf(s, i)]
<1> DEFINE q == [i \in 1 .. n + 1 |-> MeantOf(s, i)]
<1>1. /\ q \in [1 .. n + 1 -> {MeantOf(s, i) : i \in 1 .. n + 1}]
      /\ q[n + 1] = MeantOf(s, n + 1)
  OBVIOUS
<1>2. [i \in 1 .. n |-> MeantOf(s, i)] = [i \in 1 .. n |-> q[i]]
  OBVIOUS
<1> HIDE DEF q
<1>3. Append([i \in 1 .. n |-> MeantOf(s, i)], q[n + 1]) = q
  BY <1>1, <1>2, OneMore
<1>. QED
  BY <1>1, <1>3 DEF q

(* What is read of a line has no end until all of it is read. *)
LEMMA ReadSoFar ==
    ASSUME NEW s \in Sessions, NEW k \in 1 .. Len(s.script), NEW j \in 1 .. LinesOf(s, k),
           NEW b, NEW l, IsBurst(s, k, j, b, l),
           NEW e \in l + 1 .. Len(b), NEW data, IsRead(b, l, e, data)
    PROVE  /\ e < Len(b) => EndOfLine(data) = {}
           /\ e = Len(b) => /\ EndOfLine(data) = {Len(data)}
                            /\ SubSeq(data, 1, Len(data) - 1) = LineOf(s, k, j)
<1>1. /\ b \in Seq(Symbol) /\ Len(b) \in Nat /\ l \in Nat /\ l + 1 < Len(b)
      /\ \A i \in l + 1 .. Len(b) - 1 : Kind(b[i]) \in {"text", "size"}
      /\ Kind(b[Len(b)]) = "crlf"
      /\ SubSeq(b, l + 1, Len(b) - 1) = LineOf(s, k, j)
  BY BurstShape
<1>2. /\ l \in Nat /\ l + 1 \in Nat \ {0} /\ e \in Nat /\ Len(b) \in Nat
      /\ e <= Len(b) /\ l + 1 <= e /\ l + 1 < Len(b)
  BY <1>1
<1>3. /\ data \in Seq(Symbol) /\ Len(data) = e - l
      /\ \A x \in 1 .. e - l : data[x] = b[l + x]
  <2>1. /\ data \in Seq(Symbol) /\ Len(data) = e - (l + 1) + 1
        /\ \A x \in 1 .. e - (l + 1) + 1 : data[x] = b[(l + 1) + x - 1]
    BY <1>1, <1>2, Piece DEF IsRead
  <2>2. e - (l + 1) + 1 = e - l
    BY <1>2
  <2>3. \A x \in 1 .. e - l : (l + 1) + x - 1 = l + x
    BY <1>2
  <2>4. data \in Seq(Symbol) /\ Len(data) = e - l
    BY <2>1, <2>2
  <2>5. ASSUME NEW x \in 1 .. e - l PROVE data[x] = b[l + x]
    BY <2>1, <2>2, <2>3
  <2>. QED
    BY <2>4, <2>5
<1>4. DOMAIN data = 1 .. e - l
  BY <1>3, LenProperties
<1>5. ASSUME NEW i \in DOMAIN data, Kind(data[i]) = "crlf" PROVE e = Len(b) /\ i = e - l
  <2>1. i \in 1 .. e - l /\ data[i] = b[l + i]
    BY <1>3, <1>4
  <2>2. ASSUME l + i # Len(b) PROVE FALSE
    <3>1. l + i \in l + 1 .. Len(b) - 1
      BY <1>2, <2>1, <2>2
    <3>. QED
      BY <1>1, <1>5, <2>1, <3>1
  <2>3. l + i = Len(b) /\ i \in 1 .. e - l
    BY <2>1, <2>2
  <2>. QED
    BY <1>2, <2>3
<1>6. e < Len(b) => EndOfLine(data) = {}
  BY <1>1, <1>5 DEF EndOfLine
<1>8. Len(data) = e - l
  BY <1>3
<1>7. ASSUME e = Len(b)
      PROVE  EndOfLine(data) = {Len(data)} /\ SubSeq(data, 1, Len(data) - 1) = LineOf(s, k, j)
  <2>1. Len(data) \in DOMAIN data /\ Kind(data[Len(data)]) = "crlf"
    <3>1. Len(data) \in 1 .. e - l /\ l + Len(data) = Len(b)
      BY <1>2, <1>8, <1>7
    <3>. QED
      BY <1>1, <1>3, <1>4, <3>1
  <2>2. EndOfLine(data) = {Len(data)}
    BY <1>3, <1>5, <2>1 DEF EndOfLine
  <2> DEFINE n == Len(data) - 1
  <2>3. n \in Nat /\ (l + 1) + n - 1 = Len(b) - 1 /\ (l + 1) + n - 1 <= e /\ (l + 1) + 1 - 1 = l + 1
    BY <1>2, <1>8, <1>7
  <2> HIDE DEF n
  <2>4. SubSeq(SubSeq(b, l + 1, e), 1, n) = SubSeq(b, (l + 1) + 1 - 1, (l + 1) + n - 1)
    <3>1. b \in Seq(Symbol) /\ 1 \in Nat \ {0}
      BY <1>1
    <3>2. \A i \in Nat \ {0} : \A x \in Nat : (l + 1) + x - 1 <= e =>
             SubSeq(SubSeq(b, l + 1, e), i, x) = SubSeq(b, (l + 1) + i - 1, (l + 1) + x - 1)
      BY <1>2, <3>1, PieceOfPiece
    <3>. QED
      BY <2>3, <3>1, <3>2
  <2>. QED
    BY <1>1, <2>2, <2>3, <2>4 DEF n, IsRead
<1>. QED
  BY <1>6, <1>7

(* What is read of a line is kept until its end comes; then the line is part   *)
(* of the command, and with the last one the command is handed on.           *)
LEMMA LineRead ==
    ASSUME NEW s \in Sessions, NEW k \in 1 .. Len(s.script), NEW j \in 1 .. LinesOf(s, k),
           NEW b, NEW l, IsBurst(s, k, j, b, l),
           NEW e \in l + 1 .. Len(b), NEW data, IsRead(b, l, e, data)
    PROVE  /\ ReadLine(data, FirstLiterals(s, k, j - 1), <<>>)
           /\ \E i \in Nat : Has(s, k, j - 1, i)
           /\ wire' = SubSeq(b, e + 1, Len(b))
           /\ ~ prompted /\ next = Following(s, k, j)
           => AtRest(s)' \/ Underway(s)'
<1> DEFINE line == LineOf(s, k, j)
<1>1. b \in Seq(Symbol) /\ Len(b) \in Nat /\ l \in Nat /\ l + 1 < Len(b)
  BY BurstShape
<1>2. /\ k \in Nat \ {0} /\ j \in Nat \ {0} /\ LinesOf(s, k) \in Nat \ {0}
      /\ LinesOf(s, k) = Len(s.script[k].literals) + 1
      /\ Len(s.script) \in Nat
  BY ScriptType DEF LinesOf
<1>3. /\ e < Len(b) => EndOfLine(data) = {}
      /\ e = Len(b) => EndOfLine(data) = {Len(data)} /\ SubSeq(data, 1, Len(data) - 1) = line
  <2>1. e < Len(b) => EndOfLine(data) = {}
    BY ReadSoFar
  <2>2. e = Len(b) => EndOfLine(data) = {Len(data)}
    BY ReadSoFar
  <2>3. e = Len(b) => SubSeq(data, 1, Len(data) - 1) = LineOf(s, k, j)
    BY ReadSoFar
  <2>. QED
    BY <2>1, <2>2, <2>3
<1>4. /\ line # <<>> /\ line[1][4] = 1
      /\ HasLiteral(line) <=> j < LinesOf(s, k)
      /\ j < LinesOf(s, k) => line[Len(line)][4] = s.script[k].literals[j]
  BY LineShape
<1>5. data \in Seq(Symbol) /\ Len(data) \in Nat
  <2>1. l + 1 \in Nat \ {0} /\ e \in Nat /\ e <= Len(b)
    BY <1>1
  <2>2. data \in Seq(Symbol)
    BY <1>1, <2>1, Piece DEF IsRead
  <2>. QED
    BY <2>2, LenProperties
<1>6. Append(FirstLines(s, k, j - 1), line) = FirstLines(s, k, j)
  <2>1. j - 1 \in Nat /\ (j - 1) + 1 = j
    BY <1>2
  <2>. QED
    BY <2>1, OneMoreLine
<1> HIDE DEF line
<1>7. ASSUME ReadLine(data, FirstLiterals(s, k, j - 1), <<>>),
             NEW i \in Nat, Has(s, k, j - 1, i),
             wire' = SubSeq(b, e + 1, Len(b)),
             ~ prompted, next = Following(s, k, j),
             e < Len(b)
      PROVE  Underway(s)'
  <2>1. NoLineEnd(data, FirstLiterals(s, k, j - 1), <<>>)
    BY <1>3, <1>7 DEF ReadLine
  <2>2. /\ finished = [x \in 1 .. k - 1 |-> MeantOf(s, x)]
        /\ command = [lines |-> FirstLines(s, k, j - 1), literals |-> FirstLiterals(s, k, i)]
    BY <1>7 DEF Has
  <2>3. command' = [lines |-> FirstLines(s, k, j - 1), literals |-> FirstLiterals(s, k, j - 1)]
    BY <2>1, <2>2 DEF NoLineEnd
  <2>4. /\ remaining' = data /\ expected' = 0 /\ chunks' = <<>>
        /\ finished' = finished
        /\ next' = Following(s, k, j) /\ ~ prompted'
    BY <1>7, <2>1 DEF NoLineEnd
  <2>5. Has(s, k, j - 1, j - 1)'
    BY <2>2, <2>3, <2>4 DEF Has
  <2>6. l <= e /\ e \in 0 .. Len(b) - 1
    BY <1>1, <1>7
  <2>7. InLine(s, k, j, e)'
    BY <2>4, <2>5, <2>6 DEF InLine, IsBurst, IsRead
  <2>8. wire' = SubSeq(b, e + 1, Len(b))
    BY <1>7
  <2>9. Reads(s, k, j)'
    BY <2>6, <2>7, <2>8 DEF Reads, IsBurst
  <2>. QED
    BY <2>4, <2>9 DEF Underway
<1>8. ASSUME ReadLine(data, FirstLiterals(s, k, j - 1), <<>>),
             NEW i \in Nat, Has(s, k, j - 1, i),
             wire' = SubSeq(b, e + 1, Len(b)),
             ~ prompted, next = Following(s, k, j),
             e = Len(b)
      PROVE  AtRest(s)'
  <2> DEFINE end == CHOOSE x \in EndOfLine(data) : \A y \in EndOfLine(data) : x <= y
  <2>1. EndOfLine(data) = {Len(data)} /\ SubSeq(data, 1, Len(data) - 1) = line
    BY <1>3, <1>8
  <2>2. end = Len(data) /\ EndOfLine(data) # {}
    <3>1. Len(data) \in Nat
      BY <1>5
    <3> DEFINE n == Len(data)
           ends == EndOfLine(data)
    <3>2. ends = {n} /\ n \in Nat
      BY <2>1, <3>1
    <3> HIDE DEF n, ends
    <3>3. (CHOOSE x \in ends : \A y \in ends : x <= y) = n /\ ends # {}
      BY <3>2
    <3>. QED
      BY <3>3 DEF n, ends
  <2>3. Acceptable(line) = {TRUE}
    BY <1>4 DEF Acceptable
  <2> DEFINE got == SubSeq(data, 1, end - 1)
  <2>4. PICK ok \in Acceptable(got) :
           \/ ~ ok /\ Refused(got, <<>>)
           \/ ok /\ HasLiteral(got) /\ LiteralAnnounced(got, FirstLiterals(s, k, j - 1), <<>>)
           \/ ok /\ ~ HasLiteral(got) /\ LineEnded(got, FirstLiterals(s, k, j - 1), <<>>)
    BY <1>8, <2>2 DEF ReadLine
  <2> HIDE DEF end
  <2>5. got = line
    BY <2>1, <2>2
  <2> HIDE DEF got
  <2>6. \/ HasLiteral(line) /\ LiteralAnnounced(line, FirstLiterals(s, k, j - 1), <<>>)
        \/ ~ HasLiteral(line) /\ LineEnded(line, FirstLiterals(s, k, j - 1), <<>>)
    <3>1. ok = TRUE
      BY <2>3, <2>4, <2>5
    <3>. QED
      BY <2>4, <2>5, <3>1
  <2>7. wire' = <<>>
    <3>1. Len(b) + 1 \in Int /\ Len(b) \in Int /\ Len(b) < Len(b) + 1
      BY <1>1
    <3>2. SubSeq(b, Len(b) + 1, Len(b)) = <<>>
      BY <3>1, SubSeqEmpty
    <3>. QED
      BY <1>8, <3>2
  <2>8. /\ finished = [x \in 1 .. k - 1 |-> MeantOf(s, x)]
        /\ command.lines = FirstLines(s, k, j - 1)
        /\ next = Following(s, k, j)
    BY <1>8 DEF Has
  <2>9. CASE j < LinesOf(s, k)
    <3>1. LiteralAnnounced(line, FirstLiterals(s, k, j - 1), <<>>)
      BY <1>4, <2>6, <2>9
    <3>2. /\ remaining' = <<>> /\ expected' = s.script[k].literals[j] /\ chunks' = <<>>
          /\ command' = [lines |-> FirstLines(s, k, j), literals |-> FirstLiterals(s, k, j - 1)]
          /\ finished' = [x \in 1 .. k - 1 |-> MeantOf(s, x)]
          /\ next' = <<k, j + 1>> /\ prompted'
      BY <1>4, <1>6, <2>8, <2>9, <3>1 DEF LiteralAnnounced, Following
    <3>3. /\ j + 1 # 1 /\ (j + 1) - 1 = j /\ (j + 1) - 2 = j - 1
          /\ j + 1 \in 1 .. LinesOf(s, k)
      BY <1>2, <2>9
    <3>4. Waits(s, k, j + 1)'
      BY <2>7, <3>2, <3>3 DEF Waits, Has, BytesOf
    <3>5. k \in 1 .. Len(s.script) + 1 /\ ~ (k > Len(s.script))
      BY <1>2
    <3>. QED
      BY <3>2, <3>3, <3>4, <3>5 DEF AtRest
  <2>10. CASE ~ (j < LinesOf(s, k))
    <3>1. LineEnded(line, FirstLiterals(s, k, j - 1), <<>>)
      BY <1>4, <2>6, <2>10
    <3>2. [lines |-> FirstLines(s, k, j), literals |-> FirstLiterals(s, k, j - 1)] = MeantOf(s, k)
      <4>1. j = LinesOf(s, k)
        BY <1>2, <2>10
      <4>. QED
        BY <4>1 DEF FirstLines, FirstLiterals, MeantOf
    <3>3. finished' = [x \in 1 .. k |-> MeantOf(s, x)]
      <4>1. finished' = Append([x \in 1 .. k - 1 |-> MeantOf(s, x)], MeantOf(s, k))
        BY <1>6, <2>8, <3>1, <3>2 DEF LineEnded
      <4>2. k - 1 \in Nat /\ (k - 1) + 1 = k
        BY <1>2
      <4>. QED
        BY <4>1, <4>2, OneMoreCommand
    <3>4. /\ remaining' = <<>> /\ expected' = 0 /\ chunks' = <<>> /\ command' = NoCommand
          /\ next' = <<k + 1, 1>> /\ prompted'
      BY <2>8, <2>10, <3>1 DEF LineEnded, Following
    <3>5. FirstLines(s, k + 1, 0) = <<>> /\ FirstLiterals(s, k + 1, 0) = <<>>
      BY DEF FirstLines, FirstLiterals
    <3>6. Has(s, k + 1, 0, 0)'
      <4>1. (k + 1) - 1 = k
        BY <1>2
      <4>. QED
        BY <3>3, <3>4, <3>5, <4>1 DEF Has, NoCommand
    <3>7. Waits(s, k + 1, 1)'
      BY <2>7, <3>4, <3>6 DEF Waits, BytesOf
    <3>8. k + 1 \in 1 .. Len(s.script) + 1
          /\ 1 \in 1 .. IF k + 1 > Len(s.script) THEN 1 ELSE LinesOf(s, k + 1)
      <4>1. CASE k + 1 > Len(s.script)
        BY <1>2, <4>1
      <4>2. CASE ~ (k + 1 > Len(s.script))
        <5>1. k + 1 \in 1 .. Len(s.script)
          BY <1>2, <4>2
        <5>2. LinesOf(s, k + 1) \in Nat \ {0}
          BY <5>1, ScriptType
        <5>. QED
          BY <1>2, <4>2, <5>1, <5>2
      <4>. QED
        BY <4>1, <4>2
    <3>. QED
      BY <3>4, <3>7, <3>8 DEF AtRest
  <2>. QED
    BY <2>9, <2>10
<1>9. e < Len(b) \/ e = Len(b)
  BY <1>1
<1>. QED
  BY <1>7, <1>8, <1>9
-----------------------------------------------------------------------------
(* Steps *)

(* StreamHandler's operators are those of its session. *)
LEMMA OfSession ==
    ASSUME NEW s, session = s, NEW k, NEW j
    PROVE  Burst(k, j) = BurstOf(s, k, j) /\ Meant(k) = MeantOf(s, k) /\ Lines(k) = LinesOf(s, k)
BY DEF Burst, BurstOf, Meant, MeantOf, Lines, LinesOf, LineOf, Text, TextOf, Size, SizeOf,
       Literal, LiteralOf, Script

(* A client at rest sends a burst, of which nothing has been read. *)
LEMMA SendStep ==
    ASSUME NEW s \in Sessions, session = s, IsCareful(s), AtRest(s), Send
    PROVE  Underway(s)'
<1>1. PICK k \in 1 .. Len(s.script) + 1 :
         \E j \in 1 .. IF k > Len(s.script) THEN 1 ELSE LinesOf(s, k) :
            prompted /\ next = <<k, j>> /\ Waits(s, k, j)
  BY DEF AtRest
<1>2. PICK j \in 1 .. IF k > Len(s.script) THEN 1 ELSE LinesOf(s, k) :
         prompted /\ next = <<k, j>> /\ Waits(s, k, j)
  BY <1>1
<1>3. /\ k <= Len(s.script)
      /\ wire' = wire \o BurstOf(s, k, j)
      /\ next' = Following(s, k, j)
      /\ ~ prompted'
      /\ UNCHANGED <<remaining, command, expected, chunks, finished>>
  BY <1>2, OfSession DEF Send, Following, Script, server
<1>4. k \in 1 .. Len(s.script) /\ j \in 1 .. LinesOf(s, k)
  <2>1. Len(s.script) \in Nat
    BY SessionAssumption
  <2>2. ~ (k > Len(s.script))
    BY <1>3, <2>1
  <2>. QED
    BY <1>3, <2>1, <2>2
<1> DEFINE b == BurstOf(s, k, j)
           l == BytesOf(s, k, j)
<1>5. IsBurst(s, k, j, b, l)
  BY DEF IsBurst
<1>6. b = BurstOf(s, k, j) /\ l = BytesOf(s, k, j)
  OBVIOUS
<1> HIDE DEF b, l
<1>7. /\ b \in Seq(Symbol) /\ Len(b) \in Nat /\ l \in Nat /\ l + 1 < Len(b)
      /\ j = 1 => l = 0
  BY <1>4, <1>5, BurstShape
<1>8. wire' = SubSeq(b, 0 + 1, Len(b))
  <2>1. wire' = b
    BY <1>2, <1>3, <1>6, <1>7, ConcatEmptySeq DEF Waits
  <2>. QED
    BY <1>7, <2>1, SubSeqFull
<1>9. /\ wire = <<>> /\ remaining' = <<>> /\ chunks' = <<>> /\ expected' = l
      /\ Has(s, k, j - 1, IF j = 1 THEN 0 ELSE j - 2)'
  BY <1>2, <1>3, <1>6 DEF Waits, Has
<1>10. 0 \in 0 .. Len(b) - 1 /\ SubSeq(b, 1, 0) = <<>>
  BY <1>7, SubSeqEmpty
<1>11. CASE j = 1
  <2>1. l = 0 /\ j - 1 = 0
    BY <1>7, <1>11
  <2>2. Has(s, k, j - 1, j - 1)'
    BY <1>9, <1>11, <2>1 DEF Has
  <2>3. InLine(s, k, j, 0)'
    BY <1>6, <1>9, <1>10, <2>1, <2>2 DEF InLine
  <2>4. Reads(s, k, j)'
    BY <1>6, <1>8, <1>10, <2>3 DEF Reads
  <2>. QED
    BY <1>3, <1>4, <2>4 DEF Underway
<1>12. CASE j # 1
  <2>1. l > 0
    <3>1. /\ DOMAIN s.script = 1 .. Len(s.script)
          /\ DOMAIN s.script[k].literals = 1 .. Len(s.script[k].literals)
          /\ Len(s.script[k].literals) \in Nat
      BY <1>4, ScriptType
    <3>2. j - 1 \in 1 .. Len(s.script[k].literals)
      BY <1>4, <1>12, <3>1 DEF LinesOf
    <3>3. s.script[k].literals[j - 1] > 0
      BY <1>4, <3>1, <3>2 DEF IsCareful
    <3>. QED
      BY <1>6, <1>12, <3>3 DEF BytesOf
  <2>2. Has(s, k, j - 1, j - 2)'
    BY <1>9, <1>12 DEF Has
  <2>3. InLiteral(s, k, j, 0)'
    BY <1>6, <1>7, <1>9, <1>10, <2>1, <2>2 DEF InLiteral
  <2>4. Reads(s, k, j)'
    BY <1>6, <1>8, <1>10, <2>3 DEF Reads
  <2>. QED
    BY <1>3, <1>4, <2>4 DEF Underway
<1>. QED
  BY <1>11, <1>12
(* Reading what comes next of a burst. *)
LEMMA WriteStep ==
    ASSUME NEW s \in Sessions, session = s, IsCareful(s), Underway(s),
           NEW n \in 1 .. Len(wire), Write(n)
    PROVE  AtRest(s)' \/ Underway(s)'
<1>1. PICK k \in 1 .. Len(s.script) :
         \E j \in 1 .. LinesOf(s, k) :
            ~ prompted /\ next = Following(s, k, j) /\ Reads(s, k, j)
  BY DEF Underway
<1>2. PICK j \in 1 .. LinesOf(s, k) :
         ~ prompted /\ next = Following(s, k, j) /\ Reads(s, k, j)
  BY <1>1
<1> DEFINE b == BurstOf(s, k, j)
           l == BytesOf(s, k, j)
<1>3. b = BurstOf(s, k, j) /\ l = BytesOf(s, k, j) /\ IsBurst(s, k, j, b, l)
  BY DEF IsBurst
<1>4. PICK c \in 0 .. Len(b) - 1 :
         /\ wire = SubSeq(b, c + 1, Len(b))
         /\ InLiteral(s, k, j, c) \/ InLine(s, k, j, c)
  BY <1>2 DEF Reads
<1> HIDE DEF b, l
<1>5. /\ b \in Seq(Symbol) /\ Len(b) \in Nat /\ l \in Nat /\ l + 1 < Len(b)
      /\ \A i \in 1 .. l : Kind(b[i]) = "byte"
      /\ \A i \in l + 1 .. Len(b) - 1 : Kind(b[i]) \in {"text", "size"}
      /\ Kind(b[Len(b)]) = "crlf"
      /\ j > 1 => SubSeq(b, 1, l) = LiteralOf(s, k, j - 1)
      /\ j = 1 => l = 0
  BY <1>3, BurstShape
<1>6. k \in Nat \ {0} /\ j \in Nat \ {0} /\ Len(b) \in Nat /\ l \in Nat /\ c \in Nat /\ c < Len(b)
      /\ l + 1 < Len(b)
  BY <1>4, <1>5, ScriptType
<1>7. Len(b) <= MaxLine /\ MaxLine \in Nat
  <2>1. DOMAIN s.script = 1 .. Len(s.script)
    BY ScriptType
  <2>. QED
    BY <1>3, <2>1, SessionAssumption DEF IsCareful
<1>8. /\ wire \in Seq(Symbol) /\ Len(wire) = Len(b) - c
      /\ \A x \in 1 .. Len(b) - c : wire[x] = b[c + x]
  <2>1. /\ SubSeq(b, c + 1, Len(b)) \in Seq(Symbol)
        /\ Len(SubSeq(b, c + 1, Len(b))) = IF c + 1 <= Len(b) THEN Len(b) - (c + 1) + 1 ELSE 0
        /\ \A x \in 1 .. Len(b) - (c + 1) + 1 :
              SubSeq(b, c + 1, Len(b))[x] = b[(c + 1) + x - 1]
    <3>1. c + 1 \in Nat \ {0} /\ Len(b) <= Len(b)
      BY <1>6
    <3>. QED
      BY <1>5, <3>1, Piece
  <2>2. Len(b) - (c + 1) + 1 = Len(b) - c /\ c + 1 <= Len(b)
    BY <1>6
  <2>3. \A x \in 1 .. Len(b) - c : (c + 1) + x - 1 = c + x
    BY <1>6
  <2>4. ASSUME NEW x \in 1 .. Len(b) - c PROVE wire[x] = b[c + x]
    BY <1>4, <2>1, <2>2, <2>3
  <2>. QED
    BY <1>4, <2>1, <2>2, <2>4
<1> DEFINE e == c + n
<1>9. n \in Nat \ {0} /\ n <= Len(b) - c /\ e \in Nat /\ c < e /\ e <= Len(b) /\ e = c + n
  BY <1>6, <1>8
<1> HIDE DEF e
<1>10. SubSeq(wire, 1, n) = SubSeq(b, c + 1, e)
  <2>1. /\ c + 1 \in Nat \ {0} /\ Len(b) <= Len(b) /\ 1 \in Nat \ {0} /\ n \in Nat
        /\ (c + 1) + n - 1 <= Len(b)
    BY <1>6, <1>9
  <2>2. SubSeq(SubSeq(b, c + 1, Len(b)), 1, n) = SubSeq(b, (c + 1) + 1 - 1, (c + 1) + n - 1)
    BY <1>5, <2>1, PieceOfPiece
  <2>3. (c + 1) + 1 - 1 = c + 1 /\ (c + 1) + n - 1 = e
    BY <1>6, <1>9
  <2>. QED
    BY <1>4, <2>2, <2>3
<1>11. wire' = SubSeq(b, e + 1, Len(b))
  <2>1. wire' = SubSeq(wire, n + 1, Len(wire))
    BY DEF Write
  <2>2. /\ c + 1 \in Nat \ {0} /\ Len(b) <= Len(b) /\ n + 1 \in Nat \ {0} /\ Len(b) - c \in Nat
        /\ (c + 1) + (Len(b) - c) - 1 <= Len(b)
    BY <1>6, <1>9
  <2>3. SubSeq(SubSeq(b, c + 1, Len(b)), n + 1, Len(b) - c)
          = SubSeq(b, (c + 1) + (n + 1) - 1, (c + 1) + (Len(b) - c) - 1)
    BY <1>5, <2>2, PieceOfPiece
  <2>4. (c + 1) + (n + 1) - 1 = e + 1 /\ (c + 1) + (Len(b) - c) - 1 = Len(b)
    BY <1>6, <1>9
  <2>. QED
    BY <1>4, <1>8, <2>1, <2>3, <2>4
<1>12. \/ Len(remaining \o SubSeq(wire, 1, n)) > MaxLine /\ TooLong
       \/ /\ Len(remaining \o SubSeq(wire, 1, n)) <= MaxLine /\ expected > 0
          /\ ReadLiteral(remaining \o SubSeq(wire, 1, n))
       \/ /\ Len(remaining \o SubSeq(wire, 1, n)) <= MaxLine /\ expected = 0
          /\ ReadLine(remaining \o SubSeq(wire, 1, n), command.literals, chunks)
  BY DEF Write
<1>13. ASSUME e > l, NEW data, IsRead(b, l, e, data),
              ReadLine(data, FirstLiterals(s, k, j - 1), <<>>),
              NEW i \in Nat, Has(s, k, j - 1, i)
       PROVE  AtRest(s)' \/ Underway(s)'
  <2>1. e \in l + 1 .. Len(b)
    BY <1>6, <1>9, <1>13
  <2>. QED
    BY <1>2, <1>3, <1>11, <1>13, <2>1, LineRead
<1>14. ASSUME InLiteral(s, k, j, c) PROVE AtRest(s)' \/ Underway(s)'
  <2> DEFINE data == SubSeq(b, c + 1, e)
  <2>1. /\ c < l /\ expected = l - c /\ chunks = SubSeq(b, 1, c) /\ remaining = <<>>
        /\ Has(s, k, j - 1, j - 2)
    BY <1>3, <1>14 DEF InLiteral
  <2>2. j > 1
    BY <1>5, <1>6, <2>1
  <2>3. data \in Seq(Symbol) /\ Len(data) = n
    <3>1. c + 1 \in Nat \ {0} /\ c + 1 <= e /\ e - (c + 1) + 1 = n
      BY <1>6, <1>9
    <3>. QED
      BY <1>5, <1>9, <3>1, Piece
  <2>4. remaining \o SubSeq(wire, 1, n) = data
    BY <1>10, <2>1, <2>3, ConcatEmptySeq
  <2> HIDE DEF data
  <2>5. ReadLiteral(data)
    <3>1. ~ (Len(data) > MaxLine) /\ expected # 0
      BY <1>6, <1>7, <1>9, <2>1, <2>3
    <3>. QED
      BY <1>12, <2>4, <3>1
  <2>6. CASE e > l
    <3>1. Len(data) > expected
      BY <1>6, <1>9, <2>1, <2>3, <2>6
    <3>2. ReadLine(SubSeq(data, expected + 1, Len(data)),
                   Append(command.literals, chunks \o SubSeq(data, 1, expected)), <<>>)
      BY <2>5, <3>1 DEF ReadLiteral
    <3>3. SubSeq(data, expected + 1, Len(data)) = SubSeq(b, l + 1, e)
      <4>1. /\ c + 1 \in Nat \ {0} /\ (l - c) + 1 \in Nat \ {0} /\ (c + 1) + n - 1 <= e
        BY <1>6, <1>9, <2>1
      <4>2. SubSeq(SubSeq(b, c + 1, e), (l - c) + 1, n)
              = SubSeq(b, (c + 1) + ((l - c) + 1) - 1, (c + 1) + n - 1)
        BY <1>5, <1>9, <4>1, PieceOfPiece
      <4>3. (c + 1) + ((l - c) + 1) - 1 = l + 1 /\ (c + 1) + n - 1 = e
        BY <1>6, <1>9
      <4>. QED
        BY <2>1, <2>3, <4>2, <4>3 DEF data
    <3>4. chunks \o SubSeq(data, 1, expected) = LiteralOf(s, k, j - 1)
      <4>1. /\ c + 1 \in Nat \ {0} /\ l - c \in Nat /\ 1 \in Nat \ {0}
            /\ (c + 1) + (l - c) - 1 <= e /\ 1 <= c + 1 /\ c <= l /\ l <= Len(b)
        BY <1>6, <1>9, <2>1, <2>6
      <4>2. SubSeq(SubSeq(b, c + 1, e), 1, l - c)
              = SubSeq(b, (c + 1) + 1 - 1, (c + 1) + (l - c) - 1)
        BY <1>5, <1>9, <4>1, PieceOfPiece
      <4>3. (c + 1) + 1 - 1 = c + 1 /\ (c + 1) + (l - c) - 1 = l
        BY <1>6, <1>9
      <4>4. SubSeq(data, 1, expected) = SubSeq(b, c + 1, l)
        BY <2>1, <4>2, <4>3 DEF data
      <4>5. SubSeq(b, 1, c) \o SubSeq(b, c + 1, l) = SubSeq(b, 1, l)
        BY <1>5, <1>6, <4>1, Joined
      <4>. QED
        BY <1>5, <2>1, <2>2, <4>4, <4>5
    <3>5. Append(command.literals, LiteralOf(s, k, j - 1)) = FirstLiterals(s, k, j - 1)
      <4>1. j - 2 \in Nat /\ (j - 2) + 1 = j - 1
        BY <1>6, <2>2
      <4>2. command.literals = FirstLiterals(s, k, j - 2)
        BY <2>1 DEF Has
      <4>. QED
        BY <4>1, <4>2, OneMoreLiteral
    <3>6. ReadLine(SubSeq(b, l + 1, e), FirstLiterals(s, k, j - 1), <<>>)
      BY <3>2, <3>3, <3>4, <3>5
    <3>7. IsRead(b, l, e, SubSeq(b, l + 1, e)) /\ j - 2 \in Nat
      BY <1>6, <2>2 DEF IsRead
    <3>. QED
      BY <1>13, <2>1, <2>6, <3>6, <3>7
  <2>7. CASE e <= l
    <3>1. e # l
      <4>1. Cut(n) /\ ~ s.cutAfterLiteral
        BY DEF Write, IsCareful
      <4>2. SUFFICES ASSUME e = l PROVE FALSE
        OBVIOUS
      <4>3. /\ n \in 1 .. Len(b) - c /\ n + 1 \in 1 .. Len(b) - c
            /\ c + n = l /\ c + (n + 1) = l + 1 /\ n # Len(b) - c
            /\ l \in 1 .. l /\ l + 1 \in l + 1 .. Len(b) - 1
        BY <1>6, <1>9, <2>1, <4>2
      <4>4. wire[n] = b[l] /\ wire[n + 1] = b[l + 1]
        BY <1>8, <4>3
      <4>5. Kind(b[l]) = "byte" /\ Kind(b[l + 1]) # "byte"
        BY <1>5, <4>3
      <4>. QED
        BY <1>8, <4>1, <4>3, <4>4, <4>5 DEF Cut
    <3>2. ~ (Len(data) > expected)
      BY <1>6, <1>9, <2>1, <2>3, <2>7
    <3>3. /\ expected' = expected - Len(data) /\ chunks' = chunks \o data /\ remaining' = <<>>
          /\ UNCHANGED <<next, prompted, command, finished>>
      BY <2>5, <3>2 DEF ReadLiteral
    <3>4. expected' = l - e
      BY <1>6, <1>9, <2>1, <2>3, <3>3
    <3>5. chunks' = SubSeq(b, 1, e)
      <4>1. 1 \in Nat \ {0} /\ 1 <= c + 1 /\ c <= e
        BY <1>6, <1>9
      <4>2. SubSeq(b, 1, c) \o SubSeq(b, c + 1, e) = SubSeq(b, 1, e)
        BY <1>5, <1>6, <1>9, <4>1, Joined
      <4>. QED
        BY <2>1, <3>3, <4>2 DEF data
    <3>6. Has(s, k, j - 1, j - 2)'
      BY <2>1, <3>3 DEF Has
    <3>7. e < l /\ e \in 0 .. Len(b) - 1
      BY <1>6, <1>9, <2>7, <3>1
    <3>8. InLiteral(s, k, j, e)'
      BY <1>3, <3>3, <3>4, <3>5, <3>6, <3>7 DEF InLiteral
    <3>9. Reads(s, k, j)'
      BY <1>3, <1>11, <3>7, <3>8 DEF Reads
    <3>. QED
      BY <1>2, <3>3, <3>9 DEF Underway
  <2>. QED
    BY <1>6, <1>9, <2>6, <2>7
<1>15. ASSUME InLine(s, k, j, c) PROVE AtRest(s)' \/ Underway(s)'
  <2> DEFINE data == SubSeq(b, l + 1, e)
  <2>1. /\ l <= c /\ expected = 0 /\ chunks = <<>> /\ remaining = SubSeq(b, l + 1, c)
        /\ Has(s, k, j - 1, j - 1)
    BY <1>3, <1>15 DEF InLine
  <2>2. remaining \o SubSeq(wire, 1, n) = data
    <3>1. l + 1 \in Nat \ {0} /\ l + 1 <= c + 1 /\ c <= e
      BY <1>6, <1>9, <2>1
    <3>. QED
      BY <1>5, <1>6, <1>9, <1>10, <2>1, <3>1, Joined
  <2>3. Len(data) = e - l
    <3>1. l + 1 \in Nat \ {0} /\ l + 1 <= e /\ e - (l + 1) + 1 = e - l
      BY <1>6, <1>9, <2>1
    <3>. QED
      BY <1>5, <1>9, <3>1, Piece
  <2>4. IsRead(b, l, e, data)
    BY DEF IsRead
  <2> HIDE DEF data
  <2>5. ~ (Len(data) > MaxLine)
    BY <1>6, <1>7, <1>9, <2>3
  <2>6. ReadLine(data, command.literals, chunks)
    <3>1. ~ (expected > 0)
      BY <2>1
    <3>. QED
      BY <1>12, <2>2, <2>5, <3>1
  <2>7. command.literals = FirstLiterals(s, k, j - 1)
    BY <2>1 DEF Has
  <2>8. ReadLine(data, FirstLiterals(s, k, j - 1), <<>>)
    BY <2>1, <2>6, <2>7
  <2>9. j - 1 \in Nat /\ e > l
    BY <1>6, <1>9, <2>1
  <2>. QED
    BY <1>13, <2>1, <2>4, <2>8, <2>9
<1>. QED
  BY <1>4, <1>14, <1>15

-----------------------------------------------------------------------------
(* Theorems *)

(* The session never changes, and whatever a careful client sends, the server *)
(* has read all of its commands up to where the client is in its script.      *)
LEMMA LockstepInvariance == Spec => []LockstepInv
<1>1. Init => LockstepInv
  <2> SUFFICES ASSUME Init PROVE LockstepInv
    OBVIOUS
  <2>1. PICK t \in Sessions : session = t
    BY DEF Init
  <2>2. Waits(t, 1, 1)
    BY DEF Init, Waits, Has, BytesOf, NoCommand, FirstLines, FirstLiterals
  <2>3. /\ 1 \in 1 .. Len(t.script) + 1
        /\ 1 \in 1 .. IF 1 > Len(t.script) THEN 1 ELSE LinesOf(t, 1)
    <3>1. Len(t.script) \in Nat
      BY SessionAssumption
    <3>2. CASE 1 > Len(t.script)
      BY <3>1, <3>2
    <3>3. CASE ~ (1 > Len(t.script))
      <4>1. 1 \in 1 .. Len(t.script)
        BY <3>1, <3>3
      <4>2. LinesOf(t, 1) \in Nat \ {0}
        BY <4>1, ScriptType
      <4>. QED
        BY <3>1, <3>3, <4>2
    <3>. QED
      BY <3>2, <3>3
  <2>4. AtRest(t)
    BY <2>2, <2>3 DEF AtRest, Init
  <2>. QED
    BY <2>1, <2>4 DEF LockstepInv
<1>2. LockstepInv /\ [Next]_vars => LockstepInv'
  <2> SUFFICES ASSUME LockstepInv, [Next]_vars PROVE LockstepInv'
    OBVIOUS
  <2>1. PICK s \in Sessions : session = s /\ (IsCareful(s) => AtRest(s) \/ Underway(s))
    BY DEF LockstepInv
  <2>2. session' = s
    BY <2>1 DEF Next, Send, Write, vars
  <2>3. ASSUME IsCareful(s) PROVE AtRest(s)' \/ Underway(s)'
    <3>1. CASE AtRest(s)
      <4>1. wire = <<>>
        BY <3>1 DEF AtRest, Waits
      <4>2. ASSUME Send PROVE Underway(s)'
        BY <2>1, <2>3, <3>1, <4>2, SendStep
      <4>3. ASSUME NEW n \in 1 .. Len(wire), Write(n) PROVE FALSE
        BY <4>1, <4>3
      <4>4. ASSUME UNCHANGED vars PROVE AtRest(s)'
        BY <3>1, <4>4 DEF AtRest, Waits, Has, vars, server
      <4>. QED
        BY <4>2, <4>3, <4>4 DEF Next
    <3>2. CASE Underway(s)
      <4>1. ~ prompted
        BY <3>2 DEF Underway
      <4>2. ASSUME Send PROVE FALSE
        BY <2>1, <2>3, <4>1, <4>2 DEF Send, IsCareful
      <4>3. ASSUME NEW n \in 1 .. Len(wire), Write(n) PROVE AtRest(s)' \/ Underway(s)'
        BY <2>1, <2>3, <3>2, <4>3, WriteStep
      <4>4. ASSUME UNCHANGED vars PROVE Underway(s)'
        <5>1. PICK k \in 1 .. Len(s.script) : \E j \in 1 .. LinesOf(s, k) :
                 ~ prompted /\ next = Following(s, k, j) /\ Reads(s, k, j)
          BY <3>2 DEF Underway
        <5>2. PICK j \in 1 .. LinesOf(s, k) :
                 ~ prompted /\ next = Following(s, k, j) /\ Reads(s, k, j)
          BY <5>1
        <5>3. Reads(s, k, j)'
          BY <4>4, <5>2 DEF Reads, InLiteral, InLine, Has, vars, server
        <5>. QED
          BY <4>4, <5>2, <5>3 DEF Underway, vars
      <4>. QED
        BY <4>2, <4>3, <4>4 DEF Next
    <3>. QED
      BY <2>1, <2>3, <3>1, <3>2
  <2>. QED
    BY <2>2, <2>3 DEF LockstepInv
<1>. QED
  BY <1>1, <1>2, PTL DEF Spec

(* What the server hands on of a careful client's commands is what it sent,    *)
(* wherever TCP cuts the stream, except where a literal ends.                *)
THEOREM Extracted == Spec => []ExtractedAsSent
<1>1. LockstepInv => ExtractedAsSent
  <2> SUFFICES ASSUME LockstepInv, Careful PROVE AsSent
    BY DEF ExtractedAsSent
  <2>1. PICK s \in Sessions : session = s /\ (IsCareful(s) => AtRest(s) \/ Underway(s))
    BY DEF LockstepInv
  <2>2. \A k : Lines(k) = LinesOf(s, k) /\ \A j : Burst(k, j) = BurstOf(s, k, j)
    BY <2>1, OfSession
  <2>3. IsCareful(s)
    BY <2>1, <2>2 DEF Careful, IsCareful, Script
  <2>4. PICK n \in 0 .. Len(s.script) : finished = [i \in 1 .. n |-> MeantOf(s, i)]
    <3>1. Len(s.script) \in Nat
      BY SessionAssumption
    <3>2. \E k \in 1 .. Len(s.script) + 1 : finished = [i \in 1 .. k - 1 |-> MeantOf(s, i)]
      <4>1. CASE AtRest(s)
        BY <4>1 DEF AtRest, Waits, Has
      <4>2. CASE Underway(s)
        <5>1. PICK k \in 1 .. Len(s.script) : \E j \in 1 .. LinesOf(s, k) : Reads(s, k, j)
          BY <4>2 DEF Underway
        <5>2. finished = [i \in 1 .. k - 1 |-> MeantOf(s, i)]
          BY <5>1 DEF Reads, InLiteral, InLine, Has
        <5>. QED
          BY <3>1, <5>2
      <4>. QED
        BY <2>1, <2>3, <4>1, <4>2
    <3>3. PICK k \in 1 .. Len(s.script) + 1 : finished = [i \in 1 .. k - 1 |-> MeantOf(s, i)]
      BY <3>2
    <3>4. k - 1 \in 0 .. Len(s.script)
      BY <3>1
    <3>. QED
      BY <3>3, <3>4
  <2>5. DOMAIN finished = 1 .. n /\ \A k \in 1 .. n : finished[k] = MeantOf(s, k)
    BY <2>4
  <2>6. \A k \in 1 .. n : k <= Len(s.script)
    BY SessionAssumption
  <2>7. \A k : Meant(k) = MeantOf(s, k)
    BY <2>1, OfSession
  <2>. QED
    BY <2>1, <2>5, <2>6, <2>7 DEF AsSent, Script
<1>. QED
  BY <1>1, LockstepInvariance, PTL
-----------------------------------------------------------------------------
(* No symbol is used twice *)

(* The symbols of a sequence, and of a command. *)
In(q) == {q[x] : x \in DOMAIN q}
InAll(g) == UNION {In(g[p]) : p \in DOMAIN g}
Held(cmd) == InAll(cmd.lines) \cup InAll(cmd.literals)
Done(f) == UNION {Held(f[i]) : i \in DOMAIN f}

(* A sequence without repetitions; sequences that share nothing. *)
Once(q) == \A x, y \in DOMAIN q : q[x] = q[y] => x = y
Apart(g) ==
    /\ \A p \in DOMAIN g : Once(g[p])
    /\ \A p, q \in DOMAIN g : p # q => In(g[p]) \cap In(g[q]) = {}
Whole(cmd) ==
    /\ Apart(cmd.lines) /\ Apart(cmd.literals)
    /\ InAll(cmd.lines) \cap InAll(cmd.literals) = {}

(* The symbols of the bursts before line n[2] of command n[1]. *)
Line(y) == IF Kind(y) = "byte" THEN y[3] + 1 ELSE y[3]
Before(y, n) == y[2] < n[1] \/ (y[2] = n[1] /\ Line(y) < n[2])

(* Commands handed on, f; the current one, m; the chunks kept, h; and what of  *)
(* the stream is not yet used, t, by a client that sends burst n next: they    *)
(* share nothing.                                                            *)
Sound(f, m, h, t, n) ==
    /\ f \in Seq(CommandType) /\ m \in CommandType
    /\ h \in Seq(Symbol) /\ t \in Seq(Symbol) /\ n \in Nat \X Nat
    /\ \A i \in DOMAIN f : Whole(f[i])
    /\ \A i, j \in DOMAIN f : i # j => Held(f[i]) \cap Held(f[j]) = {}
    /\ Whole(m) /\ Once(h) /\ Once(t)
    /\ Done(f) \cap Held(m) = {} /\ Done(f) \cap In(h) = {} /\ Done(f) \cap In(t) = {}
    /\ Held(m) \cap In(h) = {} /\ Held(m) \cap In(t) = {} /\ In(h) \cap In(t) = {}
    /\ \A y \in Done(f) \cup Held(m) \cup In(h) \cup In(t) : Before(y, n)

(* Where the client may be in the script of session s. *)
NextOf(s, n) ==
    /\ n \in Nat \X Nat
    /\ n[1] \in 1 .. Len(s.script) + 1
    /\ n[2] \in 1 .. IF n[1] > Len(s.script) THEN 1 ELSE LinesOf(s, n[1])

(* What is kept and what is to come, however it got there. *)
OnceInv ==
    \E s \in Sessions :
        /\ session = s
        /\ NextOf(s, next)
        /\ prompted \in BOOLEAN /\ expected \in Nat
        /\ remaining \in Seq(Symbol) /\ Len(remaining) <= MaxLine /\ wire \in Seq(Symbol)
        /\ Sound(finished, command, chunks, remaining \o wire, next)

(* A sequence made of two has what they have. *)
LEMMA BothIn ==
    ASSUME NEW S, NEW a \in Seq(S), NEW b \in Seq(S)
    PROVE  In(a \o b) = In(a) \cup In(b)
<1>1. /\ Len(a) \in Nat /\ Len(b) \in Nat
      /\ DOMAIN a = 1 .. Len(a) /\ DOMAIN b = 1 .. Len(b)
      /\ DOMAIN (a \o b) = 1 .. Len(a) + Len(b)
      /\ \A x \in 1 .. Len(a) + Len(b) :
            (a \o b)[x] = IF x <= Len(a) THEN a[x] ELSE b[x - Len(a)]
  BY ConcatProperties, LenProperties
<1>2. ASSUME NEW x \in DOMAIN (a \o b) PROVE (a \o b)[x] \in In(a) \cup In(b)
  <2>1. CASE x <= Len(a)
    BY <1>1, <2>1 DEF In
  <2>2. CASE ~ (x <= Len(a))
    <3>1. x - Len(a) \in DOMAIN b /\ (a \o b)[x] = b[x - Len(a)]
      BY <1>1, <2>2
    <3>. QED
      BY <3>1 DEF In
  <2>. QED
    BY <2>1, <2>2
<1>3. ASSUME NEW x \in DOMAIN a PROVE a[x] \in In(a \o b)
  <2>1. x \in DOMAIN (a \o b) /\ (a \o b)[x] = a[x]
    BY <1>1
  <2>. QED
    BY <2>1 DEF In
<1>4. ASSUME NEW x \in DOMAIN b PROVE b[x] \in In(a \o b)
  <2>1. /\ x + Len(a) \in DOMAIN (a \o b) /\ ~ (x + Len(a) <= Len(a))
        /\ (x + Len(a)) - Len(a) = x
    BY <1>1
  <2>2. (a \o b)[x + Len(a)] = b[x]
    BY <1>1, <2>1
  <2>. QED
    BY <2>1, <2>2 DEF In
<1>. QED
  BY <1>2, <1>3, <1>4 DEF In

(* A sequence made of two repeats nothing if they do not and share nothing. *)
LEMMA BothOnce ==
    ASSUME NEW S, NEW a \in Seq(S), NEW b \in Seq(S)
    PROVE  Once(a \o b) <=> Once(a) /\ Once(b) /\ In(a) \cap In(b) = {}
<1> DEFINE t == a \o b
           n == Len(a)
           m == Len(b)
<1>1. /\ n \in Nat /\ m \in Nat
      /\ DOMAIN a = 1 .. n /\ DOMAIN b = 1 .. m /\ DOMAIN t = 1 .. n + m
      /\ \A x \in 1 .. n + m : t[x] = IF x <= n THEN a[x] ELSE b[x - n]
  BY ConcatProperties, LenProperties
<1> HIDE DEF t, n, m
<1>2. \A x \in 1 .. n : x \in 1 .. n + m /\ t[x] = a[x]
  BY <1>1
<1>3. \A x \in 1 .. m : n + x \in 1 .. n + m /\ t[n + x] = b[x]
  <2> SUFFICES ASSUME NEW x \in 1 .. m PROVE n + x \in 1 .. n + m /\ t[n + x] = b[x]
    OBVIOUS
  <2>1. n + x \in 1 .. n + m /\ ~ (n + x <= n) /\ (n + x) - n = x
    BY <1>1
  <2>. QED
    BY <1>1, <2>1
<1>4. ASSUME Once(t) PROVE Once(a) /\ Once(b) /\ In(a) \cap In(b) = {}
  <2>1. Once(a)
    BY <1>1, <1>2, <1>4 DEF Once
  <2>2. ASSUME NEW x \in 1 .. m, NEW y \in 1 .. m, b[x] = b[y] PROVE x = y
    <3>1. n + x = n + y
      BY <1>1, <1>3, <1>4, <2>2 DEF Once
    <3>. QED
      BY <1>1, <3>1
  <2>3. ASSUME NEW x \in 1 .. n, NEW y \in 1 .. m, a[x] = b[y] PROVE FALSE
    <3>1. x = n + y
      BY <1>1, <1>2, <1>3, <1>4, <2>3 DEF Once
    <3>. QED
      BY <1>1, <3>1
  <2>. QED
    BY <1>1, <2>1, <2>2, <2>3 DEF Once, In
<1>5. ASSUME Once(a), Once(b), In(a) \cap In(b) = {} PROVE Once(t)
  <2> SUFFICES ASSUME NEW x \in 1 .. n + m, NEW y \in 1 .. n + m, t[x] = t[y] PROVE x = y
    BY <1>1 DEF Once
  <2>1. CASE x <= n /\ y <= n
    BY <1>1, <1>5, <2>1 DEF Once
  <2>2. CASE ~ (x <= n) /\ ~ (y <= n)
    <3>1. x - n \in 1 .. m /\ y - n \in 1 .. m
      BY <1>1, <2>2
    <3>2. b[x - n] = b[y - n]
      BY <1>1, <2>2
    <3>3. x - n = y - n
      BY <1>1, <1>5, <3>1, <3>2 DEF Once
    <3>. QED
      BY <1>1, <3>3
  <2>3. CASE x <= n /\ ~ (y <= n)
    <3>1. x \in 1 .. n /\ y - n \in 1 .. m /\ a[x] = b[y - n]
      BY <1>1, <2>3
    <3>. QED
      BY <1>1, <1>5, <3>1 DEF In
  <2>4. CASE ~ (x <= n) /\ y <= n
    <3>1. y \in 1 .. n /\ x - n \in 1 .. m /\ a[y] = b[x - n]
      BY <1>1, <2>4
    <3>. QED
      BY <1>1, <1>5, <3>1 DEF In
  <2>. QED
    BY <2>1, <2>2, <2>3, <2>4
<1>. QED
  BY <1>4, <1>5 DEF t

(* A sequence of sequences with one more. *)
LEMMA MoreApart ==
    ASSUME NEW S, NEW g \in Seq(Seq(S)), NEW q \in Seq(S)
    PROVE  /\ InAll(Append(g, q)) = InAll(g) \cup In(q)
           /\ Apart(g) /\ Once(q) /\ InAll(g) \cap In(q) = {} => Apart(Append(g, q))
<1> DEFINE r == Append(g, q)
           n == Len(g)
<1>1. /\ n \in Nat /\ DOMAIN g = 1 .. n /\ DOMAIN r = 1 .. n + 1
      /\ \A p \in 1 .. n : r[p] = g[p]
      /\ r[n + 1] = q
  BY AppendProperties, LenProperties
<1> HIDE DEF r, n
<1>2. \A p \in 1 .. n + 1 : p = n + 1 \/ p \in 1 .. n
  BY <1>1
<1>3. \A p \in 1 .. n : p \in 1 .. n + 1 /\ p # n + 1
  BY <1>1
<1>4. n + 1 \in 1 .. n + 1
  BY <1>1
<1>5. InAll(r) = InAll(g) \cup In(q)
  <2>1. \A y : y \in InAll(r) <=> \E p \in 1 .. n + 1 : y \in In(r[p])
    BY <1>1 DEF InAll
  <2>2. \A y : y \in InAll(g) <=> \E p \in 1 .. n : y \in In(g[p])
    BY <1>1 DEF InAll
  <2>. QED
    BY <1>1, <1>2, <1>3, <1>4, <2>1, <2>2
<1>6. ASSUME Apart(g), Once(q), InAll(g) \cap In(q) = {} PROVE Apart(r)
  <2>1. ASSUME NEW p \in 1 .. n + 1 PROVE Once(r[p])
    BY <1>1, <1>2, <1>6 DEF Apart
  <2>2. \A p \in 1 .. n : In(g[p]) \cap In(q) = {}
    BY <1>1, <1>6 DEF InAll
  <2>3. ASSUME NEW p \in 1 .. n + 1, NEW o \in 1 .. n + 1, p # o PROVE In(r[p]) \cap In(r[o]) = {}
    <3>1. CASE p \in 1 .. n /\ o \in 1 .. n
      BY <1>1, <1>6, <2>3, <3>1 DEF Apart
    <3>2. CASE p = n + 1 /\ o \in 1 .. n
      BY <1>1, <2>2, <3>2
    <3>3. CASE p \in 1 .. n /\ o = n + 1
      BY <1>1, <2>2, <3>3
    <3>. QED
      BY <1>2, <2>3, <3>1, <3>2, <3>3
  <2>. QED
    BY <1>1, <2>1, <2>3 DEF Apart
<1>. QED
  BY <1>5, <1>6 DEF r

(* A command with one more line, or one more literal. *)
LEMMA CommandGrows ==
    ASSUME NEW m \in CommandType, NEW q \in Seq(Symbol), Whole(m), Once(q), Held(m) \cap In(q) = {}
    PROVE  /\ [lines |-> Append(m.lines, q), literals |-> m.literals] \in CommandType
           /\ Held([lines |-> Append(m.lines, q), literals |-> m.literals]) = Held(m) \cup In(q)
           /\ Whole([lines |-> Append(m.lines, q), literals |-> m.literals])
           /\ [lines |-> m.lines, literals |-> Append(m.literals, q)] \in CommandType
           /\ Held([lines |-> m.lines, literals |-> Append(m.literals, q)]) = Held(m) \cup In(q)
           /\ Whole([lines |-> m.lines, literals |-> Append(m.literals, q)])
<1>1. /\ m.lines \in Seq(Seq(Symbol)) /\ m.literals \in Seq(Seq(Symbol))
      /\ m = [lines |-> m.lines, literals |-> m.literals]
  BY DEF CommandType, Symbols, Symbol, Kinds
<1>2. /\ Apart(m.lines) /\ Apart(m.literals) /\ InAll(m.lines) \cap InAll(m.literals) = {}
      /\ InAll(m.lines) \cap In(q) = {} /\ InAll(m.literals) \cap In(q) = {}
  BY DEF Whole, Held
<1> DEFINE a == Append(m.lines, q)
           b == Append(m.literals, q)
           ml == [lines |-> a, literals |-> m.literals]
           mb == [lines |-> m.lines, literals |-> b]
<1>3. a \in Seq(Seq(Symbol)) /\ InAll(a) = InAll(m.lines) \cup In(q) /\ Apart(a)
  BY <1>1, <1>2, MoreApart, AppendProperties
<1>4. b \in Seq(Seq(Symbol)) /\ InAll(b) = InAll(m.literals) \cup In(q) /\ Apart(b)
  BY <1>1, <1>2, MoreApart, AppendProperties
<1> HIDE DEF a, b
<1>5. ml = [lines |-> a, literals |-> m.literals] /\ mb = [lines |-> m.lines, literals |-> b]
  OBVIOUS
<1> HIDE DEF ml, mb
<1>6. ml.lines = a /\ ml.literals = m.literals /\ mb.lines = m.lines /\ mb.literals = b
  BY <1>5
<1>7. ml \in CommandType /\ mb \in CommandType
  BY <1>1, <1>3, <1>4, <1>5 DEF CommandType, Symbols, Symbol, Kinds
<1>8. Held(ml) = Held(m) \cup In(q) /\ Whole(ml)
  BY <1>2, <1>3, <1>6 DEF Held, Whole
<1>9. Held(mb) = Held(m) \cup In(q) /\ Whole(mb)
  BY <1>2, <1>4, <1>6 DEF Held, Whole
<1>. QED
  BY <1>7, <1>8, <1>9 DEF ml, mb, a, b

(* Some of what is not yet used goes; *)
LEMMA Dropped ==
    ASSUME NEW f, NEW m, NEW h, NEW n, NEW a \in Seq(Symbol), NEW b \in Seq(Symbol),
           Sound(f, m, h, a \o b, n)
    PROVE  Sound(f, m, h, b, n)
<1>1. In(a \o b) = In(a) \cup In(b) /\ (Once(a \o b) => Once(b))
  BY BothIn, BothOnce
<1>. QED
  BY <1>1 DEF Sound

(* or goes to the chunks; *)
LEMMA Chunked ==
    ASSUME NEW f, NEW m, NEW h, NEW n, NEW a \in Seq(Symbol), NEW b \in Seq(Symbol),
           Sound(f, m, h, a \o b, n)
    PROVE  Sound(f, m, h \o a, b, n)
<1>0. h \in Seq(Symbol)
  BY DEF Sound
<1>1. In(a \o b) = In(a) \cup In(b) /\ (Once(a \o b) => Once(a) /\ Once(b) /\ In(a) \cap In(b) = {})
  BY BothIn, BothOnce
<1>2. /\ In(h \o a) = In(h) \cup In(a) /\ h \o a \in Seq(Symbol)
      /\ Once(h) /\ Once(a) /\ In(h) \cap In(a) = {} => Once(h \o a)
  BY <1>0, BothIn, BothOnce, ConcatProperties
<1>3. Once(h) /\ Once(a \o b) /\ In(h) \cap In(a \o b) = {}
  BY DEF Sound
<1>4. /\ Once(h \o a) /\ Once(b) /\ In(h \o a) \cap In(b) = {}
      /\ In(a) \subseteq In(a \o b) /\ In(b) \subseteq In(a \o b)
  BY <1>1, <1>2, <1>3
<1>. QED
  BY <1>1, <1>2, <1>4 DEF Sound

(* or becomes a line; *)
LEMMA LineTaken ==
    ASSUME NEW f, NEW m, NEW h, NEW n, NEW a \in Seq(Symbol), NEW b \in Seq(Symbol),
           Sound(f, m, h, a \o b, n)
    PROVE  Sound(f, [lines |-> Append(m.lines, a), literals |-> m.literals], h, b, n)
<1>1. In(a \o b) = In(a) \cup In(b) /\ (Once(a \o b) => Once(a) /\ Once(b) /\ In(a) \cap In(b) = {})
  BY BothIn, BothOnce
<1>2. m \in CommandType /\ Whole(m) /\ Once(a \o b) /\ Held(m) \cap In(a \o b) = {}
  BY DEF Sound
<1>3. Held(m) \cap In(a) = {} /\ Once(a)
  BY <1>1, <1>2
<1> DEFINE ml == [lines |-> Append(m.lines, a), literals |-> m.literals]
<1>4. ml \in CommandType /\ Held(ml) = Held(m) \cup In(a) /\ Whole(ml)
  BY <1>2, <1>3, CommandGrows
<1> HIDE DEF ml
<1>5. Sound(f, ml, h, b, n)
  BY <1>1, <1>4 DEF Sound
<1>. QED
  BY <1>5 DEF ml

(* or a literal, together with the chunks. *)
LEMMA LiteralTaken ==
    ASSUME NEW f, NEW m, NEW h, NEW n, NEW b, Sound(f, m, h, b, n)
    PROVE  Sound(f, [lines |-> m.lines, literals |-> Append(m.literals, h)], <<>>, b, n)
<1>1. m \in CommandType /\ h \in Seq(Symbol) /\ Whole(m) /\ Once(h) /\ Held(m) \cap In(h) = {}
  BY DEF Sound
<1> DEFINE ml == [lines |-> m.lines, literals |-> Append(m.literals, h)]
<1>2. ml \in CommandType /\ Held(ml) = Held(m) \cup In(h) /\ Whole(ml)
  BY <1>1, CommandGrows
<1>3. <<>> \in Seq(Symbol) /\ In(<<>>) = {} /\ Once(<<>>)
  BY DEF In, Once
<1> HIDE DEF ml
<1>4. Sound(f, ml, <<>>, b, n)
  BY <1>2, <1>3 DEF Sound
<1>. QED
  BY <1>4 DEF ml

(* The current command is dropped, and the chunks with it or not. *)
LEMMA CommandDropped ==
    ASSUME NEW f, NEW m, NEW h, NEW b, NEW n, Sound(f, m, h, b, n)
    PROVE  Sound(f, NoCommand, h, b, n) /\ Sound(f, NoCommand, <<>>, b, n)
<1>1. <<>> \in Seq(Symbol) /\ In(<<>>) = {} /\ Once(<<>>)
  BY DEF In, Once
<1>2. NoCommand \in CommandType
  BY DEF NoCommand, CommandType, Symbols
<1>3. NoCommand.lines = <<>> /\ NoCommand.literals = <<>>
  BY DEF NoCommand
<1>4. InAll(<<>>) = {} /\ Apart(<<>>)
  BY DEF InAll, Apart
<1>5. Held(NoCommand) = {} /\ Whole(NoCommand)
  BY <1>3, <1>4 DEF Held, Whole
<1> HIDE DEF NoCommand
<1>. QED
  BY <1>1, <1>2, <1>5 DEF Sound

(* The current command is handed on. *)
LEMMA CommandDone ==
    ASSUME NEW f, NEW m, NEW h, NEW b, NEW n, Sound(f, m, h, b, n)
    PROVE  Sound(Append(f, m), NoCommand, h, b, n)
<1> DEFINE g == Append(f, m)
           z == Len(f)
<1>1. f \in Seq(CommandType) /\ m \in CommandType
  BY DEF Sound
<1>2. /\ z \in Nat /\ DOMAIN f = 1 .. z /\ g \in Seq(CommandType) /\ DOMAIN g = 1 .. z + 1
      /\ \A i \in 1 .. z : g[i] = f[i]
      /\ g[z + 1] = m
  BY <1>1, AppendProperties, LenProperties
<1> HIDE DEF g, z
<1>3. \A i \in 1 .. z + 1 : i = z + 1 \/ i \in 1 .. z
  BY <1>2
<1>4. \A i \in 1 .. z : i \in 1 .. z + 1
  BY <1>2
<1>5. z + 1 \in 1 .. z + 1
  BY <1>2
<1>6. Done(g) = Done(f) \cup Held(m)
  <2>1. \A y : y \in Done(g) <=> \E i \in 1 .. z + 1 : y \in Held(g[i])
    BY <1>2 DEF Done
  <2>2. \A y : y \in Done(f) <=> \E i \in 1 .. z : y \in Held(f[i])
    BY <1>2 DEF Done
  <2>. QED
    BY <1>2, <1>3, <1>4, <1>5, <2>1, <2>2
<1>7. \A i \in DOMAIN g : Whole(g[i])
  BY <1>2, <1>3 DEF Sound
<1>8. ASSUME NEW i \in DOMAIN g, NEW j \in DOMAIN g, i # j PROVE Held(g[i]) \cap Held(g[j]) = {}
  <2>1. \A o \in 1 .. z : Held(f[o]) \cap Held(m) = {}
    BY <1>2 DEF Sound, Done
  <2>2. CASE i \in 1 .. z /\ j \in 1 .. z
    BY <1>2, <1>8, <2>2 DEF Sound
  <2>3. CASE i = z + 1 /\ j \in 1 .. z
    BY <1>2, <2>1, <2>3
  <2>4. CASE i \in 1 .. z /\ j = z + 1
    BY <1>2, <2>1, <2>4
  <2>. QED
    BY <1>2, <1>3, <1>8, <2>2, <2>3, <2>4
<1>9. Sound(f, NoCommand, h, b, n) /\ Held(NoCommand) = {}
  <2>1. Held(NoCommand) = {}
    BY DEF Held, InAll, NoCommand
  <2>. QED
    BY <2>1, CommandDropped
<1>10. Sound(g, NoCommand, h, b, n)
  BY <1>2, <1>6, <1>7, <1>8, <1>9 DEF Sound
<1>. QED
  BY <1>10 DEF g

(* The client goes on to a later burst. *)
LEMMA Later ==
    ASSUME NEW f, NEW m, NEW h, NEW b, NEW n, NEW o \in Nat \X Nat, Sound(f, m, h, b, n),
           n[1] < o[1] \/ (n[1] = o[1] /\ n[2] <= o[2])
    PROVE  Sound(f, m, h, b, o)
<1>1. n \in Nat \X Nat
  BY DEF Sound
<1>2. /\ f \in Seq(CommandType) /\ m \in CommandType /\ h \in Seq(Symbol) /\ b \in Seq(Symbol)
      /\ \A y \in Done(f) \cup Held(m) \cup In(h) \cup In(b) : Before(y, n)
  BY DEF Sound
<1>3. \A y \in Symbol : Before(y, n) => Before(y, o)
  <2> SUFFICES ASSUME NEW y \in Symbol, Before(y, n) PROVE Before(y, o)
    OBVIOUS
  <2>1. y[2] \in Nat /\ Line(y) \in Nat
    BY DEF Symbol, Line
  <2>2. n[1] \in Nat /\ n[2] \in Nat /\ o[1] \in Nat /\ o[2] \in Nat
    BY <1>1
  <2>. QED
    BY <2>1, <2>2 DEF Before
<1>4. /\ \A q \in Seq(Symbol) : In(q) \subseteq Symbol
  BY ElementOfSeq, LenProperties DEF In
<1>5. Held(m) \subseteq Symbol /\ \A i \in DOMAIN f : Held(f[i]) \subseteq Symbol
  <2>1. ASSUME NEW c \in CommandType PROVE Held(c) \subseteq Symbol
    <3>1. c.lines \in Seq(Seq(Symbol)) /\ c.literals \in Seq(Seq(Symbol))
      BY DEF CommandType, Symbols, Symbol, Kinds
    <3>2. ASSUME NEW g \in Seq(Seq(Symbol)) PROVE InAll(g) \subseteq Symbol
      <4>1. \A p \in DOMAIN g : g[p] \in Seq(Symbol)
        BY ElementOfSeq, LenProperties
      <4>. QED
        BY <1>4, <4>1 DEF InAll
    <3>. QED
      BY <3>1, <3>2 DEF Held
  <2>2. \A i \in DOMAIN f : f[i] \in CommandType
    BY <1>2, ElementOfSeq, LenProperties
  <2>. QED
    BY <1>2, <2>1, <2>2
<1>6. \A y \in Done(f) \cup Held(m) \cup In(h) \cup In(b) : y \in Symbol
  BY <1>2, <1>4, <1>5 DEF Done
<1>7. \A y \in Done(f) \cup Held(m) \cup In(h) \cup In(b) : Before(y, o)
  BY <1>2, <1>3, <1>6
<1>. QED
  BY <1>7 DEF Sound

(* The symbols of a burst are its own. *)
LEMMA BurstOnce ==
    ASSUME NEW s \in Sessions, NEW k \in 1 .. Len(s.script), NEW j \in 1 .. LinesOf(s, k)
    PROVE  /\ BurstOf(s, k, j) \in Seq(Symbol) /\ Once(BurstOf(s, k, j))
           /\ \A y \in In(BurstOf(s, k, j)) : y[2] = k /\ Line(y) = j
<1> DEFINE p == IF j = 1 THEN <<>> ELSE LiteralOf(s, k, j - 1)
           t == TextOf(s, k, j)
           z == SizeOf(s, k, j)
           c == <<Sym("crlf", k, j, 0)>>
           b == BurstOf(s, k, j)
<1>1. /\ k \in Nat /\ j \in Nat \ {0} /\ s.script[k].literals \in Seq(Nat)
      /\ LinesOf(s, k) = Len(s.script[k].literals) + 1 /\ Len(s.script[k].literals) \in Nat
      /\ s.script[k].width \in Nat \ {0}
  BY ScriptType DEF LinesOf
<1>2. /\ p \in Seq(Symbol) /\ Once(p)
      /\ \A y \in In(p) : Kind(y) = "byte" /\ y[2] = k /\ Line(y) = j
  <2>1. ASSUME j = 1
        PROVE  /\ p \in Seq(Symbol) /\ Once(p)
               /\ \A y \in In(p) : Kind(y) = "byte" /\ y[2] = k /\ Line(y) = j
    <3>1. p = <<>>
      BY <2>1
    <3> HIDE DEF p
    <3>. QED
      BY <3>1 DEF Once, In
  <2>2. ASSUME j # 1
        PROVE  /\ p \in Seq(Symbol) /\ Once(p)
               /\ \A y \in In(p) : Kind(y) = "byte" /\ y[2] = k /\ Line(y) = j
    <3> DEFINE l == s.script[k].literals[j - 1]
               i == j - 1
    <3>1. i \in 1 .. Len(s.script[k].literals) /\ i \in Nat /\ i + 1 = j
      BY <1>1, <2>2
    <3>2. l \in Nat
      BY <1>1, <3>1, ElementOfSeq
    <3>3. p = [x \in 1 .. l |-> Sym("byte", k, i, x)]
      BY <2>2 DEF LiteralOf
    <3> HIDE DEF p, l, i
    <3>4. \A x \in 1 .. l : /\ Sym("byte", k, i, x) \in Symbol /\ Kind(Sym("byte", k, i, x)) = "byte"
                           /\ Sym("byte", k, i, x)[2] = k /\ Sym("byte", k, i, x)[3] = i
                           /\ Sym("byte", k, i, x)[4] = x
      <4> SUFFICES ASSUME NEW x \in 1 .. l
                   PROVE  /\ Sym("byte", k, i, x) \in Symbol /\ Kind(Sym("byte", k, i, x)) = "byte"
                          /\ Sym("byte", k, i, x)[2] = k /\ Sym("byte", k, i, x)[3] = i
                          /\ Sym("byte", k, i, x)[4] = x
        OBVIOUS
      <4>1. x \in Nat
        BY <3>2
      <4>. QED
        BY <1>1, <3>1, <4>1 DEF Sym, Symbol, Kinds, Kind
    <3>5. /\ p \in [1 .. l -> Symbol] /\ DOMAIN p = 1 .. l
          /\ \A x \in 1 .. l : p[x] = Sym("byte", k, i, x)
      BY <3>3, <3>4
    <3>6. p \in Seq(Symbol)
      BY <3>2, <3>5
    <3>7. Once(p)
      BY <3>4, <3>5 DEF Once
    <3>8. \A x \in 1 .. l : Kind(p[x]) = "byte" /\ p[x][2] = k /\ Line(p[x]) = j
      BY <3>1, <3>4, <3>5 DEF Line
    <3>. QED
      BY <3>5, <3>6, <3>7, <3>8 DEF In
  <2>. QED
    BY <2>1, <2>2
<1>3. /\ t \in Seq(Symbol) /\ Once(t)
      /\ \A y \in In(t) : Kind(y) = "text" /\ y[2] = k /\ Line(y) = j
  <2> DEFINE w == s.script[k].width
  <2>1. t = [x \in 1 .. w |-> Sym("text", k, j, x)]
    BY DEF TextOf
  <2>2. w \in Nat
    BY <1>1
  <2> HIDE DEF t, w
  <2>3. \A x \in 1 .. w : /\ Sym("text", k, j, x) \in Symbol /\ Kind(Sym("text", k, j, x)) = "text"
                         /\ Sym("text", k, j, x)[2] = k /\ Sym("text", k, j, x)[3] = j
                         /\ Sym("text", k, j, x)[4] = x
    <3> SUFFICES ASSUME NEW x \in 1 .. w
                 PROVE  /\ Sym("text", k, j, x) \in Symbol /\ Kind(Sym("text", k, j, x)) = "text"
                        /\ Sym("text", k, j, x)[2] = k /\ Sym("text", k, j, x)[3] = j
                        /\ Sym("text", k, j, x)[4] = x
      OBVIOUS
    <3>1. x \in Nat
      BY <2>2
    <3>. QED
      BY <1>1, <3>1 DEF Sym, Symbol, Kinds, Kind
  <2>4. /\ t \in [1 .. w -> Symbol] /\ DOMAIN t = 1 .. w
        /\ \A x \in 1 .. w : t[x] = Sym("text", k, j, x)
    BY <2>1, <2>3
  <2>5. t \in Seq(Symbol)
    BY <2>2, <2>4
  <2>6. Once(t)
    BY <2>3, <2>4 DEF Once
  <2>7. \A x \in 1 .. w : Kind(t[x]) = "text" /\ t[x][2] = k /\ Line(t[x]) = j
    BY <2>3, <2>4 DEF Line
  <2>. QED
    BY <2>4, <2>5, <2>6, <2>7 DEF In
<1>4. /\ z \in Seq(Symbol) /\ Once(z)
      /\ \A y \in In(z) : Kind(y) = "size" /\ y[2] = k /\ Line(y) = j
  <2>1. CASE j < LinesOf(s, k)
    <3> DEFINE x == Sym("size", k, j, s.script[k].literals[j])
    <3>1. s.script[k].literals[j] \in Nat
      BY <1>1, <2>1
    <3>2. x \in Symbol /\ Kind(x) = "size" /\ x[2] = k /\ x[3] = j
      BY <1>1, <3>1 DEF Sym, Symbol, Kinds, Kind
    <3>3. z = <<x>>
      BY <2>1 DEF SizeOf
    <3> HIDE DEF x, z
    <3>4. /\ z \in Seq(Symbol) /\ DOMAIN z = {1} /\ z[1] = x /\ Line(x) = j
      BY <3>2, <3>3 DEF Line
    <3>. QED
      BY <3>2, <3>4 DEF Once, In
  <2>2. CASE ~ (j < LinesOf(s, k))
    <3>1. z = <<>>
      BY <2>2 DEF SizeOf
    <3> HIDE DEF z
    <3>. QED
      BY <3>1 DEF Once, In
  <2>. QED
    BY <2>1, <2>2
<1>5. /\ c \in Seq(Symbol) /\ Once(c)
      /\ \A y \in In(c) : Kind(y) = "crlf" /\ y[2] = k /\ Line(y) = j
  <2> DEFINE x == Sym("crlf", k, j, 0)
  <2>1. x \in Symbol /\ Kind(x) = "crlf" /\ x[2] = k /\ x[3] = j
    BY <1>1 DEF Sym, Symbol, Kinds, Kind
  <2>2. c = <<x>>
    OBVIOUS
  <2> HIDE DEF x, c
  <2>3. c \in Seq(Symbol) /\ DOMAIN c = {1} /\ c[1] = x /\ Line(x) = j
    BY <2>1, <2>2 DEF Line
  <2>. QED
    BY <2>1, <2>3 DEF Once, In
<1> DEFINE q == p \o t
           r == q \o z
<1>6. b = r \o c
  BY DEF BurstOf
<1> HIDE DEF p, t, z, c, b
<1>7. q \in Seq(Symbol) /\ Once(q) /\ In(q) = In(p) \cup In(t)
  <2>1. In(p) \cap In(t) = {}
    BY <1>2, <1>3
  <2>. QED
    BY <1>2, <1>3, <2>1, BothIn, BothOnce, ConcatProperties
<1> HIDE DEF q
<1>8. r \in Seq(Symbol) /\ Once(r) /\ In(r) = In(q) \cup In(z)
  <2>1. In(q) \cap In(z) = {}
    BY <1>2, <1>3, <1>4, <1>7
  <2>. QED
    BY <1>4, <1>7, <2>1, BothIn, BothOnce, ConcatProperties
<1> HIDE DEF r
<1>9. b \in Seq(Symbol) /\ Once(b) /\ In(b) = In(p) \cup In(t) \cup In(z) \cup In(c)
  <2>1. In(r) = In(p) \cup In(t) \cup In(z)
    BY <1>7, <1>8
  <2>2. In(r) \cap In(c) = {}
    BY <1>2, <1>3, <1>4, <1>5, <2>1
  <2>. QED
    BY <1>5, <1>6, <1>8, <2>1, <2>2, BothIn, BothOnce, ConcatProperties
<1>10. \A y \in In(b) : y[2] = k /\ Line(y) = j
  BY <1>2, <1>3, <1>4, <1>5, <1>9
<1>. QED
  BY <1>9, <1>10 DEF b

(* A burst is sent. *)
LEMMA BurstSent ==
    ASSUME NEW s \in Sessions, NEW k \in 1 .. Len(s.script), NEW j \in 1 .. LinesOf(s, k),
           NEW f, NEW m, NEW h, NEW t, Sound(f, m, h, t, <<k, j>>)
    PROVE  Sound(f, m, h, t \o BurstOf(s, k, j), Following(s, k, j))
<1> DEFINE b == BurstOf(s, k, j)
           o == Following(s, k, j)
<1>1. b \in Seq(Symbol) /\ Once(b) /\ \A y \in In(b) : y[2] = k /\ Line(y) = j
  BY BurstOnce
<1>2. k \in Nat /\ j \in Nat
  BY ScriptType
<1>3. o \in Nat \X Nat /\ (k < o[1] \/ (k = o[1] /\ j < o[2]))
  BY <1>2 DEF Following
<1> HIDE DEF b, o
<1>4. Sound(f, m, h, t, o)
  <2> DEFINE n == <<k, j>>
  <2>1. n[1] = k /\ n[2] = j
    OBVIOUS
  <2>2. Sound(f, m, h, t, n)
    OBVIOUS
  <2> HIDE DEF n
  <2>3. n[1] < o[1] \/ (n[1] = o[1] /\ n[2] <= o[2])
    BY <1>2, <1>3, <2>1
  <2>. QED
    BY <1>3, <2>2, <2>3, Later
<1>5. \A y \in Done(f) \cup Held(m) \cup In(h) \cup In(t) : Before(y, <<k, j>>)
  BY DEF Sound
<1>6. \A y \in In(b) : ~ Before(y, <<k, j>>) /\ Before(y, o)
  BY <1>1, <1>2, <1>3 DEF Before
<1>7. (Done(f) \cup Held(m) \cup In(h) \cup In(t)) \cap In(b) = {}
  BY <1>5, <1>6
<1>8. t \in Seq(Symbol) /\ Once(t)
  BY <1>4 DEF Sound
<1>9. t \o b \in Seq(Symbol) /\ Once(t \o b) /\ In(t \o b) = In(t) \cup In(b)
  BY <1>1, <1>7, <1>8, BothIn, BothOnce, ConcatProperties
<1>10. Sound(f, m, h, t \o b, o)
  BY <1>4, <1>6, <1>7, <1>9 DEF Sound
<1>. QED
  BY <1>10 DEF b, o
-----------------------------------------------------------------------------
(* A client that skips the rest of a command goes on to the next. *)
LEMMA Skipped ==
    ASSUME NEW s \in Sessions, NEW k
    PROVE  NextOf(s, next) =>
              /\ NextOf(s, Skip(k))
              /\ \/ next[1] < Skip(k)[1]
                 \/ next[1] = Skip(k)[1] /\ next[2] <= Skip(k)[2]
<1> SUFFICES ASSUME NextOf(s, next)
             PROVE  /\ NextOf(s, Skip(k))
                    /\ \/ next[1] < Skip(k)[1]
                       \/ next[1] = Skip(k)[1] /\ next[2] <= Skip(k)[2]
  OBVIOUS
<1>1. Len(s.script) \in Nat
  BY SessionAssumption
<1>2. /\ next[1] \in Nat /\ next[2] \in Nat /\ next \in Nat \X Nat
      /\ next[1] \in 1 .. Len(s.script) + 1
      /\ next[2] \in 1 .. IF next[1] > Len(s.script) THEN 1 ELSE LinesOf(s, next[1])
  BY DEF NextOf
<1>3. CASE next[1] = k /\ next[2] > 1
  <2>1. Skip(k) = <<k + 1, 1>>
    BY <1>3 DEF Skip
  <2>2. next[1] \in 1 .. Len(s.script) /\ k \in Nat
    BY <1>1, <1>2, <1>3
  <2>3. k + 1 \in 1 .. Len(s.script) + 1
    BY <1>1, <1>3, <2>2
  <2>4. 1 \in 1 .. IF k + 1 > Len(s.script) THEN 1 ELSE LinesOf(s, k + 1)
    <3>1. CASE k + 1 > Len(s.script)
      BY <3>1
    <3>2. CASE ~ (k + 1 > Len(s.script))
      <4>1. k + 1 \in 1 .. Len(s.script)
        BY <1>1, <2>2, <3>2
      <4>2. LinesOf(s, k + 1) \in Nat \ {0}
        BY <4>1, ScriptType
      <4>. QED
        BY <3>2, <4>2
    <3>. QED
      BY <3>1, <3>2
  <2>5. NextOf(s, <<k + 1, 1>>)
    BY <2>2, <2>3, <2>4 DEF NextOf
  <2>. QED
    BY <1>2, <1>3, <2>1, <2>2, <2>5
<1>4. CASE ~ (next[1] = k /\ next[2] > 1)
  <2>1. Skip(k) = next
    BY <1>4 DEF Skip
  <2>. QED
    BY <1>2, <2>1
<1>. QED
  BY <1>3, <1>4

(* A set of numbers has a least one. *)
LEMMA Least ==
    ASSUME NEW S, S \subseteq Nat, S # {}
    PROVE  \E n \in S : \A m \in S : n <= m
<1>1. PICK R : IsWellFoundedOn(R, Nat) /\ \A x, y \in Nat : x < y => <<x, y>> \in R
  <2> DEFINE R == OpToRel(<, Nat)
  <2>1. IsWellFoundedOn(R, Nat)
    BY NatLessThanWellFounded
  <2>2. \A x, y \in Nat : x < y => <<x, y>> \in R
    BY DEF OpToRel
  <2> HIDE DEF R
  <2>. QED
    BY <2>1, <2>2
<1>2. IsWellFoundedOn(R, Nat)
  BY <1>1
<1>3. PICK x \in S : \A y \in S : ~ (<<y, x>> \in R)
  BY <1>2, WFMin, Zenon
<1>4. \A m \in S : x <= m
  <2> SUFFICES ASSUME NEW m \in S, ~ (x <= m) PROVE FALSE
    OBVIOUS
  <2>1. m \in Nat /\ x \in Nat
    OBVIOUS
  <2>2. m < x
    BY <2>1
  <2>3. <<m, x>> \in R
    BY <1>1, <2>1, <2>2, Zenon
  <2>. QED
    BY <2>3, <1>3, Zenon
<1>. QED
  BY <1>4

(* A set of places of a sequence has a first. *)
LEMMA FirstPlace ==
    ASSUME NEW T \in SUBSET Nat, T # {}
    PROVE  (CHOOSE i \in T : \A j \in T : i <= j) \in T
BY Least

(* A line and what follows it. *)
LEMMA LineAndRest ==
    ASSUME NEW data \in Seq(Symbol), NEW n \in 1 .. Len(data), NEW w \in Seq(Symbol)
    PROVE  /\ SubSeq(data, 1, n - 1) \in Seq(Symbol) /\ SubSeq(data, n, Len(data)) \in Seq(Symbol)
           /\ data \o w = SubSeq(data, 1, n - 1) \o (SubSeq(data, n, Len(data)) \o w)
<1>1. Len(data) \in Nat
  BY LenProperties
<1>2. n - 1 \in Nat /\ 1 <= (n - 1) + 1 /\ n - 1 <= Len(data) /\ (n - 1) + 1 = n /\ n \in Nat \ {0}
  BY <1>1
<1>3. SubSeq(data, 1, n - 1) \in Seq(Symbol) /\ SubSeq(data, n, Len(data)) \in Seq(Symbol)
  BY <1>1, <1>2, Piece
<1>4. SubSeq(data, 1, n - 1) \o SubSeq(data, n, Len(data)) = SubSeq(data, 1, Len(data))
  BY <1>1, <1>2, Joined
<1>5. data = SubSeq(data, 1, n - 1) \o SubSeq(data, n, Len(data))
  BY <1>4, SubSeqFull
<1>6. (SubSeq(data, 1, n - 1) \o SubSeq(data, n, Len(data))) \o w
        = SubSeq(data, 1, n - 1) \o (SubSeq(data, n, Len(data)) \o w)
  BY <1>3, ConcatAssociative
<1>. QED
  BY <1>3, <1>5, <1>6

(* A line is read, as much of it as has come; w is still on its way. *)
LEMMA LineOnce ==
    ASSUME NEW s \in Sessions, NEW data \in Seq(Symbol), NEW literals, NEW left,
           NEW w \in Seq(Symbol)
    PROVE  /\ Sound(finished, [lines |-> command.lines, literals |-> literals], left, data \o w, next)
           /\ ReadLine(data, literals, left)
           /\ NextOf(s, next) /\ prompted \in BOOLEAN
           /\ Len(data) <= MaxLine /\ command \in CommandType
           => /\ Sound(finished', command', chunks', remaining' \o w, next')
              /\ NextOf(s, next') /\ prompted' \in BOOLEAN /\ expected' \in Nat
              /\ remaining' \in Seq(Symbol) /\ Len(remaining') <= MaxLine
<1> SUFFICES ASSUME Sound(finished, [lines |-> command.lines, literals |-> literals], left, data \o w, next),
                    ReadLine(data, literals, left),
                    NextOf(s, next), prompted \in BOOLEAN,
                    Len(data) <= MaxLine, command \in CommandType
             PROVE  /\ Sound(finished', command', chunks', remaining' \o w, next')
                    /\ NextOf(s, next') /\ prompted' \in BOOLEAN /\ expected' \in Nat
                    /\ remaining' \in Seq(Symbol) /\ Len(remaining') <= MaxLine
  OBVIOUS
<1> DEFINE m == [lines |-> command.lines, literals |-> literals]
           end == CHOOSE i \in EndOfLine(data) : \A j \in EndOfLine(data) : i <= j
           line == SubSeq(data, 1, end - 1)
           rest == SubSeq(data, end, Len(data))
<1>1. MaxLine \in Nat
  BY SessionAssumption
<1>2. CASE EndOfLine(data) = {}
  <2>1. NoLineEnd(data, literals, left)
    BY <1>2 DEF ReadLine
  <2>2. [command EXCEPT !.literals = literals] = m
    BY DEF CommandType
  <2>. QED
    BY <2>1, <2>2 DEF NoLineEnd
<1>3. CASE EndOfLine(data) # {}
  <2>1. end \in 1 .. Len(data)
    <3>1. DOMAIN data = 1 .. Len(data) /\ Len(data) \in Nat
      BY LenProperties
    <3>2. EndOfLine(data) \in SUBSET Nat /\ EndOfLine(data) \subseteq DOMAIN data
      BY <3>1 DEF EndOfLine
    <3>3. end \in EndOfLine(data)
      BY <1>3, <3>2, FirstPlace
    <3>. QED
      BY <3>1, <3>2, <3>3
  <2>2. PICK ok \in Acceptable(line) :
           \/ ~ ok /\ Refused(line, left)
           \/ ok /\ HasLiteral(line) /\ LiteralAnnounced(line, literals, left)
           \/ ok /\ ~ HasLiteral(line) /\ LineEnded(line, literals, left)
    BY <1>3 DEF ReadLine
  <2> HIDE DEF end
  <2>3. /\ line \in Seq(Symbol) /\ rest \in Seq(Symbol)
        /\ data \o w = line \o (rest \o w)
    BY <2>1, LineAndRest
  <2> HIDE DEF line, rest
  <2>4. Sound(finished, m, left, line \o (rest \o w), next) /\ rest \o w \in Seq(Symbol)
    BY <2>3, ConcatProperties
  <2> DEFINE more == [lines |-> Append(command.lines, line), literals |-> literals]
  <2>5. Sound(finished, more, left, w, next) /\ Sound(finished, m, left, w, next)
    <3>1. /\ Sound(finished, more, left, rest \o w, next)
          /\ Sound(finished, m, left, rest \o w, next)
      <4>1. m.lines = command.lines /\ m.literals = literals
        OBVIOUS
      <4> HIDE DEF m
      <4>2. Sound(finished, [lines |-> Append(m.lines, line), literals |-> m.literals],
                  left, rest \o w, next)
        BY <2>3, <2>4, LineTaken
      <4>. QED
        BY <2>3, <2>4, <4>1, <4>2, Dropped
    <3> HIDE DEF m, more
    <3>. QED
      BY <2>3, <3>1, Dropped
  <2>6. more = [lines |-> Append(command.lines, line), literals |-> literals]
    OBVIOUS
  <2> HIDE DEF m, more
  <2>7. <<>> \in Seq(Symbol) /\ Len(<<>>) <= MaxLine /\ <<>> \o w = w
    BY <1>1, ConcatEmptySeq
  <2>8. CASE LiteralAnnounced(line, literals, left) /\ HasLiteral(line)
    <3>1. line[Len(line)][4] \in Nat
      <4>1. line # <<>>
        BY <2>8 DEF HasLiteral
      <4>2. Len(line) \in 1 .. Len(line)
        BY <2>3, <4>1, EmptySeq
      <4>3. line[Len(line)] \in Symbol
        BY <2>3, <4>2, ElementOfSeq
      <4>. QED
        BY <4>3 DEF Symbol
    <3>2. /\ finished' = finished /\ command' = more /\ chunks' = left /\ remaining' = <<>>
          /\ next' = next /\ prompted' = TRUE /\ expected' = line[Len(line)][4]
      BY <2>6, <2>8 DEF LiteralAnnounced
    <3>. QED
      BY <2>5, <2>7, <3>1, <3>2
  <2>9. CASE LineEnded(line, literals, left)
    <3>1. /\ finished' = Append(finished, more) /\ command' = NoCommand /\ chunks' = left
          /\ remaining' = <<>> /\ next' = next /\ prompted' = TRUE /\ expected' = 0
      BY <2>6, <2>9 DEF LineEnded
    <3>2. Sound(Append(finished, more), NoCommand, left, w, next)
      BY <2>5, CommandDone
    <3>. QED
      BY <2>7, <3>1, <3>2
  <2>10. CASE Refused(line, left)
    <3>1. /\ finished' = finished /\ command' = NoCommand
          /\ chunks' = left \/ chunks' = <<>>
          /\ remaining' = <<>> /\ prompted' = TRUE /\ expected' = 0
          /\ next' = next \/ next' = Skip(line[1][2])
      BY <2>10 DEF Refused
    <3>2. Sound(finished, NoCommand, left, w, next) /\ Sound(finished, NoCommand, <<>>, w, next)
      BY <2>5, CommandDropped
    <3>3. Sound(finished, NoCommand, chunks', w, next)
      BY <3>1, <3>2
    <3>4. /\ NextOf(s, next') /\ next' \in Nat \X Nat
          /\ next[1] < next'[1] \/ (next[1] = next'[1] /\ next[2] <= next'[2])
      <4>1. CASE next' = next
        <5>1. next[2] <= next[2]
          BY DEF NextOf
        <5>. QED
          BY <4>1, <5>1 DEF NextOf
      <4>2. CASE next' = Skip(line[1][2])
        BY <4>2, Skipped DEF NextOf
      <4>. QED
        BY <3>1, <4>1, <4>2
    <3>5. Sound(finished, NoCommand, chunks', w, next')
      BY <3>3, <3>4, Later
    <3>. QED
      BY <2>7, <3>1, <3>4, <3>5
  <2>. QED
    BY <2>2, <2>8, <2>9, <2>10
<1>. QED
  BY <1>2, <1>3

(* Whatever is read, nothing is used twice. *)
LEMMA WriteOnce ==
    ASSUME OnceInv, NEW n \in 1 .. Len(wire), Write(n)
    PROVE  OnceInv'
<1>1. PICK s \in Sessions :
        /\ session = s
        /\ NextOf(s, next)
        /\ prompted \in BOOLEAN /\ expected \in Nat
        /\ remaining \in Seq(Symbol) /\ Len(remaining) <= MaxLine /\ wire \in Seq(Symbol)
        /\ Sound(finished, command, chunks, remaining \o wire, next)
  BY DEF OnceInv
<1> DEFINE w == SubSeq(wire, n + 1, Len(wire))
           data == remaining \o SubSeq(wire, 1, n)
<1>2. MaxLine \in Nat
  BY SessionAssumption
<1>3. /\ w \in Seq(Symbol) /\ SubSeq(wire, 1, n) \in Seq(Symbol)
      /\ SubSeq(wire, 1, n) \o w = wire
  <2>1. Len(wire) \in Nat
    BY <1>1, LenProperties
  <2>2. /\ n \in Nat /\ n + 1 \in Nat \ {0} /\ n <= Len(wire) /\ Len(wire) <= Len(wire)
        /\ 1 \in Nat \ {0} /\ 1 <= n + 1
    BY <2>1
  <2>3. SubSeq(wire, 1, n) \o w = SubSeq(wire, 1, Len(wire))
    BY <1>1, <2>1, <2>2, Joined
  <2>4. SubSeq(wire, 1, Len(wire)) = wire
    BY <1>1, SubSeqFull
  <2>. QED
    BY <1>1, <2>1, <2>2, <2>3, <2>4, Piece
<1>4. data \in Seq(Symbol) /\ remaining \o wire = data \o w
  <2>1. data \in Seq(Symbol)
    BY <1>1, <1>3, ConcatProperties
  <2>2. remaining \o (SubSeq(wire, 1, n) \o w) = (remaining \o SubSeq(wire, 1, n)) \o w
    <3>1. SubSeq(wire, 1, n) \in Seq(Symbol) /\ w \in Seq(Symbol)
      BY <1>3
    <3> HIDE DEF w
    <3>. QED
      BY <1>1, <3>1, ConcatAssociative
  <2>. QED
    BY <1>3, <2>1, <2>2
<1>5. /\ wire' = w /\ session' = session
      /\ \/ Len(data) > MaxLine /\ TooLong
         \/ Len(data) <= MaxLine /\ expected > 0 /\ ReadLiteral(data)
         \/ Len(data) <= MaxLine /\ expected = 0 /\ ReadLine(data, command.literals, chunks)
  BY DEF Write
<1> HIDE DEF w, data
<1>6. Sound(finished, command, chunks, data \o w, next) /\ command \in CommandType
  BY <1>1, <1>4 DEF Sound
<1>7. /\ Sound(finished', command', chunks', remaining' \o w, next')
      /\ NextOf(s, next') /\ prompted' \in BOOLEAN /\ expected' \in Nat
      /\ remaining' \in Seq(Symbol) /\ Len(remaining') <= MaxLine
  <2>1. CASE TooLong
    <3>1. /\ finished' = finished /\ command' = NoCommand /\ chunks' = <<>> /\ remaining' = <<>>
          /\ next' = Skip(next[1]) /\ prompted' = TRUE /\ expected' = 0
      BY <2>1 DEF TooLong, Reset
    <3>2. Sound(finished, command, chunks, w, next)
      BY <1>3, <1>4, <1>6, Dropped
    <3>3. Sound(finished, NoCommand, <<>>, w, next)
      BY <3>2, CommandDropped
    <3>4. /\ NextOf(s, next') /\ next' \in Nat \X Nat
          /\ next[1] < next'[1] \/ (next[1] = next'[1] /\ next[2] <= next'[2])
      BY <1>1, <3>1, Skipped DEF NextOf
    <3>5. Sound(finished, NoCommand, <<>>, w, next')
      BY <3>3, <3>4, Later
    <3>6. <<>> \in Seq(Symbol) /\ Len(<<>>) <= MaxLine /\ <<>> \o w = w
      BY <1>2, <1>3, ConcatEmptySeq
    <3>. QED
      BY <3>1, <3>4, <3>5, <3>6
  <2>2. CASE Len(data) <= MaxLine /\ expected = 0 /\ ReadLine(data, command.literals, chunks)
    <3>1. [lines |-> command.lines, literals |-> command.literals] = command
      BY <1>6 DEF CommandType
    <3>2. Sound(finished, [lines |-> command.lines, literals |-> command.literals], chunks, data \o w, next)
      BY <1>6, <3>1
    <3>. QED
      BY <1>1, <1>3, <1>4, <1>6, <2>2, <3>2, LineOnce
  <2>3. CASE Len(data) <= MaxLine /\ expected > 0 /\ ReadLiteral(data)
    <3>1. Len(data) \in Nat
      BY <1>4, LenProperties
    <3>2. CASE Len(data) > expected
      <4> DEFINE lit == SubSeq(data, 1, expected)
                 rest == SubSeq(data, expected + 1, Len(data))
      <4>1. ReadLine(rest, Append(command.literals, chunks \o lit), <<>>)
        BY <2>3, <3>2 DEF ReadLiteral
      <4>2. expected + 1 \in 1 .. Len(data) /\ (expected + 1) - 1 = expected
        BY <1>1, <3>1, <3>2
      <4>3. /\ lit \in Seq(Symbol) /\ rest \in Seq(Symbol)
            /\ data \o w = lit \o (rest \o w)
        BY <1>3, <1>4, <4>2, LineAndRest
      <4>4. Len(rest) <= MaxLine
        <5>1. Len(rest) = Len(data) - (expected + 1) + 1
          <6>1. /\ expected + 1 \in Nat \ {0} /\ Len(data) <= Len(data)
                /\ expected + 1 <= Len(data)
            BY <1>1, <3>1, <4>2
          <6>. QED
            BY <1>4, <3>1, <6>1, Piece
        <5> HIDE DEF rest
        <5>. QED
          BY <1>1, <1>2, <2>3, <3>1, <5>1
      <4> HIDE DEF lit, rest
      <4>5. Sound(finished, command, chunks, lit \o (rest \o w), next) /\ rest \o w \in Seq(Symbol)
        BY <1>3, <1>6, <4>3, ConcatProperties
      <4>6. Sound(finished, command, chunks \o lit, rest \o w, next)
        BY <4>3, <4>5, Chunked
      <4>7. Sound(finished, [lines |-> command.lines,
                             literals |-> Append(command.literals, chunks \o lit)],
                  <<>>, rest \o w, next)
        BY <4>6, LiteralTaken
      <4>. QED
        BY <1>1, <1>3, <1>6, <4>1, <4>3, <4>4, <4>7, LineOnce
    <3>3. CASE ~ (Len(data) > expected)
      <4>1. /\ expected' = expected - Len(data) /\ chunks' = chunks \o data /\ remaining' = <<>>
            /\ next' = next /\ prompted' = prompted /\ command' = command /\ finished' = finished
        BY <2>3, <3>3 DEF ReadLiteral
      <4>2. Sound(finished, command, chunks \o data, w, next)
        BY <1>3, <1>4, <1>6, Chunked
      <4>3. expected' \in Nat
        BY <1>1, <3>1, <3>3, <4>1
      <4>4. <<>> \in Seq(Symbol) /\ Len(<<>>) <= MaxLine /\ <<>> \o w = w
        BY <1>2, <1>3, ConcatEmptySeq
      <4>. QED
        BY <1>1, <4>1, <4>2, <4>3, <4>4
    <3>. QED
      BY <3>2, <3>3
  <2>. QED
    BY <1>5, <2>1, <2>2, <2>3
<1>8. session' = s /\ wire' \in Seq(Symbol)
  BY <1>1, <1>3, <1>5
<1>9. Sound(finished', command', chunks', remaining' \o wire', next')
  BY <1>5, <1>7
<1>. QED
  BY <1>7, <1>8, <1>9 DEF OnceInv

(* Whatever is sent, it is new. *)
LEMMA SendOnce ==
    ASSUME OnceInv, Send
    PROVE  OnceInv'
<1>1. PICK s \in Sessions :
        /\ session = s
        /\ NextOf(s, next)
        /\ prompted \in BOOLEAN /\ expected \in Nat
        /\ remaining \in Seq(Symbol) /\ Len(remaining) <= MaxLine /\ wire \in Seq(Symbol)
        /\ Sound(finished, command, chunks, remaining \o wire, next)
  BY DEF OnceInv
<1>2. PICK k \in Nat : \E j \in Nat : next = <<k, j>>
  BY <1>1 DEF NextOf
<1>3. PICK j \in Nat : next = <<k, j>>
  BY <1>2
<1>4. /\ k <= Len(s.script)
      /\ wire' = wire \o BurstOf(s, k, j)
      /\ next' = Following(s, k, j)
      /\ prompted' = FALSE /\ session' = s
      /\ UNCHANGED <<remaining, command, expected, chunks, finished>>
  BY <1>1, <1>3, OfSession DEF Send, Following, Script, server
<1>5. Len(s.script) \in Nat
  BY SessionAssumption
<1>6. k \in 1 .. Len(s.script) /\ j \in 1 .. LinesOf(s, k)
  <2>1. k \in 1 .. Len(s.script) + 1 /\ j \in 1 .. IF k > Len(s.script) THEN 1 ELSE LinesOf(s, k)
    BY <1>1, <1>3 DEF NextOf
  <2>2. ~ (k > Len(s.script))
    BY <1>4, <1>5
  <2>. QED
    BY <1>4, <1>5, <2>1, <2>2
<1>7. Sound(finished, command, chunks, (remaining \o wire) \o BurstOf(s, k, j), Following(s, k, j))
  <2>1. Sound(finished, command, chunks, remaining \o wire, <<k, j>>)
    BY <1>1, <1>3
  <2>. QED
    BY <1>6, <2>1, BurstSent
<1>8. BurstOf(s, k, j) \in Seq(Symbol)
  BY <1>6, BurstOnce
<1>9. (remaining \o wire) \o BurstOf(s, k, j) = remaining \o (wire \o BurstOf(s, k, j))
  BY <1>1, <1>8, ConcatAssociative
<1>10. Sound(finished', command', chunks', remaining' \o wire', next')
  BY <1>4, <1>7, <1>9
<1>11. NextOf(s, Following(s, k, j))
  <2>1. LinesOf(s, k) \in Nat \ {0}
    BY <1>6, ScriptType
  <2>2. CASE j < LinesOf(s, k)
    <3>1. Following(s, k, j) = <<k, j + 1>> /\ j + 1 \in 1 .. LinesOf(s, k)
      BY <1>6, <2>1, <2>2 DEF Following
    <3>2. k \in 1 .. Len(s.script) + 1 /\ ~ (k > Len(s.script)) /\ j + 1 \in Nat
      BY <1>5, <1>6
    <3>. QED
      BY <3>1, <3>2 DEF NextOf
  <2>3. CASE ~ (j < LinesOf(s, k))
    <3>1. Following(s, k, j) = <<k + 1, 1>>
      BY <2>3 DEF Following
    <3>2. k + 1 \in 1 .. Len(s.script) + 1 /\ k + 1 \in Nat
      BY <1>5, <1>6
    <3>3. 1 \in 1 .. IF k + 1 > Len(s.script) THEN 1 ELSE LinesOf(s, k + 1)
      <4>1. CASE k + 1 > Len(s.script)
        BY <4>1
      <4>2. CASE ~ (k + 1 > Len(s.script))
        <5>1. k + 1 \in 1 .. Len(s.script)
          BY <1>5, <1>6, <4>2
        <5>2. LinesOf(s, k + 1) \in Nat \ {0}
          BY <5>1, ScriptType
        <5>. QED
          BY <4>2, <5>2
      <4>. QED
        BY <4>1, <4>2
    <3>. QED
      BY <3>1, <3>2, <3>3 DEF NextOf
  <2>. QED
    BY <2>2, <2>3
<1>12. wire' \in Seq(Symbol)
  BY <1>1, <1>4, <1>8, ConcatProperties
<1>. QED
  BY <1>1, <1>4, <1>10, <1>11, <1>12 DEF OnceInv

(* The strengthened invariant of any session. *)
LEMMA OnceInvariance == Spec => []OnceInv
<1>1. Init => OnceInv
  <2> SUFFICES ASSUME Init PROVE OnceInv
    OBVIOUS
  <2>1. PICK s \in Sessions : session = s
    BY DEF Init
  <2>2. /\ next = <<1, 1>> /\ prompted = TRUE /\ wire = <<>> /\ remaining = <<>>
        /\ command = NoCommand /\ expected = 0 /\ chunks = <<>> /\ finished = <<>>
    BY DEF Init
  <2>3. NextOf(s, <<1, 1>>)
    <3>1. Len(s.script) \in Nat
      BY SessionAssumption
    <3>2. 1 \in 1 .. IF 1 > Len(s.script) THEN 1 ELSE LinesOf(s, 1)
      <4>1. CASE 1 > Len(s.script)
        BY <4>1
      <4>2. CASE ~ (1 > Len(s.script))
        <5>1. LinesOf(s, 1) \in Nat \ {0}
          BY <3>1, <4>2, ScriptType
        <5>. QED
          BY <4>2, <5>1
      <4>. QED
        BY <4>1, <4>2
    <3>. QED
      BY <3>1, <3>2 DEF NextOf
  <2>4. <<>> \in Seq(Symbol) /\ In(<<>>) = {} /\ Once(<<>>) /\ <<>> \o <<>> = <<>>
    BY DEF In, Once
  <2>5. NoCommand \in CommandType /\ Held(NoCommand) = {} /\ Whole(NoCommand)
    <3>1. NoCommand \in CommandType
      BY DEF NoCommand, CommandType, Symbols
    <3>2. NoCommand.lines = <<>> /\ NoCommand.literals = <<>>
      BY DEF NoCommand
    <3>3. InAll(<<>>) = {} /\ Apart(<<>>)
      BY DEF InAll, Apart
    <3>. QED
      BY <3>1, <3>2, <3>3 DEF Held, Whole
  <2>6. <<>> \in Seq(CommandType) /\ Done(<<>>) = {} /\ DOMAIN <<>> = {}
    BY DEF Done
  <2> HIDE DEF NoCommand
  <2>7. Sound(<<>>, NoCommand, <<>>, <<>>, <<1, 1>>)
    BY <2>4, <2>5, <2>6 DEF Sound
  <2>8. Len(remaining) <= MaxLine
    BY <2>2, SessionAssumption
  <2>. QED
    BY <2>1, <2>2, <2>3, <2>4, <2>7, <2>8 DEF OnceInv
<1>2. OnceInv /\ [Next]_vars => OnceInv'
  <2> SUFFICES ASSUME OnceInv, [Next]_vars PROVE OnceInv'
    OBVIOUS
  <2>1. ASSUME UNCHANGED vars PROVE OnceInv'
    BY <2>1 DEF OnceInv, vars, server
  <2>. QED
    BY <2>1, SendOnce, WriteOnce DEF Next
<1>. QED
  BY <1>1, <1>2, PTL DEF Spec

(* Where commands are whole and share nothing, a symbol has one place. *)
LEMMA OnePlace ==
    ASSUME NEW all,
           \A i \in DOMAIN all : Whole(all[i]),
           \A i, j \in DOMAIN all : i # j => Held(all[i]) \cap Held(all[j]) = {},
           NEW i \in DOMAIN all, NEW j \in DOMAIN all,
           NEW f \in {"lines", "literals"}, NEW g \in {"lines", "literals"},
           NEW p \in DOMAIN all[i][f], NEW q \in DOMAIN all[j][g],
           NEW x \in DOMAIN all[i][f][p], NEW y \in DOMAIN all[j][g][q],
           all[i][f][p][x] = all[j][g][q][y]
    PROVE  i = j /\ f = g /\ p = q /\ x = y
<1>1. \A a, h : \A o \in DOMAIN all[a][h] : \A u \in DOMAIN all[a][h][o] :
         all[a][h][o][u] \in In(all[a][h][o]) /\ all[a][h][o][u] \in InAll(all[a][h])
  BY DEF In, InAll
<1>2. \A a : InAll(all[a]["lines"]) \subseteq Held(all[a]) /\ InAll(all[a]["literals"]) \subseteq Held(all[a])
  BY DEF Held
<1>3. all[i][f][p][x] \in InAll(all[i][f]) /\ all[j][g][q][y] \in InAll(all[j][g])
  BY <1>1
<1>4. all[i][f][p][x] \in Held(all[i]) /\ all[j][g][q][y] \in Held(all[j])
  BY <1>2, <1>3
<1>5. i = j
  BY <1>4
<1>6. /\ Apart(all[i]["lines"]) /\ Apart(all[i]["literals"])
      /\ InAll(all[i]["lines"]) \cap InAll(all[i]["literals"]) = {}
  BY DEF Whole
<1>7. f = g
  BY <1>3, <1>5, <1>6
<1>8. Apart(all[i][f])
  BY <1>6
<1>9. all[i][f][p][x] \in In(all[i][f][p]) /\ all[i][f][p][x] \in In(all[i][f][q])
  BY <1>1, <1>5, <1>7
<1>10. p = q
  BY <1>5, <1>7, <1>8, <1>9 DEF Apart
<1>11. Once(all[i][f][p])
  BY <1>8 DEF Apart
<1>12. x = y
  BY <1>5, <1>7, <1>10, <1>11 DEF Once
<1>. QED
  BY <1>5, <1>7, <1>10, <1>12

(* Everything there is, in the order of Everything: commands that were handed  *)
(* on, the current one, and what is kept and on its way as if it were one more. *)
IsAll(all, f, m, h, r, w) ==
    all = f \o <<m, [lines |-> <<h, r, w>>, literals |-> <<>>]>>

(* All of it is whole, and no two of them share anything. *)
LEMMA AllApart ==
    ASSUME NEW f, NEW m, NEW h, NEW r \in Seq(Symbol), NEW w \in Seq(Symbol), NEW n,
           Sound(f, m, h, r \o w, n), NEW all, IsAll(all, f, m, h, r, w)
    PROVE  /\ \A i \in DOMAIN all : Whole(all[i])
           /\ \A i, j \in DOMAIN all : i # j => Held(all[i]) \cap Held(all[j]) = {}
<1>1. PICK k : k = [lines |-> <<h, r, w>>, literals |-> <<>>]
  OBVIOUS
<1>2. k.lines = <<h, r, w>> /\ k.literals = <<>>
  BY <1>1
<1>3. In(r \o w) = In(r) \cup In(w) /\ (Once(r \o w) => Once(r) /\ Once(w) /\ In(r) \cap In(w) = {})
  BY BothIn, BothOnce
<1>4. Held(k) = In(h) \cup In(r \o w)
  <2>1. InAll(<<h, r, w>>) = In(h) \cup In(r) \cup In(w) /\ InAll(<<>>) = {}
    BY DEF InAll
  <2>. QED
    BY <1>2, <1>3, <2>1 DEF Held
<1>5. Whole(k)
  <2>1. /\ Once(h) /\ Once(r) /\ Once(w)
        /\ In(h) \cap In(r) = {} /\ In(h) \cap In(w) = {} /\ In(r) \cap In(w) = {}
    BY <1>3 DEF Sound
  <2>2. Apart(<<h, r, w>>)
    <3> DEFINE g == <<h, r, w>>
    <3>1. DOMAIN g = {1, 2, 3} /\ g[1] = h /\ g[2] = r /\ g[3] = w
      OBVIOUS
    <3> HIDE DEF g
    <3>2. \A p \in DOMAIN g : Once(g[p])
      BY <2>1, <3>1
    <3>3. ASSUME NEW p \in DOMAIN g, NEW q \in DOMAIN g, p # q PROVE In(g[p]) \cap In(g[q]) = {}
      BY <2>1, <3>1, <3>3
    <3>4. Apart(g)
      BY <3>2, <3>3 DEF Apart
    <3>. QED
      BY <3>4 DEF g
  <2>3. Apart(<<>>) /\ InAll(<<>>) = {}
    BY DEF Apart, InAll
  <2>. QED
    BY <1>2, <2>2, <2>3 DEF Whole
<1> DEFINE z == Len(f)
<1>6. /\ z \in Nat /\ DOMAIN f = 1 .. z /\ DOMAIN all = 1 .. z + 2
      /\ \A i \in 1 .. z : all[i] = f[i]
      /\ all[z + 1] = m /\ all[z + 2] = k
  <2> DEFINE S == CommandType \cup {m, k}
             e == <<m, k>>
  <2>1. f \in Seq(CommandType) /\ f \in Seq(S) /\ e \in Seq(S)
    <3>1. f \in Seq(CommandType)
      BY DEF Sound
    <3>. QED
      BY <3>1
  <2>2. z \in Nat /\ DOMAIN f = 1 .. z
    BY <2>1, LenProperties
  <2>3. all = f \o e
    BY <1>1 DEF IsAll
  <2>4. Len(e) = 2 /\ e[1] = m /\ e[2] = k
    OBVIOUS
  <2> HIDE DEF S, e
  <2>5. Len(all) = z + 2 /\ all \in Seq(S)
        /\ \A i \in 1 .. z + 2 : all[i] = IF i <= z THEN f[i] ELSE e[i - z]
    <3>1. /\ f \o e \in Seq(S) /\ Len(f \o e) = Len(f) + Len(e)
          /\ \A i \in 1 .. Len(f) + Len(e) :
                (f \o e)[i] = IF i <= Len(f) THEN f[i] ELSE e[i - Len(f)]
      BY <2>1, ConcatProperties
    <3>. QED
      BY <2>3, <2>4, <3>1 DEF z
  <2>6. DOMAIN all = 1 .. z + 2
    BY <2>5, LenProperties
  <2>7. /\ z + 1 \in 1 .. z + 2 /\ ~ (z + 1 <= z) /\ (z + 1) - z = 1
        /\ z + 2 \in 1 .. z + 2 /\ ~ (z + 2 <= z) /\ (z + 2) - z = 2
        /\ \A i \in 1 .. z : i \in 1 .. z + 2 /\ i <= z
    BY <2>2
  <2> HIDE DEF z
  <2>. QED
    BY <2>2, <2>4, <2>5, <2>6, <2>7
<1> HIDE DEF z
<1>7. \A i \in 1 .. z + 2 : i \in 1 .. z \/ i = z + 1 \/ i = z + 2
  BY <1>6
<1>8. \A i \in DOMAIN all : Whole(all[i])
  BY <1>5, <1>6, <1>7 DEF Sound
<1>9. Held(m) \cap Held(k) = {} /\ \A i \in 1 .. z : Held(f[i]) \cap Held(m) = {} /\ Held(f[i]) \cap Held(k) = {}
  BY <1>4, <1>6 DEF Sound, Done
<1>10. \A i, j \in 1 .. z : i # j => Held(f[i]) \cap Held(f[j]) = {}
  BY <1>6 DEF Sound
<1>11. ASSUME NEW i \in DOMAIN all, NEW j \in DOMAIN all, i # j
       PROVE  Held(all[i]) \cap Held(all[j]) = {}
  <2>1. CASE i \in 1 .. z /\ j \in 1 .. z
    BY <1>6, <1>10, <1>11, <2>1
  <2>2. CASE i \in 1 .. z /\ j \in {z + 1, z + 2}
    BY <1>6, <1>9, <2>2
  <2>3. CASE i \in {z + 1, z + 2} /\ j \in 1 .. z
    BY <1>6, <1>9, <2>3
  <2>4. CASE i \in {z + 1, z + 2} /\ j \in {z + 1, z + 2}
    <3>1. (i = z + 1 /\ j = z + 2) \/ (i = z + 2 /\ j = z + 1)
      BY <1>11, <2>4
    <3>2. CASE i = z + 1 /\ j = z + 2
      BY <1>6, <1>9, <3>2
    <3>3. CASE i = z + 2 /\ j = z + 1
      BY <1>6, <1>9, <3>3
    <3>. QED
      BY <3>1, <3>2, <3>3
  <2>. QED
    BY <1>6, <1>7, <2>1, <2>2, <2>3, <2>4
<1>. QED
  BY <1>8, <1>11

(* However the stream is cut, pipelined or too long, no piece of it is used    *)
(* twice, in any session and with any MAX_LINE_LENGTH.                       *)
THEOREM UsedOnce == Spec => []NothingTwice
<1>1. OnceInv => NothingTwice
  <2> SUFFICES ASSUME OnceInv PROVE NothingTwice
    OBVIOUS
  <2>1. PICK s \in Sessions :
          /\ session = s
          /\ NextOf(s, next)
          /\ prompted \in BOOLEAN /\ expected \in Nat
          /\ remaining \in Seq(Symbol) /\ Len(remaining) <= MaxLine /\ wire \in Seq(Symbol)
          /\ Sound(finished, command, chunks, remaining \o wire, next)
    BY DEF OnceInv
  <2>2. TypeOK
    <3>1. Symbols = Seq(Symbol)
      BY DEF Symbols, Symbol, Kinds
    <3>2. /\ finished \in Seq(CommandType) /\ command \in CommandType
          /\ chunks \in Seq(Symbol) /\ next \in Nat \X Nat
      BY <2>1 DEF Sound
    <3>. QED
      BY <2>1, <3>1, <3>2 DEF TypeOK
  <2>3. PICK all : all = Everything
    OBVIOUS
  <2>4. IsAll(all, finished, command, chunks, remaining, wire)
    BY <2>3 DEF Everything, IsAll
  <2>5. /\ \A i \in DOMAIN all : Whole(all[i])
        /\ \A i, j \in DOMAIN all : i # j => Held(all[i]) \cap Held(all[j]) = {}
    BY <2>1, <2>4, AllApart
  <2>6. \A i, j \in DOMAIN all : \A f, g \in {"lines", "literals"} :
          \A p \in DOMAIN all[i][f], q \in DOMAIN all[j][g] :
             \A x \in DOMAIN all[i][f][p], y \in DOMAIN all[j][g][q] :
                all[i][f][p][x] = all[j][g][q][y]
                  => i = j /\ f = g /\ p = q /\ x = y
    BY <2>5, OnePlace
  <2>. QED
    BY <2>2, <2>3, <2>6 DEF NothingTwice
<1>. QED
  BY <1>1, OnceInvariance, PTL
=============================================================================
