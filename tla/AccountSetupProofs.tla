-------------------------- MODULE AccountSetupProofs --------------------------
(***************************************************************************)
(* Theorems about AccountSetup, for any workers, requests, usernames, default  *)
(* documents and number of failures.                                         *)
(***************************************************************************)
EXTENDS AccountSetup, TLAPS

-----------------------------------------------------------------------------
(* The inductive invariant *)

(* A transaction has written the parts that come before where it stands; no    *)
(* transaction is open before its first write and after its end.             *)
Written ==
    \A p \in Proc :
        /\ pc[p] = "mailboxes" => wrote[p] = {"address"}
        /\ pc[p] = "bucket" => wrote[p] = {"address", "mailboxes"}
        /\ pc[p] = "user" => wrote[p] = {"address", "mailboxes", "bucket"}
        /\ pc[p] = "commit" => wrote[p] = Part
        /\ pc[p] \notin {"mailboxes", "bucket", "user", "commit"} => wrote[p] = {}

(* Every account has all its parts, and its maker's name. *)
Whole ==
    /\ \A k \in Part : accounts[k] = accounts.user
    /\ \A a \in accounts.user : a[1] = Wanted(a[2])

(* A username is held by one account, or by one open transaction. *)
Alone ==
    /\ \A a, b \in accounts.user : a[1] = b[1] => a = b
    /\ \A p \in Proc : "user" \in wrote[p] =>
          \A a \in accounts.user : a[1] # Wanted(p)
    /\ \A p, q \in Proc :
          "user" \in wrote[p] /\ "user" \in wrote[q] /\ Wanted(p) = Wanted(q) => p = q

(* What initDb of a collection saves and returns. *)
Source(w) == IF kind[w] = 4 THEN cache[w].role ELSE Names[Kinds[kind[w]]]

(* A worker has cached the collections before the one it is at. *)
Past(w, i) ==
    \/ pc[w] \in {"list", "listAgain", "save"} /\ i < kind[w]
    \/ pc[w] \in {"superAdmin", "check", "up"} \cup InTx

CachedBy(w) ==
    \A i \in 1 .. 4 : Past(w, i) =>
        /\ cache[w][Kinds[i]] # <<>>
        /\ Range(cache[w][Kinds[i]]) \subseteq Range(docs[Kinds[i]])

(* What a worker has still to save, and what it has saved or found saved. *)
SavingBy(w) ==
    /\ pc[w] = "save" =>
          /\ Range(todo[w]) \subseteq Range(Source(w))
          /\ Range(Source(w)) \subseteq Range(docs[Kinds[kind[w]]]) \cup Range(todo[w])
    /\ pc[w] = "listAgain" => kind[w] = 1 /\ docs.role # <<>>

Cached == \A w \in Worker : CachedBy(w)
Saving == \A w \in Worker : SavingBy(w)

(* No default document is stored twice. *)
Distinct ==
    /\ \A k \in Kind : IsInjective(docs[k])
    /\ Range(docs.access) \subseteq Range(docs.role)

AccountInv == TypeOK /\ Written /\ Whole /\ Alone /\ SuccessMeansStored
              /\ Cached /\ Saving /\ Distinct

-----------------------------------------------------------------------------
(* Sequences and names *)

(* What is left of a list of documents when its first is taken. *)
LEMMA HeadAndTail ==
    ASSUME NEW S, NEW s \in Seq(S), s # <<>>
    PROVE  /\ Head(s) \in S /\ Head(s) \in Range(s)
           /\ Tail(s) \in Seq(S)
           /\ Range(Tail(s)) \subseteq Range(s)
           /\ Range(s) \subseteq {Head(s)} \cup Range(Tail(s))
           /\ Len(s) = 1 => Range(Tail(s)) = {}
           /\ Len(s) # 1 => Tail(s) # <<>>
<1>1. Len(s) \in Nat \ {0} /\ DOMAIN s = 1 .. Len(s)
  OBVIOUS
<1>2. /\ Head(s) = s[1] /\ 1 \in DOMAIN s /\ \A i \in DOMAIN s : s[i] \in S
  BY <1>1
<1>3. /\ Tail(s) \in Seq(S) /\ Len(Tail(s)) = Len(s) - 1
      /\ DOMAIN Tail(s) = 1 .. Len(s) - 1
      /\ \A i \in 1 .. Len(s) - 1 : Tail(s)[i] = s[i + 1]
  BY <1>1
<1>4. ASSUME NEW i \in 1 .. Len(s) - 1
      PROVE  i + 1 \in DOMAIN s
  BY <1>1
<1>5. Range(Tail(s)) \subseteq Range(s)
  BY <1>3, <1>4 DEF Range
<1>6. ASSUME NEW i \in DOMAIN s
      PROVE  s[i] \in {Head(s)} \cup Range(Tail(s))
  <2>1. CASE i = 1
    BY <1>2, <2>1
  <2>2. CASE i # 1
    <3>1. i - 1 \in 1 .. Len(s) - 1 /\ (i - 1) + 1 = i
      BY <1>1, <2>2
    <3>2. Tail(s)[i - 1] = s[i]
      BY <3>1, <1>3
    <3>. QED
      BY <3>1, <3>2, <1>3 DEF Range
  <2>. QED
    BY <2>1, <2>2
<1>7. Range(s) \subseteq {Head(s)} \cup Range(Tail(s))
  BY <1>6 DEF Range
<1>8. Len(s) = 1 => Range(Tail(s)) = {}
  BY <1>3 DEF Range
<1>9. Len(s) # 1 => Tail(s) # <<>>
  BY <1>1, <1>3
<1>. QED
  BY <1>2, <1>3, <1>5, <1>7, <1>8, <1>9 DEF Range

(* What a list holds when one more is appended. *)
LEMMA OneMore ==
    ASSUME NEW S, NEW s \in Seq(S), NEW x \in S
    PROVE  /\ Append(s, x) \in Seq(S) /\ Append(s, x) # <<>>
           /\ Range(Append(s, x)) = Range(s) \cup {x}
           /\ IsInjective(s) /\ x \notin Range(s) => IsInjective(Append(s, x))
<1>1. /\ Append(s, x) \in Seq(S) /\ Append(s, x) # <<>> /\ Len(s) \in Nat
      /\ DOMAIN s = 1 .. Len(s) /\ DOMAIN Append(s, x) = 1 .. Len(s) + 1
      /\ Append(s, x)[Len(s) + 1] = x
      /\ \A i \in 1 .. Len(s) : Append(s, x)[i] = s[i]
  OBVIOUS
<1>2. \A i \in 1 .. Len(s) + 1 : i \in 1 .. Len(s) \/ i = Len(s) + 1
  BY <1>1
<1>3. Len(s) + 1 \in 1 .. Len(s) + 1 /\ 1 .. Len(s) \subseteq 1 .. Len(s) + 1
  BY <1>1
<1>4. Range(Append(s, x)) = Range(s) \cup {x}
  BY <1>1, <1>2, <1>3 DEF Range
<1>5. ASSUME IsInjective(s), x \notin Range(s)
      PROVE  IsInjective(Append(s, x))
  BY <1>1, <1>2, <1>5 DEF Range, IsInjective
<1>. QED
  BY <1>1, <1>4, <1>5

(* The names of the collections and of the parts. *)
LEMMA NamesOfAll ==
    /\ Kind = {"role", "privilege", "resource", "access"}
    /\ Kinds[1] = "role" /\ Kinds[2] = "privilege"
    /\ Kinds[3] = "resource" /\ Kinds[4] = "access"
    /\ \A i \in 1 .. 4 : Kinds[i] \in Kind /\ (Kinds[i] = "access" <=> i = 4)
    /\ \A i, j \in 1 .. 4 : Kinds[i] = Kinds[j] => i = j
    /\ Part = {"address", "mailboxes", "bucket", "user"}
<1>1. 1 .. 4 = {1, 2, 3, 4}
  OBVIOUS
<1>2. /\ Kinds[1] = "role" /\ Kinds[2] = "privilege"
      /\ Kinds[3] = "resource" /\ Kinds[4] = "access"
  BY DEF Kinds
<1>3. /\ Parts[1] = "address" /\ Parts[2] = "mailboxes"
      /\ Parts[3] = "bucket" /\ Parts[4] = "user"
  BY DEF Parts
<1>4. Kind = {"role", "privilege", "resource", "access"}
  BY <1>1, <1>2 DEF Kind
<1>5. Part = {"address", "mailboxes", "bucket", "user"}
  BY <1>1, <1>3 DEF Part
<1>6. \A i \in 1 .. 4 : Kinds[i] \in Kind /\ (Kinds[i] = "access" <=> i = 4)
  BY <1>1, <1>2, <1>4
<1>7. \A i, j \in 1 .. 4 : Kinds[i] = Kinds[j] => i = j
  BY <1>1, <1>2
<1>. QED
  BY <1>2, <1>4, <1>5, <1>6, <1>7

(* What is written after each part. *)
LEMMA AfterEach ==
    /\ After("address") = "mailboxes" /\ After("mailboxes") = "bucket"
    /\ After("bucket") = "user" /\ After("user") = "commit"
<1>1. /\ Parts[1] = "address" /\ Parts[2] = "mailboxes"
      /\ Parts[3] = "bucket" /\ Parts[4] = "user"
  BY DEF Parts
<1>2. 1 .. 3 = {1, 2, 3}
  OBVIOUS
<1>3. (CHOOSE i \in 1 .. 3 : Parts[i] = "address") = 1
  BY <1>1, <1>2
<1>4. (CHOOSE i \in 1 .. 3 : Parts[i] = "mailboxes") = 2
  BY <1>1, <1>2
<1>5. (CHOOSE i \in 1 .. 3 : Parts[i] = "bucket") = 3
  BY <1>1, <1>2
<1>. QED
  BY <1>1, <1>3, <1>4, <1>5 DEF After

(* The default documents are documents. *)
LEMMA DefaultsType ==
    \A i \in 1 .. 3 : Names[Kinds[i]] \in Docs /\ Names[Kinds[i]] # <<>>
<1> SUFFICES ASSUME NEW i \in 1 .. 3
             PROVE  Names[Kinds[i]] \in Docs /\ Names[Kinds[i]] # <<>>
  OBVIOUS
<1> DEFINE k == Kinds[i]
           S == UNION {Range(Names[l]) : l \in Kind \ {"access"}}
<1>1. k \in Kind \ {"access"}
  BY NamesOfAll
<1>2. Names[k] \in Seq(Range(Names[k])) /\ Names[k] # <<>>
  BY <1>1, AccountAssumption
<1>3. Range(Names[k]) \subseteq S
  BY <1>1
<1>4. Names[k] \in Seq(S)
  BY <1>2, <1>3
<1>. QED
  BY <1>2, <1>4 DEF Docs

-----------------------------------------------------------------------------
(* Accounts and their transactions *)

(* A worker that starts writes no account, and nobody else moves. *)
LEMMA StartUpMoves ==
    ASSUME TypeOK, NEW w \in Worker, StartUp(w)
    PROVE  /\ UNCHANGED <<on, wrote, accounts, failures>>
           /\ pc[w] \in {"down"} \cup Starting
           /\ pc'[w] \in {"down", "up", "check"} \cup Starting
           /\ pc'[w] = "up" => Stored("user", SuperAdmin)
           /\ \A p \in Proc \ {w} : pc'[p] = pc[p]
           /\ pc' \in [Proc -> {"down", "new", "check", "up", "ok", "deny"}
                               \cup Starting \cup InTx]
<1>0. w \in Proc /\ pc \in [Proc -> {"down", "new", "check", "up", "ok", "deny"}
                                    \cup Starting \cup InTx]
  BY DEF TypeOK, Proc
<1>1. CASE Fork(w)
  BY <1>0, <1>1 DEF Fork, Goto, Starting
<1>2. CASE List(w)
  BY <1>0, <1>2 DEF List, Goto, Cache, Starting
<1>3. CASE ListAgain(w)
  BY <1>0, <1>3 DEF ListAgain, Goto, Cache, Starting
<1>4. CASE Save(w)
  BY <1>0, <1>4 DEF Save, Goto, Cache, Starting
<1>5. CASE SaveRefused(w)
  BY <1>0, <1>5 DEF SaveRefused, Goto, Reject, Starting
<1>6. CASE CheckSuperAdmin(w)
  BY <1>0, <1>6 DEF CheckSuperAdmin, Goto, Starting
<1>. QED
  BY <1>1, <1>2, <1>3, <1>4, <1>5, <1>6 DEF StartUp

(* A transaction's writes follow each other in createNewUser's order. *)
LEMMA WrittenStep ==
    ASSUME TypeOK, Written, [Next]_vars
    PROVE  Written'
<1>0. /\ pc \in [Proc -> {"down", "new", "check", "up", "ok", "deny"}
                         \cup Starting \cup InTx]
      /\ wrote \in [Proc -> SUBSET Part] /\ Worker \subseteq Proc /\ Request \subseteq Proc
  BY DEF TypeOK, Proc
<1>1. CASE UNCHANGED vars
  BY <1>1 DEF vars, Written
<1>2. ASSUME NEW w \in Worker, StartUp(w)
      PROVE  Written'
  <2>1. /\ wrote' = wrote /\ wrote[w] = {}
        /\ pc'[w] \notin {"mailboxes", "bucket", "user", "commit"}
        /\ \A p \in Proc \ {w} : pc'[p] = pc[p]
    BY <1>0, <1>2, StartUpMoves DEF Written, Starting
  <2>. QED
    BY <2>1 DEF Written
<1>3. ASSUME NEW w \in Worker, Crash(w)
      PROVE  Written'
  BY <1>0, <1>3 DEF Crash, Written
<1>4. ASSUME NEW r \in Request, NEW w \in Worker, NEW sender \in accounts.user,
             Receive(r, w, sender)
      PROVE  Written'
  BY <1>0, <1>4 DEF Receive, Goto, Written
<1>5. ASSUME NEW p \in Proc, Check(p)
      PROVE  Written'
  BY <1>0, <1>5 DEF Check, Goto, Reject, Written
<1>6. ASSUME NEW p \in Proc, FindAddress(p)
      PROVE  Written'
  BY <1>0, <1>6 DEF FindAddress, Goto, Reject, Written
<1>7. ASSUME NEW p \in Proc, NEW part \in Part, Write(p, part)
      PROVE  Written'
  <2>1. /\ pc[p] = part /\ part \in {"address", "mailboxes", "bucket", "user"}
        /\ pc'[p] = After(part) /\ wrote'[p] = wrote[p] \cup {part}
        /\ \A q \in Proc \ {p} : pc'[q] = pc[q] /\ wrote'[q] = wrote[q]
    BY <1>0, <1>7, NamesOfAll DEF Write, Goto
  <2>2. /\ pc'[p] = "mailboxes" => wrote'[p] = {"address"}
        /\ pc'[p] = "bucket" => wrote'[p] = {"address", "mailboxes"}
        /\ pc'[p] = "user" => wrote'[p] = {"address", "mailboxes", "bucket"}
        /\ pc'[p] = "commit" => wrote'[p] = Part
        /\ pc'[p] \in {"mailboxes", "bucket", "user", "commit"}
    BY <2>1, AfterEach, NamesOfAll DEF Written
  <2>. QED
    BY <2>1, <2>2 DEF Written
<1>8. ASSUME NEW p \in Proc, NEW part \in Part, WriteRefused(p, part)
      PROVE  Written'
  BY <1>0, <1>8 DEF WriteRefused, Goto, Reject, Written
<1>9. ASSUME NEW p \in Proc, Commit(p) \/ CommitLost(p)
      PROVE  Written'
  <2>1. /\ wrote' = [wrote EXCEPT ![p] = {}]
        /\ \/ Goto(p, "up") \/ Goto(p, "ok") \/ Goto(p, "down") \/ Goto(p, "deny")
    BY <1>9 DEF Commit, CommitLost, Apply, Goto, Reject
  <2>. QED
    BY <1>0, <2>1 DEF Goto, Written
<1>10. ASSUME NEW r \in Request, Fail(r)
       PROVE  Written'
  BY <1>0, <1>10 DEF Fail, Goto, Reject, Written
<1>. QED
  BY <1>1, <1>2, <1>3, <1>4, <1>5, <1>6, <1>7, <1>8, <1>9, <1>10 DEF Next, Create

(* What a step does to the accounts and to who has written a user. *)
LEMMA AccountMoves ==
    ASSUME TypeOK, Written, [Next]_vars
    PROVE  \/ /\ accounts' = accounts
              /\ \A p \in Proc : "user" \in wrote'[p] => "user" \in wrote[p]
           \/ \E p \in Proc : \* the write of a user
                 /\ accounts' = accounts /\ ~ Refused(p, "user")
                 /\ \A q \in Proc \ {p} : wrote'[q] = wrote[q]
           \/ \E p \in Proc : \* a commit
                 /\ accounts' = [k \in Part |-> accounts[k] \cup {<<Wanted(p), p>>}]
                 /\ wrote[p] = Part /\ wrote' = [wrote EXCEPT ![p] = {}]
<1>0. wrote \in [Proc -> SUBSET Part] /\ Worker \subseteq Proc /\ Request \subseteq Proc
  BY DEF TypeOK, Proc
<1>1. CASE UNCHANGED vars
  BY <1>1 DEF vars
<1>2. ASSUME NEW w \in Worker, StartUp(w)
      PROVE  accounts' = accounts /\ wrote' = wrote
  BY <1>2, StartUpMoves
<1>3. ASSUME NEW w \in Worker, Crash(w)
      PROVE  accounts' = accounts /\ \A p \in Proc : wrote'[p] \subseteq wrote[p]
  BY <1>0, <1>3 DEF Crash
<1>4. ASSUME NEW r \in Request, NEW w \in Worker, NEW sender \in accounts.user,
             Receive(r, w, sender)
      PROVE  accounts' = accounts /\ wrote' = wrote
  BY <1>4 DEF Receive
<1>5. ASSUME NEW p \in Proc, Check(p) \/ FindAddress(p)
      PROVE  accounts' = accounts /\ wrote' = wrote
  BY <1>5 DEF Check, FindAddress
<1>6. ASSUME NEW p \in Proc, NEW part \in Part, Write(p, part), part # "user"
      PROVE  accounts' = accounts
             /\ \A q \in Proc : "user" \in wrote'[q] => "user" \in wrote[q]
  BY <1>0, <1>6 DEF Write
<1>7. ASSUME NEW p \in Proc, Write(p, "user")
      PROVE  /\ accounts' = accounts /\ ~ Refused(p, "user")
             /\ \A q \in Proc \ {p} : wrote'[q] = wrote[q]
  BY <1>0, <1>7 DEF Write
<1>8. ASSUME NEW p \in Proc, NEW part \in Part, WriteRefused(p, part)
      PROVE  accounts' = accounts /\ \A q \in Proc : wrote'[q] \subseteq wrote[q]
  BY <1>0, <1>8 DEF WriteRefused
<1>9. ASSUME NEW p \in Proc, Commit(p) \/ CommitLost(p)
      PROVE  /\ accounts' = [k \in Part |-> accounts[k] \cup {<<Wanted(p), p>>}]
             /\ wrote[p] = Part /\ wrote' = [wrote EXCEPT ![p] = {}]
  <2>1. Apply(p) /\ pc[p] = "commit" /\ wrote[p] = Part
    BY <1>9 DEF Commit, CommitLost, Written
  <2>. QED
    BY <2>1 DEF Apply
<1>10. ASSUME NEW r \in Request, Fail(r)
       PROVE  accounts' = accounts /\ \A q \in Proc : wrote'[q] \subseteq wrote[q]
  BY <1>0, <1>10 DEF Fail
<1>11. CASE \E p \in Proc : \E part \in Part : Write(p, part)
  BY <1>6, <1>7, <1>11
<1>12. CASE \E p \in Proc : Commit(p) \/ CommitLost(p)
  BY <1>9, <1>12
<1>13. CASE \E p \in Proc : Check(p) \/ FindAddress(p) \/ \E part \in Part : WriteRefused(p, part)
  BY <1>5, <1>8, <1>13
<1>. QED
  BY <1>1, <1>2, <1>3, <1>4, <1>10, <1>11, <1>12, <1>13 DEF Next, Create

(* A commit adds all the parts, for a name nobody else has or is writing. *)
LEMMA AccountsStep ==
    ASSUME TypeOK, Written, Whole, Alone, [Next]_vars
    PROVE  Whole' /\ Alone'
<1>0. /\ wrote \in [Proc -> SUBSET Part] /\ accounts \in [Part -> SUBSET (Username \X Proc)]
      /\ Part = {"address", "mailboxes", "bucket", "user"}
  BY NamesOfAll DEF TypeOK
<1>1. CASE /\ accounts' = accounts
           /\ \A p \in Proc : "user" \in wrote'[p] => "user" \in wrote[p]
  BY <1>1 DEF Whole, Alone, Wanted
<1>2. ASSUME NEW p \in Proc, accounts' = accounts, ~ Refused(p, "user"),
             \A q \in Proc \ {p} : wrote'[q] = wrote[q]
      PROVE  Whole' /\ Alone'
  <2>1. /\ \A a \in accounts.user : a[1] # Wanted(p)
        /\ \A q \in Proc \ {p} : "user" \in wrote[q] => Wanted(q) # Wanted(p)
    BY <1>2 DEF Refused, Stored
  <2>. QED
    BY <1>2, <2>1 DEF Whole, Alone, Wanted
<1>3. ASSUME NEW p \in Proc, wrote[p] = Part, wrote' = [wrote EXCEPT ![p] = {}],
             accounts' = [k \in Part |-> accounts[k] \cup {<<Wanted(p), p>>}]
      PROVE  Whole' /\ Alone'
  <2>1. Whole'
    BY <1>0, <1>3 DEF Whole, Wanted
  <2>2. "user" \in wrote[p] /\ accounts'.user = accounts.user \cup {<<Wanted(p), p>>}
    BY <1>0, <1>3
  <2>3. \A a, b \in accounts'.user : a[1] = b[1] => a = b
    BY <2>2 DEF Alone
  <2>4. \A q \in Proc : "user" \in wrote'[q] => q # p /\ "user" \in wrote[q]
    BY <1>0, <1>3
  <2>5. \A q \in Proc : "user" \in wrote'[q] => \A a \in accounts'.user : a[1] # Wanted(q)
    BY <2>2, <2>4 DEF Alone
  <2>6. Alone'
    BY <2>3, <2>4, <2>5 DEF Alone, Wanted
  <2>. QED
    BY <2>1, <2>6
<1>. QED
  BY <1>1, <1>2, <1>3, AccountMoves

(* Who is answered ok, or serves, has a stored account for it. *)
LEMMA SuccessStep ==
    ASSUME TypeOK, Written, SuccessMeansStored, [Next]_vars
    PROVE  SuccessMeansStored'
<1>0. /\ pc \in [Proc -> {"down", "new", "check", "up", "ok", "deny"}
                         \cup Starting \cup InTx]
      /\ wrote \in [Proc -> SUBSET Part] /\ accounts \in [Part -> SUBSET (Username \X Proc)]
      /\ Worker \subseteq Proc /\ Request \subseteq Proc /\ Worker \cap Request = {}
      /\ "user" \in Part
  BY AccountAssumption, NamesOfAll DEF TypeOK, Proc
<1>1. accounts.user \subseteq accounts'.user
  BY <1>0, AccountMoves
<1>2. SUFFICES
        /\ \A r \in Request : pc'[r] = "ok" =>
              pc[r] = "ok" \/ <<NameOf[r], r>> \in accounts'.user
        /\ \A w \in Worker : pc'[w] = "up" =>
              pc[w] = "up" \/ \E a \in accounts'.user : a[1] = SuperAdmin
  BY <1>1 DEF SuccessMeansStored, Stored
<1>3. CASE UNCHANGED vars
  BY <1>3 DEF vars
<1>4. ASSUME NEW w \in Worker, StartUp(w)
      PROVE  /\ pc'[w] = "up" => \E a \in accounts'.user : a[1] = SuperAdmin
             /\ \A p \in Proc \ {w} : pc'[p] = pc[p]
  BY <1>4, StartUpMoves DEF Stored
<1>5. ASSUME NEW w \in Worker, Crash(w), NEW p \in Proc
      PROVE  pc'[p] \in {"down", "deny", pc[p]}
  BY <1>0, <1>5 DEF Crash
<1>6. ASSUME NEW r \in Request, NEW w \in Worker, NEW sender \in accounts.user,
             Receive(r, w, sender), NEW p \in Proc
      PROVE  pc'[p] \in {"check", "deny", pc[p]}
  BY <1>0, <1>6 DEF Receive, Goto
<1>7. ASSUME NEW q \in Proc, Check(q) \/ FindAddress(q), NEW p \in Proc
      PROVE  pc'[p] \in {"find", "address", "down", "deny", pc[p]}
  BY <1>0, <1>7 DEF Check, FindAddress, Goto, Reject
<1>8. ASSUME NEW q \in Proc, NEW part \in Part, Write(q, part), NEW p \in Proc
      PROVE  pc'[p] \in {"mailboxes", "bucket", "user", "commit", pc[p]}
  BY <1>0, <1>8, AfterEach, NamesOfAll DEF Write, Goto
<1>9. ASSUME NEW q \in Proc, NEW part \in Part, WriteRefused(q, part), NEW p \in Proc
      PROVE  pc'[p] \in {"down", "deny", pc[p]}
  BY <1>0, <1>9 DEF WriteRefused, Goto, Reject
<1>10. ASSUME NEW q \in Proc, Commit(q)
       PROVE  /\ <<Wanted(q), q>> \in accounts'.user
              /\ q \in Worker => Wanted(q) = SuperAdmin /\ pc'[q] = "up"
              /\ q \in Request => Wanted(q) = NameOf[q] /\ pc'[q] = "ok"
              /\ \A p \in Proc \ {q} : pc'[p] = pc[p]
  <2>1. wrote[q] = Part
    BY <1>10 DEF Commit, Written
  <2>2. <<Wanted(q), q>> \in accounts'.user
    BY <1>0, <1>10, <2>1 DEF Commit, Apply
  <2>3. /\ q \in Worker => Wanted(q) = SuperAdmin /\ pc'[q] = "up"
        /\ q \in Request => Wanted(q) = NameOf[q] /\ pc'[q] = "ok"
        /\ \A p \in Proc \ {q} : pc'[p] = pc[p]
    BY <1>0, <1>10 DEF Commit, Goto, Wanted
  <2>. QED
    BY <2>2, <2>3
<1>11. ASSUME NEW q \in Proc, CommitLost(q), NEW p \in Proc
       PROVE  pc'[p] \in {"down", "deny", pc[p]}
  BY <1>0, <1>11 DEF CommitLost, Goto, Reject
<1>12. ASSUME NEW r \in Request, Fail(r), NEW p \in Proc
       PROVE  pc'[p] \in {"down", "deny", pc[p]}
  BY <1>0, <1>12 DEF Fail, Goto, Reject
<1>13. CASE \E w \in Worker : StartUp(w)
  BY <1>0, <1>4, <1>13
<1>14. CASE \E w \in Worker : Crash(w)
  BY <1>0, <1>5, <1>14
<1>15. CASE \E r \in Request, w \in Worker : \E sender \in accounts.user :
               Receive(r, w, sender)
  BY <1>0, <1>6, <1>15
<1>16. CASE \E q \in Proc : Check(q) \/ FindAddress(q)
  BY <1>0, <1>7, <1>16
<1>17. CASE \E q \in Proc : \E part \in Part : Write(q, part)
  BY <1>0, <1>8, <1>17
<1>18. CASE \E q \in Proc : \E part \in Part : WriteRefused(q, part)
  BY <1>0, <1>9, <1>18
<1>19. CASE \E q \in Proc : Commit(q)
  <2>1. PICK q \in Proc : Commit(q)
    BY <1>19
  <2>2. /\ q \in Worker => \E a \in accounts'.user : a[1] = SuperAdmin
        /\ q \in Request => <<NameOf[q], q>> \in accounts'.user
        /\ \A p \in Proc \ {q} : pc'[p] = pc[p]
    BY <1>10, <2>1
  <2>. QED
    BY <1>0, <2>2
<1>20. CASE \E q \in Proc : CommitLost(q)
  BY <1>0, <1>11, <1>20
<1>21. CASE \E r \in Request : Fail(r)
  BY <1>0, <1>12, <1>21
<1>. QED
  BY <1>3, <1>13, <1>14, <1>15, <1>16, <1>17, <1>18, <1>19, <1>20, <1>21
  DEF Next, Create

-----------------------------------------------------------------------------
(* Types *)

(* What create() of a collection returns is documents, and moves on. *)
LEMMA CacheType ==
    ASSUME TypeOK, NEW w \in Worker, NEW found \in Docs, Cache(w, found)
    PROVE  /\ cache' \in [Worker -> [Kind -> Docs]] /\ kind' \in [Worker -> 1 .. 4]
           /\ \A v \in Worker : pc'[v] = "save" => v # w /\ pc[v] = "save"
<1>1. Kinds[kind[w]] \in Kind /\ w \in Proc
  BY NamesOfAll DEF TypeOK, Proc
<1>2. cache' \in [Worker -> [Kind -> Docs]]
  BY <1>1 DEF Cache, TypeOK
<1>3. kind' \in [Worker -> 1 .. 4]
  <2>1. kind \in [Worker -> 1 .. 4] /\ kind[w] \in 1 .. 4
    BY DEF TypeOK
  <2>2. kind[w] < 4 => kind[w] + 1 \in 1 .. 4
    BY <2>1
  <2>3. \/ kind[w] < 4 /\ kind' = [kind EXCEPT ![w] = kind[w] + 1]
        \/ kind' = kind
    BY DEF Cache
  <2>. QED
    BY <2>1, <2>2, <2>3
<1>4. \A v \in Worker : pc'[v] = "save" => v # w /\ pc[v] = "save"
  BY <1>1 DEF Cache, TypeOK, Goto, Proc
<1>. QED
  BY <1>2, <1>3, <1>4

(* What a starting worker saves is documents. *)
LEMMA SourceType ==
    ASSUME TypeOK, NEW w \in Worker
    PROVE  Source(w) \in Docs
<1>1. CASE kind[w] = 4
  BY <1>1, NamesOfAll DEF TypeOK, Source
<1>2. CASE kind[w] # 4
  <2>1. kind[w] \in 1 .. 3
    BY <1>2 DEF TypeOK
  <2>. QED
    BY <1>2, <2>1, DefaultsType DEF Source
<1>. QED
  BY <1>1, <1>2

(* There is something to save, or to return. *)
LEMMA SourceFull ==
    ASSUME TypeOK, Cached, NEW w \in Worker, pc[w] \in {"list", "listAgain", "save"}
    PROVE  Source(w) # <<>>
<1>1. CASE kind[w] = 4
  <2>1. Past(w, 1)
    BY <1>1 DEF Past
  <2>2. 1 \in 1 .. 4
    OBVIOUS
  <2>3. cache[w][Kinds[1]] # <<>>
    BY <2>1, <2>2 DEF Cached, CachedBy
  <2>. QED
    BY <1>1, <2>3, NamesOfAll DEF Source
<1>2. CASE kind[w] # 4
  <2>1. kind[w] \in 1 .. 3
    BY <1>2 DEF TypeOK
  <2>. QED
    BY <1>2, <2>1, DefaultsType DEF Source
<1>. QED
  BY <1>1, <1>2

(* A worker that starts keeps the types of what it found, saves and returns. *)
LEMMA StartUpType ==
    ASSUME TypeOK, Cached, NEW w \in Worker, StartUp(w)
    PROVE  /\ kind' \in [Worker -> 1 .. 4] /\ todo' \in [Worker -> Docs]
           /\ cache' \in [Worker -> [Kind -> Docs]] /\ docs' \in [Kind -> Docs]
           /\ \A v \in Worker : pc'[v] = "save" => todo'[v] # <<>>
<1> DEFINE k == Kinds[kind[w]]
<1>0. /\ kind \in [Worker -> 1 .. 4] /\ todo \in [Worker -> Docs]
      /\ cache \in [Worker -> [Kind -> Docs]] /\ docs \in [Kind -> Docs]
      /\ \A v \in Worker : pc[v] = "save" => todo[v] # <<>>
      /\ k \in Kind /\ (k = "access" <=> kind[w] = 4)
      /\ docs[k] \in Docs /\ docs.role \in Docs /\ <<>> \in Docs
      /\ \A v \in Worker \ {w} : pc'[v] = pc[v]
  <2>1. k \in Kind /\ (k = "access" <=> kind[w] = 4) /\ "role" \in Kind
    BY NamesOfAll DEF TypeOK
  <2>2. <<>> \in Docs
    BY DEF Docs
  <2>3. \A v \in Worker \ {w} : pc'[v] = pc[v]
    BY StartUpMoves DEF Proc
  <2>. QED
    BY <2>1, <2>2, <2>3 DEF TypeOK
<1>1. Source(w) = IF k = "access" THEN cache[w].role ELSE Names[k]
  BY <1>0 DEF Source
<1>2. Source(w) \in Docs
  BY SourceType
<1>3. w \in Proc /\ pc \in [Proc -> {"down", "new", "check", "up", "ok", "deny"}
                                    \cup Starting \cup InTx]
  BY DEF TypeOK, Proc
<1>4. CASE Fork(w)
  BY <1>0, <1>3, <1>4 DEF Fork, Goto
<1>5. CASE List(w)
  <2>1. CASE docs[k] = <<>>
    <3>1. /\ todo' = [todo EXCEPT ![w] = Source(w)] /\ UNCHANGED <<kind, cache, docs>>
      BY <1>0, <1>1, <1>5, <2>1 DEF List
    <3>2. Source(w) # <<>>
      BY <1>5, SourceFull DEF List
    <3>. QED
      BY <1>0, <1>2, <3>1, <3>2
  <2>2. CASE docs[k] # <<>> /\ k = "role"
    BY <1>0, <1>3, <1>5, <2>2 DEF List, Goto
  <2>3. CASE docs[k] # <<>> /\ k # "role"
    <3>1. Cache(w, docs[k]) /\ UNCHANGED <<todo, docs>>
      BY <1>5, <2>3 DEF List
    <3>. QED
      BY <1>0, <3>1, CacheType
  <2>. QED
    BY <2>1, <2>2, <2>3
<1>6. CASE ListAgain(w)
  <2>1. Cache(w, docs.role) /\ UNCHANGED <<todo, docs>>
    BY <1>6 DEF ListAgain
  <2>. QED
    BY <1>0, <2>1, CacheType
<1>7. CASE Save(w)
  <2>1. /\ todo[w] # <<>> /\ pc[w] = "save"
        /\ docs' = [docs EXCEPT ![k] = Append(docs[k], Head(todo[w]))]
        /\ todo' = [todo EXCEPT ![w] = Tail(todo[w])]
    BY <1>0, <1>7 DEF Save
  <2>2. Tail(todo[w]) \in Docs /\ Append(docs[k], Head(todo[w])) \in Docs
        /\ (Len(todo[w]) # 1 => Tail(todo[w]) # <<>>)
    <3> DEFINE D == UNION {Range(Names[l]) : l \in Kind \ {"access"}}
    <3>1. todo[w] \in Seq(D) /\ docs[k] \in Seq(D)
      BY <1>0 DEF Docs
    <3> HIDE DEF D
    <3>2. /\ Head(todo[w]) \in D /\ Tail(todo[w]) \in Seq(D)
          /\ Len(todo[w]) # 1 => Tail(todo[w]) # <<>>
      BY <2>1, <3>1, HeadAndTail
    <3>3. Append(docs[k], Head(todo[w])) \in Seq(D)
      BY <3>1, <3>2, OneMore
    <3>. QED
      BY <3>2, <3>3 DEF Docs, D
  <2>3. docs' \in [Kind -> Docs] /\ todo' \in [Worker -> Docs]
    BY <1>0, <2>1, <2>2
  <2>4. CASE Len(todo[w]) = 1
    <3>1. Cache(w, Source(w))
      BY <1>1, <1>7, <2>4 DEF Save
    <3>. QED
      BY <1>0, <1>2, <2>1, <2>3, <3>1, CacheType
  <2>5. CASE Len(todo[w]) # 1
    BY <1>0, <1>7, <2>1, <2>2, <2>3, <2>5 DEF Save
  <2>. QED
    BY <2>4, <2>5
<1>8. CASE SaveRefused(w)
  BY <1>0, <1>3, <1>8 DEF SaveRefused, startup, Goto, Reject
<1>9. CASE CheckSuperAdmin(w)
  BY <1>0, <1>3, <1>9 DEF CheckSuperAdmin, startup, Goto
<1>. QED
  BY <1>4, <1>5, <1>6, <1>7, <1>8, <1>9 DEF StartUp

(* Every variable keeps its type. *)
LEMMA TypeStep ==
    ASSUME TypeOK, Written, Whole, Cached, [Next]_vars
    PROVE  TypeOK'
<1> DEFINE Labels == {"down", "new", "check", "up", "ok", "deny"} \cup Starting \cup InTx
<1>0. /\ pc \in [Proc -> Labels] /\ on \in [Request -> Worker \cup {NoWorker}]
      /\ wrote \in [Proc -> SUBSET Part] /\ accounts \in [Part -> SUBSET (Username \X Proc)]
      /\ failures \in 0 .. MaxFailures /\ MaxFailures \in Nat
      /\ Worker \subseteq Proc /\ Request \subseteq Proc
      /\ Part = {"address", "mailboxes", "bucket", "user"}
      /\ {"find", "address", "mailboxes", "bucket", "user", "commit"} \subseteq Labels
      /\ {"down", "new", "check", "up", "ok", "deny"} \subseteq Labels
  BY AccountAssumption, NamesOfAll DEF TypeOK, Proc, InTx
<1>1. CASE UNCHANGED vars
  BY <1>1 DEF vars, startup, TypeOK, Docs
<1>2. ASSUME NEW w \in Worker, StartUp(w)
      PROVE  TypeOK'
  BY <1>2, StartUpMoves, StartUpType DEF TypeOK, Docs
<1>3. SUFFICES ASSUME ~ \E w \in Worker : StartUp(w), Next
               PROVE  /\ startup' = startup /\ pc' \in [Proc -> Labels]
                      /\ on' \in [Request -> Worker \cup {NoWorker}]
                      /\ wrote' \in [Proc -> SUBSET Part]
                      /\ accounts' \in [Part -> SUBSET (Username \X Proc)]
                      /\ failures' \in 0 .. MaxFailures
                      /\ \A w \in Worker : pc'[w] = "save" => pc[w] = "save"
  BY <1>1, <1>2, <1>3 DEF TypeOK, Docs, startup
<1> HIDE DEF Labels
<1>4. ASSUME NEW w \in Worker, Crash(w)
      PROVE  /\ startup' = startup /\ pc' \in [Proc -> Labels] /\ UNCHANGED <<on, accounts>>
             /\ wrote' \in [Proc -> SUBSET Part] /\ failures' \in 0 .. MaxFailures
             /\ \A v \in Worker : pc'[v] = "save" => pc[v] = "save"
  BY <1>0, <1>4 DEF Crash, CanFail
<1>5. ASSUME NEW r \in Request, NEW w \in Worker, NEW sender \in accounts.user,
             Receive(r, w, sender)
      PROVE  /\ startup' = startup /\ pc' \in [Proc -> Labels]
             /\ on' \in [Request -> Worker \cup {NoWorker}]
             /\ UNCHANGED <<wrote, accounts, failures>>
             /\ \A v \in Worker : pc'[v] = "save" => pc[v] = "save"
  BY <1>0, <1>5 DEF Receive, Goto
<1>6. ASSUME NEW p \in Proc, Check(p) \/ FindAddress(p)
      PROVE  /\ startup' = startup /\ pc' \in [Proc -> Labels]
             /\ UNCHANGED <<on, wrote, accounts, failures>>
             /\ \A v \in Worker : pc'[v] = "save" => pc[v] = "save"
  BY <1>0, <1>6 DEF Check, FindAddress, Goto, Reject
<1>7. ASSUME NEW p \in Proc, NEW part \in Part, Write(p, part) \/ WriteRefused(p, part)
      PROVE  /\ startup' = startup /\ pc' \in [Proc -> Labels]
             /\ wrote' \in [Proc -> SUBSET Part] /\ UNCHANGED <<on, accounts, failures>>
             /\ \A v \in Worker : pc'[v] = "save" => pc[v] = "save"
  <2>1. After(part) \in Labels /\ After(part) # "save"
    BY <1>0, AfterEach
  <2>. QED
    BY <1>0, <1>7, <2>1 DEF Write, WriteRefused, Goto, Reject
<1>8. ASSUME NEW p \in Proc, Commit(p) \/ CommitLost(p)
      PROVE  /\ startup' = startup /\ pc' \in [Proc -> Labels]
             /\ wrote' \in [Proc -> SUBSET Part]
             /\ accounts' \in [Part -> SUBSET (Username \X Proc)]
             /\ UNCHANGED on /\ failures' \in 0 .. MaxFailures
             /\ \A v \in Worker : pc'[v] = "save" => pc[v] = "save"
  <2>1. Wanted(p) \in Username
    BY AccountAssumption DEF Wanted, Proc
  <2>2. accounts' \in [Part -> SUBSET (Username \X Proc)] /\ wrote' \in [Proc -> SUBSET Part]
    BY <1>0, <1>8, <2>1 DEF Commit, CommitLost, Apply
  <2>. QED
    BY <1>0, <1>8, <2>2 DEF Commit, CommitLost, CanFail, Goto, Reject
<1>9. ASSUME NEW r \in Request, Fail(r)
      PROVE  /\ startup' = startup /\ pc' \in [Proc -> Labels]
             /\ wrote' \in [Proc -> SUBSET Part] /\ UNCHANGED <<on, accounts>>
             /\ failures' \in 0 .. MaxFailures
             /\ \A v \in Worker : pc'[v] = "save" => pc[v] = "save"
  BY <1>0, <1>9 DEF Fail, CanFail, Goto, Reject
<1>10. CASE \E w \in Worker : Crash(w)
  BY <1>0, <1>4, <1>10
<1>11. CASE \E r \in Request, w \in Worker : \E sender \in accounts.user :
               Receive(r, w, sender)
  BY <1>0, <1>5, <1>11
<1>12. CASE \E p \in Proc : Check(p) \/ FindAddress(p)
  BY <1>0, <1>6, <1>12
<1>13. CASE \E p \in Proc : \E part \in Part : Write(p, part) \/ WriteRefused(p, part)
  BY <1>0, <1>7, <1>13
<1>14. CASE \E p \in Proc : Commit(p) \/ CommitLost(p)
  BY <1>0, <1>8, <1>14
<1>15. CASE \E r \in Request : Fail(r)
  BY <1>0, <1>9, <1>15
<1>. QED
  BY <1>3, <1>10, <1>11, <1>12, <1>13, <1>14, <1>15 DEF Next, Create

-----------------------------------------------------------------------------
(* Default documents *)

(* Other steps than a start-up's leave its documents alone, and bring no worker *)
(* into it.                                                                 *)
LEMMA OtherMoves ==
    ASSUME TypeOK, [Next]_vars, ~ \E w \in Worker : StartUp(w)
    PROVE  /\ UNCHANGED <<kind, todo, cache, docs>>
           /\ \A w \in Worker :
                 \/ pc'[w] = pc[w] \/ pc'[w] = "down"
                 \/ /\ pc'[w] \in {"superAdmin", "check", "up"} \cup InTx
                    /\ pc[w] \in {"superAdmin", "check", "up"} \cup InTx
<1>0. /\ pc \in [Proc -> {"down", "new", "check", "up", "ok", "deny"}
                         \cup Starting \cup InTx]
      /\ Worker \subseteq Proc /\ Request \subseteq Proc /\ Worker \cap Request = {}
      /\ InTx = {"find", "address", "mailboxes", "bucket", "user", "commit"}
      /\ Part = {"address", "mailboxes", "bucket", "user"}
  BY AccountAssumption, NamesOfAll DEF TypeOK, Proc, InTx
<1> DEFINE Later == {"superAdmin", "check", "up"} \cup InTx
           Moved(w) == \/ pc'[w] = pc[w] \/ pc'[w] = "down"
                       \/ pc'[w] \in Later /\ pc[w] \in Later
<1>1. CASE UNCHANGED vars
  BY <1>1 DEF vars, startup
<1>2. ASSUME NEW w \in Worker, Crash(w)
      PROVE  startup' = startup /\ \A v \in Worker : Moved(v)
  BY <1>0, <1>2 DEF Crash
<1>3. ASSUME NEW r \in Request, NEW w \in Worker, NEW sender \in accounts.user,
             Receive(r, w, sender)
      PROVE  startup' = startup /\ \A v \in Worker : Moved(v)
  BY <1>0, <1>3 DEF Receive, Goto
<1>4. ASSUME NEW p \in Proc, Check(p) \/ FindAddress(p)
      PROVE  startup' = startup /\ \A v \in Worker : Moved(v)
  BY <1>0, <1>4 DEF Check, FindAddress, Goto, Reject
<1>5. ASSUME NEW p \in Proc, NEW part \in Part, Write(p, part)
      PROVE  startup' = startup /\ \A v \in Worker : Moved(v)
  <2>1. After(part) \in InTx /\ part \in InTx
    BY <1>0, AfterEach
  <2>. QED
    BY <1>0, <1>5, <2>1 DEF Write, Goto
<1>6. ASSUME NEW p \in Proc, NEW part \in Part, WriteRefused(p, part)
      PROVE  startup' = startup /\ \A v \in Worker : Moved(v)
  BY <1>0, <1>6 DEF WriteRefused, Goto, Reject
<1>7. ASSUME NEW p \in Proc, Commit(p) \/ CommitLost(p)
      PROVE  startup' = startup /\ \A v \in Worker : Moved(v)
  BY <1>0, <1>7 DEF Commit, CommitLost, Goto, Reject
<1>8. ASSUME NEW r \in Request, Fail(r)
      PROVE  startup' = startup /\ \A v \in Worker : Moved(v)
  BY <1>0, <1>8 DEF Fail, Goto, Reject
<1> HIDE DEF Moved
<1>9. startup' = startup /\ \A v \in Worker : Moved(v)
  BY <1>1, <1>2, <1>3, <1>4, <1>5, <1>6, <1>7, <1>8 DEF Next, Create, vars, startup, Moved
<1>. QED
  BY <1>9 DEF startup, Moved

(* What a worker has cached and has to save stands, if it has not moved, *)
(* while others add documents.                                              *)
LEMMA OthersStand ==
    ASSUME NEW v \in Worker, Cached, Saving, Kind \subseteq DOMAIN docs,
           \A k \in Kind : Range(docs[k]) \subseteq Range(docs'[k]),
           docs.role # <<>> => docs'.role # <<>>,
           pc'[v] = pc[v], kind'[v] = kind[v], todo'[v] = todo[v], cache'[v] = cache[v],
           kind[v] \in 1 .. 4
    PROVE  CachedBy(v)' /\ SavingBy(v)'
<1>1. Source(v)' = Source(v)
  BY DEF Source
<1>2. \A i \in 1 .. 4 : Past(v, i)' => Past(v, i)
  BY DEF Past
<1>3. \A i \in 1 .. 4 : Kinds[i] \in Kind
  BY NamesOfAll
<1>. QED
  BY <1>1, <1>2, <1>3 DEF Cached, CachedBy, Saving, SavingBy

(* create() of a collection returns documents that are stored. *)
LEMMA CacheMoves ==
    ASSUME TypeOK, Cached, NEW w \in Worker, NEW found, Cache(w, found), found # <<>>,
           pc[w] \in {"list", "listAgain", "save"},
           \A k \in Kind : Range(docs[k]) \subseteq Range(docs'[k]),
           Range(found) \subseteq Range(docs'[Kinds[kind[w]]])
    PROVE  /\ CachedBy(w)'
           /\ pc'[w] \notin {"save", "listAgain"}
           /\ \A v \in Worker \ {w} :
                 pc'[v] = pc[v] /\ kind'[v] = kind[v] /\ cache'[v] = cache[v]
<1>0. /\ kind \in [Worker -> 1 .. 4] /\ cache \in [Worker -> [Kind -> Docs]]
      /\ w \in Proc /\ Worker \subseteq Proc /\ kind[w] \in 1 .. 4 /\ Kinds[kind[w]] \in Kind
      /\ pc \in [Proc -> {"down", "new", "check", "up", "ok", "deny"} \cup Starting \cup InTx]
  BY NamesOfAll DEF TypeOK, Proc
<1>1. \A i \in 1 .. 4 : cache'[w][Kinds[i]] =
          IF i = kind[w] THEN found ELSE cache[w][Kinds[i]]
  <2>1. cache' = [cache EXCEPT ![w][Kinds[kind[w]]] = found]
    BY DEF Cache
  <2>2. cache'[w] = [cache[w] EXCEPT ![Kinds[kind[w]]] = found]
    BY <1>0, <2>1
  <2>3. \A i \in 1 .. 4 : Kinds[i] \in Kind /\ (Kinds[i] = Kinds[kind[w]] <=> i = kind[w])
    BY <1>0, NamesOfAll
  <2>. QED
    BY <1>0, <2>2, <2>3
<1>2. /\ pc'[w] \notin {"save", "listAgain"}
      /\ \A v \in Worker \ {w} :
            pc'[v] = pc[v] /\ kind'[v] = kind[v] /\ cache'[v] = cache[v]
  BY <1>0 DEF Cache, Goto
<1>3. \A i \in 1 .. 4 : i < kind[w] => Past(w, i)
  BY DEF Past
<1>4. \A i \in 1 .. 4 : Past(w, i)' => i <= kind[w]
  <2>1. CASE kind[w] < 4
    <3>1. kind'[w] = kind[w] + 1 /\ pc'[w] = "list"
      BY <1>0, <2>1 DEF Cache, Goto
    <3>. QED
      BY <1>0, <3>1 DEF Past, InTx
  <2>2. CASE kind[w] = 4
    BY <2>2
  <2>. QED
    BY <1>0, <2>1, <2>2
<1>5. ASSUME NEW i \in 1 .. 4, Past(w, i)'
      PROVE  /\ cache'[w][Kinds[i]] # <<>>
             /\ Range(cache'[w][Kinds[i]]) \subseteq Range(docs'[Kinds[i]])
  <2>1. CASE i = kind[w]
    BY <1>1, <2>1
  <2>2. CASE i # kind[w]
    <3>1. Past(w, i)
      BY <1>0, <1>3, <1>4, <1>5, <2>2
    <3>2. /\ cache[w][Kinds[i]] # <<>>
          /\ Range(cache[w][Kinds[i]]) \subseteq Range(docs[Kinds[i]])
      BY <3>1 DEF Cached, CachedBy
    <3>3. Kinds[i] \in Kind
      BY NamesOfAll
    <3>. QED
      BY <1>1, <2>2, <3>2, <3>3
  <2>. QED
    BY <2>1, <2>2
<1>. QED
  BY <1>2, <1>5 DEF CachedBy

(* A start-up that stores nothing: it looks, goes on, or exits. *)
LEMMA LookingStep ==
    ASSUME TypeOK, Cached, Saving, NEW w \in Worker,
           Fork(w) \/ List(w) \/ ListAgain(w) \/ SaveRefused(w) \/ CheckSuperAdmin(w)
    PROVE  /\ docs' = docs
           /\ CachedBy(w)' /\ SavingBy(w)'
           /\ \A v \in Worker \ {w} : /\ pc'[v] = pc[v] /\ kind'[v] = kind[v]
                                      /\ todo'[v] = todo[v] /\ cache'[v] = cache[v]
<1> DEFINE k == Kinds[kind[w]]
<1>0. /\ kind \in [Worker -> 1 .. 4] /\ cache \in [Worker -> [Kind -> Docs]]
      /\ todo \in [Worker -> Docs]
      /\ w \in Proc /\ Worker \subseteq Proc /\ kind[w] \in 1 .. 4
      /\ pc \in [Proc -> {"down", "new", "check", "up", "ok", "deny"} \cup Starting \cup InTx]
      /\ k \in Kind /\ (k = "access" <=> kind[w] = 4) /\ (k = "role" <=> kind[w] = 1)
  <2>1. kind[w] \in 1 .. 4
    BY DEF TypeOK
  <2>2. k \in Kind /\ (k = "access" <=> kind[w] = 4) /\ (k = "role" <=> kind[w] = 1)
    BY <2>1, NamesOfAll
  <2>. QED
    BY <2>1, <2>2 DEF TypeOK, Proc
<1>1. Source(w) = IF k = "access" THEN cache[w].role ELSE Names[k]
  BY <1>0 DEF Source
<1>2. CASE Fork(w)
  <2>1. docs' = docs /\ pc'[w] = "list" /\ kind'[w] = 1
    BY <1>0, <1>2 DEF Fork, Goto
  <2>2. \A i \in 1 .. 4 : ~ Past(w, i)'
    BY <2>1 DEF Past, InTx
  <2>. QED
    BY <1>0, <1>2, <2>1, <2>2 DEF Fork, Goto, CachedBy, SavingBy
<1>3. CASE List(w) /\ docs[k] = <<>>
  <2>1. /\ UNCHANGED <<kind, cache, docs>> /\ todo' = [todo EXCEPT ![w] = Source(w)]
        /\ pc[w] = "list" /\ pc' = [pc EXCEPT ![w] = "save"]
    BY <1>1, <1>3 DEF List, Goto
  <2>2. pc'[w] = "save" /\ todo'[w] = Source(w) /\ Source(w)' = Source(w)
    BY <1>0, <2>1 DEF Source
  <2>3. \A i \in 1 .. 4 : Past(w, i)' => Past(w, i)
    BY <2>1, <2>2 DEF Past, InTx
  <2>4. CachedBy(w)'
    BY <2>1, <2>3 DEF Cached, CachedBy
  <2>5. SavingBy(w)'
    BY <2>1, <2>2 DEF SavingBy
  <2>. QED
    BY <1>0, <2>1, <2>4, <2>5
<1>4. CASE List(w) /\ docs[k] # <<>> /\ k = "role"
  <2>1. /\ UNCHANGED <<kind, cache, todo, docs>>
        /\ pc[w] = "list" /\ pc' = [pc EXCEPT ![w] = "listAgain"]
    BY <1>4 DEF List, Goto
  <2>2. pc'[w] = "listAgain"
    BY <1>0, <2>1
  <2>3. \A i \in 1 .. 4 : Past(w, i)' => Past(w, i)
    BY <2>1, <2>2 DEF Past, InTx
  <2>4. CachedBy(w)'
    BY <2>1, <2>3 DEF Cached, CachedBy
  <2>5. SavingBy(w)'
    BY <1>0, <1>4, <2>1, <2>2 DEF SavingBy
  <2>. QED
    BY <1>0, <2>1, <2>4, <2>5
<1>5. ASSUME NEW found, Cache(w, found), found = docs[k], found # <<>>,
             UNCHANGED <<todo, docs>>, pc[w] \in {"list", "listAgain", "save"}
      PROVE  /\ CachedBy(w)' /\ SavingBy(w)'
             /\ \A v \in Worker \ {w} : /\ pc'[v] = pc[v] /\ kind'[v] = kind[v]
                                        /\ todo'[v] = todo[v] /\ cache'[v] = cache[v]
  BY <1>5, CacheMoves DEF CachedBy, SavingBy
<1>6. CASE List(w) /\ docs[k] # <<>> /\ k # "role"
  <2>1. Cache(w, docs[k]) /\ UNCHANGED <<todo, docs>> /\ pc[w] = "list"
    BY <1>6 DEF List
  <2>. QED
    BY <1>5, <1>6, <2>1
<1>7. CASE ListAgain(w)
  <2>1. /\ Cache(w, docs.role) /\ UNCHANGED <<todo, docs>> /\ pc[w] = "listAgain"
        /\ docs.role # <<>> /\ k = "role"
    BY <1>0, <1>7 DEF ListAgain, Saving, SavingBy
  <2>. QED
    BY <1>5, <2>1
<1>8. CASE SaveRefused(w)
  <2>1. UNCHANGED <<kind, cache, todo, docs>> /\ pc' = [pc EXCEPT ![w] = "down"]
    BY <1>8 DEF SaveRefused, startup, Goto, Reject
  <2>2. pc'[w] = "down" /\ \A i \in 1 .. 4 : ~ Past(w, i)'
    BY <1>0, <2>1 DEF Past, InTx
  <2>. QED
    BY <1>0, <2>1, <2>2 DEF CachedBy, SavingBy
<1>9. CASE CheckSuperAdmin(w)
  <2>1. /\ UNCHANGED <<kind, cache, todo, docs>> /\ pc[w] = "superAdmin"
        /\ pc' = [pc EXCEPT ![w] = "up"] \/ pc' = [pc EXCEPT ![w] = "check"]
    BY <1>9 DEF CheckSuperAdmin, startup, Goto
  <2>2. pc'[w] \in {"up", "check"} /\ \A i \in 1 .. 4 : Past(w, i)
    BY <1>0, <2>1 DEF Past
  <2>3. CachedBy(w)'
    BY <2>1, <2>2 DEF Cached, CachedBy
  <2>4. SavingBy(w)'
    BY <2>2 DEF SavingBy
  <2>. QED
    BY <1>0, <2>1, <2>3, <2>4
<1>10. List(w) => UNCHANGED docs
  BY DEF List
<1>11. ListAgain(w) => UNCHANGED docs
  BY DEF ListAgain
<1>12. CASE List(w)
  BY <1>3, <1>4, <1>6, <1>10, <1>12
<1>. QED
  BY <1>2, <1>7, <1>8, <1>9, <1>11, <1>12

(* A start-up that stores a default document stores one that was missing, and  *)
(* an access only for a stored role.                                        *)
LEMMA SavingStep ==
    ASSUME TypeOK, Cached, Saving, Distinct, NEW w \in Worker, Save(w)
    PROVE  /\ Distinct' /\ CachedBy(w)' /\ SavingBy(w)'
           /\ \A l \in Kind : Range(docs[l]) \subseteq Range(docs'[l])
           /\ docs.role # <<>> => docs'.role # <<>>
           /\ \A v \in Worker \ {w} : /\ pc'[v] = pc[v] /\ kind'[v] = kind[v]
                                      /\ todo'[v] = todo[v] /\ cache'[v] = cache[v]
<1> DEFINE k == Kinds[kind[w]]
           D == UNION {Range(Names[l]) : l \in Kind \ {"access"}}
           doc == Head(todo[w])
<1>0. /\ kind \in [Worker -> 1 .. 4] /\ cache \in [Worker -> [Kind -> Docs]]
      /\ todo \in [Worker -> Docs] /\ docs \in [Kind -> Docs]
      /\ w \in Proc /\ Worker \subseteq Proc /\ kind[w] \in 1 .. 4
      /\ pc \in [Proc -> {"down", "new", "check", "up", "ok", "deny"} \cup Starting \cup InTx]
      /\ k \in Kind /\ (k = "access" <=> kind[w] = 4)
      /\ pc[w] = "save" /\ todo[w] # <<>> /\ "role" \in Kind /\ "access" \in Kind
  <2>1. kind[w] \in 1 .. 4 /\ pc[w] = "save" /\ todo[w] # <<>>
    BY DEF TypeOK, Save
  <2>2. k \in Kind /\ (k = "access" <=> kind[w] = 4) /\ "role" \in Kind /\ "access" \in Kind
    BY <2>1, NamesOfAll
  <2>. QED
    BY <2>1, <2>2 DEF TypeOK, Proc
<1>1. todo[w] \in Seq(D) /\ docs[k] \in Seq(D)
  BY <1>0 DEF Docs
<1>2. Source(w) = IF k = "access" THEN cache[w].role ELSE Names[k]
  BY <1>0 DEF Source
<1>3. /\ doc \notin Range(docs[k]) /\ docs' = [docs EXCEPT ![k] = Append(docs[k], doc)]
      /\ todo' = [todo EXCEPT ![w] = Tail(todo[w])]
  BY DEF Save
<1> HIDE DEF D
<1>4. /\ doc \in D /\ doc \in Range(todo[w])
      /\ Range(Tail(todo[w])) \subseteq Range(todo[w])
      /\ Range(todo[w]) \subseteq {doc} \cup Range(Tail(todo[w]))
      /\ Len(todo[w]) = 1 => Range(Tail(todo[w])) = {}
  BY <1>0, <1>1, HeadAndTail
<1>5. /\ Append(docs[k], doc) # <<>> /\ Range(Append(docs[k], doc)) = Range(docs[k]) \cup {doc}
      /\ IsInjective(docs[k]) => IsInjective(Append(docs[k], doc))
  BY <1>1, <1>3, <1>4, OneMore
<1>6. /\ docs'[k] = Append(docs[k], doc) /\ \A l \in Kind \ {k} : docs'[l] = docs[l]
      /\ todo'[w] = Tail(todo[w]) /\ \A v \in Worker \ {w} : todo'[v] = todo[v]
  BY <1>0, <1>3
<1> HIDE DEF doc
<1>7. /\ \A l \in Kind : Range(docs[l]) \subseteq Range(docs'[l])
      /\ docs.role # <<>> => docs'.role # <<>>
  <2>1. Range(docs[k]) \subseteq Range(docs'[k])
    BY <1>5, <1>6
  <2>2. docs'[k] # <<>>
    BY <1>5, <1>6
  <2>. QED
    BY <1>0, <1>6, <2>1, <2>2
<1>8. /\ Range(todo[w]) \subseteq Range(Source(w))
      /\ Range(Source(w)) \subseteq Range(docs[k]) \cup Range(todo[w])
  BY <1>0 DEF Saving, SavingBy
<1>9. Range(Source(w)) \subseteq Range(docs'[k]) \cup Range(todo'[w])
  BY <1>4, <1>5, <1>6, <1>8
<1>10. Distinct'
  <2>1. \A l \in Kind : IsInjective(docs'[l])
    BY <1>0, <1>5, <1>6 DEF Distinct
  <2>2. CASE k = "access"
    <3>1. Past(w, 1) /\ 1 \in 1 .. 4 /\ Kinds[1] = "role"
      BY <1>0, <2>2, NamesOfAll DEF Past
    <3>2. Range(cache[w].role) \subseteq Range(docs.role)
      BY <3>1 DEF Cached, CachedBy
    <3>3. doc \in Range(docs.role)
      BY <1>2, <1>4, <1>8, <2>2, <3>2
    <3>4. /\ docs'.role = docs.role /\ Range(docs.access) \subseteq Range(docs.role)
          /\ Range(docs'.access) = Range(docs.access) \cup {doc}
      BY <1>0, <1>5, <1>6, <2>2 DEF Distinct
    <3>. QED
      BY <2>1, <3>3, <3>4 DEF Distinct
  <2>3. CASE k # "access"
    BY <1>0, <1>6, <1>7, <2>1, <2>3 DEF Distinct
  <2>. QED
    BY <2>2, <2>3
<1>11. CASE Len(todo[w]) = 1
  <2>1. Cache(w, Source(w)) /\ Source(w) # <<>>
    BY <1>0, <1>2, <1>11, SourceFull DEF Save
  <2>2. Range(Source(w)) \subseteq Range(docs'[k])
    BY <1>4, <1>6, <1>9, <1>11
  <2>. QED
    BY <1>0, <1>6, <1>7, <1>10, <2>1, <2>2, CacheMoves DEF CachedBy, SavingBy
<1>12. CASE Len(todo[w]) # 1
  <2>1. UNCHANGED <<pc, kind, cache>>
    BY <1>12 DEF Save
  <2>2. Source(w)' = Source(w) /\ \A i \in 1 .. 4 : Past(w, i)' => Past(w, i)
    BY <2>1 DEF Source, Past
  <2>3. \A i \in 1 .. 4 : Kinds[i] \in Kind
    BY NamesOfAll
  <2>4. CachedBy(w)'
    BY <1>7, <2>1, <2>2, <2>3 DEF Cached, CachedBy
  <2>5. SavingBy(w)'
    BY <1>0, <1>4, <1>6, <1>8, <1>9, <2>1, <2>2 DEF SavingBy
  <2>. QED
    BY <1>6, <1>7, <1>10, <2>1, <2>4, <2>5
<1>. QED
  BY <1>11, <1>12

(* Whoever moves, what is cached is stored, and what is stored is stored once. *)
LEMMA DefaultsStep ==
    ASSUME TypeOK, Cached, Saving, Distinct, [Next]_vars
    PROVE  Cached' /\ Saving' /\ Distinct'
<1>0. Kind \subseteq DOMAIN docs /\ \A v \in Worker : kind[v] \in 1 .. 4
  BY DEF TypeOK
<1>1. CASE ~ \E w \in Worker : StartUp(w)
  <2>1. /\ UNCHANGED <<kind, todo, cache, docs>>
        /\ \A v \in Worker, i \in 1 .. 4 : Past(v, i)' => Past(v, i)
        /\ \A v \in Worker : pc'[v] \in {"save", "listAgain"} => pc'[v] = pc[v]
    BY <1>1, OtherMoves DEF Past, InTx
  <2>2. Cached' /\ Distinct'
    BY <2>1 DEF Cached, CachedBy, Distinct
  <2>3. \A v \in Worker : Source(v)' = Source(v)
    BY <2>1 DEF Source
  <2>4. Saving'
    BY <2>1, <2>3 DEF Saving, SavingBy
  <2>. QED
    BY <2>2, <2>4
<1>2. ASSUME NEW w \in Worker, StartUp(w)
      PROVE  Cached' /\ Saving' /\ Distinct'
  <2>1. /\ Distinct' /\ CachedBy(w)' /\ SavingBy(w)'
        /\ \A l \in Kind : Range(docs[l]) \subseteq Range(docs'[l])
        /\ docs.role # <<>> => docs'.role # <<>>
        /\ \A v \in Worker \ {w} : /\ pc'[v] = pc[v] /\ kind'[v] = kind[v]
                                   /\ todo'[v] = todo[v] /\ cache'[v] = cache[v]
    BY <1>2, LookingStep, SavingStep DEF StartUp, Distinct
  <2>2. ASSUME NEW v \in Worker \ {w}
        PROVE  CachedBy(v)' /\ SavingBy(v)'
    BY <1>0, <2>1, <2>2, OthersStand DEF CachedBy, SavingBy
  <2>3. \A v \in Worker : CachedBy(v)' /\ SavingBy(v)'
    BY <2>1, <2>2
  <2>. QED
    BY <2>1, <2>3 DEF Cached, Saving, CachedBy, SavingBy
<1>. QED
  BY <1>1, <1>2

-----------------------------------------------------------------------------
(* The invariant *)

(* It holds at first: no worker is up, and nothing is stored. *)
LEMMA AccountInvInit == Init => AccountInv
<1> SUFFICES ASSUME Init PROVE AccountInv
  OBVIOUS
<1>1. <<>> \in Docs
  BY DEF Docs
<1>2. /\ \A p \in Proc : pc[p] \in {"down", "new"} /\ wrote[p] = {}
      /\ \A k \in Part : accounts[k] = {}
      /\ \A k \in Kind : docs[k] = <<>>
      /\ Worker \subseteq Proc /\ Request \subseteq Proc
  BY DEF Init, Proc
<1>3. /\ "user" \in Part /\ "role" \in Kind /\ "access" \in Kind
  BY NamesOfAll
<1>4. TypeOK
  <2>1. todo \in [Worker -> Docs] /\ cache \in [Worker -> [Kind -> Docs]] /\ docs \in [Kind -> Docs]
    BY <1>1 DEF Init
  <2>2. /\ kind \in [Worker -> 1 .. 4] /\ on \in [Request -> Worker \cup {NoWorker}]
        /\ wrote \in [Proc -> SUBSET Part] /\ accounts \in [Part -> SUBSET (Username \X Proc)]
    BY DEF Init
  <2>3. failures \in 0 .. MaxFailures
    BY AccountAssumption DEF Init
  <2>4. pc \in [Proc -> {"down", "new", "check", "up", "ok", "deny"} \cup Starting \cup InTx]
    BY DEF Init
  <2>5. \A w \in Worker : pc[w] = "save" => todo[w] # <<>>
    BY <1>2
  <2>. QED
    BY <2>1, <2>2, <2>3, <2>4, <2>5 DEF TypeOK
<1>5. Written /\ Whole /\ Alone
  BY <1>2, <1>3 DEF Written, Whole, Alone
<1>6. SuccessMeansStored
  BY <1>2 DEF SuccessMeansStored
<1>7. Cached /\ Saving
  BY <1>2 DEF Cached, CachedBy, Past, Saving, SavingBy, InTx
<1>8. Distinct
  BY <1>2, <1>3 DEF Distinct, IsInjective, Range
<1>. QED
  BY <1>4, <1>5, <1>6, <1>7, <1>8 DEF AccountInv

(* AccountInv holds in every reachable state. *)
THEOREM AccountInvariance == Spec => []AccountInv
<1>1. AccountInv /\ [Next]_vars => AccountInv'
  BY TypeStep, WrittenStep, AccountsStep, SuccessStep, DefaultsStep DEF AccountInv
<1>. QED
  BY <1>1, AccountInvInit, PTL DEF Spec

(* Every account has all its parts from one createNewUser, and a username is   *)
(* given once, whatever raced, failed or crashed.                            *)
THEOREM AccountsCorrect == Spec => []AccountsWhole
<1>1. AccountInv => AccountsWhole
  BY DEF AccountInv, Whole, Alone, AccountsWhole
<1>. QED
  BY <1>1, AccountInvariance, PTL

(* Who is answered ok made the account, and a worker that serves has a super   *)
(* admin.                                                                   *)
THEOREM SuccessCorrect == Spec => []SuccessMeansStored
<1>1. AccountInv => SuccessMeansStored
  BY DEF AccountInv
<1>. QED
  BY <1>1, AccountInvariance, PTL

(* No default document is stored twice, and a worker that serves has cached    *)
(* documents that are stored, of every collection.                           *)
THEOREM DefaultsCorrect == Spec => []DefaultsOnce
<1>1. ASSUME AccountInv
      PROVE  DefaultsOnce
  <2>1. \A w \in Worker : pc[w] = "up" => \A i \in 1 .. 4 : Past(w, i)
    BY DEF Past
  <2>2. \A k \in Kind : \E i \in 1 .. 4 : k = Kinds[i]
    BY DEF Kind
  <2>3. Cached /\ Distinct
    BY <1>1 DEF AccountInv
  <2>4. ASSUME NEW w \in Worker, pc[w] = "up", NEW k \in Kind
        PROVE  cache[w][k] # <<>> /\ Range(cache[w][k]) \subseteq Range(docs[k])
    <3>1. PICK i \in 1 .. 4 : k = Kinds[i]
      BY <2>2
    <3>2. Past(w, i)
      BY <2>1, <2>4
    <3>. QED
      BY <2>3, <3>1, <3>2 DEF Cached, CachedBy
  <2>. QED
    BY <2>3, <2>4 DEF Distinct, DefaultsOnce
<1>. QED
  BY <1>1, AccountInvariance, PTL
=============================================================================
