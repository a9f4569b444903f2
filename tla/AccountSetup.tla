----------------------------- MODULE AccountSetup -----------------------------
(***************************************************************************)
(* How workers of the HTTP cluster start and how accounts are created.       *)
(* Every worker that starts (index.ts, with MULTI_CORE) fills the collections *)
(* of roles, privileges, resources and accesses if it finds them empty, and   *)
(* creates the super admin if there is none (initDbDocsPlugin.ts).  A worker  *)
(* whose start-up fails exits, and is forked again.  Once it is up it serves  *)
(* requests to create users, which the authorization hook checks against the  *)
(* accesses cached at start-up.                                              *)
(*                                                                          *)
(* An account is a document in each of four collections, written by one       *)
(* transaction (userTransaction.ts).  MongoDB's unique indexes, taken to be    *)
(* built, refuse a document whose key is stored, and inside a transaction     *)
(* also one that another open transaction has written.                       *)
(***************************************************************************)
EXTENDS Integers, Sequences, FiniteSets, Functions

CONSTANTS
    Worker,
    Request,      \* requests to create a user, one each
    Username,
    NameOf,       \* the username a request asks for
    NewRole,      \* the role it asks for
    SuperAdmin,   \* SUPERADMIN_USERNAME
    Names,        \* the default documents of each collection but accesses
    MaxFailures,  \* bound on crashes, failed calls and lost answers
    NoWorker

Kinds == <<"role", "privilege", "resource", "access">>
Kind == {Kinds[i] : i \in 1 .. 4}

(* The collections createNewUser writes, in its order. *)
Parts == <<"address", "mailboxes", "bucket", "user">>
Part == {Parts[i] : i \in 1 .. 4}

(* The roles whose default access holds CREATE on USER (accessService.ts). *)
MayCreate == {"admin", "super_admin"}

ASSUME AccountAssumption ==
    /\ NameOf \in [Request -> Username] /\ SuperAdmin \in Username
    /\ NewRole \in [Request -> {"admin", "user"}]
    /\ \A k \in Kind \ {"access"} :
          Names[k] \in Seq(Range(Names[k])) /\ Names[k] # <<>> /\ IsInjective(Names[k])
    /\ Names["role"] = <<"admin", "user", "super_admin">>
    /\ MaxFailures \in Nat
    /\ Worker \cap Request = {} /\ NoWorker \notin Worker

VARIABLES
    pc,        \* where each worker and each request stands
    kind,      \* the collection a starting worker is at
    todo,      \* the documents it has still to save
    cache,     \* fastify.initDb: the documents it found or saved
    on,        \* the worker that handles a request
    wrote,     \* what the open transaction of a process has written
    docs,      \* stored default documents, in the order of insertion
    accounts,  \* stored parts of accounts: <<username, process that made it>>
    failures   \* crashes, failed calls and lost answers so far

startup == <<kind, todo, cache, docs>>
vars == <<pc, startup, on, wrote, accounts, failures>>

Proc == Worker \cup Request
Wanted(p) == IF p \in Worker THEN SuperAdmin ELSE NameOf[p]
InTx == {"find", "address", "mailboxes", "bucket", "user", "commit"}
Starting == {"list", "listAgain", "save", "superAdmin"}

Init ==
    /\ pc = [p \in Proc |-> IF p \in Worker THEN "down" ELSE "new"]
    /\ kind = [w \in Worker |-> 1]
    /\ todo = [w \in Worker |-> <<>>]
    /\ cache = [w \in Worker |-> [k \in Kind |-> <<>>]]
    /\ on = [r \in Request |-> NoWorker]
    /\ wrote = [p \in Proc |-> {}]
    /\ docs = [k \in Kind |-> <<>>]
    /\ accounts = [k \in Part |-> {}]
    /\ failures = 0

-----------------------------------------------------------------------------
(* Helpers.  An operator marked Mutant is a bug this code could have had; it  *)
(* stands in for the definition that follows it to show a property can fail. *)

Goto(p, label) == pc' = [pc EXCEPT ![p] = label]

(* What a rejected promise leads to: process.exit for a worker that starts,   *)
(* an error answer for a request.                                            *)
Reject(p) == Goto(p, IF p \in Worker THEN "down" ELSE "deny")

(* create() of the service for a collection returns these documents. *)
Cache(w, found) ==
    /\ cache' = [cache EXCEPT ![w][Kinds[kind[w]]] = found]
    /\ IF kind[w] < 4
       THEN kind' = [kind EXCEPT ![w] = @ + 1] /\ Goto(w, "list")
       ELSE UNCHANGED kind /\ Goto(w, "superAdmin")

Stored(part, name) == \E a \in accounts[part] : a[1] = name

(* MongoDB refuses the insertion: the key is stored or being written. *)
Refused(p, part) ==
    \/ Stored(part, Wanted(p))
    \/ \E q \in Proc \ {p} : part \in wrote[q] /\ Wanted(q) = Wanted(p)

-----------------------------------------------------------------------------
(* Start-up of a worker *)

(* cluster.fork, at first and again after 'exit'. *)
Fork(w) ==
    /\ pc[w] = "down"
    /\ Goto(w, "list")
    /\ kind' = [kind EXCEPT ![w] = 1]
    /\ todo' = [todo EXCEPT ![w] = <<>>]
    /\ cache' = [cache EXCEPT ![w] = [k \in Kind |-> <<>>]]
    /\ UNCHANGED <<on, wrote, docs, accounts, failures>>

(* create(): find all; initDb if there are none.  The roles are read a second  *)
(* time, and an access is saved for each role that was returned.             *)
List(w) ==
    LET k == Kinds[kind[w]]
    IN  /\ pc[w] = "list"
        /\ \/ /\ docs[k] = <<>>
              /\ todo' = [todo EXCEPT
                             ![w] = IF k = "access" THEN cache[w].role ELSE Names[k]]
              /\ Goto(w, "save")
              /\ UNCHANGED <<kind, cache>>
           \/ /\ docs[k] # <<>> /\ k = "role"
              /\ Goto(w, "listAgain")
              /\ UNCHANGED <<kind, todo, cache>>
           \/ /\ docs[k] # <<>> /\ k # "role"
              /\ Cache(w, docs[k])
              /\ UNCHANGED todo
        /\ UNCHANGED <<on, wrote, docs, accounts, failures>>

ListAgain(w) ==
    /\ pc[w] = "listAgain"
    /\ Cache(w, docs.role)
    /\ UNCHANGED <<todo, on, wrote, docs, accounts, failures>>

(* Mutant: the collection has no unique index. *)
SaveTwice(w) ==
    LET k == Kinds[kind[w]]
    IN  /\ pc[w] = "save"
        /\ docs' = [docs EXCEPT ![k] = Append(@, Head(todo[w]))]
        /\ todo' = [todo EXCEPT ![w] = Tail(@)]
        /\ IF Len(todo[w]) = 1
           THEN Cache(w, IF k = "access" THEN cache[w].role ELSE Names[k])
           ELSE UNCHANGED <<pc, kind, cache>>
        /\ UNCHANGED <<on, wrote, accounts, failures>>

(* initDb: one save after the other, outside any transaction. *)
Save(w) ==
    LET k == Kinds[kind[w]]
        doc == Head(todo[w])
    IN  /\ pc[w] = "save"
        /\ doc \notin Range(docs[k])
        /\ docs' = [docs EXCEPT ![k] = Append(@, doc)]
        /\ todo' = [todo EXCEPT ![w] = Tail(@)]
        /\ IF Len(todo[w]) = 1
           THEN Cache(w, IF k = "access" THEN cache[w].role ELSE Names[k])
           ELSE UNCHANGED <<pc, kind, cache>>
        /\ UNCHANGED <<on, wrote, accounts, failures>>

(* The unique index refuses a document that another worker has saved. *)
SaveRefused(w) ==
    /\ pc[w] = "save"
    /\ Head(todo[w]) \in Range(docs[Kinds[kind[w]]])
    /\ Reject(w)
    /\ UNCHANGED <<startup, on, wrote, accounts, failures>>

(* Mutant: the super admin is created without a look. *)
CheckSuperAdminNever(w) ==
    /\ pc[w] = "superAdmin"
    /\ Goto(w, "check")
    /\ UNCHANGED <<startup, on, wrote, accounts, failures>>

(* createSuperAdminIfNotExist. *)
CheckSuperAdmin(w) ==
    /\ pc[w] = "superAdmin"
    /\ Goto(w, IF Stored("user", SuperAdmin) THEN "up" ELSE "check")
    /\ UNCHANGED <<startup, on, wrote, accounts, failures>>

-----------------------------------------------------------------------------
(* Creation of an account *)

(* The role a stored account was created with. *)
RoleMadeBy(p) == IF p \in Worker THEN "super_admin" ELSE NewRole[p]

(* A stored user calls.  The authorization hook: an access missing in the      *)
(* cache, or one without the permission, is an error answer.                 *)
Receive(r, w, sender) ==
    /\ pc[r] = "new" /\ pc[w] = "up"
    /\ on' = [on EXCEPT ![r] = w]
    /\ Goto(r, IF RoleMadeBy(sender[2]) \in Range(cache[w].access) \cap MayCreate
               THEN "check" ELSE "deny")
    /\ UNCHANGED <<startup, wrote, accounts, failures>>

(* checkAvailibility, outside the transaction. *)
Check(p) ==
    /\ pc[p] = "check"
    /\ IF Stored("user", Wanted(p)) THEN Reject(p) ELSE Goto(p, "find")
    /\ UNCHANGED <<startup, on, wrote, accounts, failures>>

(* The transaction's first read: the address must be free. *)
FindAddress(p) ==
    /\ pc[p] = "find"
    /\ IF Stored("address", Wanted(p)) THEN Reject(p) ELSE Goto(p, "address")
    /\ UNCHANGED <<startup, on, wrote, accounts, failures>>

After(part) == IF part = "user" THEN "commit"
               ELSE Parts[1 + CHOOSE i \in 1 .. 3 : Parts[i] = part]

(* Mutant: createBucket is not passed the session. *)
WriteOutside(p, part) ==
    /\ pc[p] = part
    /\ part \in {"address", "user"} => ~ Refused(p, part)
    /\ IF part = "bucket"
       THEN /\ accounts' = [accounts EXCEPT !.bucket = @ \cup {<<Wanted(p), p>>}]
            /\ UNCHANGED wrote
       ELSE wrote' = [wrote EXCEPT ![p] = @ \cup {part}] /\ UNCHANGED accounts
    /\ Goto(p, After(part))
    /\ UNCHANGED <<startup, on, failures>>

(* Address, system mailboxes, bucket and user; addresses and usernames are     *)
(* unique.                                                                  *)
Write(p, part) ==
    /\ pc[p] = part
    /\ part \in {"address", "user"} => ~ Refused(p, part)
    /\ wrote' = [wrote EXCEPT ![p] = @ \cup {part}]
    /\ Goto(p, After(part))
    /\ UNCHANGED <<startup, on, accounts, failures>>

(* Mutant: the error of the transaction is logged and start-up goes on. *)
WriteRefusedIgnored(p, part) ==
    /\ pc[p] = part
    /\ part \in {"address", "user"} /\ Refused(p, part)
    /\ wrote' = [wrote EXCEPT ![p] = {}]
    /\ IF p \in Worker THEN Goto(p, "up") ELSE Reject(p)
    /\ UNCHANGED <<startup, on, accounts, failures>>

WriteRefused(p, part) ==
    /\ pc[p] = part
    /\ part \in {"address", "user"} /\ Refused(p, part)
    /\ wrote' = [wrote EXCEPT ![p] = {}]
    /\ Reject(p)
    /\ UNCHANGED <<startup, on, accounts, failures>>

Apply(p) ==
    /\ accounts' = [k \in Part |->
          IF k \in wrote[p] THEN accounts[k] \cup {<<Wanted(p), p>>}
          ELSE accounts[k]]
    /\ wrote' = [wrote EXCEPT ![p] = {}]

Commit(p) ==
    /\ pc[p] = "commit"
    /\ Apply(p)
    /\ Goto(p, IF p \in Worker THEN "up" ELSE "ok")
    /\ UNCHANGED <<startup, on, failures>>

-----------------------------------------------------------------------------
(* Failures *)

CanFail == failures < MaxFailures /\ failures' = failures + 1

(* The commit takes effect, its answer is lost. *)
CommitLost(p) ==
    /\ CanFail
    /\ pc[p] = "commit"
    /\ Apply(p)
    /\ Reject(p)
    /\ UNCHANGED <<startup, on>>

(* A call of a request that runs is rejected. *)
Fail(r) ==
    /\ CanFail
    /\ pc[r] \in InTx \cup {"check"}
    /\ wrote' = [wrote EXCEPT ![r] = {}]
    /\ Reject(r)
    /\ UNCHANGED <<startup, on, accounts>>

(* A worker dies, or a call of its start-up is rejected; what it was doing for *)
(* requests goes with it.                                                   *)
Crash(w) ==
    LET gone == {w} \cup {r \in Request : on[r] = w /\ pc[r] \in InTx \cup {"check"}}
    IN  /\ CanFail
        /\ pc[w] # "down"
        /\ pc' = [p \in Proc |->
                     IF p = w THEN "down" ELSE IF p \in gone THEN "deny" ELSE pc[p]]
        /\ wrote' = [p \in Proc |-> IF p \in gone THEN {} ELSE wrote[p]]
        /\ UNCHANGED <<startup, on, accounts>>

-----------------------------------------------------------------------------
StartUp(w) ==
    \/ Fork(w)
    \/ List(w)
    \/ ListAgain(w)
    \/ Save(w)
    \/ SaveRefused(w)
    \/ CheckSuperAdmin(w)

Create(p) ==
    \/ Check(p)
    \/ FindAddress(p)
    \/ \E part \in Part : Write(p, part) \/ WriteRefused(p, part)
    \/ Commit(p)

Next ==
    \/ \E w \in Worker : StartUp(w) \/ Crash(w)
    \/ \E r \in Request, w \in Worker : \E sender \in accounts.user :
          Receive(r, w, sender)
    \/ \E p \in Proc : Create(p) \/ CommitLost(p)
    \/ \E r \in Request : Fail(r)

(* The cluster forks again, and calls return.  Nobody has to send a request. *)
Fairness ==
    /\ \A w \in Worker : WF_vars(StartUp(w))
    /\ \A p \in Proc : WF_vars(Create(p))

Spec == Init /\ [][Next]_vars /\ Fairness

-----------------------------------------------------------------------------
(* Properties *)

Docs == Seq(UNION {Range(Names[k]) : k \in Kind \ {"access"}})

TypeOK ==
    /\ pc \in [Proc -> {"down", "new", "check", "up", "ok", "deny"}
                       \cup Starting \cup InTx]
    /\ kind \in [Worker -> 1 .. 4]
    /\ todo \in [Worker -> Docs]
    /\ \A w \in Worker : pc[w] = "save" => todo[w] # <<>>
    /\ cache \in [Worker -> [Kind -> Docs]]
    /\ on \in [Request -> Worker \cup {NoWorker}]
    /\ wrote \in [Proc -> SUBSET Part]
    /\ docs \in [Kind -> Docs]
    /\ accounts \in [Part -> SUBSET (Username \X Proc)]
    /\ failures \in 0 .. MaxFailures

(* An account has its address, mailboxes, bucket and user, all made by the     *)
(* same createNewUser, or none, whatever raced, failed or crashed; and although *)
(* the checks and the writes are apart, a username is given once.  (The types  *)
(* come with it.)                                                           *)
AccountsWhole ==
    /\ TypeOK
    /\ \A k \in Part : accounts[k] = accounts.user
    /\ \A a, b \in accounts.user : a[1] = b[1] => a = b

(* Of the requests and workers that race for one name, the one answered "ok"   *)
(* is the one that made the account; and a worker serves only when the super  *)
(* admin is there, whichever worker made it.                                 *)
SuccessMeansStored ==
    /\ \A r \in Request : pc[r] = "ok" => <<NameOf[r], r>> \in accounts.user
    /\ \A w \in Worker : pc[w] = "up" => Stored("user", SuperAdmin)

(* However the workers overlap in filling the collections, none is stored      *)
(* twice, and an access is stored and cached only for a role that is stored.  *)
DefaultsOnce ==
    /\ \A k \in Kind : IsInjective(docs[k])
    /\ Range(docs.access) \subseteq Range(docs.role)
    /\ \A w \in Worker : pc[w] = "up" =>
          \A k \in Kind : cache[w][k] # <<>> /\ Range(cache[w][k]) \subseteq Range(docs[k])

(* Every worker comes up: exits caused by other workers' documents and         *)
(* transactions end.                                                        *)
WorkersStart == \A w \in Worker : (pc[w] # "up") ~> (pc[w] = "up")

=============================================================================
