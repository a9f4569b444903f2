------------------------------ MODULE ImapStates ------------------------------
(***************************************************************************)
(* The states of an IMAP connection as RFC 3501 section 3 draws them, which  *)
(* is what constants.ts:9 says its State enum is.  A connection logs in      *)
(* once, as one user; it selects mailboxes of that user, one at a time; and  *)
(* nothing follows LOGOUT.                                                  *)
(***************************************************************************)
CONSTANTS Conn, User, Mailbox, Owner, NoUser, NoBox

VARIABLES state, user, box

vars == <<state, user, box>>

Init ==
    /\ state = [c \in Conn |-> "NOTAUTH"]
    /\ user = [c \in Conn |-> NoUser]
    /\ box = [c \in Conn |-> NoBox]

Login(c) ==
    /\ state[c] = "NOTAUTH"
    /\ state' = [state EXCEPT ![c] = "AUTH"]
    /\ \E u \in User : user' = [user EXCEPT ![c] = u]
    /\ UNCHANGED box

Select(c) ==
    /\ state[c] \in {"AUTH", "SELECTED"}
    /\ state' = [state EXCEPT ![c] = "SELECTED"]
    /\ \E b \in Mailbox :
          /\ Owner[b] = user[c]
          /\ box' = [box EXCEPT ![c] = b]
    /\ UNCHANGED user

(* CLOSE, UNSELECT, or a SELECT that fails. *)
Unselect(c) ==
    /\ state[c] = "SELECTED"
    /\ state' = [state EXCEPT ![c] = "AUTH"]
    /\ box' = [box EXCEPT ![c] = NoBox]
    /\ UNCHANGED user

Logout(c) ==
    /\ state[c] \in {"AUTH", "SELECTED"}
    /\ state' = [state EXCEPT ![c] = "LOGOUT"]
    /\ user' = [user EXCEPT ![c] = NoUser]
    /\ box' = [box EXCEPT ![c] = NoBox]

Next == \E c \in Conn : Login(c) \/ Select(c) \/ Unselect(c) \/ Logout(c)

Spec == Init /\ [][Next]_vars
=============================================================================
