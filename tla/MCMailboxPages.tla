--------------------------- MODULE MCMailboxPages ---------------------------
(* A small instance of MailboxPages. *)
EXTENDS MailboxPages, TLC

CONSTANTS m1, m2, m3, m4

MCLimits == {-1, 2}

MCSymmetry == Permutations(Message)
=============================================================================
