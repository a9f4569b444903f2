--------------------------- MODULE MCStreamHandler ---------------------------
(* Small sessions for StreamHandler. *)
EXTENDS StreamHandler

(* A line, commands with one to three literals, a line. *)
Mixed == <<[width |-> 7, literals |-> <<>>],
           [width |-> 4, literals |-> <<3, 2>>],
           [width |-> 5, literals |-> <<4>>],
           [width |-> 2, literals |-> <<5, 1, 3>>],
           [width |-> 3, literals |-> <<>>]>>

(* Literals, one of them empty, around a line longer than MaxLine. *)
Crowded == <<[width |-> 2, literals |-> <<2>>],
             [width |-> 11, literals |-> <<>>],
             [width |-> 3, literals |-> <<0, 2>>]>>

Lockstep == [script |-> Mixed, pipelining |-> FALSE, cutAfterLiteral |-> FALSE]
Adverse == [script |-> Crowded, pipelining |-> TRUE, cutAfterLiteral |-> TRUE]

LockstepAndAdverse == {Lockstep, Adverse}
OnlyCut == {[Lockstep EXCEPT !.cutAfterLiteral = TRUE]}
=============================================================================
