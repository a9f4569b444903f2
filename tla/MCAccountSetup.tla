--------------------------- MODULE MCAccountSetup ---------------------------
(* Small instances of AccountSetup: two workers, and two requests for the     *)
(* same username, one as an admin and one as a user.                         *)
EXTENDS AccountSetup

CONSTANTS w1, w2, r1, r2

MCNameOf == [r \in Request |-> "bob"]
MCNewRole == [r \in Request |-> IF r = r1 THEN "admin" ELSE "user"]

(* One privilege and one resource stand for the four and the nine: they are   *)
(* stored in the same way as the roles and nothing reads them.               *)
MCNames == [k \in {"role", "privilege", "resource"} |->
    CASE k = "role" -> <<"admin", "user", "super_admin">>
      [] k = "privilege" -> <<"create">>
      [] k = "resource" -> <<"user">>]
=============================================================================
