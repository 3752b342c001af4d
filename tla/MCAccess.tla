------------------------------ MODULE MCAccess ------------------------------
(* The operations are interchangeable, and so are the calls.  The two halves *)
(* of the module meet only in the account of the token and in the restart:   *)
(* TLC takes calls while no session was issued, or sessions and no call.     *)
EXTENDS Access, TLC

Interchangeable == Permutations(Operation) \cup Permutations(Call)

OneHalf ==
    \/ \A s \in Session : row[s] = NoRow
    \/ token.count = 0 /\ token.status = "active"
=============================================================================
