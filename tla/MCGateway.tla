------------------------------ MODULE MCGateway ------------------------------
(* The instance of Gateway that TLC checks.                                *)
EXTENDS Gateway

\* The instance admits more than one user does.
MCBurst == [l \in Limiters |-> IF l = "instance" THEN 2 ELSE 1]
=============================================================================
