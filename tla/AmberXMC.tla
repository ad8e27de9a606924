------------------------------ MODULE AmberXMC ------------------------------
(* Instance of AmberX: two clients, of which the first makes two requests. *)
EXTENDS AmberX

Requests == <<2, 0>>
=============================================================================
