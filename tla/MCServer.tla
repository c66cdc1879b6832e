-------------------------------- MODULE MCServer -------------------------------
(***************************************************************************)
(* TLC instances of Server.                                                *)
(***************************************************************************)
EXTENDS Server, TLC

Interchangeable == Permutations(Client)

================================================================================
