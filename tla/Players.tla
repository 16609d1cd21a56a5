------------------------------ MODULE Players ------------------------------
(***************************************************************************)
(* What the components of a zone and of a room name alike.                 *)
(***************************************************************************)
CONSTANTS Player,
          None     \* nobody, and what has no value
=============================================================================
