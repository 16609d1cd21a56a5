--------------------------- MODULE MCServerSession ---------------------------
(***************************************************************************)
(* ServerSession for TLC.                                                  *)
(***************************************************************************)
EXTENDS ServerSession, TLC

\* Players, connections and clients are interchangeable; rooms are not, one of
\* them is the lobby.
Symmetry == Permutations(Player) \cup Permutations(Conn) \cup Permutations(Client)
=============================================================================
