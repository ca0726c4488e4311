------------------------------- MODULE MCLobby -------------------------------
(* Instance of Lobby for TLC: users and connections are interchangeable. *)
EXTENDS Lobby, TLC

Symmetry == Permutations(Users) \cup Permutations(Conns)

=============================================================================
