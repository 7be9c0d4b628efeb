----------------------------- MODULE MCNetwork ------------------------------
(* Network with two local blocks, each of which may become a link or a      *)
(* person, and three blocks for what is behind the links.                  *)
EXTENDS Network, TLC

Alike == Permutations(Locals) \cup Permutations(Remotes)
=============================================================================
