----------------------------- MODULE MCPersistence -----------------------------
(* Persistence on small instances: one disc, two players, two generations;    *)
(* the players and the generations are interchangeable.                       *)
EXTENDS Persistence, TLC

Symmetric == Permutations(Players) \cup Permutations(Generations)
=============================================================================
