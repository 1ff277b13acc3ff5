---------------------------- MODULE MCNetServer ----------------------------
(* Connections and userdata are interchangeable: no definition of NetServer *)
(* orders them or names one, and no liveness is checked.                    *)
EXTENDS NetServer, TLC

Symmetry == Permutations(Conns) \cup Permutations(Socks)
=============================================================================
