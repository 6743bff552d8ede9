--------------------------- MODULE MCEpollPoller ----------------------------
(* Small instance of EpollPoller: e1 and e4 share descriptor f1.            *)
EXTENDS EpollPoller, TLC

CONSTANTS e1, e2, e3, e4, f1, f2, f3

MCFdOf == [e \in Events |-> CASE e \in {e1, e4} -> f1
                              [] e = e2 -> f2
                              [] e = e3 -> f3]

\* Exchanging the two Events of f1.
Symmetry == Permutations({e1, e4})
=============================================================================
