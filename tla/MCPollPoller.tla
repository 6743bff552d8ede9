---------------------------- MODULE MCPollPoller ----------------------------
(* Small instance of PollPoller: e1 and e4 share descriptor f1.            *)
EXTENDS PollPoller

CONSTANTS e1, e2, e3, e4, f1, f2, f3

MCFdOf == [e \in Events |-> CASE e \in {e1, e4} -> f1
                              [] e = e2 -> f2
                              [] e = e3 -> f3]

\* Exchanging the two Events of f1, or e2 and f2 with e3 and f3.
Exchange(pairs) ==
  [x \in Events \cup Fds |->
     IF \E p \in pairs : x \in p THEN CHOOSE y \in UNION pairs : y # x /\ {x, y} \in pairs
     ELSE x]
Symmetry ==
  {Exchange(pairs) : pairs \in {{{e1, e4}}, {{e2, e3}, {f2, f3}},
                                {{e1, e4}, {e2, e3}, {f2, f3}}}}
=============================================================================
