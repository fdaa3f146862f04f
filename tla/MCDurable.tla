------------------------------ MODULE MCDurable ------------------------------
(* Processes, one after the other or at once, on one state database.        *)
EXTENDS DurableRunsProperties, TLC

CONSTANTS p1, p2, a, b

\* Two bodies and a feed that loses its end once; one body and a feed that is
\* replaced once.
MCTakeover == [bodies |-> {a, b}, sessions |-> 0, losses |-> 1]
MCReplaced == [bodies |-> {a}, sessions |-> 1, losses |-> 0]
MCScenes == {MCTakeover, MCReplaced}

MCQuiet == {[bodies |-> {a}, sessions |-> 0, losses |-> 0]}

\* The first scene is the same under another name of its bodies, the second is
\* not: every behaviour of it still has one of its own.
ProcsAndBodies == Permutations(Procs) \cup Permutations(Bodies)
=============================================================================
