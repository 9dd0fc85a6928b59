--------------------------- MODULE MCSessionNotes ---------------------------
(* Small instances of the notes protocol for TLC. *)
EXTENDS SessionNotes, TLC

CONSTANTS k1, k2, w1, w2

\* Each worktree has a clone of its own, or both are linked to one of them;
\* with one commit to stamp and a fault, or with two commits and none
Apart == (w1 :> k1) @@ (w2 :> k2)
Layouts == {Apart} \cup {[w \in Worktrees |-> k] : k \in Clones}
LayoutsAndFaults ==
    {[clone |-> layout, made |-> Commits, faults |-> 0] : layout \in Layouts} \cup
    {[clone |-> layout, made |-> {Base}, faults |-> MaxFaults] : layout \in Layouts}
OnlyApart == {[clone |-> Apart, made |-> {Base}, faults |-> 0]}

\* Sessions are alike, and so are the worktrees with their clones
Swap == (w1 :> w2) @@ (w2 :> w1) @@ (k1 :> k2) @@ (k2 :> k1)
Stay == (w1 :> w1) @@ (w2 :> w2) @@ (k1 :> k1) @@ (k2 :> k2)
Alike == {p @@ q : p \in Permutations(Sessions), q \in {Swap, Stay}}
=============================================================================
