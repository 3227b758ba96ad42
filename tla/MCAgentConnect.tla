----------------------------- MODULE MCAgentConnect -----------------------------
(***************************************************************************)
(* Small instances of AgentConnect: two files, each with the gateway's     *)
(* address, a key that follows the pool and a key of the user's.           *)
(***************************************************************************)
EXTENDS AgentConnect, TLC

MCKeys    == {"url", "model", "own"}
MCManaged == {"url", "model"}

Symmetry == Permutations(Threads) \cup Permutations(Versions) \cup Permutations(Choices)

\* What comes after a restoration has met a rewriting is not looked at.
Apart == ~mixed

\* At first the user has chosen alike in both files.
Alike == edits = 0 => \A f, g \in Files : home[f] = home[g]

\* Once there has been an edit and a fault, no two operations run beside each other.
OneByOne ==
    edits = 0 \/ faults = 0 \/ \E t \in Threads : \A u \in Threads \ {t} : At(u, "idle")
=============================================================================
