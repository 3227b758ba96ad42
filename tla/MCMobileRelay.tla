----------------------------- MODULE MCMobileRelay -----------------------------
(***************************************************************************)
(* Small instances of MobileRelay.                                         *)
(***************************************************************************)
EXTENDS MobileRelay, TLC

\* Only one registration with a token that is not genuine: they are all refused
\* without a trace.
OneForgery ==
    \A c \in Conns : conn[c].stage = "parsed" /\ ~conn[c].reg.genuine =>
        conn[c].reg.role = "host" /\ conn[c].reg.expires = now + 1

Symmetry == Permutations(Conns) \cup Permutations(Nonces) \cup Permutations(Rooms)
=============================================================================
