---------------------------- MODULE MCWeixinConnect ----------------------------
(***************************************************************************)
(* Small instances of WeixinConnect.                                       *)
(***************************************************************************)
EXTENDS WeixinConnect

\* The two halves of the overrides are treated alike.
Symmetry == Permutations(Halves)

\* At most one message that begins no turn and no reset.
FewOthers ==
    \A m, n \in Messages :
        {inbox[m], inbox[n]} \subseteq {"empty", "stray", "resetAttachments"} => m = n
=============================================================================
