--------------------------- MODULE MCGatewayPipeline ---------------------------
(***************************************************************************)
(* Small instances of GatewayPipeline: at most two providers, r1 with the  *)
(* keys k1 and k2, r2 with the key k3.                                     *)
(***************************************************************************)
EXTENDS GatewayPipeline

CONSTANTS r1, k1, k2, k3, q1, q2, s1, RpmLimit, ConcurrencyLimit

MCKeysOf == [r \in Relays |->
               IF r = r1 THEN SelectSeq(<<k1, k2>>, LAMBDA k : k \in Keys) ELSE <<k3>>]
MCRelayOrder == SetToSeq(Relays)
MCSessionOf == [q \in Requests |-> IF q = q1 THEN s1 ELSE NoSession]
MCNoSession == [q \in Requests |-> NoSession]
MCOneSession == [q \in Requests |-> s1]
MCRpm == [r \in Relays |-> RpmLimit]
MCConcurrency == [r \in Relays |-> ConcurrencyLimit]

Says(status, hints, after) == [status |-> status, hints |-> hints, after |-> after]
MCFewReplies == {Says(404, {}, NoHint), Says(400, {}, NoHint)}
MCLimitedReplies == {Says(429, {}, NoHint), Says(503, {}, NoHint)}
MCHealthReplies == {Says(429, {}, NoHint), Says(403, {"quota"}, 2), Says(403, {"invalidKey"}, NoHint),
                    Says(500, {}, NoHint), Says(404, {}, NoHint)}

\* Nothing reads the text of an official login: one is as good as another.
OneOfficialText == edits = 0 => \A k \in OfficialKeys : value[k] = value[k1]

Symmetry == Permutations(Values)
SymmetryOfRequests == Permutations(Values) \cup Permutations(Requests)
=============================================================================
