---------------------------- MODULE GatewayPipeline ----------------------------
(***************************************************************************)
(* The requests of the gateway (gateway/route.rs, gateway/pipeline.rs),    *)
(* each a task of its own that shares the key pool.  A request makes a     *)
(* plan, tries its candidates one by one, puts off those whose local rate  *)
(* limit is reached, waits in a queue for them, and holds its slot until   *)
(* the answer has been forwarded.                                          *)
(*                                                                         *)
(* The upstream may answer anything at any time.  The user may reset a     *)
(* provider or replace a key while requests run, MaxEdits times.  No       *)
(* extension replaces a built-in stage.                                    *)
(***************************************************************************)
EXTENDS KeyPool

CONSTANTS
    Requests,      \* tasks that serve one request after the other
    SessionOf,     \* the session of a request, or NoSession
    NoSession,
    RelayOrder,    \* the providers of the route, the preferred one first
    Replies,       \* the failures the upstream may answer with
    CoolingWait,   \* COOLING_WAIT_LIMIT
    QueueTimeout,  \* LIMIT_QUEUE_TIMEOUT
    MaxEdits       \* bound on the edits of a behaviour

ASSUME PipelineAssumption ==
    /\ IsFiniteSet(Requests)
    /\ SessionOf \in [Requests -> Sessions \cup {NoSession}]
    /\ NoSession \notin Sessions
    /\ RelayOrder \in Seq(Relays) /\ IsInjective(RelayOrder)
    /\ Replies \subseteq Reply
    /\ CoolingWait \in Nat /\ QueueTimeout \in Nat \ {0} /\ MaxEdits \in Nat

VARIABLES
    req,         \* where each request stands
    forgetting,  \* keys replaced in the settings, not yet in the pool
    edits        \* edits so far

vars == <<value, health, provider, sticky, usage, req, forgetting, edits>>
-----------------------------------------------------------------------------
Candidate == [key : Keys, text : Values]
NoCandidate == [key |-> NoKey, text |-> NoValue]

\* Mutant: the request registers only when it goes to sleep.
ListeningLate == {"queued"}

Resting == {"idle", "answered", "failed", "rejected", "limited", "refused",
            "unavailable", "gone"}
\* Where the future of limit_released is registered.
Listening == {"trying", "asking", "dozing", "queued"}
Stage == Resting \cup {"cooling", "round", "trying", "asking", "dozing", "queued", "forwarding"}

NoDeadline == -1

\* held says that the request counts in the usage of its candidate's key, age
\* how long ago it took that slot; left and sleep are what remains of the
\* deadline and of the sleep.  plan, through, tried and pin are history: the keys
\* the request set out with, whether only open breakers held them back, those
\* that failed it, and the key its session was pinned to at first.
Request == [stage    : Stage,
            waiting  : SUBSET Candidate,
            pending  : Seq(Candidate),
            deferred : Seq(Candidate),
            cand     : Candidate \cup {NoCandidate},
            held     : BOOLEAN,
            age      : 0 .. Window,
            left     : NoDeadline .. Max2(CoolingWait, QueueTimeout),
            sleep    : 0 .. Max2(CoolingWait, QueueTimeout),
            notified : BOOLEAN,
            plan     : SUBSET Keys,
            through  : BOOLEAN,
            tried    : SUBSET Keys,
            pin      : [Relays -> Keys \cup {NoKey}]]

NoPin == [r \in Relays |-> NoKey]
Rest(stage) == [stage |-> stage, waiting |-> {}, pending |-> << >>, deferred |-> << >>,
                cand |-> NoCandidate, held |-> FALSE, age |-> 0, left |-> NoDeadline,
                sleep |-> 0, notified |-> FALSE, plan |-> {}, through |-> FALSE,
                tried |-> {}, pin |-> NoPin]

Init ==
    /\ PoolInit
    /\ req = [q \in Requests |-> Rest("idle")]
    /\ forgetting = {}
    /\ edits = 0
-----------------------------------------------------------------------------
At(q, stage) == req[q].stage = stage

\* notify_waiters: every registered request wakes.
Notified(rs) ==
    [q \in Requests |-> IF rs[q].stage \in Listening
                        THEN [rs[q] EXCEPT !.notified = TRUE] ELSE rs[q]]

\* The slot of request q is dropped, and the request goes on as r.
Release(q, r) ==
    LET next == [req EXCEPT ![q] = [r EXCEPT !.held = FALSE, !.age = 0]] IN
    IF req[q].held
    THEN /\ usage' = [usage EXCEPT ![req[q].cand.key] = Released(@)]
         /\ req' = Notified(next)
    ELSE req' = next /\ UNCHANGED usage

\* The request has failed with its candidate and turns to the next one.
NextCandidate(q) ==
    [req[q] EXCEPT !.stage = "trying", !.cand = NoCandidate,
                   !.tried = @ \cup {req[q].cand.key}]

\* Mutant: a candidate that was put off does not count as another one.
HasMorePendingOnly(q) == req[q].pending # << >>

HasMore(q) == req[q].pending # << >> \/ req[q].deferred # << >>
Key(q) == req[q].cand.key
-----------------------------------------------------------------------------
(* The plan (resolve_plan).  It reads the pool provider by provider; here  *)
(* in one step, since the request acts on what it read much later anyway.  *)

CandidateOf(k) == [key |-> k, text |-> value[k]]
Candidates(ks) == [i \in DOMAIN ks |-> CandidateOf(ks[i])]

Route     == ToSet(RelayOrder)
Available == UNION {ReadyKeys(r) : r \in {r \in Route : ~OpenBreaker(r)}}
\* Keys that only the breaker of their provider holds back.
BehindBreaker == UNION {ReadyKeys(r) : r \in {r \in Route : OpenBreaker(r)}}
CoolingDown   == UNION {CoolingKeys(r) : r \in Route}

\* Mutant: an open breaker holds its keys back whatever else there is.
PlannedStrictly == Available

\* With no candidate left the open breakers let theirs through.
Planned == IF Available # {} THEN Available ELSE BehindBreaker

\* Provider after provider, each key when its session tries it; those behind a
\* breaker are tried as they are written.
RelayPlace(k) == CHOOSE i \in DOMAIN RelayOrder : RelayOrder[i] = RelayOf(k)
Rank(s, turn, k) ==
    IF OpenBreaker(RelayOf(k)) THEN Place(k) ELSE KeyRank(s, turn[RelayOf(k)], k)
Before(s, turn, j, k) ==
    \/ RelayPlace(j) < RelayPlace(k)
    \/ RelayOf(j) = RelayOf(k) /\ Rank(s, turn, j) < Rank(s, turn, k)
Arranged(s, turn) ==
    {ks \in SetToSeqs(Planned) :
        \A i, j \in DOMAIN ks : i < j => Before(s, turn, ks[i], ks[j])}

Soonest(cs) == CHOOSE n \in {health[c.key].cooldown : c \in cs} :
                   \A c \in cs : n <= health[c.key].cooldown

PlanOf(q, ks, through) ==
    [Rest("round") EXCEPT !.pending = Candidates(ks), !.plan = ToSet(ks), !.through = through,
        !.pin = IF SessionOf[q] \in Sessions THEN sticky[SessionOf[q]] ELSE NoPin]

\* What becomes of request q when it sets out with the keys ks.
Resolved(q, ks) ==
    LET waiting == {CandidateOf(k) : k \in CoolingDown} IN
    CASE ks # << >> -> PlanOf(q, ks, Available = {})
      [] ks = << >> /\ waiting # {} /\ Soonest(waiting) <= CoolingWait ->
           [Rest("cooling") EXCEPT !.waiting = waiting, !.left = CoolingWait]
      [] ks = << >> /\ waiting # {} /\ Soonest(waiting) > CoolingWait -> Rest("refused")
      [] ks = << >> /\ waiting = {} /\ (\E r \in Route : OpenBreaker(r)) -> Rest("refused")
      [] OTHER -> Rest("unavailable")

Resolve(q) ==
    /\ req[q].stage \in Resting
    /\ \E turn \in [Relays -> Turns] : \E ks \in Arranged(SessionOf[q], turn) :
          req' = [req EXCEPT ![q] = Resolved(q, ks)]
    /\ UNCHANGED <<value, health, provider, sticky, usage, forgetting, edits>>

\* wait_for_cooling_key, each time it wakes: take the key that recovers first,
\* unless that takes longer than the request may wait.
WaitForCoolingKey(q) ==
    LET soonest == Soonest(req[q].waiting) IN
    /\ At(q, "cooling")
    /\ req[q].sleep = 0
    /\ \/ /\ soonest = 0
          /\ \E c \in req[q].waiting :
                /\ health[c.key].cooldown = 0
                /\ req' = [req EXCEPT ![q] =
                     [Rest("round") EXCEPT !.pending = <<c>>, !.plan = {c.key}]]
       \/ soonest > req[q].left /\ req' = [req EXCEPT ![q] = Rest("refused")]
       \/ /\ soonest \in 1 .. req[q].left
          /\ req' = [req EXCEPT ![q].sleep = soonest]
    /\ UNCHANGED <<value, health, provider, sticky, usage, forgetting, edits>>
-----------------------------------------------------------------------------
(* The candidate loop (open_candidates). *)

\* The request registers for released slots before it looks at any.
BeginRound(q) ==
    /\ At(q, "round")
    /\ req' = [req EXCEPT ![q].stage = "trying"]
    /\ UNCHANGED <<value, health, provider, sticky, usage, forgetting, edits>>

TryKey(q) ==
    /\ At(q, "trying")
    /\ req[q].pending # << >>
    /\ LET c    == Head(req[q].pending)
           rest == [req[q] EXCEPT !.pending = Tail(@)]
       IN  \/ /\ ~Limited(c.key)
              /\ req' = [req EXCEPT ![q] = [rest EXCEPT !.stage = "asking", !.cand = c]]
              /\ UNCHANGED usage
           \/ /\ Limited(c.key) /\ Free(c.key)
              /\ req' = [req EXCEPT ![q] =
                           [rest EXCEPT !.stage = "asking", !.cand = c, !.held = TRUE]]
              /\ usage' = [usage EXCEPT ![c.key] = Acquired(c.key)]
           \/ /\ Limited(c.key) /\ ~Free(c.key)
              /\ req' = [req EXCEPT ![q] = [rest EXCEPT !.deferred = Append(@, c)]]
              /\ UNCHANGED usage
    /\ UNCHANGED <<value, health, provider, sticky, forgetting, edits>>

\* The account's token or the provider's address cannot be had: nothing was sent.
PrepareFails(q) ==
    /\ At(q, "asking")
    /\ LET next == [req EXCEPT ![q] = [NextCandidate(q) EXCEPT !.held = FALSE, !.age = 0]] IN
       IF req[q].held
       THEN /\ usage' = [usage EXCEPT ![Key(q)] = Cancelled(@, req[q].age)]
            /\ req' = Notified(next)
       ELSE req' = next /\ UNCHANGED usage
    /\ UNCHANGED <<value, health, provider, sticky, forgetting, edits>>

\* Mutant: whoever answers keeps the session.
StandsInNever(q) == FALSE

\* The session of q goes to the key that answered, unless a key of the same
\* provider was only put off: the answer then came from a stand-in.
StandsIn(q) == \E i \in DOMAIN req[q].deferred :
                   RelayOf(req[q].deferred[i].key) = RelayOf(Key(q))

Succeeds(q) ==
    /\ At(q, "asking")
    /\ RecordSuccess(Key(q), IF StandsIn(q) THEN NoSession ELSE SessionOf[q])
    /\ req' = [req EXCEPT ![q] = [Rest("forwarding") EXCEPT
                 !.cand = req[q].cand, !.held = req[q].held, !.age = req[q].age]]
    /\ UNCHANGED <<usage, forgetting, edits>>

\* The upstream refuses.  A failure no other key would mend, and the failure of
\* the last candidate, are answers to the client.
Fails(q, class) ==
    /\ At(q, "asking")
    /\ RecordFailure(Key(q), req[q].cand.text, class)
    /\ Release(q, CASE ~ShouldFailover(class) -> Rest("rejected")
                    [] ShouldFailover(class) /\ ~HasMore(q) -> Rest("failed")
                    [] OTHER -> NextCandidate(q))
    /\ UNCHANGED <<forgetting, edits>>

\* No answer at all counts against the provider.
TransportFails(q) ==
    /\ At(q, "asking")
    /\ RecordFailure(Key(q), req[q].cand.text, [kind |-> "serverError", after |-> NoHint])
    /\ Release(q, NextCandidate(q))
    /\ UNCHANGED <<forgetting, edits>>

FatalError(q) ==
    /\ At(q, "asking")
    /\ Release(q, Rest("rejected"))
    /\ UNCHANGED <<value, health, provider, sticky, forgetting, edits>>

\* Mutant: the deadline starts again with every wait.
DeadlineRestarts(q) == QueueTimeout

\* Until when a request that could not get a slot sleeps: at most to its
\* deadline, which was set when it first had to wait.
Deadline(q) == IF req[q].left = NoDeadline THEN QueueTimeout ELSE req[q].left
SleepOf(q, left) ==
    LET ks    == {c.key : c \in ToSet(req[q].deferred)}
        times == {left} \cup {0 : k \in {j \in ks : Free(j)}}
                        \cup {RetryIn(k) : k \in {j \in ks : RpmFull(j)}}
    IN  CHOOSE n \in times : \A m \in times : n <= m

EndRound(q) ==
    /\ At(q, "trying")
    /\ req[q].pending = << >>
    /\ req' = [req EXCEPT ![q] =
         CASE req[q].deferred = << >> -> Rest("failed")
           [] req[q].deferred # << >> /\ Deadline(q) = 0 -> Rest("limited")
           [] OTHER -> [@ EXCEPT !.stage = "dozing", !.left = Deadline(q),
                                 !.sleep = SleepOf(q, Deadline(q))]]
    /\ UNCHANGED <<value, health, provider, sticky, usage, forgetting, edits>>

\* Between its last look at the keys and its sleep others may release slots.
FallAsleep(q) ==
    /\ At(q, "dozing")
    /\ req' = [req EXCEPT ![q].stage = "queued"]
    /\ UNCHANGED <<value, health, provider, sticky, usage, forgetting, edits>>

\* Mutant: what was put off stays on the list when it is tried again.
WakeKeeping(q) ==
    /\ At(q, "queued")
    /\ req[q].notified \/ req[q].sleep = 0
    /\ req' = [req EXCEPT ![q] =
         [@ EXCEPT !.stage = "round", !.pending = req[q].deferred,
                   !.sleep = 0, !.notified = FALSE]]
    /\ UNCHANGED <<value, health, provider, sticky, usage, forgetting, edits>>

Wake(q) ==
    /\ At(q, "queued")
    /\ req[q].notified \/ req[q].sleep = 0
    /\ req' = [req EXCEPT ![q] =
         [@ EXCEPT !.stage = "round", !.pending = req[q].deferred, !.deferred = << >>,
                   !.sleep = 0, !.notified = FALSE]]
    /\ UNCHANGED <<value, health, provider, sticky, usage, forgetting, edits>>

\* A client that hangs up ends only a wait.
ClientGone(q) ==
    /\ req[q].stage \in {"queued", "cooling"}
    /\ req' = [req EXCEPT ![q] = Rest("gone")]
    /\ UNCHANGED <<value, health, provider, sticky, usage, forgetting, edits>>

\* The answer is forwarded to its end, breaks off, or the client hangs up.
ForwardEnds(q) ==
    /\ At(q, "forwarding")
    /\ Release(q, Rest("answered"))
    /\ UNCHANGED <<value, health, provider, sticky, forgetting, edits>>
-----------------------------------------------------------------------------
(* The user, and time. *)

Edit == edits < MaxEdits /\ edits' = edits + 1

ReplaceKey(k, v) ==
    /\ Edit
    /\ k \notin forgetting
    /\ ReplaceText(k, v)
    /\ forgetting' = forgetting \cup {k}
    /\ UNCHANGED req

ForgetReplaced(k) ==
    /\ k \in forgetting
    /\ ForgetKey(k)
    /\ forgetting' = forgetting \ {k}
    /\ UNCHANGED <<req, edits>>

ResetProvider(r) ==
    /\ Edit
    /\ Reset(r)
    /\ UNCHANGED <<req, forgetting>>

Older(r) ==
    [r EXCEPT !.age = IF r.held THEN Min2(@ + 1, Window) ELSE @,
              !.left = IF @ > 0 THEN @ - 1 ELSE @,
              !.sleep = Max2(@ - 1, 0)]

Tick ==
    /\ TimePasses
    /\ req' = [q \in Requests |-> Older(req[q])]
    /\ UNCHANGED <<forgetting, edits>>
-----------------------------------------------------------------------------
Answer(q) ==
    \/ Succeeds(q)
    \/ \E reply \in Replies : Fails(q, ClassifyFailure(reply))
    \/ TransportFails(q)
    \/ FatalError(q)
    \/ PrepareFails(q)

Step(q) ==
    \/ WaitForCoolingKey(q)
    \/ BeginRound(q) \/ TryKey(q) \/ EndRound(q) \/ FallAsleep(q) \/ Wake(q)

Next ==
    \/ \E q \in Requests :
          Resolve(q) \/ Step(q) \/ Answer(q) \/ ForwardEnds(q) \/ ClientGone(q)
    \/ \E k \in Keys : ForgetReplaced(k) \/ (\E v \in Values : ReplaceKey(k, v))
    \/ \E r \in Relays : ResetProvider(r)
    \/ Tick

Spec == Init /\ [][Next]_vars

\* Time passes, the runtime polls every future that can go on, and an attempt
\* ends (the HTTP client has timeouts).  No client has to come or to hang up,
\* and an answer may be forwarded for ever.
Fairness ==
    /\ WF_vars(Tick)
    /\ \A q \in Requests : WF_vars(Step(q)) /\ WF_vars(Answer(q))

FairSpec == Spec /\ Fairness
-----------------------------------------------------------------------------
(* Properties. *)

\* The type invariant: among others, the rate window of a key holds no request
\* that has left it, nor more than its limit (KeyUsage).
TypeOK ==
    /\ value \in [Keys -> Values]
    /\ health \in [Keys -> KeyHealth]
    /\ provider \in [Relays -> ProviderHealth]
    /\ sticky \in [Sessions -> [Relays -> Keys \cup {NoKey}]]
    /\ usage \in [Keys -> KeyUsage]
    /\ req \in [Requests -> Request]
    /\ forgetting \subseteq Keys
    /\ edits \in 0 .. MaxEdits

Holders(k) == {q \in Requests : req[q].held /\ Key(q) = k}

\* A slot is given back exactly once, whichever way its request ends, so no key
\* stays full for ever; what a replaced key still owes is forgotten, never kept.
SlotsAreAccounted ==
    \A k \in Keys :
        /\ usage[k].inFlight <= Cardinality(Holders(k))
        /\ edits = 0 => usage[k].inFlight = Cardinality(Holders(k))

\* The limits the user set hold for the requests themselves, those being
\* forwarded included, not only for the counters.
WithinLimits ==
    \A k \in Keys :
        /\ Concurrency[RelayOf(k)] > 0 =>
              Cardinality(Holders(k)) <= Concurrency[RelayOf(k)]
        /\ Rpm[RelayOf(k)] > 0 =>
              /\ Len(usage[k].sent) <= Rpm[RelayOf(k)]
              /\ Cardinality({q \in Holders(k) : req[q].age < Window}) <= Rpm[RelayOf(k)]

\* A request asleep in the queue, with no wake-up on its way, sleeps because
\* every key it waits for is full: it missed no slot that was released between
\* its look at the keys and its sleep, and it wakes when a window slides.
NoLostWakeup ==
    \A q \in Requests :
        At(q, "queued") /\ ~req[q].notified /\ req[q].sleep > 0
        => \A c \in ToSet(req[q].deferred) : ~Free(c.key)

\* The candidates of a request's plan are each in one place: still to try, put
\* off, being asked, or tried; so none is asked twice and none is lost, however
\* often the request goes through the queue.
KeysIn(cs) == {c.key : c \in ToSet(cs)}
EveryCandidateOnce ==
    \A q \in Requests :
        LET r == req[q]
            asked == IF r.stage = "asking" THEN {r.cand.key} ELSE {}
        IN  r.stage \in Listening \cup {"round"} =>
              /\ r.plan = KeysIn(r.pending) \cup KeysIn(r.deferred) \cup asked \cup r.tried
              /\ Cardinality(r.plan) = Len(r.pending) + Len(r.deferred)
                                         + Cardinality(asked) + Cardinality(r.tried)

\* A request fails only after every candidate of its plan has failed it.
FailsOnlyAfterAll ==
    [][\A q \in Requests :
          req[q].stage # "failed" /\ req'[q].stage = "failed"
          => req[q].plan = req[q].tried \cup ({Key(q)} \ {NoKey})]_vars

\* A step in which request q takes its session from the key of provider r that
\* the session was pinned to and that was among the candidates.
LeavesItsKey(q, r) ==
    LET s == SessionOf[q]
        k == req[q].pin[r]
    IN  /\ s \in Sessions
        /\ At(q, "asking") /\ req'[q].stage = "forwarding"
        /\ k \in req[q].plan /\ sticky[s][r] = k
        /\ RelayOf(Key(q)) = r /\ sticky'[s][r] # k

\* A session leaves the key it is pinned to only after that key has failed
\* the request: a key that is merely full keeps its sessions, and with them
\* the prompt cache of the upstream.
SessionKeepsItsKey ==
    [][\A q \in Requests, r \in Relays :
          LeavesItsKey(q, r) /\ ~req[q].through => req[q].pin[r] \in req[q].tried]_vars

\* A new request is turned away without having asked anybody only if every key
\* of its route is disabled or cooling; an open breaker alone never does it.
RefusedOnlyWhenCooling ==
    [][\A q \in Requests :
          /\ req[q].stage \in Resting /\ req'[q] # req[q]
          /\ req'[q].stage \in {"refused", "unavailable"}
          => \A r \in Route : \A k \in ToSet(KeysOf[r]) :
                Disabled(k) \/ Cooling(k)]_vars

\* Every request gets to its answer or to an error: neither of the two queues
\* keeps it beyond its deadline, though other requests take every slot that is
\* released and the keys cool down again and again.
RequestsEnd ==
    \A q \in Requests :
        req[q].stage \notin Resting ~> req[q].stage \in Resting \cup {"forwarding"}
-----------------------------------------------------------------------------
(* What the comments say and the code does not keep (see the README). *)

\* key_pool.rs, KeyLimits::concurrency: the most requests of a key that run at
\* the same time, here of one text of the key.
ConcurrencyRespected ==
    \A k \in Keys, v \in Values :
        Concurrency[RelayOf(k)] > 0 =>
            Cardinality({q \in Holders(k) : req[q].cand.text = v}) <= Concurrency[RelayOf(k)]
=============================================================================
