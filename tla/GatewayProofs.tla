----------------------------- MODULE GatewayProofs -----------------------------
(***************************************************************************)
(* Theorems about the gateway for every number of requests, providers and  *)
(* keys and for every limit.                                               *)
(*                                                                         *)
(* Slots.  A request holds a slot only while it asks or forwards, so every *)
(* way out of these stages gives it back (WellFormed).  Every step of the  *)
(* system does one of six things to the slots (WhatHappensToSlots),        *)
(* whatever else it does, and each of the six keeps the counters in step   *)
(* with the requests: as many requests hold a slot of a key as its counter *)
(* says, and every young one has an entry of its own in the window         *)
(* (Counted).  An edit of the user breaks the second, and the first in one *)
(* direction: hence the theorem about the limits is about the time before  *)
(* the first edit.                                                         *)
(*                                                                         *)
(* Requests.  Every step lets one request make one of thirteen moves, wakes*)
(* those that listen, or makes all of them older (WhatBecomesOfRequests,   *)
(* OneStep).  A fact about each request is then shown move by move: that   *)
(* it keeps its type and has a candidate exactly while it asks or forwards *)
(* (Typed), that the keys of its plan are in one place each (OnceEach),    *)
(* that its session's own key comes before the others of its provider for  *)
(* as long as it has not been asked (Leading), and that a request asleep   *)
(* waits for keys that are full, none of which has room before it wakes    *)
(* (Sleeps).  The last needs what the counters do in the meantime: only    *)
(* the clock, a start with a free key and a release change them, and a     *)
(* release wakes whoever listens (WhoUses).                                *)
(***************************************************************************)
EXTENDS GatewayPipeline, FiniteSetTheorems, SequenceTheorems, TLAPS

Ages == 0 .. Window - 1

Fields == {"stage", "waiting", "pending", "deferred", "cand", "held", "age", "left",
           "sleep", "notified", "plan", "through", "tried", "pin"}

Sound(r) ==
    /\ DOMAIN r = Fields
    /\ r.held \in BOOLEAN /\ r.age \in 0 .. Window
    /\ r.held => r.stage \in {"asking", "forwarding"}
    /\ ~r.held => r.age = 0

WellFormed ==
    /\ DOMAIN req = Requests
    /\ \A q \in Requests : Sound(req[q])
    /\ edits \in Nat
    /\ edits = 0 => forgetting = {}

InOrder(u) == u.sent \in Seq(Ages) /\ \A i, j \in 1 .. Len(u.sent) : i < j => u.sent[i] >= u.sent[j]

UsageSound ==
    /\ DOMAIN usage = Keys
    /\ \A k \in Keys :
          /\ DOMAIN usage[k] = {"sent", "inFlight"}
          /\ InOrder(usage[k]) /\ usage[k].inFlight \in Nat

Bounded ==
    \A k \in Keys :
        /\ Rpm[RelayOf(k)] > 0 => Len(usage[k].sent) <= Rpm[RelayOf(k)]
        /\ Concurrency[RelayOf(k)] > 0 => usage[k].inFlight <= Concurrency[RelayOf(k)]

Young(k) == {q \in Holders(k) : req[q].age < Window}

\* Every young request has an entry of its own and of its age in the window.
Matches(k, f) ==
    /\ f \in [Young(k) -> 1 .. Len(usage[k].sent)]
    /\ \A p, q \in Young(k) : f[p] = f[q] => p = q
    /\ \A q \in Young(k) : usage[k].sent[f[q]] = req[q].age

Counted == \A k \in Keys : Rpm[RelayOf(k)] > 0 => \E f : Matches(k, f)

IInv ==
    /\ WellFormed /\ UsageSound /\ Bounded
    /\ SlotsAreAccounted
    /\ edits = 0 => Counted
-----------------------------------------------------------------------------
(* Facts about numbers and sequences. *)

LEMMA LastOf ==
    ASSUME NEW n \in Nat, NEW S \in SUBSET (1 .. n), S # {}
    PROVE  \E i \in S : \A j \in S : j <= i
<1> DEFINE T == {n - i : i \in S}
<1>1. T \subseteq Nat /\ T # {}
  <2>1. \A i \in S : n - i \in Nat
    OBVIOUS
  <2>2. \E i \in S : n - i \in T
    OBVIOUS
  <2> QED BY <2>1, <2>2
<1> HIDE DEF T
<1>2. PICK x \in T : \A y \in T : ~(<<y, x>> \in OpToRel(<, Nat))
  <2>1. IsWellFoundedOn(OpToRel(<, Nat), Nat)
    BY NatLessThanWellFounded
  <2> HIDE DEF T
  <2> QED BY <1>1, <2>1, WFMin
<1>3. \A y \in T : ~(y < x)
  BY <1>1, <1>2 DEF OpToRel
<1>4. PICK i \in S : x = n - i
  BY DEF T
<1>5. \A j \in S : n - j \in T
  BY DEF T
<1> QED BY <1>3, <1>4, <1>5

LEMMA WindowType == Window \in Nat \ {0} /\ 0 \in Ages /\ Ages \subseteq Nat
<1>1. Window \in Nat \ {0}
  BY PoolAssumption
<1> QED BY <1>1 DEF Ages

\* The entry of a new request is the youngest.
LEMMA AppendWindow ==
    ASSUME NEW u, InOrder(u)
    PROVE  LET s == Append(u.sent, 0) IN
           /\ s \in Seq(Ages) /\ Len(s) = Len(u.sent) + 1
           /\ \A i \in 1 .. Len(u.sent) : s[i] = u.sent[i]
           /\ s[Len(s)] = 0
           /\ \A i, j \in 1 .. Len(s) : i < j => s[i] >= s[j]
<1>1. 0 \in Ages /\ Ages \subseteq Nat
  BY WindowType
<1>2. u.sent \in Seq(Ages) /\ Len(u.sent) \in Nat /\ \A i \in 1 .. Len(u.sent) : u.sent[i] \in Ages
  BY DEF InOrder
<1> DEFINE s == Append(u.sent, 0)
<1>3. /\ s \in Seq(Ages) /\ Len(s) = Len(u.sent) + 1
      /\ \A i \in 1 .. Len(u.sent) : s[i] = u.sent[i]
      /\ s[Len(s)] = 0
  BY <1>1, <1>2
<1> HIDE DEF s
<1>4. ASSUME NEW i \in 1 .. Len(s), NEW j \in 1 .. Len(s), i < j PROVE s[i] >= s[j]
  <2>1. i \in 1 .. Len(u.sent)
    BY <1>2, <1>3, <1>4
  <2>2. s[i] = u.sent[i] /\ s[i] \in Nat
    BY <1>1, <1>2, <1>3, <2>1
  <2>3. CASE j = Len(s)
    BY <1>3, <2>2, <2>3
  <2>4. CASE j # Len(s)
    <3>1. j \in 1 .. Len(u.sent) /\ s[j] = u.sent[j]
      BY <1>2, <1>3, <2>4
    <3> QED BY <1>4, <2>1, <2>2, <3>1 DEF InOrder
  <2> QED BY <2>3, <2>4
<1> QED BY <1>3, <1>4 DEF s

LEMMA RemoveWindow ==
    ASSUME NEW u, InOrder(u), NEW n \in 1 .. Len(u.sent)
    PROVE  LET s == RemoveAt(u.sent, n) IN
           /\ s \in Seq(Ages) /\ Len(s) = Len(u.sent) - 1
           /\ \A i \in 1 .. Len(s) : s[i] = IF i < n THEN u.sent[i] ELSE u.sent[i + 1]
           /\ \A i, j \in 1 .. Len(s) : i < j => s[i] >= s[j]
<1>1. u.sent \in Seq(Ages) /\ Len(u.sent) \in Nat /\ n \in Nat
  BY DEF InOrder
<1> DEFINE s == RemoveAt(u.sent, n)
           front == SubSeq(u.sent, 1, n - 1)
           back  == SubSeq(u.sent, n + 1, Len(u.sent))
<1>2. /\ s \in Seq(Ages) /\ Len(s) = Len(u.sent) - 1
      /\ \A i \in 1 .. Len(s) : s[i] = IF i < n THEN u.sent[i] ELSE u.sent[i + 1]
  <2>1. /\ front \in Seq(Ages) /\ Len(front) = n - 1
        /\ \A i \in 1 .. n - 1 : front[i] = u.sent[i]
    BY <1>1
  <2>2. /\ back \in Seq(Ages) /\ Len(back) = Len(u.sent) - n
        /\ \A i \in 1 .. Len(u.sent) - n : back[i] = u.sent[i + n]
    BY <1>1
  <2>3. s = front \o back
    BY DEF RemoveAt
  <2> HIDE DEF s, front, back
  <2>4. s \in Seq(Ages) /\ Len(s) = Len(u.sent) - 1
    <3>1. s \in Seq(Ages) /\ Len(s) = Len(front) + Len(back)
      BY <2>1, <2>2, <2>3, ConcatProperties
    <3> QED BY <1>1, <2>1, <2>2, <3>1
  <2>5. ASSUME NEW i \in 1 .. Len(s)
        PROVE  s[i] = IF i < n THEN u.sent[i] ELSE u.sent[i + 1]
    <3>1. CASE i < n
      BY <1>1, <2>1, <2>2, <2>3, <2>4, <3>1
    <3>2. CASE i >= n
      <4>1. s[i] = back[i - (n - 1)] /\ i - (n - 1) \in 1 .. Len(u.sent) - n
        BY <1>1, <2>1, <2>2, <2>3, <2>4, <3>2
      <4>2. back[i - (n - 1)] = u.sent[(i - (n - 1)) + n]
        BY <2>2, <4>1
      <4>3. (i - (n - 1)) + n = i + 1
        BY <1>1
      <4> QED BY <1>1, <3>2, <4>1, <4>2, <4>3
    <3> QED BY <1>1, <3>1, <3>2
  <2> QED BY <2>4, <2>5
<1> HIDE DEF s
<1>3. ASSUME NEW i \in 1 .. Len(s), NEW j \in 1 .. Len(s), i < j PROVE s[i] >= s[j]
  <2> DEFINE at(x) == IF x < n THEN x ELSE x + 1
  <2>1. at(i) \in 1 .. Len(u.sent) /\ at(j) \in 1 .. Len(u.sent) /\ at(i) < at(j)
    BY <1>1, <1>2, <1>3
  <2>2. s[i] = u.sent[at(i)] /\ s[j] = u.sent[at(j)]
    BY <1>2
  <2> QED BY <2>1, <2>2 DEF InOrder
<1> QED BY <1>2, <1>3 DEF s

\* One unit later the old entries have gone from the front and the others are
\* one unit older.
SlidTo(u, v) ==
    \E n \in 0 .. Len(u.sent) :
       LET s == v.sent IN
       /\ v.inFlight = u.inFlight
       /\ s \in Seq(Ages) /\ Len(s) = Len(u.sent) - n
       /\ \A i \in 1 .. Len(s) : s[i] = u.sent[i + n] + 1
       /\ \A i \in 1 .. n : u.sent[i] + 1 >= Window
       /\ \A i, j \in 1 .. Len(s) : i < j => s[i] >= s[j]

LEMMA SlideWindow ==
    ASSUME NEW u, InOrder(u), DOMAIN u = {"sent", "inFlight"}
    PROVE  SlidTo(u, Slid(u))
<1>1. /\ u.sent \in Seq(Ages) /\ Len(u.sent) \in Nat /\ DOMAIN u.sent = 1 .. Len(u.sent)
      /\ \A i \in 1 .. Len(u.sent) : u.sent[i] \in Ages
  BY DEF InOrder
<1> DEFINE old == {i \in DOMAIN u.sent : \A j \in 1 .. i : u.sent[j] + 1 >= Window}
           n   == Cardinality(old)
           s   == [i \in 1 .. Len(u.sent) - n |-> u.sent[i + n] + 1]
<1>2. \E m \in 0 .. Len(u.sent) : old = 1 .. m
  <2>1. old \in SUBSET (1 .. Len(u.sent))
    BY <1>1
  <2>2. CASE old = {}
    <3>1. old = 1 .. 0
      BY <2>2
    <3> QED BY <1>1, <3>1
  <2>3. CASE old # {}
    <3>1. PICK m \in old : \A j \in old : j <= m
      <4> HIDE DEF old
      <4> QED BY <1>1, <2>1, <2>3, LastOf
    <3>2. m \in 1 .. Len(u.sent) /\ \A j \in 1 .. m : u.sent[j] + 1 >= Window
      BY <1>1, <3>1
    <3>3. \A i \in 1 .. m : i \in old
      BY <1>1, <3>2
    <3>4. old = 1 .. m
      BY <2>1, <3>1, <3>2, <3>3
    <3> QED BY <3>2, <3>4
  <2> QED BY <2>2, <2>3
<1>3. n \in 0 .. Len(u.sent) /\ old = 1 .. n
  <2>1. PICK m \in 0 .. Len(u.sent) : old = 1 .. m
    BY <1>2
  <2>2. Cardinality(1 .. m) = m
    BY <1>1, <2>1, FS_Interval
  <2> QED BY <2>1, <2>2
<1>4. Slid(u).sent = s /\ Slid(u).inFlight = u.inFlight
  BY DEF Slid
<1>5. \A i \in 1 .. n : u.sent[i] + 1 >= Window
  BY <1>1, <1>3
<1>6. \A i \in n + 1 .. Len(u.sent) : u.sent[i] + 1 < Window
  <2> SUFFICES ASSUME NEW i \in n + 1 .. Len(u.sent) PROVE u.sent[i] + 1 < Window
    OBVIOUS
  <2>1. i \notin old /\ i \in DOMAIN u.sent
    <3> HIDE DEF old, n
    <3> QED BY <1>1, <1>3
  <2>2. PICK j \in 1 .. i : ~(u.sent[j] + 1 >= Window)
    BY <2>1
  <2>3. u.sent[i] <= u.sent[j] /\ u.sent[i] \in Nat /\ u.sent[j] \in Nat
    BY <1>1, <1>3, <2>2 DEF InOrder, Ages
  <2> QED BY <2>2, <2>3, WindowType
<1> HIDE DEF old, n
<1>7. /\ Len(s) = Len(u.sent) - n
      /\ \A i \in 1 .. Len(s) : s[i] = u.sent[i + n] + 1
      /\ s \in Seq(Ages)
  <2>1. \A i \in 1 .. Len(u.sent) - n : u.sent[i + n] + 1 \in Ages
    <3> SUFFICES ASSUME NEW i \in 1 .. Len(u.sent) - n PROVE u.sent[i + n] + 1 \in Ages
      OBVIOUS
    <3>1. i + n \in n + 1 .. Len(u.sent) /\ i + n \in 1 .. Len(u.sent)
      BY <1>1, <1>3
    <3>2. u.sent[i + n] + 1 < Window
      BY <1>6, <3>1
    <3>3. u.sent[i + n] \in Nat
      BY <1>1, <3>1 DEF Ages
    <3> HIDE DEF s
    <3> QED BY <3>2, <3>3, WindowType DEF Ages
  <2>2. Len(u.sent) - n \in Nat
    BY <1>1, <1>3
  <2> QED BY <2>1, <2>2
<1> HIDE DEF s
<1>8. ASSUME NEW i \in 1 .. Len(s), NEW j \in 1 .. Len(s), i < j PROVE s[i] >= s[j]
  <2>1. i + n \in 1 .. Len(u.sent) /\ j + n \in 1 .. Len(u.sent) /\ i + n < j + n
    BY <1>1, <1>3, <1>7, <1>8
  <2>2. u.sent[i + n] >= u.sent[j + n]
    BY <2>1 DEF InOrder
  <2>3. u.sent[i + n] \in Nat /\ u.sent[j + n] \in Nat
    BY <1>1, <2>1, WindowType
  <2> QED BY <1>7, <2>2, <2>3
<1> QED BY <1>3, <1>4, <1>5, <1>7, <1>8 DEF SlidTo
-----------------------------------------------------------------------------
(* What a step does to the slots. *)

Same(q) ==
    /\ req'[q].held = req[q].held
    /\ req[q].held => req'[q].age = req[q].age /\ req'[q].cand.key = req[q].cand.key

OthersKeep(q) == \A p \in Requests \ {q} : Same(p)

Keeps == usage' = usage /\ \A q \in Requests : Same(q)

Takes(q) ==
    LET k == req'[q].cand.key IN
    /\ ~req[q].held /\ req'[q].held /\ req'[q].age = 0
    /\ Free(k)
    /\ usage' = [usage EXCEPT ![k] = Acquired(k)]
    /\ OthersKeep(q)

Gives(q) ==
    /\ req[q].held /\ ~req'[q].held
    /\ usage' = [usage EXCEPT ![Key(q)] = Released(@)]
    /\ OthersKeep(q)

TakesBack(q) ==
    /\ req[q].held /\ ~req'[q].held
    /\ usage' = [usage EXCEPT ![Key(q)] = Cancelled(@, req[q].age)]
    /\ OthersKeep(q)

Clears ==
    /\ edits # 0
    /\ \E k \in Keys : usage' = [usage EXCEPT ![k] = Unused]
    /\ \A q \in Requests : Same(q)

Passes ==
    /\ usage' = [k \in Keys |-> Slid(usage[k])]
    /\ \A q \in Requests :
          /\ req'[q].held = req[q].held
          /\ req[q].held => /\ req'[q].age = Min2(req[q].age + 1, Window)
                            /\ req'[q].cand.key = req[q].cand.key

Effect ==
    \/ Keeps \/ Clears \/ Passes
    \/ \E q \in Requests : Takes(q) \/ Gives(q) \/ TakesBack(q)

Well == WellFormed' /\ (edits' = 0 => edits = 0)

\* A request without a slot.
Bare(r) == DOMAIN r = Fields /\ r.held = FALSE /\ r.age = 0

LEMMA RestIsBare == \A stage : Bare(Rest(stage)) /\ Rest(stage).stage = stage
BY DEF Bare, Rest, Fields

LEMMA BareIsSound ==
    ASSUME NEW r, Bare(r) PROVE Sound(r) /\ ~r.held
<1>1. 0 \in 0 .. Window
  BY WindowType
<1> QED BY <1>1, Zenon DEF Bare, Sound

\* One request goes on as r.
LEMMA OneRequest ==
    ASSUME WellFormed, NEW q \in Requests, NEW r, Sound(r),
           req' = [req EXCEPT ![q] = r], UNCHANGED <<forgetting, edits>>
    PROVE  Well /\ OthersKeep(q) /\ req'[q] = r
<1>1. req'[q] = r /\ DOMAIN req' = Requests /\ \A p \in Requests \ {q} : req'[p] = req[p]
  BY DEF WellFormed
<1> QED BY <1>1 DEF Well, WellFormed, OthersKeep, Same

\* A request that has no slot goes on without one.
LEMMA BareStep ==
    ASSUME WellFormed, NEW q \in Requests, ~req[q].held, NEW r, Bare(r),
           req' = [req EXCEPT ![q] = r], UNCHANGED <<usage, forgetting, edits>>
    PROVE  Well /\ Effect
<1>1. Sound(r) /\ ~r.held
  BY BareIsSound
<1>2. Well /\ OthersKeep(q) /\ req'[q] = r
  BY <1>1, OneRequest
<1>3. Same(q)
  BY <1>1, <1>2 DEF Same, Bare, WellFormed, Sound
<1> QED BY <1>2, <1>3 DEF OthersKeep, Effect, Keeps

\* Whoever is notified keeps the rest.
LEMMA NotifiedStep ==
    ASSUME NEW rs, DOMAIN rs = Requests, \A p \in Requests : Sound(rs[p])
    PROVE  LET after == Notified(rs) IN
           /\ DOMAIN after = Requests
           /\ \A p \in Requests :
                 /\ Sound(after[p])
                 /\ after[p].held = rs[p].held /\ after[p].age = rs[p].age
                 /\ after[p].cand = rs[p].cand
<1> SUFFICES ASSUME NEW p \in Requests
             PROVE  LET r == Notified(rs)[p] IN
                    /\ Sound(r)
                    /\ r.held = rs[p].held /\ r.age = rs[p].age /\ r.cand = rs[p].cand
  BY DEF Notified
<1>1. Notified(rs)[p] = rs[p] \/ Notified(rs)[p] = [rs[p] EXCEPT !.notified = TRUE]
  BY DEF Notified
<1>2. Sound([rs[p] EXCEPT !.notified = TRUE])
  BY DEF Sound, Fields
<1> QED BY <1>1, <1>2 DEF Sound, Fields

\* A request gives back what it holds and goes on as r.
LEMMA ReleaseStep ==
    ASSUME WellFormed, NEW q \in Requests, NEW r, DOMAIN r = Fields,
           Release(q, r), UNCHANGED <<forgetting, edits>>
    PROVE  Well /\ Effect
<1> DEFINE new  == [r EXCEPT !.held = FALSE, !.age = 0]
           next == [req EXCEPT ![q] = new]
<1>1. Bare(new)
  BY DEF Bare, Fields
<1> HIDE DEF new
<1>2. Sound(new) /\ ~new.held
  BY <1>1, BareIsSound
<1>3. CASE ~req[q].held
  <2>1. req' = next /\ usage' = usage
    BY <1>3 DEF Release, new
  <2> QED BY <1>1, <1>3, <2>1, BareStep
<1>4. CASE req[q].held
  <2>1. usage' = [usage EXCEPT ![Key(q)] = Released(@)] /\ req' = Notified(next)
    BY <1>4 DEF Release, new, Key
  <2>2. DOMAIN next = Requests /\ \A p \in Requests : Sound(next[p])
    BY <1>2 DEF WellFormed
  <2>3. next[q] = new /\ \A p \in Requests \ {q} : next[p] = req[p]
    BY DEF WellFormed
  <2> HIDE DEF next
  <2>4. /\ DOMAIN req' = Requests
        /\ \A p \in Requests :
              /\ Sound(req'[p])
              /\ req'[p].held = next[p].held /\ req'[p].age = next[p].age
              /\ req'[p].cand = next[p].cand
    BY <2>1, <2>2, NotifiedStep
  <2>5. Well
    BY <2>4 DEF Well, WellFormed
  <2>6. OthersKeep(q)
    BY <2>3, <2>4 DEF OthersKeep, Same
  <2>7. ~req'[q].held
    BY <1>2, <2>3, <2>4
  <2> QED BY <1>4, <2>1, <2>5, <2>6, <2>7 DEF Effect, Gives
<1> QED BY <1>3, <1>4

\* What a request becomes that sets out.
Waiting == {CandidateOf(k) : k \in CoolingDown}

LEMMA ResolvedFacts ==
    ASSUME NEW q, NEW ks
    PROVE  \/ ks # << >> /\ Resolved(q, ks) = PlanOf(q, ks, Available = {})
           \/ /\ ks = << >> /\ Waiting # {}
              /\ Resolved(q, ks) = [Rest("cooling") EXCEPT !.waiting = Waiting, !.left = CoolingWait]
           \/ ks = << >> /\ Resolved(q, ks) \in {Rest("refused"), Rest("unavailable")}
<1> DEFINE through == Available = {}
           open    == \E r \in Route : OpenBreaker(r)
           soon    == Soonest(Waiting) <= CoolingWait
           late    == Soonest(Waiting) > CoolingWait
           plan    == PlanOf(q, ks, through)
           wait    == [Rest("cooling") EXCEPT !.waiting = Waiting, !.left = CoolingWait]
<1>1. Resolved(q, ks) = CASE ks # << >> -> plan
                          [] ks = << >> /\ Waiting # {} /\ soon -> wait
                          [] ks = << >> /\ Waiting # {} /\ late -> Rest("refused")
                          [] ks = << >> /\ Waiting = {} /\ open -> Rest("refused")
                          [] OTHER -> Rest("unavailable")
  BY DEF Resolved, Waiting
<1> HIDE DEF open, soon, late, plan, wait
<1>2. \/ ks # << >> /\ Resolved(q, ks) = plan
      \/ ks = << >> /\ Waiting # {} /\ Resolved(q, ks) = wait
      \/ ks = << >> /\ Resolved(q, ks) \in {Rest("refused"), Rest("unavailable")}
  BY <1>1
<1> QED BY <1>2 DEF plan, wait

LEMMA ResolveStep ==
    ASSUME WellFormed, NEW q \in Requests, Resolve(q) PROVE Well /\ Effect
<1>1. ~req[q].held
  BY DEF Resolve, Resting, WellFormed, Sound
<1>2. PICK ks : req' = [req EXCEPT ![q] = Resolved(q, ks)]
  BY DEF Resolve
<1>3. Bare(Resolved(q, ks))
  <2> DEFINE through == Available = {}
  <2>1. Bare(PlanOf(q, ks, through))
    <3> HIDE DEF through
    <3> QED BY RestIsBare DEF PlanOf, Bare, Fields
  <2>2. Bare([Rest("cooling") EXCEPT !.waiting = Waiting, !.left = CoolingWait])
    BY RestIsBare DEF Bare, Fields
  <2>3. Bare(Rest("refused")) /\ Bare(Rest("unavailable"))
    BY RestIsBare
  <2> QED BY <2>1, <2>2, <2>3, ResolvedFacts DEF through
<1> QED BY <1>1, <1>2, <1>3, BareStep DEF Resolve

LEMMA WaitForCoolingKeyStep ==
    ASSUME WellFormed, NEW q \in Requests, WaitForCoolingKey(q) PROVE Well /\ Effect
<1>1. ~req[q].held /\ Bare(req[q])
  BY DEF WaitForCoolingKey, At, WellFormed, Sound, Bare
<1>2. PICK r : Bare(r) /\ req' = [req EXCEPT ![q] = r]
  <2> DEFINE soonest == Soonest(req[q].waiting)
  <2>1. CASE \E c \in req[q].waiting :
                req' = [req EXCEPT ![q] =
                          [Rest("round") EXCEPT !.pending = <<c>>, !.plan = {c.key}]]
    <3>1. PICK c \in req[q].waiting :
             req' = [req EXCEPT ![q] =
                       [Rest("round") EXCEPT !.pending = <<c>>, !.plan = {c.key}]]
      BY <2>1
    <3>2. Bare([Rest("round") EXCEPT !.pending = <<c>>, !.plan = {c.key}])
      BY RestIsBare DEF Bare, Fields
    <3> QED BY <3>1, <3>2
  <2>2. CASE req' = [req EXCEPT ![q] = Rest("refused")]
    BY <2>2, RestIsBare
  <2>3. CASE req' = [req EXCEPT ![q].sleep = soonest]
    <3> HIDE DEF soonest
    <3>1. req' = [req EXCEPT ![q] = [req[q] EXCEPT !.sleep = soonest]]
      BY <2>3
    <3>2. Bare([req[q] EXCEPT !.sleep = soonest])
      BY <1>1 DEF Bare, Fields
    <3> QED BY <3>1, <3>2
  <2> QED BY <2>1, <2>2, <2>3 DEF WaitForCoolingKey
<1> QED BY <1>1, <1>2, BareStep DEF WaitForCoolingKey

LEMMA BeginRoundStep ==
    ASSUME WellFormed, NEW q \in Requests, BeginRound(q) PROVE Well /\ Effect
<1>1. ~req[q].held /\ Bare(req[q])
  BY DEF BeginRound, At, WellFormed, Sound, Bare
<1>2. req' = [req EXCEPT ![q] = [req[q] EXCEPT !.stage = "trying"]]
  BY DEF BeginRound
<1>3. Bare([req[q] EXCEPT !.stage = "trying"])
  BY <1>1 DEF Bare, Fields
<1> QED BY <1>1, <1>2, <1>3, BareStep DEF BeginRound

LEMMA FallAsleepStep ==
    ASSUME WellFormed, NEW q \in Requests, FallAsleep(q) PROVE Well /\ Effect
<1>1. ~req[q].held /\ Bare(req[q])
  BY DEF FallAsleep, At, WellFormed, Sound, Bare
<1>2. req' = [req EXCEPT ![q] = [req[q] EXCEPT !.stage = "queued"]]
  BY DEF FallAsleep
<1>3. Bare([req[q] EXCEPT !.stage = "queued"])
  BY <1>1 DEF Bare, Fields
<1> QED BY <1>1, <1>2, <1>3, BareStep DEF FallAsleep

LEMMA WakeStep ==
    ASSUME WellFormed, NEW q \in Requests, Wake(q) PROVE Well /\ Effect
<1> DEFINE r == [req[q] EXCEPT !.stage = "round", !.pending = req[q].deferred,
                               !.deferred = << >>, !.sleep = 0, !.notified = FALSE]
<1>1. ~req[q].held /\ Bare(req[q])
  BY DEF Wake, At, WellFormed, Sound, Bare
<1>2. req' = [req EXCEPT ![q] = r]
  BY DEF Wake
<1>3. Bare(r)
  BY <1>1 DEF Bare, Fields
<1> QED BY <1>1, <1>2, <1>3, BareStep DEF Wake

LEMMA ClientGoneStep ==
    ASSUME WellFormed, NEW q \in Requests, ClientGone(q) PROVE Well /\ Effect
<1>1. ~req[q].held
  BY DEF ClientGone, WellFormed, Sound
<1> QED BY <1>1, RestIsBare, BareStep DEF ClientGone

LEMMA EndRoundStep ==
    ASSUME WellFormed, NEW q \in Requests, EndRound(q) PROVE Well /\ Effect
<1>1. ~req[q].held /\ Bare(req[q])
  BY DEF EndRound, At, WellFormed, Sound, Bare
<1> DEFINE sleep == SleepOf(q, Deadline(q))
           doze  == [req[q] EXCEPT !.stage = "dozing", !.left = Deadline(q), !.sleep = sleep]
           r     == CASE req[q].deferred = << >> -> Rest("failed")
                      [] req[q].deferred # << >> /\ Deadline(q) = 0 -> Rest("limited")
                      [] OTHER -> doze
<1>2. req' = [req EXCEPT ![q] = r]
  BY DEF EndRound
<1>3. Bare(doze)
  <2> HIDE DEF sleep
  <2> QED BY <1>1 DEF Bare, Fields
<1>4. Bare(Rest("failed")) /\ Bare(Rest("limited"))
  BY RestIsBare
<1> HIDE DEF doze, sleep
<1>5. Bare(r)
  BY <1>3, <1>4
<1> HIDE DEF r
<1> QED BY <1>1, <1>2, <1>5, BareStep DEF EndRound

LEMMA TryKeyStep ==
    ASSUME WellFormed, NEW q \in Requests, TryKey(q) PROVE Well /\ Effect
<1> DEFINE c    == Head(req[q].pending)
           rest == [req[q] EXCEPT !.pending = Tail(@)]
           ask  == [rest EXCEPT !.stage = "asking", !.cand = c]
           hold == [rest EXCEPT !.stage = "asking", !.cand = c, !.held = TRUE]
           wait == [rest EXCEPT !.deferred = Append(@, c)]
<1>1. ~req[q].held /\ Bare(req[q]) /\ UNCHANGED <<forgetting, edits>>
  BY DEF TryKey, At, WellFormed, Sound, Bare
<1>2. Bare(rest)
  BY <1>1 DEF Bare, Fields
<1>3. CASE req' = [req EXCEPT ![q] = ask] /\ UNCHANGED usage
  <2>1. Bare(ask)
    <3> HIDE DEF rest, c
    <3> QED BY <1>2 DEF Bare, Fields
  <2> HIDE DEF ask
  <2> QED BY <1>1, <1>3, <2>1, BareStep
<1>4. CASE /\ Limited(c.key) /\ Free(c.key)
           /\ req' = [req EXCEPT ![q] = hold]
           /\ usage' = [usage EXCEPT ![c.key] = Acquired(c.key)]
  <2>1. Sound(hold) /\ hold.held /\ hold.age = 0 /\ hold.cand = c
    <3> HIDE DEF rest, c
    <3>1. 0 \in 0 .. Window
      BY WindowType
    <3>2. /\ DOMAIN hold = Fields /\ hold.held = TRUE /\ hold.age = 0
          /\ hold.cand = c /\ hold.stage = "asking"
      BY <1>2 DEF Bare, Fields
    <3> HIDE DEF hold
    <3> QED BY <3>1, <3>2 DEF Sound
  <2> HIDE DEF hold
  <2>2. Well /\ OthersKeep(q) /\ req'[q] = hold
    BY <1>1, <1>4, <2>1, OneRequest
  <2>3. req'[q].cand.key = c.key
    BY <2>1, <2>2
  <2> HIDE DEF c
  <2>4. Takes(q)
    BY <1>1, <1>4, <2>1, <2>2, <2>3 DEF Takes
  <2> QED BY <2>2, <2>4 DEF Effect
<1>5. CASE req' = [req EXCEPT ![q] = wait] /\ UNCHANGED usage
  <2>1. Bare(wait)
    <3> HIDE DEF rest, c
    <3> QED BY <1>2 DEF Bare, Fields
  <2> HIDE DEF wait
  <2> QED BY <1>1, <1>5, <2>1, BareStep
<1> QED BY <1>3, <1>4, <1>5 DEF TryKey

LEMMA NextCandidateForm ==
    ASSUME WellFormed, NEW q \in Requests PROVE DOMAIN NextCandidate(q) = Fields
BY DEF WellFormed, Sound, NextCandidate

LEMMA PrepareFailsStep ==
    ASSUME WellFormed, NEW q \in Requests, PrepareFails(q) PROVE Well /\ Effect
<1> DEFINE new  == [NextCandidate(q) EXCEPT !.held = FALSE, !.age = 0]
           next == [req EXCEPT ![q] = new]
<1>1. Bare(new) /\ UNCHANGED <<forgetting, edits>>
  BY NextCandidateForm DEF Bare, Fields, PrepareFails
<1>2. Sound(new) /\ ~new.held
  <2> HIDE DEF new
  <2> QED BY <1>1, BareIsSound
<1>3. CASE ~req[q].held
  <2>1. req' = next /\ usage' = usage
    BY <1>3 DEF PrepareFails
  <2> HIDE DEF new
  <2> QED BY <1>1, <1>3, <2>1, BareStep
<1>4. CASE req[q].held
  <2>1. usage' = [usage EXCEPT ![Key(q)] = Cancelled(@, req[q].age)] /\ req' = Notified(next)
    BY <1>4 DEF PrepareFails
  <2> HIDE DEF new
  <2>2. DOMAIN next = Requests /\ \A p \in Requests : Sound(next[p])
    BY <1>2 DEF WellFormed
  <2>3. next[q] = new /\ \A p \in Requests \ {q} : next[p] = req[p]
    BY DEF WellFormed
  <2> HIDE DEF next
  <2>4. /\ DOMAIN req' = Requests
        /\ \A p \in Requests :
              /\ Sound(req'[p])
              /\ req'[p].held = next[p].held /\ req'[p].age = next[p].age
              /\ req'[p].cand = next[p].cand
    BY <2>1, <2>2, NotifiedStep
  <2>5. Well
    BY <1>1, <2>4 DEF Well, WellFormed
  <2>6. OthersKeep(q)
    BY <2>3, <2>4 DEF OthersKeep, Same
  <2>7. ~req'[q].held
    BY <1>2, <2>3, <2>4
  <2> QED BY <1>4, <2>1, <2>5, <2>6, <2>7 DEF Effect, TakesBack
<1> QED BY <1>3, <1>4

LEMMA SucceedsStep ==
    ASSUME WellFormed, NEW q \in Requests, Succeeds(q) PROVE Well /\ Effect
<1> DEFINE r == [Rest("forwarding") EXCEPT
                   !.cand = req[q].cand, !.held = req[q].held, !.age = req[q].age]
<1>1. req' = [req EXCEPT ![q] = r] /\ UNCHANGED <<usage, forgetting, edits>>
  BY DEF Succeeds
<1>2. DOMAIN Rest("forwarding") = Fields /\ Rest("forwarding").stage = "forwarding"
  BY RestIsBare DEF Bare
<1>3. /\ DOMAIN r = Fields /\ r.stage = "forwarding" /\ r.cand = req[q].cand
      /\ r.held = req[q].held /\ r.age = req[q].age
  BY <1>2 DEF Fields
<1> HIDE DEF r
<1>4. Sound(r)
  BY <1>3 DEF WellFormed, Sound
<1>5. Well /\ OthersKeep(q) /\ req'[q] = r
  BY <1>1, <1>4, OneRequest
<1>6. Same(q)
  BY <1>3, <1>5 DEF Same
<1> QED BY <1>1, <1>5, <1>6 DEF OthersKeep, Effect, Keeps

LEMMA AnswerStep ==
    ASSUME WellFormed, NEW q \in Requests, Answer(q) PROVE Well /\ Effect
<1>1. CASE Succeeds(q)
  BY <1>1, SucceedsStep
<1>2. ASSUME NEW class, Fails(q, class) PROVE Well /\ Effect
  <2>1. \E r : DOMAIN r = Fields /\ Release(q, r)
    <3> DEFINE over == ShouldFailover(class)
               r == CASE ~over -> Rest("rejected")
                      [] over /\ ~HasMore(q) -> Rest("failed")
                      [] OTHER -> NextCandidate(q)
    <3>1. Release(q, r)
      BY <1>2 DEF Fails
    <3> HIDE DEF over
    <3>2. DOMAIN r = Fields
      BY RestIsBare, NextCandidateForm DEF Bare
    <3> HIDE DEF r
    <3> QED BY <3>1, <3>2
  <2>2. UNCHANGED <<forgetting, edits>>
    BY <1>2 DEF Fails
  <2> QED BY <2>1, <2>2, ReleaseStep
<1>3. CASE TransportFails(q)
  BY <1>3, NextCandidateForm, ReleaseStep DEF TransportFails
<1>4. CASE FatalError(q)
  BY <1>4, RestIsBare, ReleaseStep DEF FatalError, Bare
<1>5. CASE PrepareFails(q)
  BY <1>5, PrepareFailsStep
<1> QED BY <1>1, <1>2, <1>3, <1>4, <1>5 DEF Answer

LEMMA ForwardEndsStep ==
    ASSUME WellFormed, NEW q \in Requests, ForwardEnds(q) PROVE Well /\ Effect
BY RestIsBare, ReleaseStep DEF ForwardEnds, Bare

LEMMA EditStep ==
    ASSUME WellFormed,
           \/ \E k \in Keys : ForgetReplaced(k) \/ (\E v \in Values : ReplaceKey(k, v))
           \/ \E r \in Relays : ResetProvider(r)
    PROVE  Well /\ Effect
<1>1. ASSUME NEW k \in Keys, ForgetReplaced(k) PROVE Well /\ Effect
  <2>1. edits # 0 /\ edits' = edits /\ req' = req
    BY <1>1 DEF ForgetReplaced, WellFormed
  <2>2. usage' = [usage EXCEPT ![k] = Unused]
    BY <1>1 DEF ForgetReplaced, ForgetKey
  <2> QED BY <2>1, <2>2 DEF Well, WellFormed, Effect, Clears, Same
<1>2. ASSUME NEW k \in Keys, NEW v \in Values, ReplaceKey(k, v) PROVE Well /\ Effect
  <2>1. edits' = edits + 1 /\ req' = req /\ usage' = usage
    BY <1>2 DEF ReplaceKey, Edit, ReplaceText
  <2> QED BY <2>1 DEF Well, WellFormed, Effect, Keeps, Same
<1>3. ASSUME NEW r \in Relays, ResetProvider(r) PROVE Well /\ Effect
  <2>1. edits' = edits + 1 /\ req' = req /\ usage' = usage
    BY <1>3 DEF ResetProvider, Edit, Reset
  <2> QED BY <2>1 DEF Well, WellFormed, Effect, Keeps, Same
<1> QED BY <1>1, <1>2, <1>3

LEMMA TickStep ==
    ASSUME WellFormed, Tick PROVE Well /\ Effect
<1>1. /\ usage' = [k \in Keys |-> Slid(usage[k])]
      /\ req' = [q \in Requests |-> Older(req[q])]
      /\ UNCHANGED <<forgetting, edits>>
  BY DEF Tick, TimePasses
<1>2. ASSUME NEW q \in Requests
      PROVE  LET r == Older(req[q]) IN
             /\ Sound(r)
             /\ r.held = req[q].held
             /\ r.held => r.age = Min2(req[q].age + 1, Window) /\ r.cand = req[q].cand
  <2> DEFINE o == req[q]
             left  == IF o.left > 0 THEN o.left - 1 ELSE o.left
             sleep == Max2(o.sleep - 1, 0)
             age   == IF o.held THEN Min2(o.age + 1, Window) ELSE o.age
             r     == [o EXCEPT !.age = age, !.left = left, !.sleep = sleep]
  <2>1. Sound(o)
    BY DEF WellFormed
  <2>2. Older(o) = r
    BY DEF Older
  <2>3. age \in 0 .. Window /\ (~o.held => age = 0)
    <3>1. o.age \in 0 .. Window /\ (~o.held => o.age = 0)
      BY <2>1 DEF Sound
    <3> QED BY <3>1, WindowType DEF Min2
  <2> HIDE DEF left, sleep
  <2>4. /\ DOMAIN r = Fields /\ r.held = o.held /\ r.age = age
        /\ r.stage = o.stage /\ r.cand = o.cand
    BY <2>1 DEF Sound, Fields
  <2>5. Sound(r)
    <3> HIDE DEF r, age
    <3> QED BY <2>1, <2>3, <2>4 DEF Sound
  <2>6. r.held => r.age = Min2(o.age + 1, Window)
    BY <2>4
  <2> QED BY <2>2, <2>4, <2>5, <2>6
<1>3. Well
  BY <1>1, <1>2 DEF Well, WellFormed
<1>4. Passes
  BY <1>1, <1>2 DEF Passes
<1> QED BY <1>3, <1>4 DEF Effect

\* Every step does one of six things to the slots.
LEMMA WhatHappensToSlots ==
    ASSUME WellFormed, [Next]_vars PROVE Well /\ Effect
<1>1. ASSUME NEW q \in Requests,
             Resolve(q) \/ Step(q) \/ Answer(q) \/ ForwardEnds(q) \/ ClientGone(q)
      PROVE  Well /\ Effect
  BY <1>1, ResolveStep, WaitForCoolingKeyStep, BeginRoundStep, TryKeyStep, EndRoundStep,
     FallAsleepStep, WakeStep, AnswerStep, ForwardEndsStep, ClientGoneStep DEF Step
<1>2. CASE UNCHANGED vars
  BY <1>2 DEF vars, Well, WellFormed, Effect, Keeps, Same
<1> QED BY <1>1, <1>2, EditStep, TickStep DEF Next
-----------------------------------------------------------------------------
(* Each of the six keeps the counters in step with the requests. *)

LEMMA LimitTypes ==
    ASSUME NEW k \in Keys
    PROVE  Rpm[RelayOf(k)] \in Nat /\ Concurrency[RelayOf(k)] \in Nat
<1>1. RelayOf(k) \in Relays
  BY PoolAssumption DEF RelayOf
<1> QED BY <1>1, PoolAssumption

LEMMA HoldersAreFinite ==
    ASSUME NEW k
    PROVE  IsFiniteSet(Holders(k)) /\ Cardinality(Holders(k)) \in Nat
<1>1. Holders(k) \subseteq Requests /\ IsFiniteSet(Requests)
  BY PipelineAssumption DEF Holders
<1>2. IsFiniteSet(Holders(k))
  BY <1>1, FS_Subset
<1> QED BY <1>2, FS_CardinalityType

\* No request changes its slot.
LEMMA SameHolders ==
    ASSUME \A q \in Requests : Same(q), NEW k
    PROVE  Holders(k)' = Holders(k) /\ Young(k)' = Young(k)
<1>1. Holders(k)' = Holders(k)
  BY DEF Holders, Same, Key
<1>2. \A q \in Holders(k) : req'[q].age = req[q].age
  BY DEF Holders, Same
<1> QED BY <1>1, <1>2 DEF Young

LEMMA KeepsStep ==
    ASSUME IInv, Well, Keeps PROVE IInv'
<1>1. \A k : Holders(k)' = Holders(k) /\ Young(k)' = Young(k)
  BY SameHolders DEF Keeps
<1>2. usage' = usage
  BY DEF Keeps
<1>3. UsageSound' /\ Bounded'
  BY <1>2 DEF IInv, UsageSound, Bounded
<1>4. SlotsAreAccounted'
  BY <1>1, <1>2 DEF IInv, SlotsAreAccounted, Well
<1>5. ASSUME edits' = 0 PROVE Counted'
  <2> SUFFICES ASSUME NEW k \in Keys, Rpm[RelayOf(k)] > 0 PROVE \E f : Matches(k, f)'
    BY DEF Counted
  <2>1. PICK f : Matches(k, f)
    BY <1>5 DEF IInv, Well, Counted
  <2>2. \A q \in Young(k) : req'[q].age = req[q].age
    BY DEF Keeps, Same, Young, Holders
  <2>3. Matches(k, f)'
    BY <1>1, <1>2, <2>1, <2>2 DEF Matches
  <2> QED BY <2>3
<1> QED BY <1>3, <1>4, <1>5 DEF IInv, Well

LEMMA ClearsStep ==
    ASSUME IInv, Well, Clears PROVE IInv'
<1>1. \A k : Holders(k)' = Holders(k)
  BY SameHolders DEF Clears
<1>2. PICK j \in Keys : usage' = [usage EXCEPT ![j] = Unused]
  BY DEF Clears
<1>3. edits' # 0
  BY DEF Clears, Well
<1>4. ASSUME NEW k \in Keys
      PROVE  \/ usage'[k] = usage[k]
             \/ usage'[k].sent = << >> /\ usage'[k].inFlight = 0
                   /\ DOMAIN usage'[k] = {"sent", "inFlight"}
  BY <1>2 DEF IInv, UsageSound, Unused
<1>5. UsageSound'
  <2>1. DOMAIN usage' = Keys
    BY <1>2 DEF IInv, UsageSound
  <2>2. ASSUME NEW u, u.sent = << >> PROVE InOrder(u)
    <3>1. << >> \in Seq(Ages) /\ Len(<< >>) = 0
      OBVIOUS
    <3> QED BY <2>2, <3>1 DEF InOrder
  <2> QED BY <1>4, <2>1, <2>2 DEF IInv, UsageSound
<1>6. Bounded'
  <2> SUFFICES ASSUME NEW k \in Keys
               PROVE  /\ Rpm[RelayOf(k)] > 0 => Len(usage'[k].sent) <= Rpm[RelayOf(k)]
                      /\ Concurrency[RelayOf(k)] > 0 =>
                            usage'[k].inFlight <= Concurrency[RelayOf(k)]
    BY DEF Bounded
  <2>1. Len(<< >>) = 0
    OBVIOUS
  <2> QED BY <1>4, <2>1, LimitTypes DEF IInv, Bounded
<1>7. SlotsAreAccounted'
  <2>1. \A k \in Keys : usage'[k].inFlight <= Cardinality(Holders(k))
    BY <1>4, HoldersAreFinite DEF IInv, SlotsAreAccounted
  <2> QED BY <1>1, <1>3, <2>1 DEF SlotsAreAccounted
<1> QED BY <1>3, <1>5, <1>6, <1>7 DEF IInv, Well

\* One request takes a slot of key k, or gives it back.
LEMMA OneMoreHolder ==
    ASSUME WellFormed, WellFormed', NEW q \in Requests, OthersKeep(q),
           ~req[q].held, req'[q].held, NEW k
    PROVE  Holders(k)' = IF k = req'[q].cand.key THEN Holders(k) \cup {q} ELSE Holders(k)
BY DEF Holders, OthersKeep, Same, Key

LEMMA OneHolderLess ==
    ASSUME WellFormed, WellFormed', NEW q \in Requests, OthersKeep(q),
           req[q].held, ~req'[q].held, NEW k
    PROVE  /\ Holders(k)' = Holders(k) \ {q}
           /\ Young(k)' = Young(k) \ {q}
           /\ (q \in Holders(k)) <=> (k = Key(q))
<1>1. Holders(k)' = Holders(k) \ {q} /\ ((q \in Holders(k)) <=> (k = Key(q)))
  BY DEF Holders, OthersKeep, Same, Key
<1>2. \A p \in Holders(k) \ {q} : req'[p].age = req[p].age
  BY DEF Holders, OthersKeep, Same
<1> QED BY <1>1, <1>2 DEF Young

LEMMA TakesStep ==
    ASSUME IInv, Well, NEW q \in Requests, Takes(q) PROVE IInv'
<1>0. PICK k : k = req'[q].cand.key
  OBVIOUS
<1>1. /\ ~req[q].held /\ req'[q].held /\ req'[q].age = 0 /\ Free(k)
      /\ usage' = [usage EXCEPT ![k] = Acquired(k)] /\ OthersKeep(q)
  BY <1>0 DEF Takes
<1>2. WellFormed /\ WellFormed' /\ (edits' = 0 => edits = 0) /\ k = req'[q].cand.key
  BY <1>0 DEF IInv, Well
<1>3. \A j : Holders(j)' = IF j = k THEN Holders(j) \cup {q} ELSE Holders(j)
  BY <1>1, <1>2, OneMoreHolder
<1>4. DOMAIN usage' = Keys /\ \A j \in Keys \ {k} : usage'[j] = usage[j]
  BY <1>1 DEF IInv, UsageSound
<1>5. \A p \in Requests \ {q} : req[p].held => req'[p].age = req[p].age
  BY <1>1 DEF OthersKeep, Same
<1>6. ASSUME k \in Keys
      PROVE  /\ usage'[k] = Acquired(k)
             /\ DOMAIN usage'[k] = {"sent", "inFlight"}
             /\ usage'[k].inFlight = usage[k].inFlight + 1
             /\ usage'[k].sent = IF Rpm[RelayOf(k)] > 0 THEN Append(usage[k].sent, 0) ELSE << >>
  BY <1>1, <1>6 DEF IInv, UsageSound, Acquired
<1>7. ASSUME k \in Keys
      PROVE  InOrder(usage'[k]) /\ usage'[k].inFlight \in Nat
  <2>1. InOrder(usage[k]) /\ usage[k].inFlight \in Nat
    BY <1>7 DEF IInv, UsageSound
  <2>2. CASE Rpm[RelayOf(k)] > 0
    <3>1. usage'[k].sent = Append(usage[k].sent, 0) /\ usage'[k].inFlight = usage[k].inFlight + 1
      BY <1>6, <1>7, <2>2
    <3>2. InOrder(usage'[k])
      BY <2>1, <3>1, AppendWindow DEF InOrder
    <3> QED BY <2>1, <3>1, <3>2
  <2>3. CASE ~(Rpm[RelayOf(k)] > 0)
    <3>1. << >> \in Seq(Ages) /\ Len(<< >>) = 0
      OBVIOUS
    <3>2. usage'[k].sent = << >> /\ usage'[k].inFlight = usage[k].inFlight + 1
      BY <1>6, <1>7, <2>3
    <3>3. InOrder(usage'[k])
      BY <3>1, <3>2 DEF InOrder
    <3> QED BY <2>1, <3>2, <3>3
  <2> QED BY <2>2, <2>3
<1>8. UsageSound'
  BY <1>4, <1>6, <1>7 DEF IInv, UsageSound
<1>9. Bounded'
  <2> SUFFICES ASSUME NEW j \in Keys
               PROVE  /\ Rpm[RelayOf(j)] > 0 => Len(usage'[j].sent) <= Rpm[RelayOf(j)]
                      /\ Concurrency[RelayOf(j)] > 0 =>
                            usage'[j].inFlight <= Concurrency[RelayOf(j)]
    BY DEF Bounded
  <2>1. CASE j # k
    BY <1>4, <2>1 DEF IInv, Bounded
  <2>2. CASE j = k
    <3>1. /\ Rpm[RelayOf(k)] > 0 => Len(usage[k].sent) < Rpm[RelayOf(k)]
          /\ Concurrency[RelayOf(k)] > 0 => usage[k].inFlight < Concurrency[RelayOf(k)]
      <4>1. Len(usage[k].sent) \in Nat /\ usage[k].inFlight \in Nat
        BY <2>2 DEF IInv, UsageSound, InOrder
      <4> QED BY <1>1, <2>2, <4>1, LimitTypes DEF Free, RpmFull, Busy
    <3>2. Rpm[RelayOf(k)] > 0 => Len(usage'[k].sent) = Len(usage[k].sent) + 1
      BY <1>6, <2>2, AppendWindow DEF IInv, UsageSound
    <3>3. Len(usage[k].sent) \in Nat /\ usage[k].inFlight \in Nat
      BY <2>2 DEF IInv, UsageSound, InOrder
    <3> QED BY <1>6, <2>2, <3>1, <3>2, <3>3, LimitTypes
  <2> QED BY <2>1, <2>2
<1>10. SlotsAreAccounted'
  <2> SUFFICES ASSUME NEW j \in Keys
               PROVE  /\ usage'[j].inFlight <= Cardinality(Holders(j)')
                      /\ edits' = 0 => usage'[j].inFlight = Cardinality(Holders(j)')
    BY DEF SlotsAreAccounted
  <2>1. CASE j # k
    BY <1>2, <1>3, <1>4, <2>1 DEF IInv, SlotsAreAccounted
  <2>2. CASE j = k
    <3>1. q \notin Holders(k)
      BY <1>1 DEF Holders
    <3>2. Cardinality(Holders(j)') = Cardinality(Holders(k)) + 1
      BY <1>3, <2>2, <3>1, HoldersAreFinite, FS_AddElement
    <3>3. usage[k].inFlight \in Nat
      BY <2>2 DEF IInv, UsageSound
    <3> QED BY <1>2, <1>6, <2>2, <3>2, <3>3, HoldersAreFinite DEF IInv, SlotsAreAccounted
  <2> QED BY <2>1, <2>2
<1>11. ASSUME edits' = 0 PROVE Counted'
  <2> SUFFICES ASSUME NEW j \in Keys, Rpm[RelayOf(j)] > 0 PROVE \E f : Matches(j, f)'
    BY DEF Counted
  <2>1. PICK f : Matches(j, f)
    BY <1>2, <1>11 DEF IInv, Counted
  <2>2. CASE j # k
    <3>1. Young(j)' = Young(j) /\ \A p \in Young(j) : req'[p].age = req[p].age
      BY <1>1, <1>3, <1>5, <2>2 DEF Young, Holders
    <3>2. Matches(j, f)'
      BY <1>4, <2>1, <2>2, <3>1 DEF Matches
    <3> QED BY <3>2
  <2>3. CASE j = k
    <3> DEFINE s == usage'[k].sent
               n == Len(usage[k].sent)
    <3>0. PICK g : g = [p \in Young(k) \cup {q} |-> IF p = q THEN n + 1 ELSE f[p]]
      OBVIOUS
    <3>1. /\ Len(s) = n + 1 /\ n \in Nat /\ s[n + 1] = 0
          /\ \A i \in 1 .. n : s[i] = usage[k].sent[i]
      <4>1. InOrder(usage[k]) /\ n \in Nat
        BY <2>3 DEF IInv, UsageSound, InOrder
      <4> QED BY <1>6, <2>3, <4>1, AppendWindow
    <3>2. /\ q \notin Young(k)
          /\ Young(k)' = Young(k) \cup {q}
          /\ \A p \in Young(k) : req'[p].age = req[p].age
      <4>1. 0 < Window
        BY WindowType
      <4>2. Holders(k)' = Holders(k) \cup {q}
        BY <1>3
      <4>3. q \notin Holders(k) /\ \A p \in Holders(k) : p # q /\ req'[p].age = req[p].age
        BY <1>1, <1>5 DEF Holders
      <4> QED BY <1>1, <4>1, <4>2, <4>3 DEF Young
    <3>3. /\ f \in [Young(k) -> 1 .. n]
          /\ \A p, r \in Young(k) : f[p] = f[r] => p = r
          /\ \A p \in Young(k) : usage[k].sent[f[p]] = req[p].age
      BY <2>1, <2>3 DEF Matches
    <3> HIDE DEF s, n
    <3>4. g \in [Young(k)' -> 1 .. Len(s)]
      BY <3>0, <3>1, <3>2, <3>3
    <3>5. \A p, r \in Young(k)' : g[p] = g[r] => p = r
      BY <3>0, <3>1, <3>2, <3>3
    <3>6. \A p \in Young(k)' : s[g[p]] = req'[p].age
      BY <1>1, <3>0, <3>1, <3>2, <3>3
    <3>7. Matches(k, g)'
      BY <3>4, <3>5, <3>6 DEF Matches, s
    <3> QED BY <2>3, <3>7
  <2> QED BY <2>2, <2>3
<1> QED BY <1>2, <1>8, <1>9, <1>10, <1>11 DEF IInv

\* What giving back and taking back have in common: key k has one holder less.
LEMMA OneSlotLess ==
    ASSUME IInv, Well, NEW q \in Requests, NEW k, k = Key(q),
           req[q].held, ~req'[q].held, OthersKeep(q),
           DOMAIN usage' = Keys, \A j \in Keys \ {k} : usage'[j] = usage[j],
           k \in Keys => /\ DOMAIN usage'[k] = {"sent", "inFlight"}
                         /\ InOrder(usage'[k])
                         /\ usage'[k].inFlight = Max2(usage[k].inFlight - 1, 0)
                         /\ Len(usage'[k].sent) <= Len(usage[k].sent),
           edits' = 0 /\ k \in Keys /\ Rpm[RelayOf(k)] > 0 => \E f : Matches(k, f)'
    PROVE  IInv'
<1>1. WellFormed /\ WellFormed' /\ (edits' = 0 => edits = 0)
  BY DEF IInv, Well
<1>2. \A j : /\ Holders(j)' = Holders(j) \ {q} /\ Young(j)' = Young(j) \ {q}
             /\ (q \in Holders(j)) <=> (j = k)
  BY <1>1, OneHolderLess
<1>3. k \in Keys => /\ usage[k].inFlight \in Nat /\ Len(usage[k].sent) \in Nat
                    /\ usage'[k].inFlight \in Nat /\ Len(usage'[k].sent) \in Nat
                    /\ usage'[k].inFlight <= usage[k].inFlight
  <2>1. k \in Keys => /\ usage[k].inFlight \in Nat
                      /\ InOrder(usage[k]) /\ InOrder(usage'[k])
    BY DEF IInv, UsageSound
  <2>2. k \in Keys => Len(usage[k].sent) \in Nat /\ Len(usage'[k].sent) \in Nat
    BY <2>1 DEF InOrder
  <2> QED BY <2>1, <2>2 DEF Max2
<1>4. UsageSound'
  BY <1>3 DEF IInv, UsageSound
<1>5. Bounded'
  <2> SUFFICES ASSUME NEW j \in Keys
               PROVE  /\ Rpm[RelayOf(j)] > 0 => Len(usage'[j].sent) <= Rpm[RelayOf(j)]
                      /\ Concurrency[RelayOf(j)] > 0 =>
                            usage'[j].inFlight <= Concurrency[RelayOf(j)]
    BY DEF Bounded
  <2>1. /\ Rpm[RelayOf(j)] > 0 => Len(usage[j].sent) <= Rpm[RelayOf(j)]
        /\ Concurrency[RelayOf(j)] > 0 => usage[j].inFlight <= Concurrency[RelayOf(j)]
    BY DEF IInv, Bounded
  <2>2. CASE j # k
    BY <2>1, <2>2
  <2>3. CASE j = k
    BY <1>3, <2>1, <2>3, LimitTypes
  <2> QED BY <2>2, <2>3
<1>6. SlotsAreAccounted'
  <2> SUFFICES ASSUME NEW j \in Keys
               PROVE  /\ usage'[j].inFlight <= Cardinality(Holders(j)')
                      /\ edits' = 0 => usage'[j].inFlight = Cardinality(Holders(j)')
    BY DEF SlotsAreAccounted
  <2>1. /\ usage[j].inFlight <= Cardinality(Holders(j))
        /\ edits = 0 => usage[j].inFlight = Cardinality(Holders(j))
    BY DEF IInv, SlotsAreAccounted
  <2>2. CASE j # k
    <3>1. Holders(j)' = Holders(j)
      BY <1>2, <2>2
    <3> QED BY <1>1, <2>1, <2>2, <3>1
  <2>3. CASE j = k
    <3>1. Holders(j)' = Holders(j) \ {q} /\ q \in Holders(j)
      BY <1>2, <2>3
    <3>2. /\ Cardinality(Holders(j)') = Cardinality(Holders(j)) - 1
          /\ Cardinality(Holders(j)') \in Nat /\ Cardinality(Holders(j)) \in Nat
      <4>1. Cardinality(Holders(j) \ {q}) = Cardinality(Holders(j)) - 1
        BY <3>1, HoldersAreFinite, FS_RemoveElement
      <4>2. Cardinality(Holders(j) \ {q}) \in Nat
        BY HoldersAreFinite, FS_RemoveElement, FS_CardinalityType
      <4> QED BY <3>1, <4>1, <4>2, HoldersAreFinite
    <3> QED BY <1>1, <1>3, <2>1, <2>3, <3>2 DEF Max2
  <2> QED BY <2>2, <2>3
<1>7. ASSUME edits' = 0 PROVE Counted'
  <2> SUFFICES ASSUME NEW j \in Keys, Rpm[RelayOf(j)] > 0 PROVE \E f : Matches(j, f)'
    BY DEF Counted
  <2>1. CASE j = k
    BY <1>7, <2>1
  <2>2. CASE j # k
    <3>1. PICK f : Matches(j, f)
      BY <1>1, <1>7 DEF IInv, Counted
    <3>2. Young(j)' = Young(j) /\ usage'[j] = usage[j]
      <4>1. q \notin Young(j)
        BY <1>2, <2>2 DEF Young
      <4> QED BY <1>2, <2>2, <4>1
    <3>3. \A p \in Young(j) : req'[p].age = req[p].age
      BY <1>2, <2>2 DEF OthersKeep, Same, Young, Holders
    <3>4. Matches(j, f)'
      BY <3>1, <3>2, <3>3 DEF Matches
    <3> QED BY <3>4
  <2> QED BY <2>1, <2>2
<1> QED BY <1>1, <1>4, <1>5, <1>6, <1>7 DEF IInv

LEMMA GivesStep ==
    ASSUME IInv, Well, NEW q \in Requests, Gives(q) PROVE IInv'
<1>0. PICK k : k = Key(q)
  OBVIOUS
<1>1. /\ req[q].held /\ ~req'[q].held /\ OthersKeep(q)
      /\ usage' = [usage EXCEPT ![k] = Released(@)]
  BY <1>0 DEF Gives
<1>2. DOMAIN usage' = Keys /\ \A j \in Keys \ {k} : usage'[j] = usage[j]
  BY <1>1 DEF IInv, UsageSound
<1>3. k \in Keys => /\ DOMAIN usage'[k] = {"sent", "inFlight"}
                    /\ usage'[k].sent = usage[k].sent
                    /\ usage'[k].inFlight = Max2(usage[k].inFlight - 1, 0)
  BY <1>1 DEF IInv, UsageSound, Released
<1>4. k \in Keys => InOrder(usage'[k]) /\ Len(usage'[k].sent) <= Len(usage[k].sent)
  BY <1>3 DEF IInv, UsageSound, InOrder
<1>5. ASSUME edits' = 0, k \in Keys, Rpm[RelayOf(k)] > 0 PROVE \E f : Matches(k, f)'
  <2>1. PICK f : Matches(k, f)
    BY <1>5 DEF IInv, Well, Counted
  <2>2. Young(k)' = Young(k) \ {q}
    BY <1>1, OneHolderLess DEF IInv, Well
  <2>3. \A p \in Young(k) \ {q} : req'[p].age = req[p].age
    BY <1>1 DEF OthersKeep, Same, Young, Holders
  <2>4. PICK g : g = [p \in Young(k) \ {q} |-> f[p]]
    OBVIOUS
  <2>5. Matches(k, g)'
    BY <1>3, <1>5, <2>1, <2>2, <2>3, <2>4 DEF Matches
  <2> QED BY <2>5
<1> QED BY <1>0, <1>1, <1>2, <1>3, <1>4, <1>5, OneSlotLess

LEMMA TakesBackStep ==
    ASSUME IInv, Well, NEW q \in Requests, TakesBack(q) PROVE IInv'
<1>0. PICK k : k = Key(q)
  OBVIOUS
<1>1. /\ req[q].held /\ ~req'[q].held /\ OthersKeep(q)
      /\ usage' = [usage EXCEPT ![k] = Cancelled(@, req[q].age)]
  BY <1>0 DEF TakesBack
<1>2. DOMAIN usage' = Keys /\ \A j \in Keys \ {k} : usage'[j] = usage[j]
  BY <1>1 DEF IInv, UsageSound
<1> DEFINE s    == usage[k].sent
           same == {i \in DOMAIN s : s[i] = req[q].age}
           last == CHOOSE i \in same : \A j \in same : j <= i
<1>3. ASSUME k \in Keys
      PROVE  /\ s \in Seq(Ages) /\ Len(s) \in Nat /\ DOMAIN s = 1 .. Len(s)
             /\ InOrder(usage[k])
             /\ DOMAIN usage'[k] = {"sent", "inFlight"}
             /\ usage'[k].inFlight = Max2(usage[k].inFlight - 1, 0)
             /\ usage'[k].sent = IF same = {} THEN s ELSE RemoveAt(s, last)
  <2>1. /\ DOMAIN usage[k] = {"sent", "inFlight"} /\ InOrder(usage[k])
        /\ usage'[k] = Cancelled(usage[k], req[q].age)
    BY <1>1, <1>3 DEF IInv, UsageSound
  <2>2. s \in Seq(Ages) /\ Len(s) \in Nat /\ DOMAIN s = 1 .. Len(s)
    BY <2>1 DEF InOrder
  <2>3. Released(usage[k]).sent = s
    BY <2>1 DEF Released
  <2> QED BY <2>1, <2>2, <2>3 DEF Cancelled, Released
<1>4. ASSUME k \in Keys, same # {}
      PROVE  last \in same /\ last \in 1 .. Len(s)
  <2>1. \E i \in same : \A j \in same : j <= i
    <3>1. same \in SUBSET (1 .. Len(s)) /\ Len(s) \in Nat
      BY <1>3, <1>4
    <3> HIDE DEF same
    <3> QED BY <1>4, <3>1, LastOf
  <2>2. last \in same
    <3> HIDE DEF same
    <3> QED BY <2>1
  <2> QED BY <1>3, <1>4, <2>2
<1> HIDE DEF last
<1>5. ASSUME k \in Keys
      PROVE  InOrder(usage'[k]) /\ Len(usage'[k].sent) <= Len(usage[k].sent)
  <2>1. CASE same = {}
    BY <1>3, <1>5, <2>1 DEF InOrder
  <2>2. CASE same # {}
    <3>1. usage'[k].sent = RemoveAt(s, last) /\ InOrder(usage[k])
      BY <1>3, <1>5, <2>2
    <3>2. last \in 1 .. Len(usage[k].sent) /\ Len(s) \in Nat
      BY <1>3, <1>4, <1>5, <2>2
    <3> DEFINE t == RemoveAt(usage[k].sent, last)
    <3>3. /\ t \in Seq(Ages) /\ Len(t) = Len(usage[k].sent) - 1
          /\ \A i, j \in 1 .. Len(t) : i < j => t[i] >= t[j]
      BY <3>1, <3>2, RemoveWindow
    <3>4. usage'[k].sent = t
      BY <3>1
    <3> HIDE DEF t
    <3> QED BY <3>2, <3>3, <3>4 DEF InOrder
  <2> QED BY <2>1, <2>2
<1>6. ASSUME edits' = 0, k \in Keys, Rpm[RelayOf(k)] > 0 PROVE \E f : Matches(k, f)'
  <2>1. PICK f : Matches(k, f)
    BY <1>6 DEF IInv, Well, Counted
  <2>2. Young(k)' = Young(k) \ {q}
    BY <1>1, OneHolderLess DEF IInv, Well
  <2>3. \A p \in Young(k) \ {q} : req'[p].age = req[p].age
    BY <1>1 DEF OthersKeep, Same, Young, Holders
  <2>4. /\ f \in [Young(k) -> 1 .. Len(s)]
        /\ \A p, r \in Young(k) : f[p] = f[r] => p = r
        /\ \A p \in Young(k) : s[f[p]] = req[p].age
    BY <2>1 DEF Matches
  <2>5. CASE same = {}
    <3>1. PICK g : g = [p \in Young(k) \ {q} |-> f[p]]
      OBVIOUS
    <3>2. usage'[k].sent = s
      BY <1>3, <1>6, <2>5
    <3> HIDE DEF s, same
    <3>3. Matches(k, g)'
      BY <2>2, <2>3, <2>4, <3>1, <3>2 DEF Matches
    <3> QED BY <3>3
  <2>6. CASE same # {}
    <3> DEFINE t == usage'[k].sent
    <3>1. last \in 1 .. Len(s) /\ s[last] = req[q].age /\ Len(s) \in Nat
      BY <1>3, <1>4, <1>6, <2>6
    <3>2. /\ t = RemoveAt(s, last) /\ Len(t) = Len(s) - 1
          /\ \A i \in 1 .. Len(t) : t[i] = IF i < last THEN s[i] ELSE s[i + 1]
      <4>1. t = RemoveAt(s, last) /\ InOrder(usage[k])
        BY <1>3, <1>6, <2>6
      <4> QED BY <3>1, <4>1, RemoveWindow
    <3>3. q \in Young(k)
      <4>1. s[last] \in Ages
        BY <1>3, <1>6, <3>1
      <4>2. q \in Holders(k)
        BY <1>0, <1>1 DEF Holders
      <4> QED BY <3>1, <4>1, <4>2, WindowType DEF Young, Ages
    \* Whoever had the entry that goes takes the one of q, which is as old.
    <3>4. PICK h : h = [p \in Young(k) \ {q} |-> IF f[p] = last THEN f[q] ELSE f[p]]
      OBVIOUS
    <3>5. PICK g : g = [p \in Young(k) \ {q} |-> IF h[p] < last THEN h[p] ELSE h[p] - 1]
      OBVIOUS
    <3> HIDE DEF s, same, t
    <3>6. /\ h \in [Young(k) \ {q} -> 1 .. Len(s)]
          /\ \A p \in Young(k) \ {q} : h[p] # last
          /\ \A p, r \in Young(k) \ {q} : h[p] = h[r] => p = r
          /\ \A p \in Young(k) \ {q} : s[h[p]] = req[p].age
      BY <2>4, <3>1, <3>3, <3>4
    <3>7. ASSUME NEW p \in Young(k) \ {q}
          PROVE  /\ g[p] \in 1 .. Len(t)
                 /\ g[p] < last => h[p] = g[p]
                 /\ g[p] >= last => h[p] = g[p] + 1
                 /\ t[g[p]] = req[p].age
      <4>1. /\ h[p] \in 1 .. Len(s) /\ h[p] # last
            /\ g[p] = IF h[p] < last THEN h[p] ELSE h[p] - 1
        BY <3>5, <3>6
      <4>2. /\ g[p] \in 1 .. Len(t)
            /\ g[p] < last => h[p] = g[p]
            /\ g[p] >= last => h[p] = g[p] + 1
        BY <3>1, <3>2, <4>1
      <4>3. t[g[p]] = s[h[p]]
        BY <3>1, <3>2, <4>1, <4>2
      <4> QED BY <3>6, <4>2, <4>3
    <3>8. \A p, r \in Young(k) \ {q} : g[p] = g[r] => p = r
      <4>1. \A p, r \in Young(k) \ {q} : g[p] = g[r] => h[p] = h[r]
        BY <3>1, <3>7
      <4> QED BY <3>6, <4>1
    <3>9. g \in [Young(k) \ {q} -> 1 .. Len(t)]
      BY <3>5, <3>7
    <3>10. Matches(k, g)'
      BY <2>2, <2>3, <3>7, <3>8, <3>9 DEF Matches, t
    <3> QED BY <3>10
  <2> QED BY <2>5, <2>6
<1> QED BY <1>0, <1>1, <1>2, <1>3, <1>5, <1>6, OneSlotLess

LEMMA PassesStep ==
    ASSUME IInv, Well, Passes PROVE IInv'
<1>1. WellFormed /\ WellFormed' /\ (edits' = 0 => edits = 0)
  BY DEF IInv, Well
<1>2. ASSUME NEW k \in Keys
      PROVE  /\ usage'[k] = Slid(usage[k])
             /\ DOMAIN usage[k] = {"sent", "inFlight"} /\ InOrder(usage[k])
             /\ usage[k].inFlight \in Nat /\ Len(usage[k].sent) \in Nat
             /\ DOMAIN usage'[k] = {"sent", "inFlight"}
  BY DEF IInv, UsageSound, Passes, InOrder, Slid
<1>3. ASSUME NEW k \in Keys
      PROVE  SlidTo(usage[k], usage'[k]) /\ usage'[k].inFlight = usage[k].inFlight
  <2>1. SlidTo(usage[k], Slid(usage[k])) /\ usage'[k] = Slid(usage[k])
    BY <1>2, <1>3, SlideWindow
  <2> QED BY <2>1 DEF SlidTo
<1>4. UsageSound'
  <2>1. DOMAIN usage' = Keys
    BY DEF Passes
  <2>2. \A k \in Keys : InOrder(usage'[k]) /\ usage'[k].inFlight \in Nat
    BY <1>2, <1>3 DEF InOrder, SlidTo
  <2> QED BY <1>2, <2>1, <2>2 DEF UsageSound
<1>5. Bounded'
  <2> SUFFICES ASSUME NEW j \in Keys
               PROVE  /\ Rpm[RelayOf(j)] > 0 => Len(usage'[j].sent) <= Rpm[RelayOf(j)]
                      /\ Concurrency[RelayOf(j)] > 0 =>
                            usage'[j].inFlight <= Concurrency[RelayOf(j)]
    BY DEF Bounded
  <2>1. /\ Rpm[RelayOf(j)] > 0 => Len(usage[j].sent) <= Rpm[RelayOf(j)]
        /\ Concurrency[RelayOf(j)] > 0 => usage[j].inFlight <= Concurrency[RelayOf(j)]
    BY DEF IInv, Bounded
  <2>2. /\ usage'[j].inFlight = usage[j].inFlight
        /\ Len(usage'[j].sent) \in Nat /\ Len(usage'[j].sent) <= Len(usage[j].sent)
    BY <1>2, <1>3 DEF SlidTo
  <2> QED BY <1>2, <2>1, <2>2, LimitTypes
<1>6. \A k : Holders(k)' = Holders(k)
  BY DEF Holders, Passes, Key
<1>7. SlotsAreAccounted'
  <2>1. \A k \in Keys : usage'[k].inFlight = usage[k].inFlight
    BY <1>3
  <2> QED BY <1>1, <1>6, <2>1 DEF IInv, SlotsAreAccounted
<1>8. ASSUME edits' = 0 PROVE Counted'
  <2> SUFFICES ASSUME NEW k \in Keys, Rpm[RelayOf(k)] > 0 PROVE \E f : Matches(k, f)'
    BY DEF Counted
  <2>1. PICK f : Matches(k, f)
    BY <1>1, <1>8 DEF IInv, Counted
  <2>2. PICK n \in 0 .. Len(usage[k].sent) :
           LET s == usage'[k].sent IN
           /\ Len(s) = Len(usage[k].sent) - n
           /\ \A i \in 1 .. Len(s) : s[i] = usage[k].sent[i + n] + 1
           /\ \A i \in 1 .. n : usage[k].sent[i] + 1 >= Window
    BY <1>3 DEF SlidTo
  <2> DEFINE s == usage'[k].sent
             m == Len(usage[k].sent)
  <2>3. /\ n \in Nat /\ m \in Nat /\ n <= m /\ Len(s) = m - n
        /\ \A i \in 1 .. Len(s) : s[i] = usage[k].sent[i + n] + 1
        /\ \A i \in 1 .. n : usage[k].sent[i] + 1 >= Window
    BY <1>2, <2>2
  <2>4. ASSUME NEW p \in Young(k)'
        PROVE  p \in Young(k) /\ req'[p].age = req[p].age + 1 /\ req[p].age + 1 < Window
    <3>1. p \in Holders(k) /\ p \in Requests /\ req[p].held
      BY <1>6, <2>4 DEF Young, Holders
    <3>2. req'[p].age = Min2(req[p].age + 1, Window) /\ req'[p].age < Window
      BY <2>4, <3>1 DEF Passes, Young
    <3>3. req[p].age \in Nat
      BY <1>1, <3>1 DEF WellFormed, Sound
    <3>4. req'[p].age = req[p].age + 1 /\ req[p].age + 1 < Window
      BY <3>2, <3>3, WindowType DEF Min2
    <3> QED BY <3>1, <3>3, <3>4, WindowType DEF Young
  <2>5. /\ f \in [Young(k) -> 1 .. m]
        /\ \A p, r \in Young(k) : f[p] = f[r] => p = r
        /\ \A p \in Young(k) : usage[k].sent[f[p]] = req[p].age
    BY <2>1 DEF Matches
  <2>6. PICK Y : Y = Young(k)'
    OBVIOUS
  <2>7. PICK g : g = [p \in Y |-> f[p] - n]
    OBVIOUS
  <2> HIDE DEF s, m
  <2>8. ASSUME NEW p \in Y
        PROVE  g[p] \in 1 .. Len(s) /\ s[g[p]] = req'[p].age /\ f[p] = g[p] + n
    <3>1. /\ f[p] \in 1 .. m /\ usage[k].sent[f[p]] = req[p].age
          /\ req'[p].age = req[p].age + 1 /\ req[p].age + 1 < Window
      BY <2>4, <2>5, <2>6
    <3>2. f[p] \notin 1 .. n
      <4>1. f[p] \in 1 .. n => req[p].age + 1 >= Window
        BY <2>3, <3>1
      <4>2. req[p].age \in Nat
        BY <1>1, <2>4, <2>6 DEF WellFormed, Sound, Young, Holders
      <4> QED BY <3>1, <4>1, <4>2, WindowType
    <3>3. g[p] \in 1 .. Len(s) /\ f[p] = g[p] + n
      BY <2>3, <2>7, <3>1, <3>2
    <3> QED BY <2>3, <3>1, <3>3
  <2>9. \A p, r \in Y : g[p] = g[r] => p = r
    <3>1. \A p, r \in Y : g[p] = g[r] => f[p] = f[r]
      BY <2>8
    <3> QED BY <2>4, <2>5, <2>6, <3>1
  <2>10. g \in [Y -> 1 .. Len(s)]
    BY <2>7, <2>8
  <2>11. Matches(k, g)'
    BY <2>6, <2>8, <2>9, <2>10 DEF Matches, s
  <2> QED BY <2>11
<1> QED BY <1>1, <1>4, <1>5, <1>7, <1>8 DEF IInv
-----------------------------------------------------------------------------
(* The theorems. *)

LEMMA InitInvariant == Init => IInv
<1> SUFFICES ASSUME Init PROVE IInv
  OBVIOUS
<1>1. /\ req = [q \in Requests |-> Rest("idle")] /\ forgetting = {} /\ edits = 0
      /\ usage = [k \in Keys |-> Unused]
  BY DEF Init, PoolInit
<1>2. WellFormed
  <2>1. Sound(Rest("idle"))
    BY RestIsBare, BareIsSound
  <2> QED BY <1>1, <2>1 DEF WellFormed
<1>3. \A q \in Requests : req[q].held = FALSE
  BY <1>1, RestIsBare DEF Bare
<1>4. \A k : Holders(k) = {} /\ Young(k) = {}
  BY <1>3 DEF Holders, Young
<1>5. \A k \in Keys : /\ DOMAIN usage[k] = {"sent", "inFlight"}
                      /\ usage[k].sent = << >> /\ usage[k].inFlight = 0
  BY <1>1 DEF Unused
<1>6. << >> \in Seq(Ages) /\ Len(<< >>) = 0
  OBVIOUS
<1>7. UsageSound
  <2>1. ASSUME NEW k \in Keys PROVE InOrder(usage[k])
    <3>1. usage[k].sent \in Seq(Ages) /\ Len(usage[k].sent) = 0
      BY <1>5, <1>6
    <3> QED BY <3>1 DEF InOrder
  <2> QED BY <1>1, <1>5, <2>1 DEF UsageSound
<1>8. Bounded
  BY <1>5, <1>6, LimitTypes DEF Bounded
<1>9. SlotsAreAccounted
  <2>1. Cardinality({}) = 0
    BY FS_EmptySet
  <2> QED BY <1>4, <1>5, <2>1 DEF SlotsAreAccounted
<1>10. Counted
  <2> SUFFICES ASSUME NEW k \in Keys PROVE \E f : Matches(k, f)
    BY DEF Counted
  <2>1. PICK f : f = [p \in {} |-> 0]
    OBVIOUS
  <2>2. Matches(k, f)
    BY <1>4, <2>1 DEF Matches
  <2> QED BY <2>2
<1> QED BY <1>2, <1>7, <1>8, <1>9, <1>10 DEF IInv

LEMMA Invariance == Spec => []IInv
<1>1. ASSUME IInv, [Next]_vars PROVE IInv'
  <2>1. Well /\ Effect
    BY <1>1, WhatHappensToSlots DEF IInv
  <2> QED BY <1>1, <2>1, KeepsStep, ClearsStep, PassesStep, TakesStep, GivesStep, TakesBackStep
          DEF Effect
<1> QED BY <1>1, InitInvariant, PTL DEF Spec

\* Whichever way a request ends, after whatever detours, its slot is given back
\* exactly once: the counter of a key never exceeds the requests that hold it,
\* and equals them as long as the user replaces no key.
THEOREM SlotsStayAccounted == Spec => []SlotsAreAccounted
<1>1. IInv => SlotsAreAccounted
  BY DEF IInv
<1> QED BY <1>1, Invariance, PTL

\* Before the user's first edit no key has more requests in progress, nor more
\* of them within the window, than its limits allow, however many compete.
THEOREM LimitsHold == Spec => [](edits = 0 => WithinLimits)
<1>1. ASSUME IInv, edits = 0 PROVE WithinLimits
  <2> SUFFICES ASSUME NEW k \in Keys
               PROVE  /\ Concurrency[RelayOf(k)] > 0 =>
                            Cardinality(Holders(k)) <= Concurrency[RelayOf(k)]
                      /\ Rpm[RelayOf(k)] > 0 =>
                            /\ Len(usage[k].sent) <= Rpm[RelayOf(k)]
                            /\ Cardinality(Young(k)) <= Rpm[RelayOf(k)]
    BY DEF WithinLimits, Young
  <2>1. Concurrency[RelayOf(k)] > 0 => Cardinality(Holders(k)) <= Concurrency[RelayOf(k)]
    BY <1>1 DEF IInv, SlotsAreAccounted, Bounded
  <2>2. ASSUME Rpm[RelayOf(k)] > 0
        PROVE  Len(usage[k].sent) <= Rpm[RelayOf(k)] /\ Cardinality(Young(k)) <= Rpm[RelayOf(k)]
    <3>1. Len(usage[k].sent) <= Rpm[RelayOf(k)] /\ Len(usage[k].sent) \in Nat
      BY <1>1, <2>2 DEF IInv, Bounded, UsageSound, InOrder
    <3>2. PICK f : Matches(k, f)
      BY <1>1, <2>2 DEF IInv, Counted
    <3> DEFINE entries == 1 .. Len(usage[k].sent)
    <3>3. f \in Injection(Young(k), entries)
      BY <3>2 DEF Matches, Injection, IsInjective
    <3>4. IsFiniteSet(entries) /\ Cardinality(entries) = Len(usage[k].sent)
      BY <3>1, FS_Interval
    <3> HIDE DEF entries
    <3>5. IsFiniteSet(Young(k)) /\ Cardinality(Young(k)) <= Cardinality(entries)
      BY <3>3, <3>4, FS_Injection
    <3>6. Cardinality(Young(k)) \in Nat
      BY <3>5, FS_CardinalityType
    <3> QED BY <3>1, <3>4, <3>5, <3>6, LimitTypes
  <2> QED BY <2>1, <2>2
<1> QED BY <1>1, Invariance, PTL
-----------------------------------------------------------------------------
(* What becomes of a request, step by step. *)

Plans(q, r) ==
    /\ req[q].stage \in Resting
    /\ \E turn \in [Relays -> Turns] : \E ks \in Arranged(SessionOf[q], turn) :
          ks # << >> /\ r = PlanOf(q, ks, Available = {})

Waits(q, r) ==
    /\ req[q].stage \in Resting
    /\ r = [Rest("cooling") EXCEPT !.waiting = Waiting, !.left = CoolingWait]
    /\ Waiting # {}

Ends(q, r) ==
    \E stage \in Resting :
       /\ r = Rest(stage)
       /\ stage = "failed" => /\ req[q].stage \in {"asking", "trying"}
                              /\ ~HasMore(q)
       /\ req[q].stage \in Resting =>
             \E turn \in [Relays -> Turns] : << >> \in Arranged(SessionOf[q], turn)

Recovers(q, r) ==
    /\ At(q, "cooling")
    /\ \E c \in req[q].waiting : r = [Rest("round") EXCEPT !.pending = <<c>>, !.plan = {c.key}]

SleepsOn(q, r) ==
    /\ At(q, "cooling")
    /\ \E n \in 1 .. req[q].left : r = [req[q] EXCEPT !.sleep = n]

Begins(q, r) == At(q, "round") /\ r = [req[q] EXCEPT !.stage = "trying"]

Asks(q, r) ==
    /\ At(q, "trying") /\ req[q].pending # << >>
    /\ \/ r = [req[q] EXCEPT !.pending = Tail(req[q].pending), !.stage = "asking",
                             !.cand = Head(req[q].pending)]
       \/ r = [req[q] EXCEPT !.pending = Tail(req[q].pending), !.stage = "asking",
                             !.cand = Head(req[q].pending), !.held = TRUE]

PutsOff(q, r) ==
    /\ At(q, "trying") /\ req[q].pending # << >>
    /\ r = [req[q] EXCEPT !.pending = Tail(req[q].pending),
                          !.deferred = Append(req[q].deferred, Head(req[q].pending))]

TriesNext(q, r) == At(q, "asking") /\ r = [NextCandidate(q) EXCEPT !.held = FALSE, !.age = 0]

Forwards(q, r) ==
    /\ At(q, "asking")
    /\ r = [Rest("forwarding") EXCEPT !.cand = req[q].cand, !.held = req[q].held,
                                      !.age = req[q].age]

Dozes(q, r) ==
    /\ At(q, "trying") /\ req[q].pending = << >> /\ req[q].deferred # << >> /\ Deadline(q) # 0
    /\ r = [req[q] EXCEPT !.stage = "dozing", !.left = Deadline(q),
                          !.sleep = SleepOf(q, Deadline(q))]

Drops(q, r) == At(q, "dozing") /\ r = [req[q] EXCEPT !.stage = "queued"]

Wakes(q, r) ==
    /\ At(q, "queued")
    /\ r = [req[q] EXCEPT !.stage = "round", !.pending = req[q].deferred, !.deferred = << >>,
                          !.sleep = 0, !.notified = FALSE]

Moves(q, r) ==
    \/ Plans(q, r) \/ Waits(q, r) \/ Ends(q, r) \/ Recovers(q, r) \/ SleepsOn(q, r)
    \/ Begins(q, r) \/ Asks(q, r) \/ PutsOff(q, r) \/ TriesNext(q, r) \/ Forwards(q, r)
    \/ Dozes(q, r) \/ Drops(q, r) \/ Wakes(q, r)

\* Request q goes on as r, and those that listen may be notified.
GoesOn(q, r) ==
    LET next == [req EXCEPT ![q] = r] IN req' = next \/ req' = Notified(next)

LEMMA ReleaseGoesOn ==
    ASSUME NEW q, NEW r, Release(q, r)
    PROVE  GoesOn(q, [r EXCEPT !.held = FALSE, !.age = 0])
BY DEF Release, GoesOn

LEMMA RestIsReleased ==
    ASSUME NEW stage PROVE [Rest(stage) EXCEPT !.held = FALSE, !.age = 0] = Rest(stage)
<1> DEFINE r == Rest(stage)
<1>1. r = [x \in DOMAIN r |-> r[x]] /\ r.held = FALSE /\ r.age = 0
  BY DEF Rest
<1> HIDE DEF r
<1>2. [r EXCEPT !.held = FALSE] = r
  BY <1>1
<1>3. [r EXCEPT !.age = 0] = r
  BY <1>1
<1> QED BY <1>2, <1>3 DEF r

LEMMA RestEnds ==
    ASSUME NEW q, NEW stage \in Resting, Release(q, Rest(stage)), req[q].stage \notin Resting,
           stage = "failed" => req[q].stage \in {"asking", "trying"} /\ ~HasMore(q)
    PROVE  \E r : Moves(q, r) /\ GoesOn(q, r)
<1>1. GoesOn(q, Rest(stage))
  <2>1. GoesOn(q, [Rest(stage) EXCEPT !.held = FALSE, !.age = 0])
    BY ReleaseGoesOn
  <2> QED BY <2>1, RestIsReleased
<1>2. Ends(q, Rest(stage))
  BY DEF Ends
<1> QED BY <1>1, <1>2 DEF Moves

LEMMA NextGoesOn ==
    ASSUME NEW q, At(q, "asking"), Release(q, NextCandidate(q))
    PROVE  \E r : Moves(q, r) /\ GoesOn(q, r)
BY ReleaseGoesOn DEF Moves, TriesNext

LEMMA PlanMoves ==
    ASSUME NEW q \in Requests, Resolve(q)
    PROVE  \E r : Moves(q, r) /\ GoesOn(q, r)
<1>1. PICK turn \in [Relays -> Turns] : \E ks \in Arranged(SessionOf[q], turn) :
         req' = [req EXCEPT ![q] = Resolved(q, ks)]
  BY DEF Resolve
<1>2. PICK ks \in Arranged(SessionOf[q], turn) : req' = [req EXCEPT ![q] = Resolved(q, ks)]
  BY <1>1
<1>3. GoesOn(q, Resolved(q, ks)) /\ req[q].stage \in Resting
  BY <1>2 DEF GoesOn, Resolve
<1>4. CASE ks # << >> /\ Resolved(q, ks) = PlanOf(q, ks, Available = {})
  BY <1>3, <1>4 DEF Moves, Plans
<1>5. CASE /\ Waiting # {}
           /\ Resolved(q, ks) = [Rest("cooling") EXCEPT !.waiting = Waiting, !.left = CoolingWait]
  BY <1>3, <1>5 DEF Moves, Waits
<1>6. CASE ks = << >> /\ Resolved(q, ks) \in {Rest("refused"), Rest("unavailable")}
  <2>2. << >> \in Arranged(SessionOf[q], turn)
    BY <1>2, <1>6
  <2>3. Ends(q, Resolved(q, ks))
    BY <1>6, <2>2 DEF Ends, Resting
  <2> QED BY <1>3, <2>3 DEF Moves
<1> QED BY <1>4, <1>5, <1>6, ResolvedFacts

LEMMA CoolingMoves ==
    ASSUME NEW q \in Requests, WaitForCoolingKey(q)
    PROVE  \E r : Moves(q, r) /\ GoesOn(q, r)
<1> DEFINE soonest == Soonest(req[q].waiting)
<1>1. CASE \E c \in req[q].waiting :
              req' = [req EXCEPT ![q] = [Rest("round") EXCEPT !.pending = <<c>>, !.plan = {c.key}]]
  BY <1>1 DEF WaitForCoolingKey, Moves, Recovers, GoesOn
<1>2. CASE req' = [req EXCEPT ![q] = Rest("refused")]
  <2>1. Ends(q, Rest("refused"))
    BY DEF Ends, Resting, WaitForCoolingKey, At
  <2> QED BY <1>2, <2>1 DEF Moves, GoesOn
<1>3. CASE soonest \in 1 .. req[q].left /\ req' = [req EXCEPT ![q].sleep = soonest]
  <2> HIDE DEF soonest
  <2>1. SleepsOn(q, [req[q] EXCEPT !.sleep = soonest])
    BY <1>3 DEF SleepsOn, WaitForCoolingKey
  <2> QED BY <1>3, <2>1 DEF Moves, GoesOn
<1> QED BY <1>1, <1>2, <1>3 DEF WaitForCoolingKey

LEMMA LoopMoves ==
    ASSUME NEW q \in Requests,
           \/ BeginRound(q) \/ TryKey(q) \/ EndRound(q) \/ FallAsleep(q) \/ Wake(q)
           \/ ClientGone(q)
    PROVE  \E r : Moves(q, r) /\ GoesOn(q, r)
<1>1. CASE BeginRound(q)
  BY <1>1 DEF BeginRound, Moves, Begins, GoesOn
<1>2. CASE TryKey(q)
  <2> DEFINE c == Head(req[q].pending)
             a == [req[q] EXCEPT !.pending = Tail(req[q].pending), !.stage = "asking", !.cand = c]
             b == [req[q] EXCEPT !.pending = Tail(req[q].pending), !.stage = "asking", !.cand = c,
                                 !.held = TRUE]
             p == [req[q] EXCEPT !.pending = Tail(req[q].pending),
                                 !.deferred = Append(req[q].deferred, c)]
  <2>1. \/ req' = [req EXCEPT ![q] = a] \/ req' = [req EXCEPT ![q] = b]
        \/ req' = [req EXCEPT ![q] = p]
    BY <1>2 DEF TryKey
  <2>2. Asks(q, a) /\ Asks(q, b) /\ PutsOff(q, p)
    BY <1>2 DEF TryKey, Asks, PutsOff
  <2> HIDE DEF a, b, p
  <2> QED BY <2>1, <2>2 DEF Moves, GoesOn
<1>3. CASE EndRound(q)
  <2>1. CASE req[q].deferred = << >>
    <3>1. Ends(q, Rest("failed"))
      BY <1>3, <2>1 DEF Ends, Resting, EndRound, HasMore, At
    <3> QED BY <1>3, <2>1, <3>1 DEF EndRound, Moves, GoesOn
  <2>2. CASE req[q].deferred # << >> /\ Deadline(q) = 0
    <3>1. Ends(q, Rest("limited"))
      BY <1>3 DEF Ends, Resting, EndRound, At
    <3> QED BY <1>3, <2>2, <3>1 DEF EndRound, Moves, GoesOn
  <2>3. CASE req[q].deferred # << >> /\ Deadline(q) # 0
    BY <1>3, <2>3 DEF EndRound, Moves, Dozes, GoesOn
  <2> QED BY <2>1, <2>2, <2>3
<1>4. CASE FallAsleep(q)
  BY <1>4 DEF FallAsleep, Moves, Drops, GoesOn
<1>5. CASE Wake(q)
  BY <1>5 DEF Wake, Moves, Wakes, GoesOn
<1>6. CASE ClientGone(q)
  <2>1. Ends(q, Rest("gone"))
    BY <1>6 DEF Ends, Resting, ClientGone
  <2> QED BY <1>6, <2>1 DEF ClientGone, Moves, GoesOn
<1> QED BY <1>1, <1>2, <1>3, <1>4, <1>5, <1>6

LEMMA AnswerMoves ==
    ASSUME NEW q \in Requests, Answer(q) \/ ForwardEnds(q)
    PROVE  \E r : Moves(q, r) /\ GoesOn(q, r)
<1>1. CASE Succeeds(q)
  BY <1>1 DEF Succeeds, Moves, Forwards, GoesOn
<1>2. ASSUME NEW class, Fails(q, class) PROVE \E r : Moves(q, r) /\ GoesOn(q, r)
  <2>1. At(q, "asking")
    BY <1>2 DEF Fails
  <2>2. \/ Release(q, Rest("rejected"))
        \/ Release(q, Rest("failed")) /\ ~HasMore(q)
        \/ Release(q, NextCandidate(q))
    BY <1>2 DEF Fails
  <2> QED BY <2>1, <2>2, RestEnds, NextGoesOn DEF Resting, At
<1>3. CASE TransportFails(q)
  BY <1>3, NextGoesOn DEF TransportFails
<1>4. CASE FatalError(q)
  BY <1>4, RestEnds DEF FatalError, Resting, At
<1>5. CASE PrepareFails(q)
  <2>1. GoesOn(q, [NextCandidate(q) EXCEPT !.held = FALSE, !.age = 0])
    BY <1>5 DEF PrepareFails, GoesOn
  <2> QED BY <1>5, <2>1 DEF PrepareFails, Moves, TriesNext
<1>6. CASE ForwardEnds(q)
  BY <1>6, RestEnds DEF ForwardEnds, Resting, At
<1> QED BY <1>1, <1>2, <1>3, <1>4, <1>5, <1>6 DEF Answer

LEMMA WhatBecomesOfRequests ==
    ASSUME [Next]_vars
    PROVE  \/ req' = req
           \/ req' = [q \in Requests |-> Older(req[q])]
           \/ \E q \in Requests : \E r : Moves(q, r) /\ GoesOn(q, r)
<1>1. CASE UNCHANGED vars
  BY <1>1 DEF vars
<1>2. ASSUME NEW q \in Requests, Resolve(q) \/ Step(q) \/ Answer(q) \/ ForwardEnds(q) \/ ClientGone(q)
      PROVE  \E r : Moves(q, r) /\ GoesOn(q, r)
  BY <1>2, PlanMoves, CoolingMoves, LoopMoves, AnswerMoves DEF Step
<1>3. CASE \/ \E k \in Keys : ForgetReplaced(k) \/ (\E v \in Values : ReplaceKey(k, v))
           \/ \E r \in Relays : ResetProvider(r)
  BY <1>3 DEF ForgetReplaced, ReplaceKey, ResetProvider
<1>4. CASE Tick
  BY <1>4 DEF Tick
<1> QED BY <1>1, <1>2, <1>3, <1>4 DEF Next
-----------------------------------------------------------------------------
(* Types. *)

\* A request has a candidate while it asks or forwards.
CandidateFits(r) ==
    IF r.stage \in {"asking", "forwarding"} THEN r.cand \in Candidate ELSE r.cand = NoCandidate

Typed == TypeOK /\ \A q \in Requests : CandidateFits(req[q])

MaxWait == Max2(CoolingWait, QueueTimeout)

LEMMA WaitType ==
    /\ MaxWait \in Nat /\ CoolingWait \in 0 .. MaxWait /\ QueueTimeout \in 0 .. MaxWait
    /\ NoDeadline .. MaxWait \subseteq Int /\ NoDeadline \in NoDeadline .. MaxWait
    /\ 0 .. MaxWait \subseteq NoDeadline .. MaxWait /\ 0 \in 0 .. MaxWait
BY PipelineAssumption DEF MaxWait, Max2, NoDeadline

LEMMA RelayFacts ==
    ASSUME NEW k \in Keys
    PROVE  /\ RelayOf(k) \in Relays /\ k \in ToSet(KeysOf[RelayOf(k)])
           /\ \A r \in Relays : k \in ToSet(KeysOf[r]) => r = RelayOf(k)
<1>1. RelayOf(k) \in Relays /\ k \in ToSet(KeysOf[RelayOf(k)])
  BY PoolAssumption DEF RelayOf
<1>2. ASSUME NEW r \in Relays, k \in ToSet(KeysOf[r]) PROVE r = RelayOf(k)
  <2>1. ToSet(KeysOf[r]) \cap ToSet(KeysOf[RelayOf(k)]) # {}
    BY <1>1, <1>2
  <2> QED BY <1>1, <2>1, PoolAssumption
<1> QED BY <1>1, <1>2

LEMMA SeqIsFinite ==
    ASSUME NEW S, NEW s \in Seq(S) PROVE IsFiniteSet(ToSet(s)) /\ ToSet(s) \subseteq S
<1>1. Len(s) \in Nat /\ DOMAIN s = 1 .. Len(s) /\ s \in [1 .. Len(s) -> ToSet(s)]
  BY DEF ToSet
<1>2. s \in Surjection(1 .. Len(s), ToSet(s))
  BY <1>1 DEF Surjection, ToSet
<1>3. IsFiniteSet(1 .. Len(s))
  BY <1>1, FS_Interval
<1> QED BY <1>2, <1>3, FS_Surjection DEF ToSet

\* The keys of the route are keys, and finitely many.
LEMMA PlannedFacts ==
    /\ IsFiniteSet(Planned) /\ Planned \subseteq Keys
    /\ \A k \in Planned : RelayOf(k) \in Route
    /\ CoolingDown \subseteq Keys
<1> DEFINE all == UNION {ToSet(KeysOf[r]) : r \in Route}
<1>1. /\ Route \subseteq Relays
      /\ \A r \in Route : IsFiniteSet(ToSet(KeysOf[r])) /\ ToSet(KeysOf[r]) \subseteq Keys
  <2>1. Route \subseteq Relays
    BY PipelineAssumption, SeqIsFinite DEF Route
  <2>2. \A r \in Relays : KeysOf[r] \in Seq(Keys)
    BY PoolAssumption
  <2> QED BY <2>1, <2>2, SeqIsFinite
<1>2. IsFiniteSet({ToSet(KeysOf[r]) : r \in Route})
  <2> DEFINE f == [r \in Route |-> ToSet(KeysOf[r])]
             T == {ToSet(KeysOf[r]) : r \in Route}
  <2>1. f \in Surjection(Route, T)
    BY DEF Surjection
  <2>2. IsFiniteSet(Route)
    BY PipelineAssumption, SeqIsFinite DEF Route
  <2> QED BY <2>1, <2>2, FS_Surjection
<1>3. IsFiniteSet(all)
  BY <1>1, <1>2, FS_UNION
<1>4. Planned \subseteq all /\ CoolingDown \subseteq all
  BY DEF Planned, Available, BehindBreaker, CoolingDown, ReadyKeys, CoolingKeys
<1>5. \A k \in all : k \in Keys /\ RelayOf(k) \in Route
  BY <1>1, RelayFacts
<1> HIDE DEF all
<1> QED BY <1>3, <1>4, <1>5, FS_Subset

\* What a request sets out with.
LEMMA ArrangedFacts ==
    ASSUME NEW s, NEW turn, NEW ks \in Arranged(s, turn)
    PROVE  /\ ks \in Seq(Keys) /\ ToSet(ks) \subseteq Planned
           /\ Len(ks) = Cardinality(Planned)
           /\ \A i, j \in DOMAIN ks : ks[i] = ks[j] => i = j
<1>1. Cardinality(Planned) \in Nat /\ Planned \subseteq Keys
  BY PlannedFacts, FS_CardinalityType
<1>2. /\ ks \in [1 .. Cardinality(Planned) -> Planned]
      /\ \A i, j \in 1 .. Cardinality(Planned) : i # j => ks[i] # ks[j]
  BY DEF Arranged, SetToSeqs
<1>3. ks \in Seq(Planned) /\ Len(ks) = Cardinality(Planned) /\ DOMAIN ks = 1 .. Cardinality(Planned)
  BY <1>1, <1>2
<1>4. ks \in Seq(Keys)
  BY <1>1, <1>3
<1> QED BY <1>2, <1>3, <1>4 DEF ToSet

LEMMA CandidateType ==
    ASSUME TypeOK, NEW k \in Keys PROVE CandidateOf(k) \in Candidate /\ CandidateOf(k).key = k
BY DEF CandidateOf, Candidate, TypeOK

LEMMA CandidatesType ==
    ASSUME TypeOK, NEW ks \in Seq(Keys)
    PROVE  /\ Candidates(ks) \in Seq(Candidate) /\ Len(Candidates(ks)) = Len(ks)
           /\ \A i \in DOMAIN ks : Candidates(ks)[i].key = ks[i]
<1>1. DOMAIN ks = 1 .. Len(ks) /\ Len(ks) \in Nat /\ \A i \in DOMAIN ks : ks[i] \in Keys
  OBVIOUS
<1>2. \A i \in DOMAIN ks : CandidateOf(ks[i]) \in Candidate /\ CandidateOf(ks[i]).key = ks[i]
  BY <1>1, CandidateType
<1> QED BY <1>1, <1>2 DEF Candidates

LEMMA RestFacts ==
    ASSUME NEW stage \in Stage
    PROVE  /\ Rest(stage) \in Request /\ Rest(stage).stage = stage
           /\ Rest(stage).cand = NoCandidate
<1>1. 0 \in 0 .. Window
  BY WindowType
<1> QED BY <1>1, WaitType DEF Rest, Request, NoPin, MaxWait

LEMMA MarkedType ==
    ASSUME NEW r \in Request
    PROVE  [r EXCEPT !.notified = TRUE] \in Request
BY DEF Request

\* The least of some numbers.
LEMMA LeastOf ==
    ASSUME NEW T \in SUBSET Nat, T # {}
    PROVE  \E x \in T : \A y \in T : x <= y
<1>1. PICK x \in T : \A y \in T : ~(<<y, x>> \in OpToRel(<, Nat))
  BY NatLessThanWellFounded, WFMin
<1>2. \A y \in T : ~(y < x)
  BY <1>1 DEF OpToRel
<1>3. \A y \in T : x \in Nat /\ y \in Nat
  OBVIOUS
<1> QED BY <1>2, <1>3

\* The sleep of a request that could not get a slot ends with its deadline.
LEMMA SleepFacts ==
    ASSUME TypeOK, UsageSound, NEW q \in Requests, NEW left \in 0 .. MaxWait
    PROVE  LET ks == {c.key : c \in ToSet(req[q].deferred)}
               n  == SleepOf(q, left) IN
           /\ n \in 0 .. left
           /\ n > 0 => \A k \in ks : ~Free(k) /\ (RpmFull(k) => n <= RetryIn(k))
<1> DEFINE ks    == {c.key : c \in ToSet(req[q].deferred)}
           times == {left} \cup {0 : k \in {j \in ks : Free(j)}}
                           \cup {RetryIn(k) : k \in {j \in ks : RpmFull(j)}}
           n     == CHOOSE n \in times : \A m \in times : n <= m
<1>0. left \in Nat
  BY WaitType
<1>1. ks \subseteq Keys
  <2>1. req[q].deferred \in Seq(Candidate)
    BY DEF TypeOK, Request
  <2>2. \A c \in ToSet(req[q].deferred) : c \in Candidate
    BY <2>1, SeqIsFinite
  <2> QED BY <2>2 DEF Candidate
<1>2. \A k \in ks : RpmFull(k) => RetryIn(k) \in Nat
  <2> SUFFICES ASSUME NEW k \in Keys, RpmFull(k) PROVE RetryIn(k) \in Nat
    BY <1>1
  <2>1. /\ usage[k].sent \in Seq(Ages) /\ Len(usage[k].sent) \in Nat
        /\ Rpm[RelayOf(k)] \in Nat \ {0} /\ Len(usage[k].sent) >= Rpm[RelayOf(k)]
    BY LimitTypes DEF UsageSound, InOrder, RpmFull
  <2>2. Len(usage[k].sent) - Rpm[RelayOf(k)] + 1 \in 1 .. Len(usage[k].sent)
    BY <2>1
  <2>3. usage[k].sent[Len(usage[k].sent) - Rpm[RelayOf(k)] + 1] \in Ages
    BY <2>1, <2>2
  <2> QED BY <2>3, WindowType DEF RetryIn, Ages
<1>3. times \in SUBSET Nat /\ times # {}
  BY <1>0, <1>2
<1>4. n \in times /\ \A m \in times : n <= m
  <2> HIDE DEF times
  <2> QED BY <1>3, LeastOf
<1>5. n \in 0 .. left
  BY <1>0, <1>3, <1>4
<1>6. ASSUME n > 0, NEW k \in ks
      PROVE  ~Free(k) /\ (RpmFull(k) => n <= RetryIn(k))
  <2>1. Free(k) => 0 \in times
    OBVIOUS
  <2>2. RpmFull(k) => RetryIn(k) \in times
    OBVIOUS
  <2> HIDE DEF times, n, ks
  <2>3. Free(k) => n <= 0
    BY <1>4, <2>1
  <2>4. RpmFull(k) => n <= RetryIn(k)
    BY <1>4, <2>2
  <2> QED BY <1>0, <1>5, <1>6, <2>3, <2>4
<1>7. SleepOf(q, left) = n
  BY DEF SleepOf
<1> HIDE DEF n, ks
<1> QED BY <1>5, <1>6, <1>7 DEF ks
-----------------------------------------------------------------------------
LEMMA PlanFacts ==
    ASSUME Typed, NEW q \in Requests, NEW ks \in Seq(Keys), NEW through \in BOOLEAN
    PROVE  LET r == PlanOf(q, ks, through) IN
           /\ r \in Request /\ r.stage = "round" /\ r.cand = NoCandidate
           /\ r.pending = Candidates(ks) /\ r.deferred = << >> /\ r.tried = {}
           /\ r.plan = ToSet(ks) /\ (r.through <=> through)
           /\ r.pin = IF SessionOf[q] \in Sessions THEN sticky[SessionOf[q]] ELSE NoPin
<1> DEFINE p == Candidates(ks)
           k == ToSet(ks)
           pin == IF SessionOf[q] \in Sessions THEN sticky[SessionOf[q]] ELSE NoPin
           a == Rest("round")
           b == [a EXCEPT !.pending = p, !.plan = k, !.through = through, !.pin = pin]
<1>1. p \in Seq(Candidate) /\ k \subseteq Keys
  BY CandidatesType, SeqIsFinite DEF Typed
<1>2. pin \in [Relays -> Keys \cup {NoKey}]
  BY DEF Typed, TypeOK, NoPin
<1>3. a \in Request /\ a.stage = "round" /\ a.cand = NoCandidate
  BY RestFacts DEF Stage
<1>4. a.deferred = << >> /\ a.tried = {}
  BY DEF Rest
<1>5. PlanOf(q, ks, through) = b
  BY DEF PlanOf
<1> HIDE DEF p, k, pin, a
<1>6. /\ b \in Request /\ b.stage = "round" /\ b.cand = NoCandidate
      /\ b.pending = p /\ b.deferred = << >> /\ b.tried = {}
      /\ b.plan = k /\ (b.through <=> through) /\ b.pin = pin
  BY <1>1, <1>2, <1>3, <1>4 DEF Request
<1> HIDE DEF b
<1> QED BY <1>5, <1>6 DEF p, k, pin

LEMMA MovesTyped ==
    ASSUME Typed, UsageSound, NEW q \in Requests, NEW r, Moves(q, r)
    PROVE  r \in Request /\ CandidateFits(r)
<1>a. PICK a \in Request : a = req[q] /\ CandidateFits(a)
  BY DEF Typed, TypeOK
<1>b. /\ "asking" \in Stage /\ "trying" \in Stage /\ "dozing" \in Stage /\ "queued" \in Stage
      /\ "round" \in Stage /\ "cooling" \in Stage /\ "forwarding" \in Stage
      /\ Resting \subseteq Stage \ {"asking", "forwarding"}
  BY DEF Stage, Resting
<1>1. CASE Plans(q, r)
  <2>1. PICK turn \in [Relays -> Turns] : \E ks \in Arranged(SessionOf[q], turn) :
           ks # << >> /\ r = PlanOf(q, ks, Available = {})
    BY <1>1 DEF Plans
  <2>2. PICK ks \in Arranged(SessionOf[q], turn) : r = PlanOf(q, ks, Available = {})
    BY <2>1
  <2>3. ks \in Seq(Keys)
    BY ArrangedFacts
  <2> QED BY <2>2, <2>3, PlanFacts DEF CandidateFits
<1>2. CASE Waits(q, r)
  <2>1. Waiting \subseteq Candidate
    BY PlannedFacts, CandidateType DEF Waiting, Typed
  <2>2. CoolingWait \in NoDeadline .. Max2(CoolingWait, QueueTimeout)
    BY WaitType DEF MaxWait
  <2>3. PICK x \in Request : x = Rest("cooling") /\ x.cand = NoCandidate
    BY <1>b, RestFacts
  <2>4. r = [x EXCEPT !.waiting = Waiting, !.left = CoolingWait]
    BY <1>2, <2>3 DEF Waits
  <2>5. r \in Request /\ r.cand = NoCandidate /\ r.stage = "cooling"
    <3>1. x.stage = "cooling"
      BY <2>3 DEF Rest
    <3> QED BY <2>1, <2>2, <2>3, <2>4, <3>1 DEF Request
  <2> QED BY <2>5 DEF CandidateFits
<1>3. CASE Ends(q, r)
  BY <1>3, <1>b, RestFacts DEF Ends, CandidateFits
<1>4. CASE Recovers(q, r)
  <2>1. PICK c \in req[q].waiting : r = [Rest("round") EXCEPT !.pending = <<c>>, !.plan = {c.key}]
    BY <1>4 DEF Recovers
  <2>2. c \in Candidate /\ c.key \in Keys /\ <<c>> \in Seq(Candidate)
    BY <1>a DEF Request, Candidate
  <2>3. PICK x \in Request : x = Rest("round") /\ x.cand = NoCandidate /\ x.stage = "round"
    BY <1>b, RestFacts
  <2>4. r = [x EXCEPT !.pending = <<c>>, !.plan = {c.key}]
    BY <2>1, <2>3
  <2>5. r \in Request /\ r.cand = NoCandidate /\ r.stage = "round"
    BY <2>2, <2>3, <2>4 DEF Request
  <2> QED BY <2>5 DEF CandidateFits
<1>5. CASE SleepsOn(q, r)
  <2>1. PICK n \in 1 .. a.left : r = [a EXCEPT !.sleep = n] /\ a.stage = "cooling"
    BY <1>5, <1>a DEF SleepsOn, At
  <2>2. n \in 0 .. Max2(CoolingWait, QueueTimeout)
    <3>1. a.left \in NoDeadline .. MaxWait
      BY DEF Request, MaxWait
    <3> QED BY <3>1, WaitType DEF NoDeadline, MaxWait
  <2>3. r \in Request /\ r.cand = a.cand /\ r.stage = "cooling"
    BY <2>1, <2>2 DEF Request
  <2> QED BY <1>a, <2>1, <2>3 DEF CandidateFits
<1>6. CASE Begins(q, r) \/ Drops(q, r)
  <2>1. PICK stage \in {"trying", "queued"} :
           r = [a EXCEPT !.stage = stage] /\ a.stage \in {"round", "dozing"}
    BY <1>6, <1>a DEF Begins, Drops, At
  <2>2. r \in Request /\ r.cand = a.cand /\ r.stage \in {"trying", "queued"}
    <3>1. stage \in Stage
      BY <1>b
    <3> QED BY <2>1, <3>1 DEF Request
  <2> QED BY <1>a, <2>1, <2>2 DEF CandidateFits
<1>c. a.pending \in Seq(Candidate) /\ a.deferred \in Seq(Candidate)
  BY DEF Request
<1>7. CASE Asks(q, r)
  <2>1. PICK c \in Candidate, rest \in Seq(Candidate) :
           c = Head(a.pending) /\ rest = Tail(a.pending)
    <3>1. a.pending # << >>
      BY <1>7, <1>a DEF Asks
    <3>2. Head(a.pending) \in Candidate /\ Tail(a.pending) \in Seq(Candidate)
      BY <1>c, <3>1
    <3> QED BY <3>2
  <2>2. \/ r = [a EXCEPT !.pending = rest, !.stage = "asking", !.cand = c]
        \/ r = [a EXCEPT !.pending = rest, !.stage = "asking", !.cand = c, !.held = TRUE]
    BY <1>7, <1>a, <2>1 DEF Asks
  <2>3. r \in Request /\ r.cand = c /\ r.stage = "asking"
    <3>1. CASE r = [a EXCEPT !.pending = rest, !.stage = "asking", !.cand = c]
      BY <1>b, <3>1 DEF Request
    <3>2. CASE r = [a EXCEPT !.pending = rest, !.stage = "asking", !.cand = c, !.held = TRUE]
      BY <1>b, <3>2 DEF Request
    <3> QED BY <2>2, <3>1, <3>2
  <2> QED BY <2>3 DEF CandidateFits
<1>8. CASE PutsOff(q, r)
  <2>1. PICK c \in Candidate, rest \in Seq(Candidate) :
           c = Head(a.pending) /\ rest = Tail(a.pending)
    <3>1. a.pending # << >>
      BY <1>8, <1>a DEF PutsOff
    <3>2. Head(a.pending) \in Candidate /\ Tail(a.pending) \in Seq(Candidate)
      BY <1>c, <3>1
    <3> QED BY <3>2
  <2>2. PICK put \in Seq(Candidate) : put = Append(a.deferred, c)
    <3>1. Append(a.deferred, c) \in Seq(Candidate)
      BY <1>c
    <3> QED BY <3>1
  <2>3. r = [a EXCEPT !.pending = rest, !.deferred = put]
    BY <1>8, <1>a, <2>1, <2>2 DEF PutsOff
  <2>4. r \in Request /\ r.cand = a.cand /\ r.stage = a.stage
    BY <2>3 DEF Request
  <2> QED BY <1>a, <2>4 DEF CandidateFits
<1>9. CASE TriesNext(q, r)
  <2>1. a.stage = "asking" /\ a.cand \in Candidate /\ a.cand.key \in Keys
    BY <1>9, <1>a DEF TriesNext, At, CandidateFits, Candidate
  <2>2. PICK tried \in SUBSET Keys : tried = a.tried \cup {a.cand.key}
    BY <2>1 DEF Request
  <2>3. r = [a EXCEPT !.stage = "trying", !.cand = NoCandidate, !.tried = tried, !.held = FALSE,
                      !.age = 0]
    BY <1>9, <1>a, <2>2 DEF TriesNext, NextCandidate
  <2>4. r \in Request /\ r.cand = NoCandidate /\ r.stage = "trying"
    <3>1. 0 \in 0 .. Window
      BY WindowType
    <3> QED BY <1>b, <2>3, <3>1 DEF Request
  <2> QED BY <2>4 DEF CandidateFits
<1>10. CASE Forwards(q, r)
  <2>1. a.stage = "asking" /\ a.cand \in Candidate
    BY <1>10, <1>a DEF Forwards, At, CandidateFits
  <2>2. PICK x \in Request : x = Rest("forwarding") /\ x.stage = "forwarding"
    BY <1>b, RestFacts
  <2>3. r = [x EXCEPT !.cand = a.cand, !.held = a.held, !.age = a.age]
    BY <1>10, <1>a, <2>2 DEF Forwards
  <2>4. r \in Request /\ r.cand = a.cand /\ r.stage = "forwarding"
    BY <2>2, <2>3 DEF Request
  <2> QED BY <2>1, <2>4 DEF CandidateFits
<1>11. CASE Dozes(q, r)
  <2>1. PICK left \in 0 .. MaxWait : left = Deadline(q)
    <3>1. a.left \in NoDeadline .. MaxWait
      BY DEF Request, MaxWait
    <3> QED BY <1>a, <3>1, WaitType DEF Deadline, NoDeadline
  <2>2. PICK n \in 0 .. MaxWait : n = SleepOf(q, left)
    <3>1. SleepOf(q, left) \in 0 .. left
      BY SleepFacts DEF Typed
    <3> QED BY <3>1, WaitType
  <2>3. r = [a EXCEPT !.stage = "dozing", !.left = left, !.sleep = n] /\ a.stage = "trying"
    BY <1>11, <1>a, <2>1, <2>2 DEF Dozes, At
  <2>4. left \in NoDeadline .. Max2(CoolingWait, QueueTimeout) /\ n \in 0 .. Max2(CoolingWait, QueueTimeout)
    BY WaitType DEF MaxWait
  <2>5. r \in Request /\ r.cand = a.cand /\ r.stage = "dozing"
    BY <1>b, <2>3, <2>4 DEF Request
  <2> QED BY <1>a, <2>3, <2>5 DEF CandidateFits
<1>12. CASE Wakes(q, r)
  <2>1. r = [a EXCEPT !.stage = "round", !.pending = a.deferred, !.deferred = << >>,
                      !.sleep = 0, !.notified = FALSE] /\ a.stage = "queued"
    BY <1>12, <1>a DEF Wakes, At
  <2>2. 0 \in 0 .. Max2(CoolingWait, QueueTimeout) /\ << >> \in Seq(Candidate)
    BY WaitType DEF MaxWait
  <2>3. r \in Request /\ r.cand = a.cand /\ r.stage = "round"
    BY <1>b, <2>1, <2>2 DEF Request
  <2> QED BY <1>a, <2>1, <2>3 DEF CandidateFits
<1> QED BY <1>1, <1>2, <1>3, <1>4, <1>5, <1>6, <1>7, <1>8, <1>9, <1>10, <1>11, <1>12 DEF Moves
-----------------------------------------------------------------------------
(* What a step does to the health of the pool and to its sessions. *)

Pooled ==
    \/ UNCHANGED <<value, health, provider, sticky>>
    \/ \E q \in Requests :
          /\ At(q, "asking")
          /\ \/ RecordSuccess(Key(q), IF StandsIn(q) THEN NoSession ELSE SessionOf[q])
             \/ \E class : /\ class.after \in {NoHint} \cup (0 .. MaxHint)
                           /\ RecordFailure(Key(q), req[q].cand.text, class)
    \/ \E k \in Keys, v \in Values : ReplaceText(k, v)
    \/ \E k \in Keys : ForgetKey(k)
    \/ \E r \in Relays : Reset(r)
    \/ TimePasses

LEMMA ClassOfReply ==
    ASSUME NEW reply PROVE ClassifyFailure(reply).after = reply.after
<1> DEFINE Class(kind) == [kind |-> kind, after |-> reply.after]
           quota   == Class("quotaExhausted")
           limit   == Class("rateLimited")
           auth    == Class("authInvalid")
           client  == Class("clientError")
           server  == Class("serverError")
           other   == Class("failover")
           Known(c) == c \in {quota, limit, auth, client, server, other}
<1>1. ClassifyFailure(reply) =
        CASE reply.status = 402 -> quota
          [] reply.status = 429 /\ "quota" \in reply.hints -> quota
          [] reply.status = 429 /\ "quota" \notin reply.hints -> limit
          [] reply.status = 401 -> auth
          [] reply.status = 403 /\ "invalidKey" \in reply.hints -> auth
          [] reply.status = 403 /\ reply.hints = {"quota"} -> quota
          [] reply.status \in {400, 413, 422} -> client
          [] reply.status \in {408, 500, 502, 503} -> server
          [] OTHER -> other
  BY DEF ClassifyFailure
<1>2. \A c : Known(c) => c.after = reply.after
  OBVIOUS
<1>3. Known(ClassifyFailure(reply))
  <2> HIDE DEF quota, limit, auth, client, server, other
  <2> QED BY <1>1
<1> QED BY <1>2, <1>3

LEMMA WhatHappensToThePool ==
    ASSUME [Next]_vars PROVE Pooled
<1>1. CASE UNCHANGED vars
  BY <1>1 DEF vars, Pooled
<1>2. ASSUME NEW q \in Requests, Resolve(q) \/ Step(q) \/ ForwardEnds(q) \/ ClientGone(q)
      PROVE  Pooled
  BY <1>2 DEF Resolve, Step, WaitForCoolingKey, BeginRound, TryKey, EndRound, FallAsleep, Wake,
              ForwardEnds, ClientGone, Pooled
<1>3. ASSUME NEW q \in Requests, Answer(q) PROVE Pooled
  <2>1. CASE Succeeds(q)
    BY <2>1 DEF Succeeds, Pooled
  <2>2. ASSUME NEW reply \in Replies, Fails(q, ClassifyFailure(reply)) PROVE Pooled
    <3>1. ClassifyFailure(reply).after \in {NoHint} \cup (0 .. MaxHint)
      BY ClassOfReply, PipelineAssumption DEF Reply
    <3> QED BY <2>2, <3>1 DEF Fails, Pooled
  <2>3. CASE TransportFails(q)
    <3>1. [kind |-> "serverError", after |-> NoHint].after \in {NoHint} \cup (0 .. MaxHint)
      OBVIOUS
    <3> QED BY <2>3, <3>1 DEF TransportFails, Pooled
  <2>4. CASE FatalError(q) \/ PrepareFails(q)
    BY <2>4 DEF FatalError, PrepareFails, Pooled
  <2> QED BY <1>3, <2>1, <2>2, <2>3, <2>4 DEF Answer
<1>4. ASSUME NEW k \in Keys, ForgetReplaced(k) \/ (\E v \in Values : ReplaceKey(k, v))
      PROVE  Pooled
  BY <1>4 DEF ForgetReplaced, ReplaceKey, Pooled
<1>5. ASSUME NEW r \in Relays, ResetProvider(r) PROVE Pooled
  BY <1>5 DEF ResetProvider, Pooled
<1>6. CASE Tick
  BY <1>6 DEF Tick, Pooled
<1> QED BY <1>1, <1>2, <1>3, <1>4, <1>5, <1>6 DEF Next

LEMMA CooldownType ==
    /\ MaxCooldown \in Nat /\ MaxLimited \in Nat \ {0}
    /\ {0, QuotaCooldown, AuthCooldown} \subseteq 0 .. MaxCooldown
    /\ 0 .. MaxHint \subseteq 0 .. MaxCooldown /\ 0 .. MaxBackoff \subseteq 0 .. MaxCooldown
    /\ BreakerThreshold \in Nat \ {0} /\ BreakerOpen \in Nat \ {0}
    /\ Healthy \in KeyHealth /\ Closed \in ProviderHealth
<1>1. /\ MaxCooldown \in Nat /\ MaxLimited \in Nat \ {0}
      /\ {0, QuotaCooldown, AuthCooldown} \subseteq 0 .. MaxCooldown
      /\ 0 .. MaxHint \subseteq 0 .. MaxCooldown /\ 0 .. MaxBackoff \subseteq 0 .. MaxCooldown
      /\ BreakerThreshold \in Nat \ {0} /\ BreakerOpen \in Nat \ {0}
  BY PoolAssumption DEF MaxCooldown, MaxLimited, Max2
<1> QED BY <1>1 DEF Healthy, KeyHealth, Closed, ProviderHealth

\* A number of subsets is a number.
LEMMA PowerType == \A n \in Nat : 2 ^ n \in Nat
<1> SUFFICES ASSUME NEW n \in Nat PROVE 2 ^ n \in Nat
  OBVIOUS
<1>1. IsFiniteSet(1 .. n) /\ Cardinality(1 .. n) = n
  BY FS_Interval
<1>2. IsFiniteSet(SUBSET (1 .. n)) /\ Cardinality(SUBSET (1 .. n)) = 2 ^ n
  BY <1>1, FS_SUBSET
<1> QED BY <1>2, FS_CardinalityType

LEMMA BackoffType == \A n \in Nat \ {0} : Backoff(n) \in 0 .. MaxBackoff
<1> SUFFICES ASSUME NEW n \in Nat \ {0} PROVE Backoff(n) \in 0 .. MaxBackoff
  OBVIOUS
<1>1. PICK m \in Nat : m = 2 ^ Min2(n - 1, Doublings)
  <2>1. Min2(n - 1, Doublings) \in Nat
    BY PoolAssumption DEF Min2
  <2> QED BY <2>1, PowerType
<1>2. BaseCooldown \in Nat /\ MaxBackoff \in Nat
  BY PoolAssumption
<1>3. BaseCooldown * m \in Nat
  BY <1>2
<1>4. Backoff(n) = Min2(BaseCooldown * m, MaxBackoff)
  BY <1>1 DEF Backoff
<1> QED BY <1>2, <1>3, <1>4 DEF Min2

LEMMA KeyAfterFailureType ==
    ASSUME TypeOK, NEW k \in Keys, NEW v \in Values, NEW class,
           class.after \in {NoHint} \cup (0 .. MaxHint)
    PROVE  KeyAfterFailure(k, v, class) \in KeyHealth
<1>1. PICK h \in KeyHealth : h = health[k]
  BY DEF TypeOK
<1>2. class.after # NoHint => class.after \in 0 .. MaxCooldown
  BY CooldownType
<1>3. PICK n \in 0 .. MaxCooldown : n = IF class.after = NoHint THEN QuotaCooldown ELSE class.after
  BY <1>2, CooldownType
<1>4. PICK limited \in 1 .. MaxLimited : limited = Min2(h.limited + 1, MaxLimited)
  <2>1. h.limited \in 0 .. MaxLimited
    BY DEF KeyHealth
  <2> QED BY <2>1, CooldownType DEF Min2
<1>5. PICK m \in 0 .. MaxCooldown : m = IF class.after = NoHint THEN Backoff(limited) ELSE class.after
  <2>1. Backoff(limited) \in 0 .. MaxBackoff
    BY CooldownType, BackoffType
  <2> QED BY <1>2, <2>1, CooldownType
<1>6. RateLimited(h, class.after) = [h EXCEPT !.limited = limited, !.cooldown = m]
  BY <1>4, <1>5 DEF RateLimited
<1>7. /\ [h EXCEPT !.limited = limited, !.cooldown = m] \in KeyHealth
      /\ [h EXCEPT !.cooldown = n] \in KeyHealth
      /\ [h EXCEPT !.cooldown = AuthCooldown] \in KeyHealth
      /\ [h EXCEPT !.disabled = v] \in KeyHealth
  <2>1. limited \in 0 .. MaxLimited /\ AuthCooldown \in 0 .. MaxCooldown
    BY CooldownType
  <2> QED BY <2>1 DEF KeyHealth
<1> DEFINE a == RateLimited(h, class.after)
           b == [h EXCEPT !.cooldown = IF class.after = NoHint THEN QuotaCooldown ELSE class.after]
           c == [h EXCEPT !.cooldown = AuthCooldown]
           d == [h EXCEPT !.disabled = v]
<1>8. a \in KeyHealth /\ b \in KeyHealth /\ c \in KeyHealth /\ d \in KeyHealth
  BY <1>3, <1>6, <1>7
<1>9. KeyAfterFailure(k, v, class) =
        CASE class.kind = "rateLimited" -> a
          [] class.kind = "quotaExhausted" -> b
          [] class.kind = "authInvalid" /\ k \in OfficialKeys -> c
          [] class.kind = "authInvalid" /\ k \notin OfficialKeys -> d
          [] OTHER -> h
  BY <1>1 DEF KeyAfterFailure
<1> HIDE DEF a, b, c, d
<1> QED BY <1>8, <1>9

LEMMA ProviderAfterFailureType ==
    ASSUME TypeOK, NEW r \in Relays, NEW class
    PROVE  ProviderAfterFailure(r, class) \in ProviderHealth
<1>1. PICK p \in ProviderHealth : p = provider[r]
  BY DEF TypeOK
<1>2. p.errors \in 0 .. BreakerThreshold - 1 /\ BreakerThreshold \in Nat \ {0}
  BY CooldownType DEF ProviderHealth
<1> DEFINE errors == p.errors + 1
           a == [errors |-> 0, open |-> BreakerOpen]
           b == [p EXCEPT !.errors = errors]
<1>3. a \in ProviderHealth
  BY CooldownType DEF ProviderHealth
<1>4. ~(errors >= BreakerThreshold) => b \in ProviderHealth
  <2>1. ~(errors >= BreakerThreshold) => errors \in 0 .. BreakerThreshold - 1
    BY <1>2
  <2> HIDE DEF errors
  <2> QED BY <2>1 DEF ProviderHealth
<1>5. ProviderAfterFailure(r, class) =
        CASE class.kind # "serverError" -> p
          [] class.kind = "serverError" /\ errors >= BreakerThreshold -> a
          [] OTHER -> b
  BY <1>1 DEF ProviderAfterFailure
<1> HIDE DEF a, b, errors
<1> QED BY <1>3, <1>4, <1>5

PoolTyped ==
    /\ value \in [Keys -> Values]
    /\ health \in [Keys -> KeyHealth]
    /\ provider \in [Relays -> ProviderHealth]
    /\ sticky \in [Sessions -> [Relays -> Keys \cup {NoKey}]]

LEMMA PoolKeepsType ==
    ASSUME Typed, [Next]_vars PROVE PoolTyped'
<1>0. PoolTyped
  BY DEF Typed, TypeOK, PoolTyped
<1>1. CASE UNCHANGED <<value, health, provider, sticky>>
  BY <1>0, <1>1 DEF PoolTyped
<1>2. ASSUME NEW q \in Requests, At(q, "asking"),
             RecordSuccess(Key(q), IF StandsIn(q) THEN NoSession ELSE SessionOf[q])
      PROVE  PoolTyped'
  <2>1. PICK k \in Keys : k = Key(q)
    BY <1>2 DEF Typed, CandidateFits, At, Candidate, Key
  <2>2. PICK s : s = IF StandsIn(q) THEN NoSession ELSE SessionOf[q]
    OBVIOUS
  <2>3. RelayOf(k) \in Relays
    BY RelayFacts
  <2>4. /\ health' = [health EXCEPT ![k] = Healthy]
        /\ provider' = [provider EXCEPT ![RelayOf(k)] = Closed]
        /\ value' = value
    BY <1>2, <2>1 DEF RecordSuccess
  <2>5. PICK kept \in [Sessions -> [Relays -> Keys \cup {NoKey}]] :
           sticky' = IF s \in Sessions THEN [kept EXCEPT ![s][RelayOf(k)] = k] ELSE sticky
    <3> DEFINE none == [t \in Sessions |-> [r \in Relays |-> NoKey]]
    <3>1. none \in [Sessions -> [Relays -> Keys \cup {NoKey}]]
      OBVIOUS
    <3>2. \/ sticky' = IF s \in Sessions THEN [none EXCEPT ![s][RelayOf(k)] = k] ELSE sticky
          \/ sticky' = IF s \in Sessions THEN [sticky EXCEPT ![s][RelayOf(k)] = k] ELSE sticky
      BY <1>2, <2>1, <2>2 DEF RecordSuccess
    <3> HIDE DEF none
    <3> QED BY <1>0, <3>1, <3>2 DEF PoolTyped
  <2>6. sticky' \in [Sessions -> [Relays -> Keys \cup {NoKey}]]
    BY <1>0, <2>3, <2>5 DEF PoolTyped
  <2>7. /\ health' \in [Keys -> KeyHealth] /\ provider' \in [Relays -> ProviderHealth]
        /\ value' \in [Keys -> Values]
    BY <1>0, <2>3, <2>4, CooldownType DEF PoolTyped
  <2> QED BY <2>6, <2>7 DEF PoolTyped
<1>3. ASSUME NEW q \in Requests, At(q, "asking"), NEW class,
             class.after \in {NoHint} \cup (0 .. MaxHint),
             RecordFailure(Key(q), req[q].cand.text, class)
      PROVE  PoolTyped'
  <2>1. PICK k \in Keys : k = Key(q)
    BY <1>3 DEF Typed, CandidateFits, At, Candidate, Key
  <2>2. PICK v \in Values : v = req[q].cand.text
    BY <1>3 DEF Typed, CandidateFits, At, Candidate
  <2>3. RelayOf(k) \in Relays
    BY RelayFacts
  <2>4. /\ KeyAfterFailure(k, v, class) \in KeyHealth
        /\ ProviderAfterFailure(RelayOf(k), class) \in ProviderHealth
    BY <1>3, <2>3, KeyAfterFailureType, ProviderAfterFailureType DEF Typed
  <2>5. /\ health' = [health EXCEPT ![k] = KeyAfterFailure(k, v, class)]
        /\ provider' = [provider EXCEPT ![RelayOf(k)] = ProviderAfterFailure(RelayOf(k), class)]
        /\ UNCHANGED <<value, sticky>>
    BY <1>3, <2>1, <2>2 DEF RecordFailure
  <2> QED BY <1>0, <2>3, <2>4, <2>5 DEF PoolTyped
<1>4. ASSUME NEW k \in Keys, NEW v \in Values, ReplaceText(k, v) PROVE PoolTyped'
  BY <1>0, <1>4 DEF PoolTyped, ReplaceText
<1>5. ASSUME NEW k \in Keys, ForgetKey(k) PROVE PoolTyped'
  BY <1>0, <1>5, CooldownType DEF PoolTyped, ForgetKey
<1>6. ASSUME NEW r \in Relays, Reset(r) PROVE PoolTyped'
  <2>1. health' \in [Keys -> KeyHealth] /\ provider' \in [Relays -> ProviderHealth] /\ value' = value
    BY <1>0, <1>6, CooldownType DEF PoolTyped, Reset
  <2>2. sticky' \in [Sessions -> [Relays -> Keys \cup {NoKey}]]
    <3>1. \A s \in Sessions : [sticky[s] EXCEPT ![r] = NoKey] \in [Relays -> Keys \cup {NoKey}]
      BY <1>0 DEF PoolTyped
    <3> QED BY <1>6, <3>1 DEF Reset
  <2> QED BY <1>0, <2>1, <2>2 DEF PoolTyped
<1>7. CASE TimePasses
  <2>1. \A k \in Keys : [health[k] EXCEPT !.cooldown = Max2(@ - 1, 0)] \in KeyHealth
    <3> SUFFICES ASSUME NEW k \in Keys
                 PROVE  [health[k] EXCEPT !.cooldown = Max2(@ - 1, 0)] \in KeyHealth
      OBVIOUS
    <3>1. PICK h \in KeyHealth : h = health[k]
      BY <1>0 DEF PoolTyped
    <3>2. PICK n \in 0 .. MaxCooldown : n = Max2(h.cooldown - 1, 0)
      <4>1. h.cooldown \in 0 .. MaxCooldown
        BY DEF KeyHealth
      <4> QED BY <4>1, CooldownType DEF Max2
    <3>3. [h EXCEPT !.cooldown = n] \in KeyHealth
      BY DEF KeyHealth
    <3> QED BY <3>1, <3>2, <3>3
  <2>2. \A r \in Relays : [provider[r] EXCEPT !.open = Max2(@ - 1, 0)] \in ProviderHealth
    <3> SUFFICES ASSUME NEW r \in Relays
                 PROVE  [provider[r] EXCEPT !.open = Max2(@ - 1, 0)] \in ProviderHealth
      OBVIOUS
    <3>1. PICK p \in ProviderHealth : p = provider[r]
      BY <1>0 DEF PoolTyped
    <3>2. PICK n \in 0 .. BreakerOpen : n = Max2(p.open - 1, 0)
      <4>1. p.open \in 0 .. BreakerOpen
        BY DEF ProviderHealth
      <4> QED BY <4>1, CooldownType DEF Max2
    <3>3. [p EXCEPT !.open = n] \in ProviderHealth
      BY DEF ProviderHealth
    <3> QED BY <3>1, <3>2, <3>3
  <2> QED BY <1>0, <1>7, <2>1, <2>2 DEF PoolTyped, TimePasses
<1> QED BY <1>1, <1>2, <1>3, <1>4, <1>5, <1>6, <1>7, WhatHappensToThePool DEF Pooled
-----------------------------------------------------------------------------
(* One request in one step. *)

\* Request q becomes r, or is notified besides.
Becomes(q, r) ==
    \/ req'[q] = r
    \/ r.stage \in Listening /\ req'[q] = [r EXCEPT !.notified = TRUE]

LEMMA OneStep ==
    ASSUME TypeOK, [Next]_vars
    PROVE  /\ \E f : req' = [q \in Requests |-> f[q]]
           /\ \A q \in Requests :
                 \/ Becomes(q, req[q]) \/ req'[q] = Older(req[q])
                 \/ \E r : Moves(q, r) /\ Becomes(q, r)
<1>0. req = [q \in Requests |-> req[q]]
  BY DEF TypeOK
<1>1. CASE req' = req
  BY <1>0, <1>1 DEF Becomes
<1>2. CASE req' = [q \in Requests |-> Older(req[q])]
  BY <1>2
<1>3. ASSUME NEW q \in Requests, NEW r, Moves(q, r), GoesOn(q, r)
      PROVE  /\ \E f : req' = [p \in Requests |-> f[p]]
             /\ \A p \in Requests : \/ Becomes(p, req[p])
                                    \/ \E s : Moves(p, s) /\ Becomes(p, s)
  <2> DEFINE next == [req EXCEPT ![q] = r]
  <2>1. /\ next = [p \in Requests |-> next[p]]
        /\ next[q] = r /\ \A p \in Requests \ {q} : next[p] = req[p]
    BY <1>0
  <2> HIDE DEF next
  <2>2. req' = next \/ req' = Notified(next)
    BY <1>3 DEF GoesOn, next
  <2>3. \E f : req' = [p \in Requests |-> f[p]]
    <3>1. Notified(next) = [p \in Requests |-> Notified(next)[p]]
      BY DEF Notified
    <3> QED BY <2>1, <2>2, <3>1
  <2>4. \A p \in Requests :
           \/ req'[p] = next[p]
           \/ next[p].stage \in Listening /\ req'[p] = [next[p] EXCEPT !.notified = TRUE]
    BY <2>2 DEF Notified
  <2>5. Becomes(q, r)
    BY <2>1, <2>4 DEF Becomes
  <2>6. \A p \in Requests \ {q} : Becomes(p, req[p])
    BY <2>1, <2>4 DEF Becomes
  <2> QED BY <1>3, <2>3, <2>5, <2>6
<1> QED BY <1>1, <1>2, <1>3, WhatBecomesOfRequests

LEMMA OlderType ==
    ASSUME NEW r \in Request
    PROVE  Older(r) \in Request
<1>1. PICK age \in 0 .. Window : age = IF r.held THEN Min2(r.age + 1, Window) ELSE r.age
  <2>1. r.age \in 0 .. Window
    BY DEF Request
  <2> QED BY <2>1, WindowType DEF Min2
<1>2. PICK left \in NoDeadline .. MaxWait : left = IF r.left > 0 THEN r.left - 1 ELSE r.left
  <2>1. r.left \in NoDeadline .. MaxWait
    BY DEF Request, MaxWait
  <2> QED BY <2>1, WaitType DEF NoDeadline
<1>3. PICK sleep \in 0 .. MaxWait : sleep = Max2(r.sleep - 1, 0)
  <2>1. r.sleep \in 0 .. MaxWait
    BY DEF Request, MaxWait
  <2> QED BY <2>1, WaitType DEF Max2
<1>4. Older(r) = [r EXCEPT !.age = age, !.left = left, !.sleep = sleep]
  BY <1>1, <1>2, <1>3 DEF Older
<1>5. [r EXCEPT !.age = age, !.left = left, !.sleep = sleep] \in Request
  BY DEF Request, MaxWait
<1> QED BY <1>4, <1>5

LEMMA RequestsKeepType ==
    ASSUME Typed, UsageSound, [Next]_vars
    PROVE  /\ req' \in [Requests -> Request]
           /\ \A q \in Requests : CandidateFits(req'[q])
<1>0. TypeOK
  BY DEF Typed
<1>1. \A q \in Requests : req[q] \in Request /\ CandidateFits(req[q])
  BY DEF Typed, TypeOK
<1>2. \A r \in Request : /\ [r EXCEPT !.notified = TRUE] \in Request
                         /\ [r EXCEPT !.notified = TRUE].stage = r.stage
                         /\ [r EXCEPT !.notified = TRUE].cand = r.cand
                         /\ Older(r) \in Request
                         /\ Older(r).stage = r.stage /\ Older(r).cand = r.cand
  <2> SUFFICES ASSUME NEW r \in Request
               PROVE  /\ [r EXCEPT !.notified = TRUE].stage = r.stage
                      /\ [r EXCEPT !.notified = TRUE].cand = r.cand
                      /\ Older(r).stage = r.stage /\ Older(r).cand = r.cand
    BY MarkedType, OlderType
  <2>1. /\ [r EXCEPT !.notified = TRUE].stage = r.stage
        /\ [r EXCEPT !.notified = TRUE].cand = r.cand
    BY DEF Request
  <2>2. Older(r).stage = r.stage /\ Older(r).cand = r.cand
    BY DEF Older, Request
  <2> QED BY <2>1, <2>2
<1>3. \A q \in Requests : req'[q] \in Request /\ CandidateFits(req'[q])
  <2> SUFFICES ASSUME NEW q \in Requests PROVE req'[q] \in Request /\ CandidateFits(req'[q])
    OBVIOUS
  <2>1. CASE Becomes(q, req[q]) \/ req'[q] = Older(req[q])
    <3>1. PICK a \in Request : a = req[q] /\ CandidateFits(a)
      BY <1>1
    <3>2. PICK b \in Request : b = req'[q] /\ b.stage = a.stage /\ b.cand = a.cand
      BY <1>2, <2>1, <3>1 DEF Becomes
    <3> QED BY <3>1, <3>2 DEF CandidateFits
  <2>2. ASSUME NEW r, Moves(q, r), Becomes(q, r) PROVE req'[q] \in Request /\ CandidateFits(req'[q])
    <3>1. r \in Request /\ CandidateFits(r)
      BY <2>2, MovesTyped
    <3> QED BY <1>2, <2>2, <3>1 DEF Becomes, CandidateFits
  <2> QED BY <1>0, <2>1, <2>2, OneStep
<1>4. PICK f : req' = [q \in Requests |-> f[q]]
  BY <1>0, OneStep
<1> QED BY <1>3, <1>4

LEMMA EditsKeepType ==
    ASSUME Typed, [Next]_vars PROVE forgetting' \subseteq Keys /\ edits' \in 0 .. MaxEdits
<1>0. forgetting \subseteq Keys /\ edits \in 0 .. MaxEdits /\ MaxEdits \in Nat
  BY PipelineAssumption DEF Typed, TypeOK
<1>1. CASE UNCHANGED <<forgetting, edits>>
  BY <1>0, <1>1
<1>2. CASE \E k \in Keys : ForgetReplaced(k) \/ (\E v \in Values : ReplaceKey(k, v))
  BY <1>0, <1>2 DEF ForgetReplaced, ReplaceKey, Edit
<1>3. CASE \E r \in Relays : ResetProvider(r)
  BY <1>0, <1>3 DEF ResetProvider, Edit
<1>4. ASSUME NEW q \in Requests, Resolve(q) \/ Step(q) \/ Answer(q) \/ ForwardEnds(q) \/ ClientGone(q)
      PROVE  UNCHANGED <<forgetting, edits>>
  BY <1>4 DEF Resolve, Step, WaitForCoolingKey, BeginRound, TryKey, EndRound, FallAsleep, Wake,
              Answer, Succeeds, Fails, TransportFails, FatalError, PrepareFails,
              ForwardEnds, ClientGone
<1> QED BY <1>1, <1>2, <1>3, <1>4 DEF Next, vars, Tick

IsUsage(u) == u = [sent |-> u.sent, inFlight |-> u.inFlight]

LEMMA UsageType ==
    UsageSound /\ usage = [k \in Keys |-> usage[k]] /\ (\A k \in Keys : IsUsage(usage[k]))
    => usage \in [Keys -> KeyUsage]
<1> SUFFICES ASSUME UsageSound, usage = [k \in Keys |-> usage[k]], \A k \in Keys : IsUsage(usage[k])
             PROVE  usage \in [Keys -> KeyUsage]
  OBVIOUS
<1>1. \A k \in Keys : usage[k].sent \in Seq(0 .. Window - 1) /\ usage[k].inFlight \in Nat
  BY DEF UsageSound, InOrder, Ages
<1>2. \A k \in Keys : usage[k] \in KeyUsage
  BY <1>1 DEF KeyUsage, IsUsage
<1> QED BY <1>2

LEMMA UsageKeepsForm ==
    ASSUME TypeOK, Effect
    PROVE  usage' = [k \in Keys |-> usage'[k]] /\ \A k \in Keys : IsUsage(usage'[k])
<1>0. usage = [k \in Keys |-> usage[k]] /\ \A k \in Keys : IsUsage(usage[k])
  BY DEF TypeOK, KeyUsage, IsUsage
<1>1. \A u, age : IsUsage(u) => /\ IsUsage(Released(u)) /\ IsUsage(Cancelled(u, age))
                               /\ IsUsage(Slid(u))
  <2>1. ASSUME NEW u, NEW s, NEW n, IsUsage(u)
        PROVE  /\ IsUsage([u EXCEPT !.inFlight = n]) /\ IsUsage([u EXCEPT !.sent = s])
    <3>1. [[sent |-> u.sent, inFlight |-> u.inFlight] EXCEPT !.inFlight = n]
            = [sent |-> u.sent, inFlight |-> n]
      OBVIOUS
    <3>2. [[sent |-> u.sent, inFlight |-> u.inFlight] EXCEPT !.sent = s]
            = [sent |-> s, inFlight |-> u.inFlight]
      OBVIOUS
    <3>3. \A x, y : IsUsage([sent |-> x, inFlight |-> y])
      BY DEF IsUsage
    <3> QED BY <2>1, <3>1, <3>2, <3>3 DEF IsUsage
  <2> QED BY <2>1 DEF Released, Cancelled, Slid
<1>2. IsUsage(Unused) /\ \A k : IsUsage(Acquired(k))
  BY DEF IsUsage, Unused, Acquired
<1>3. ASSUME NEW u, NEW k, IsUsage(u), usage' = [usage EXCEPT ![k] = u]
      PROVE  usage' = [j \in Keys |-> usage'[j]] /\ \A j \in Keys : IsUsage(usage'[j])
  BY <1>0, <1>3
<1>4. CASE Keeps
  BY <1>0, <1>4 DEF Keeps
<1>5. CASE Clears
  BY <1>2, <1>3, <1>5 DEF Clears
<1>6. CASE Passes
  BY <1>0, <1>1, <1>6 DEF Passes
<1>7. ASSUME NEW q \in Requests, Takes(q)
      PROVE  usage' = [k \in Keys |-> usage'[k]] /\ \A k \in Keys : IsUsage(usage'[k])
  BY <1>2, <1>3, <1>7 DEF Takes
<1>8. ASSUME NEW q \in Requests, Gives(q) \/ TakesBack(q)
      PROVE  usage' = [k \in Keys |-> usage'[k]] /\ \A k \in Keys : IsUsage(usage'[k])
  <2>1. CASE Key(q) \in Keys
    <3>1. IsUsage(usage[Key(q)])
      BY <1>0, <2>1
    <3>2. /\ IsUsage(Released(usage[Key(q)]))
          /\ IsUsage(Cancelled(usage[Key(q)], req[q].age))
      BY <1>1, <3>1
    <3> QED BY <1>3, <1>8, <3>2 DEF Gives, TakesBack
  <2>2. CASE Key(q) \notin Keys
    <3>1. usage' = usage
      BY <1>0, <1>8, <2>2 DEF Gives, TakesBack
    <3> QED BY <1>0, <3>1
  <2> QED BY <2>1, <2>2
<1> QED BY <1>4, <1>5, <1>6, <1>7, <1>8 DEF Effect

\* Init, IInv and Typed hold together.
LEMMA TypesInit == Init => Typed
<1> SUFFICES ASSUME Init PROVE Typed
  OBVIOUS
<1>1. UsageSound
  BY InitInvariant DEF IInv
<1>2. \A q \in Requests : req[q] \in Request /\ CandidateFits(req[q])
  BY RestFacts DEF Init, Stage, Resting, CandidateFits
<1>3. PoolTyped /\ forgetting \subseteq Keys /\ edits \in 0 .. MaxEdits
  BY CooldownType, PipelineAssumption DEF Init, PoolInit, PoolTyped
<1>4. usage = [k \in Keys |-> usage[k]] /\ \A k \in Keys : IsUsage(usage[k])
  BY DEF Init, PoolInit, Unused, IsUsage
<1> QED BY <1>1, <1>2, <1>3, <1>4, UsageType DEF Init, PoolTyped, Typed, TypeOK

LEMMA TypesHold == Spec => []Typed
<1>1. ASSUME IInv, IInv', Typed, [Next]_vars PROVE Typed'
  <2>1. PoolTyped'
    BY <1>1, PoolKeepsType
  <2>2. req' \in [Requests -> Request] /\ \A q \in Requests : CandidateFits(req'[q])
    BY <1>1, RequestsKeepType DEF IInv
  <2>3. forgetting' \subseteq Keys /\ edits' \in 0 .. MaxEdits
    BY <1>1, EditsKeepType
  <2>4. (usage \in [Keys -> KeyUsage])'
    <3>1. UsageSound'
      BY <1>1 DEF IInv
    <3>2. Effect
      BY <1>1, WhatHappensToSlots DEF IInv
    <3>3. (usage = [k \in Keys |-> usage[k]] /\ \A k \in Keys : IsUsage(usage[k]))'
      BY <1>1, <3>2, UsageKeepsForm DEF Typed
    <3> QED BY <3>1, <3>3, UsageType, PTL
  <2> QED BY <2>1, <2>2, <2>3, <2>4 DEF PoolTyped, Typed, TypeOK, CandidateFits
<1> QED BY <1>1, TypesInit, Invariance, PTL DEF Spec

\* The state keeps its type: among others, the rate window of a key holds no
\* request that has left it.
THEOREM TypeCorrect == Spec => []TypeOK
<1>1. Typed => TypeOK
  BY DEF Typed
<1> QED BY <1>1, TypesHold, PTL
-----------------------------------------------------------------------------
(* Every candidate in one place. *)

NoneTwice(cs) == \A i, j \in DOMAIN cs : cs[i].key = cs[j].key => i = j

Asked(r) == IF r.stage = "asking" THEN {r.cand.key} ELSE {}

\* The keys of a plan, place by place; no two places share one.
OnceEach(r) ==
    /\ r.plan = KeysIn(r.pending) \cup KeysIn(r.deferred) \cup Asked(r) \cup r.tried
    /\ NoneTwice(r.pending) /\ NoneTwice(r.deferred)
    /\ KeysIn(r.pending) \cap KeysIn(r.deferred) = {}
    /\ Asked(r) \cap (KeysIn(r.pending) \cup KeysIn(r.deferred)) = {}
    /\ r.tried \cap (KeysIn(r.pending) \cup KeysIn(r.deferred) \cup Asked(r)) = {}
    /\ IsFiniteSet(r.tried)
    /\ r.stage \in {"dozing", "queued"} => r.pending = << >>

Once(r) == r.stage \in Listening \cup {"round"} => OnceEach(r)

LEMMA KeysOfNone == KeysIn(<< >>) = {} /\ NoneTwice(<< >>)
BY DEF KeysIn, NoneTwice, ToSet

LEMMA KeysOfRest ==
    ASSUME NEW cs \in Seq(Candidate), cs # << >>, NoneTwice(cs)
    PROVE  /\ KeysIn(cs) = {Head(cs).key} \cup KeysIn(Tail(cs))
           /\ Head(cs).key \notin KeysIn(Tail(cs)) /\ NoneTwice(Tail(cs))
<1>1. /\ Len(cs) \in Nat \ {0} /\ DOMAIN cs = 1 .. Len(cs) /\ Head(cs) = cs[1]
      /\ DOMAIN Tail(cs) = 1 .. Len(cs) - 1
      /\ \A i \in 1 .. Len(cs) - 1 : Tail(cs)[i] = cs[i + 1]
  OBVIOUS
<1>2. \A i \in 1 .. Len(cs) : i = 1 \/ (i - 1 \in 1 .. Len(cs) - 1 /\ Tail(cs)[i - 1] = cs[i])
  <2> SUFFICES ASSUME NEW i \in 1 .. Len(cs), i # 1
               PROVE  i - 1 \in 1 .. Len(cs) - 1 /\ Tail(cs)[i - 1] = cs[i]
    OBVIOUS
  <2>1. i - 1 \in 1 .. Len(cs) - 1 /\ (i - 1) + 1 = i
    BY <1>1
  <2> QED BY <1>1, <2>1
<1>3. KeysIn(cs) = {cs[i].key : i \in 1 .. Len(cs)}
  BY <1>1 DEF KeysIn, ToSet
<1>4. KeysIn(Tail(cs)) = {cs[i + 1].key : i \in 1 .. Len(cs) - 1}
  <2>1. KeysIn(Tail(cs)) = {Tail(cs)[i].key : i \in 1 .. Len(cs) - 1}
    BY <1>1 DEF KeysIn, ToSet
  <2> QED BY <1>1, <2>1
<1>5. KeysIn(cs) \subseteq {cs[1].key} \cup KeysIn(Tail(cs))
  <2> SUFFICES ASSUME NEW i \in 1 .. Len(cs), i # 1 PROVE cs[i].key \in KeysIn(Tail(cs))
    BY <1>3
  <2>1. i - 1 \in 1 .. Len(cs) - 1 /\ (i - 1) + 1 = i
    BY <1>1
  <2> QED BY <1>4, <2>1
<1>6. {cs[1].key} \cup KeysIn(Tail(cs)) \subseteq KeysIn(cs)
  <2>1. \A i \in 1 .. Len(cs) - 1 : i + 1 \in 1 .. Len(cs)
    BY <1>1
  <2>2. 1 \in 1 .. Len(cs)
    BY <1>1
  <2> QED BY <1>3, <1>4, <2>1, <2>2
<1>7. cs[1].key \notin KeysIn(Tail(cs))
  <2> SUFFICES ASSUME NEW i \in 1 .. Len(cs) - 1, cs[1].key = cs[i + 1].key PROVE FALSE
    BY <1>4
  <2>1. i + 1 \in DOMAIN cs /\ 1 \in DOMAIN cs /\ i + 1 # 1
    BY <1>1
  <2> QED BY <2>1 DEF NoneTwice
<1>8. NoneTwice(Tail(cs))
  <2> SUFFICES ASSUME NEW i \in 1 .. Len(cs) - 1, NEW j \in 1 .. Len(cs) - 1,
                      cs[i + 1].key = cs[j + 1].key
               PROVE  i = j
    BY <1>1 DEF NoneTwice
  <2>1. i + 1 \in DOMAIN cs /\ j + 1 \in DOMAIN cs
    BY <1>1
  <2>2. i + 1 = j + 1
    BY <2>1 DEF NoneTwice
  <2> QED BY <2>2
<1> QED BY <1>1, <1>5, <1>6, <1>7, <1>8

LEMMA KeysOfMore ==
    ASSUME NEW cs \in Seq(Candidate), NEW c \in Candidate, NoneTwice(cs), c.key \notin KeysIn(cs)
    PROVE  KeysIn(Append(cs, c)) = KeysIn(cs) \cup {c.key} /\ NoneTwice(Append(cs, c))
<1> DEFINE n == Len(cs)
           d == Append(cs, c)
<1>1. /\ n \in Nat /\ DOMAIN cs = 1 .. n /\ DOMAIN d = 1 .. n + 1
      /\ d[n + 1] = c /\ \A i \in 1 .. n : d[i] = cs[i]
  OBVIOUS
<1> HIDE DEF n, d
<1>2. \A i \in 1 .. n + 1 : i = n + 1 \/ i \in 1 .. n
  BY <1>1
<1>3. 1 .. n \subseteq 1 .. n + 1 /\ n + 1 \in 1 .. n + 1
  BY <1>1
<1>4. KeysIn(cs) = {cs[i].key : i \in 1 .. n} /\ KeysIn(d) = {d[i].key : i \in 1 .. n + 1}
  BY <1>1 DEF KeysIn, ToSet
<1>5. KeysIn(d) = KeysIn(cs) \cup {c.key}
  BY <1>1, <1>2, <1>3, <1>4
<1>6. NoneTwice(d)
  <2> SUFFICES ASSUME NEW i \in 1 .. n + 1, NEW j \in 1 .. n + 1, d[i].key = d[j].key PROVE i = j
    BY <1>1 DEF NoneTwice
  <2>1. CASE i \in 1 .. n /\ j \in 1 .. n
    BY <1>1, <2>1 DEF NoneTwice
  <2>2. CASE i = n + 1 /\ j \in 1 .. n
    BY <1>1, <1>4, <2>2
  <2>3. CASE i \in 1 .. n /\ j = n + 1
    BY <1>1, <1>4, <2>3
  <2> QED BY <1>2, <2>1, <2>2, <2>3
<1> QED BY <1>5, <1>6 DEF d

LEMMA KeysCounted ==
    ASSUME NEW cs \in Seq(Candidate), NoneTwice(cs)
    PROVE  IsFiniteSet(KeysIn(cs)) /\ Cardinality(KeysIn(cs)) = Len(cs)
<1> DEFINE n == Len(cs)
           f == [i \in 1 .. n |-> cs[i].key]
           T == {cs[i].key : i \in 1 .. n}
<1>1. n \in Nat /\ DOMAIN cs = 1 .. n
  OBVIOUS
<1>2. KeysIn(cs) = T
  BY <1>1 DEF KeysIn, ToSet
<1>3. f \in Bijection(1 .. n, T)
  BY <1>1 DEF Bijection, Injection, Surjection, IsInjective, NoneTwice
<1>4. IsFiniteSet(1 .. n) /\ Cardinality(1 .. n) = n
  BY <1>1, FS_Interval
<1> HIDE DEF f, T
<1>5. ExistsBijection(1 .. n, T)
  BY <1>3 DEF ExistsBijection
<1> QED BY <1>2, <1>4, <1>5, FS_Bijection

LEMMA CandidatesOnce ==
    ASSUME TypeOK, NEW ks \in Seq(Keys), \A i, j \in DOMAIN ks : ks[i] = ks[j] => i = j
    PROVE  KeysIn(Candidates(ks)) = ToSet(ks) /\ NoneTwice(Candidates(ks))
<1>1. DOMAIN Candidates(ks) = DOMAIN ks /\ \A i \in DOMAIN ks : Candidates(ks)[i].key = ks[i]
  BY CandidatesType DEF Candidates
<1>2. KeysIn(Candidates(ks)) = {Candidates(ks)[i].key : i \in DOMAIN ks}
  BY <1>1 DEF KeysIn, ToSet
<1> QED BY <1>1, <1>2 DEF NoneTwice, ToSet

LEMMA StartsOnce ==
    ASSUME NEW r \in Request, r.stage = "round", r.deferred = << >>, r.tried = {},
           NoneTwice(r.pending), r.plan = KeysIn(r.pending)
    PROVE  Once(r)
<1>1. IsFiniteSet({})
  BY FS_EmptySet
<1> QED BY <1>1, KeysOfNone DEF Once, OnceEach, Asked

\* A move keeps the candidates in place or takes one from one place to another.
LEMMA MovesOnce ==
    ASSUME Typed, UsageSound, NEW q \in Requests, Once(req[q]), NEW r, Moves(q, r)
    PROVE  Once(r)
<1>a. PICK a \in Request : a = req[q] /\ CandidateFits(a) /\ Once(a)
  BY DEF Typed, TypeOK
<1>b. PICK b \in Request : b = r /\ CandidateFits(b)
  BY MovesTyped
<1>c. /\ a.pending \in Seq(Candidate) /\ a.deferred \in Seq(Candidate)
      /\ b.pending \in Seq(Candidate) /\ b.deferred \in Seq(Candidate)
  BY DEF Request
<1>d. Listening \cup {"round"} = {"trying", "asking", "dozing", "queued", "round"}
  BY DEF Listening
<1>1. CASE Plans(q, r)
  <2>1. PICK turn \in [Relays -> Turns] : \E ks \in Arranged(SessionOf[q], turn) :
           ks # << >> /\ r = PlanOf(q, ks, Available = {})
    BY <1>1 DEF Plans
  <2>2. PICK ks \in Arranged(SessionOf[q], turn) : r = PlanOf(q, ks, Available = {})
    BY <2>1
  <2>3. ks \in Seq(Keys) /\ \A i, j \in DOMAIN ks : ks[i] = ks[j] => i = j
    BY ArrangedFacts
  <2>4. /\ b.stage = "round" /\ b.deferred = << >> /\ b.tried = {}
        /\ b.pending = Candidates(ks) /\ b.plan = ToSet(ks)
    BY <1>b, <2>2, <2>3, PlanFacts
  <2>5. NoneTwice(b.pending) /\ b.plan = KeysIn(b.pending)
    BY <2>3, <2>4, CandidatesOnce DEF Typed
  <2> QED BY <1>b, <2>4, <2>5, StartsOnce
<1>2. CASE Waits(q, r) \/ Forwards(q, r)
  BY <1>2, <1>d DEF Waits, Forwards, Rest, Once
<1>3. CASE Ends(q, r)
  BY <1>3, <1>d DEF Ends, Rest, Once, Resting
<1>4. CASE Recovers(q, r)
  <2>1. PICK c \in req[q].waiting : r = [Rest("round") EXCEPT !.pending = <<c>>, !.plan = {c.key}]
    BY <1>4 DEF Recovers
  <2>2. /\ b.stage = "round" /\ b.deferred = << >> /\ b.tried = {}
        /\ b.pending = <<c>> /\ b.plan = {c.key}
    BY <1>b, <2>1 DEF Rest
  <2>3. DOMAIN <<c>> = {1} /\ <<c>>[1] = c
    OBVIOUS
  <2>4. NoneTwice(<<c>>) /\ KeysIn(<<c>>) = {c.key}
    BY <2>3 DEF NoneTwice, KeysIn, ToSet
  <2> QED BY <1>b, <2>2, <2>4, StartsOnce
<1>5. CASE SleepsOn(q, r)
  BY <1>5, <1>a, <1>d DEF SleepsOn, At, Once, Request
<1>6. CASE Begins(q, r) \/ Drops(q, r)
  <2>1. /\ a.stage \in {"round", "dozing"} /\ b.stage # "asking"
        /\ b.stage = "queued" => a.stage = "dozing"
        /\ b.stage # "dozing"
        /\ b.pending = a.pending /\ b.deferred = a.deferred /\ b.tried = a.tried /\ b.plan = a.plan
    BY <1>6, <1>a, <1>b DEF Begins, Drops, At, Request
  <2>2. Asked(b) = {} /\ Asked(a) = {} /\ OnceEach(a)
    BY <1>a, <1>d, <2>1 DEF Asked, Once
  <2> QED BY <1>b, <2>1, <2>2 DEF Once, OnceEach
<1>7. CASE Asks(q, r)
  <2>1. /\ a.stage = "trying" /\ a.pending # << >>
        /\ b.stage = "asking" /\ b.cand = Head(a.pending) /\ b.pending = Tail(a.pending)
        /\ b.deferred = a.deferred /\ b.tried = a.tried /\ b.plan = a.plan
    BY <1>7, <1>a, <1>b DEF Asks, At, Request
  <2>2. OnceEach(a) /\ Asked(a) = {} /\ Asked(b) = {Head(a.pending).key}
    BY <1>a, <1>d, <2>1 DEF Asked, Once
  <2>3. /\ KeysIn(a.pending) = {Head(a.pending).key} \cup KeysIn(b.pending)
        /\ Head(a.pending).key \notin KeysIn(b.pending) /\ NoneTwice(b.pending)
    BY <1>c, <2>1, <2>2, KeysOfRest DEF OnceEach
  <2>4. OnceEach(b)
    BY <2>1, <2>2, <2>3 DEF OnceEach
  <2> QED BY <1>b, <2>4 DEF Once
<1>8. CASE PutsOff(q, r)
  <2>1. /\ a.stage = "trying" /\ a.pending # << >>
        /\ b.stage = "trying" /\ b.pending = Tail(a.pending)
        /\ b.deferred = Append(a.deferred, Head(a.pending))
        /\ b.tried = a.tried /\ b.plan = a.plan
    BY <1>8, <1>a, <1>b DEF PutsOff, At, Request
  <2>2. OnceEach(a) /\ Asked(a) = {} /\ Asked(b) = {}
    BY <1>a, <1>d, <2>1 DEF Asked, Once
  <2>3. /\ KeysIn(a.pending) = {Head(a.pending).key} \cup KeysIn(b.pending)
        /\ Head(a.pending).key \notin KeysIn(b.pending) /\ NoneTwice(b.pending)
    BY <1>c, <2>1, <2>2, KeysOfRest DEF OnceEach
  <2>4. Head(a.pending) \in Candidate /\ Head(a.pending).key \notin KeysIn(a.deferred)
    BY <1>c, <2>1, <2>2, <2>3 DEF OnceEach
  <2>5. /\ KeysIn(b.deferred) = KeysIn(a.deferred) \cup {Head(a.pending).key}
        /\ NoneTwice(b.deferred)
    BY <1>c, <2>1, <2>2, <2>4, KeysOfMore DEF OnceEach
  <2>6. OnceEach(b)
    BY <2>1, <2>2, <2>3, <2>4, <2>5 DEF OnceEach
  <2> QED BY <1>b, <2>6 DEF Once
<1>9. CASE TriesNext(q, r)
  <2>1. /\ a.stage = "asking" /\ b.stage = "trying"
        /\ b.pending = a.pending /\ b.deferred = a.deferred /\ b.plan = a.plan
        /\ b.tried = a.tried \cup {a.cand.key}
    BY <1>9, <1>a, <1>b DEF TriesNext, NextCandidate, At, Request
  <2>2. OnceEach(a) /\ Asked(a) = {a.cand.key} /\ Asked(b) = {}
    BY <1>a, <1>d, <2>1 DEF Asked, Once
  <2>3. IsFiniteSet(b.tried)
    BY <2>1, <2>2, FS_AddElement DEF OnceEach
  <2>4. OnceEach(b)
    BY <2>1, <2>2, <2>3 DEF OnceEach
  <2> QED BY <1>b, <2>4 DEF Once
<1>10. CASE Dozes(q, r)
  <2>1. /\ a.stage = "trying" /\ b.stage = "dozing" /\ a.pending = << >>
        /\ b.pending = a.pending /\ b.deferred = a.deferred /\ b.tried = a.tried /\ b.plan = a.plan
    BY <1>10, <1>a, <1>b DEF Dozes, At, Request
  <2>2. Asked(b) = {} /\ Asked(a) = {} /\ OnceEach(a)
    BY <1>a, <1>d, <2>1 DEF Asked, Once
  <2> QED BY <1>b, <2>1, <2>2 DEF Once, OnceEach
<1>11. CASE Wakes(q, r)
  <2>1. /\ a.stage = "queued" /\ b.stage = "round" /\ b.pending = a.deferred /\ b.deferred = << >>
        /\ b.tried = a.tried /\ b.plan = a.plan
    BY <1>11, <1>a, <1>b DEF Wakes, At, Request
  <2>2. Asked(b) = {} /\ Asked(a) = {} /\ OnceEach(a)
    BY <1>a, <1>d, <2>1 DEF Asked, Once
  <2> QED BY <1>b, <2>1, <2>2, KeysOfNone DEF Once, OnceEach
<1> QED BY <1>1, <1>2, <1>3, <1>4, <1>5, <1>6, <1>7, <1>8, <1>9, <1>10, <1>11 DEF Moves

AllOnce == \A q \in Requests : Once(req[q])

LEMMA OnceKept ==
    ASSUME Typed, UsageSound, AllOnce, [Next]_vars PROVE AllOnce'
<1> SUFFICES ASSUME NEW q \in Requests PROVE Once(req'[q])
  BY DEF AllOnce
<1>0. TypeOK
  BY DEF Typed
<1>1. PICK a \in Request : a = req[q] /\ Once(a)
  BY <1>0 DEF TypeOK, AllOnce
<1>2. /\ \A r \in Request : Once(r) => Once([r EXCEPT !.notified = TRUE])
      /\ Once(Older(a))
  BY <1>1 DEF Once, OnceEach, Asked, Older, Request
<1>3. CASE Becomes(q, req[q]) \/ req'[q] = Older(req[q])
  BY <1>1, <1>2, <1>3 DEF Becomes
<1>4. ASSUME NEW r, Moves(q, r), Becomes(q, r) PROVE Once(req'[q])
  <2>1. r \in Request /\ Once(r)
    BY <1>1, <1>4, MovesOnce, MovesTyped
  <2> QED BY <1>2, <1>4, <2>1 DEF Becomes
<1> QED BY <1>0, <1>3, <1>4, OneStep

LEMMA OnceHolds == Spec => []AllOnce
<1>1. Init => AllOnce
  BY DEF Init, AllOnce, Once, Rest, Listening
<1>2. ASSUME IInv, Typed, AllOnce, [Next]_vars PROVE AllOnce'
  BY <1>2, OnceKept DEF IInv
<1> QED BY <1>1, <1>2, Invariance, TypesHold, PTL DEF Spec

\* So the places of a plan add up to it.
LEMMA PlacesAddUp ==
    ASSUME NEW r \in Request, OnceEach(r)
    PROVE  Cardinality(r.plan) = Len(r.pending) + Len(r.deferred)
                                   + Cardinality(Asked(r)) + Cardinality(r.tried)
<1> DEFINE P == KeysIn(r.pending)
           D == KeysIn(r.deferred)
           A == Asked(r)
<1>1. /\ IsFiniteSet(P) /\ Cardinality(P) = Len(r.pending)
      /\ IsFiniteSet(D) /\ Cardinality(D) = Len(r.deferred)
  BY KeysCounted DEF OnceEach, Request
<1>2. IsFiniteSet(A)
  BY FS_EmptySet, FS_Singleton DEF Asked
<1>3. IsFiniteSet(r.tried)
  BY DEF OnceEach
<1>4. /\ r.plan = ((P \cup D) \cup A) \cup r.tried
      /\ P \cap D = {} /\ (P \cup D) \cap A = {} /\ ((P \cup D) \cup A) \cap r.tried = {}
  BY DEF OnceEach
<1> HIDE DEF P, D, A
<1>5. \A S, T : IsFiniteSet(S) /\ IsFiniteSet(T) /\ S \cap T = {}
                => /\ IsFiniteSet(S \cup T)
                   /\ Cardinality(S \cup T) = Cardinality(S) + Cardinality(T)
  <2> SUFFICES ASSUME NEW S, NEW T, IsFiniteSet(S), IsFiniteSet(T), S \cap T = {}
               PROVE  /\ IsFiniteSet(S \cup T)
                      /\ Cardinality(S \cup T) = Cardinality(S) + Cardinality(T)
    OBVIOUS
  <2>1. /\ IsFiniteSet(S \cup T)
        /\ Cardinality(S \cup T) = Cardinality(S) + Cardinality(T) - Cardinality(S \cap T)
    BY FS_Union
  <2>2. Cardinality(S \cap T) = 0
    BY FS_EmptySet
  <2>3. Cardinality(S) \in Nat /\ Cardinality(T) \in Nat
    BY FS_CardinalityType
  <2> QED BY <2>1, <2>2, <2>3
<1>6. /\ IsFiniteSet(P \cup D) /\ Cardinality(P \cup D) = Cardinality(P) + Cardinality(D)
  BY <1>1, <1>4, <1>5
<1>7. /\ IsFiniteSet((P \cup D) \cup A)
      /\ Cardinality((P \cup D) \cup A) = Cardinality(P \cup D) + Cardinality(A)
  BY <1>2, <1>4, <1>5, <1>6
<1>8. Cardinality(r.plan) = Cardinality((P \cup D) \cup A) + Cardinality(r.tried)
  BY <1>3, <1>4, <1>5, <1>7
<1> QED BY <1>1, <1>6, <1>7, <1>8 DEF A

\* However often a request goes through the queue, each of its candidates is
\* still to try, put off, being asked or tried, and never in two of these places.
THEOREM CandidatesStayOnce == Spec => []EveryCandidateOnce
<1>1. ASSUME Typed, AllOnce PROVE EveryCandidateOnce
  <2> SUFFICES ASSUME NEW q \in Requests, req[q].stage \in Listening \cup {"round"}
               PROVE  LET r == req[q] IN
                      /\ r.plan = KeysIn(r.pending) \cup KeysIn(r.deferred) \cup Asked(r) \cup r.tried
                      /\ Cardinality(r.plan) = Len(r.pending) + Len(r.deferred)
                                                 + Cardinality(Asked(r)) + Cardinality(r.tried)
    BY DEF EveryCandidateOnce, Asked
  <2>1. PICK r \in Request : r = req[q] /\ OnceEach(r)
    BY <1>1 DEF Typed, TypeOK, AllOnce, Once
  <2> QED BY <2>1, PlacesAddUp DEF OnceEach
<1> QED BY <1>1, OnceHolds, TypesHold, PTL

LEMMA MovesEnd ==
    ASSUME Typed, UsageSound, NEW q \in Requests, NEW r, Moves(q, r)
    PROVE  Ends(q, r) \/ (r \in Request /\ r.stage \notin Resting)
<1>a. PICK a \in Request : a = req[q]
  BY DEF Typed, TypeOK
<1>b. PICK b \in Request : b = r
  BY MovesTyped
<1>1. CASE Plans(q, r)
  <2>1. PICK turn \in [Relays -> Turns] : \E ks \in Arranged(SessionOf[q], turn) :
           ks # << >> /\ r = PlanOf(q, ks, Available = {})
    BY <1>1 DEF Plans
  <2>2. PICK ks \in Arranged(SessionOf[q], turn) : r = PlanOf(q, ks, Available = {})
    BY <2>1
  <2>3. b.stage = "round"
    BY <1>b, <2>2, PlanFacts, ArrangedFacts
  <2> QED BY <1>b, <2>3 DEF Resting
<1>2. CASE Waits(q, r) \/ Recovers(q, r) \/ Forwards(q, r)
  <2>1. b.stage \in {"cooling", "round", "forwarding"}
    BY <1>2, <1>b DEF Waits, Recovers, Forwards, Rest
  <2> QED BY <1>b, <2>1 DEF Resting
<1>3. CASE \/ SleepsOn(q, r) \/ Begins(q, r) \/ Asks(q, r) \/ PutsOff(q, r)
           \/ TriesNext(q, r) \/ Dozes(q, r) \/ Drops(q, r) \/ Wakes(q, r)
  <2>1. b.stage \in {"cooling", "trying", "asking", "dozing", "queued", "round"}
    BY <1>3, <1>a, <1>b DEF SleepsOn, Begins, Asks, PutsOff, TriesNext, NextCandidate, Dozes,
                            Drops, Wakes, At, Request
  <2> QED BY <1>b, <2>1 DEF Resting
<1> QED BY <1>1, <1>2, <1>3 DEF Moves

\* How a request comes to rest: it ends, and fails only without a candidate left.
LEMMA ComesToRest ==
    ASSUME Typed, UsageSound, [Next]_vars, NEW q \in Requests,
           req'[q].stage \in Resting, req'[q].stage # req[q].stage
    PROVE  /\ \E r : Ends(q, r) /\ Becomes(q, r) /\ r.stage = req'[q].stage
           /\ req'[q].stage = "failed" => /\ req[q].stage \in {"asking", "trying"}
                                          /\ ~HasMore(q)
<1>0. TypeOK
  BY DEF Typed
<1>1. PICK a \in Request : a = req[q]
  BY <1>0 DEF TypeOK
<1>2. /\ Older(a).stage = a.stage
      /\ \A r \in Request : [r EXCEPT !.notified = TRUE].stage = r.stage
  BY DEF Older, Request
<1>3. ~Becomes(q, req[q]) /\ req'[q] # Older(req[q])
  BY <1>1, <1>2 DEF Becomes
<1>4. PICK r : Moves(q, r) /\ Becomes(q, r)
  BY <1>0, <1>3, OneStep
<1>5. r \in Request
  BY <1>4, MovesTyped
<1>6. r.stage = req'[q].stage
  BY <1>2, <1>4, <1>5 DEF Becomes
<1>7. Ends(q, r)
  BY <1>4, <1>6, MovesEnd
<1>8. PICK stage \in Resting :
         /\ r = Rest(stage)
         /\ stage = "failed" => req[q].stage \in {"asking", "trying"} /\ ~HasMore(q)
  BY <1>7 DEF Ends
<1>9. r.stage = stage
  BY <1>8 DEF Rest
<1> QED BY <1>4, <1>6, <1>7, <1>8, <1>9

\* A request gives up only when every key it set out with has failed it.
THEOREM AllFailedIt == Spec => FailsOnlyAfterAll
<1>1. ASSUME IInv, Typed, AllOnce, [Next]_vars
      PROVE  \A q \in Requests :
                req[q].stage # "failed" /\ req'[q].stage = "failed"
                => req[q].plan = req[q].tried \cup ({Key(q)} \ {NoKey})
  <2> SUFFICES ASSUME NEW q \in Requests, req[q].stage # "failed", req'[q].stage = "failed"
               PROVE  req[q].plan = req[q].tried \cup ({Key(q)} \ {NoKey})
    OBVIOUS
  <2>1. "failed" \in Resting
    BY DEF Resting
  <2>2. req[q].stage \in {"asking", "trying"} /\ ~HasMore(q)
    BY <1>1, <2>1, ComesToRest DEF IInv
  <2>3. PICK a \in Request : a = req[q] /\ CandidateFits(a) /\ OnceEach(a)
    BY <1>1, <2>2 DEF Typed, TypeOK, AllOnce, Once, Listening
  <2>4. a.plan = Asked(a) \cup a.tried
    BY <2>2, <2>3, KeysOfNone DEF HasMore, OnceEach
  <2>5. CASE a.stage = "asking"
    <3>1. a.cand.key \in Keys
      BY <2>3, <2>5 DEF CandidateFits, Candidate
    <3> QED BY <2>3, <2>4, <2>5, <3>1, PoolAssumption DEF Asked, Key
  <2>6. CASE a.stage = "trying"
    <3>1. a.cand.key = NoKey
      BY <2>3, <2>6 DEF CandidateFits, NoCandidate
    <3> QED BY <2>3, <2>4, <2>6, <3>1 DEF Asked, Key
  <2> QED BY <2>2, <2>3, <2>5, <2>6
<1> QED BY <1>1, Invariance, TypesHold, OnceHolds, PTL DEF Spec, FailsOnlyAfterAll
-----------------------------------------------------------------------------
(* Requests at rest. *)

AtRest == \A q \in Requests : req[q].stage \in Resting => req[q] = Rest(req[q].stage)

LEMMA RestLasts == ASSUME NEW stage PROVE Older(Rest(stage)) = Rest(stage)
<1> DEFINE r == Rest(stage)
<1>1. /\ r = [x \in DOMAIN r |-> r[x]]
      /\ ~r.held /\ r.left = NoDeadline /\ r.sleep = 0
  BY DEF Rest
<1> HIDE DEF r
<1>2. Max2(r.sleep - 1, 0) = r.sleep /\ ~(r.left > 0)
  BY <1>1 DEF Max2, NoDeadline
<1>3. Older(r) = [r EXCEPT !.age = r.age, !.left = r.left, !.sleep = r.sleep]
  BY <1>1, <1>2 DEF Older
<1>4. Older(r) = r
  BY <1>1, <1>3
<1> QED BY <1>4 DEF r

LEMMA AtRestKept ==
    ASSUME Typed, UsageSound, AtRest, [Next]_vars PROVE AtRest'
<1> SUFFICES ASSUME NEW q \in Requests, req'[q].stage \in Resting
             PROVE  req'[q] = Rest(req'[q].stage)
  BY DEF AtRest
<1>0. TypeOK
  BY DEF Typed
<1>1. PICK a \in Request : a = req[q]
  BY <1>0 DEF TypeOK
<1>2. /\ Older(a).stage = a.stage
      /\ \A r \in Request : [r EXCEPT !.notified = TRUE].stage = r.stage
      /\ Listening \cap Resting = {}
  BY DEF Older, Request, Listening, Resting
<1>3. CASE Becomes(q, req[q])
  BY <1>1, <1>2, <1>3 DEF Becomes, AtRest
<1>4. CASE req'[q] = Older(req[q])
  <2>1. a = Rest(a.stage)
    BY <1>1, <1>2, <1>4 DEF AtRest
  <2>2. PICK s : s = a.stage
    OBVIOUS
  <2>3. Older(Rest(s)) = Rest(s)
    BY RestLasts
  <2> QED BY <1>1, <1>2, <1>4, <2>1, <2>2, <2>3
<1>5. ASSUME NEW r, Moves(q, r), Becomes(q, r) PROVE req'[q] = Rest(req'[q].stage)
  <2>1. r \in Request
    BY <1>5, MovesTyped
  <2>2. r.stage \in Resting /\ req'[q] = r
    BY <1>2, <1>5, <2>1 DEF Becomes
  <2>3. Ends(q, r)
    BY <1>5, <2>2, MovesEnd
  <2>4. PICK stage \in Resting : r = Rest(stage)
    BY <2>3 DEF Ends
  <2>5. Rest(stage).stage = stage
    BY DEF Rest
  <2> QED BY <2>2, <2>4, <2>5
<1> QED BY <1>0, <1>3, <1>4, <1>5, OneStep

LEMMA RestHolds == Spec => []AtRest
<1>1. Init => AtRest
  BY DEF Init, AtRest, Rest
<1>2. ASSUME IInv, Typed, AtRest, [Next]_vars PROVE AtRest'
  BY <1>2, AtRestKept DEF IInv
<1> QED BY <1>1, <1>2, Invariance, TypesHold, PTL DEF Spec

\* With nothing to try, every key of the route is disabled or cooling.
LEMMA NothingPlanned ==
    ASSUME NEW s, NEW turn, << >> \in Arranged(s, turn)
    PROVE  \A r \in Route : \A k \in ToSet(KeysOf[r]) : Disabled(k) \/ Cooling(k)
<1>1. Planned = {}
  <2>1. Cardinality(Planned) = 0
    BY ArrangedFacts
  <2> QED BY <2>1, PlannedFacts, FS_EmptySet
<1>2. \A r \in Route : ReadyKeys(r) = {}
  BY <1>1 DEF Planned, Available, BehindBreaker
<1> QED BY <1>2 DEF ReadyKeys

\* A new request is turned away only when all its keys are disabled or cooling:
\* an open breaker alone never does it.
THEOREM OnlyCoolingRefuses == Spec => RefusedOnlyWhenCooling
<1>1. ASSUME IInv, Typed, AtRest, [Next]_vars
      PROVE  \A q \in Requests :
                /\ req[q].stage \in Resting /\ req'[q] # req[q]
                /\ req'[q].stage \in {"refused", "unavailable"}
                => \A r \in Route : \A k \in ToSet(KeysOf[r]) : Disabled(k) \/ Cooling(k)
  <2> SUFFICES ASSUME NEW q \in Requests, req[q].stage \in Resting, req'[q] # req[q],
                      req'[q].stage \in {"refused", "unavailable"}
               PROVE  \A r \in Route : \A k \in ToSet(KeysOf[r]) : Disabled(k) \/ Cooling(k)
    OBVIOUS
  <2>0. TypeOK /\ UsageSound
    BY <1>1 DEF Typed, IInv
  <2>1. req'[q].stage \in Resting /\ Listening \cap Resting = {}
    BY DEF Resting, Listening
  <2>2. PICK s : s = req[q].stage /\ req[q] = Rest(s)
    BY <1>1 DEF AtRest
  <2>3. req'[q] # Older(req[q])
    <3>1. Older(Rest(s)) = Rest(s)
      BY RestLasts
    <3> QED BY <2>2, <3>1
  <2>4. ~Becomes(q, req[q])
    BY <2>1 DEF Becomes
  <2>5. PICK r : Moves(q, r) /\ Becomes(q, r)
    BY <1>1, <2>0, <2>3, <2>4, OneStep
  <2>6. r \in Request /\ [r EXCEPT !.notified = TRUE].stage = r.stage
    <3>1. r \in Request
      BY <1>1, <2>0, <2>5, MovesTyped
    <3> QED BY <3>1 DEF Request
  <2>7. Ends(q, r)
    BY <1>1, <2>0, <2>1, <2>5, <2>6, MovesEnd DEF Becomes
  <2>8. PICK turn \in [Relays -> Turns] : << >> \in Arranged(SessionOf[q], turn)
    BY <2>7 DEF Ends
  <2> QED BY <2>8, NothingPlanned
<1> QED BY <1>1, Invariance, TypesHold, RestHolds, PTL DEF Spec, RefusedOnlyWhenCooling
-----------------------------------------------------------------------------
(* Sessions and their keys. *)

\* No key of provider v comes before k in cs.
Leads(k, v, cs) == \A i, j \in DOMAIN cs : cs[j].key = k /\ i < j => RelayOf(cs[i].key) # v
Without(v, cs) == \A i \in DOMAIN cs : RelayOf(cs[i].key) # v

\* The key a session was pinned to is the first of its provider in the list, and
\* as long as it is still to try, no other one has been asked or put off since.
Leading(r, v) ==
    LET k == r.pin[v] IN
    /\ k \in ToSet(KeysOf[v]) \cup {NoKey}
    /\ Leads(k, v, r.pending) /\ Leads(k, v, r.deferred)
    /\ k \in KeysIn(r.pending) => /\ Without(v, r.deferred)
                                  /\ r.stage = "asking" => RelayOf(r.cand.key) # v

PinLeads(r) ==
    r.stage \in Listening \cup {"round"} /\ ~r.through => \A v \in Relays : Leading(r, v)

StickyFits ==
    \A s \in Sessions, v \in Relays : sticky[s][v] \in ToSet(KeysOf[v]) \cup {NoKey}

PinsLead == StickyFits /\ \A q \in Requests : PinLeads(req[q])

LEMMA LeadsNone == \A k, v : Leads(k, v, << >>) /\ Without(v, << >>)
BY DEF Leads, Without

LEMMA LeadsRest ==
    ASSUME NEW k, NEW v, NEW cs \in Seq(Candidate), cs # << >>, Leads(k, v, cs)
    PROVE  /\ Leads(k, v, Tail(cs))
           /\ k \in KeysIn(Tail(cs)) => RelayOf(Head(cs).key) # v
<1>1. /\ Len(cs) \in Nat \ {0} /\ DOMAIN cs = 1 .. Len(cs) /\ Head(cs) = cs[1]
      /\ DOMAIN Tail(cs) = 1 .. Len(cs) - 1
      /\ \A i \in 1 .. Len(cs) - 1 : Tail(cs)[i] = cs[i + 1]
  OBVIOUS
<1>2. 1 \in DOMAIN cs /\ \A i \in DOMAIN Tail(cs) : i + 1 \in DOMAIN cs /\ 1 < i + 1
  BY <1>1
<1>3. Leads(k, v, Tail(cs))
  <2> SUFFICES ASSUME NEW i \in DOMAIN Tail(cs), NEW j \in DOMAIN Tail(cs),
                      Tail(cs)[j].key = k, i < j
               PROVE  RelayOf(Tail(cs)[i].key) # v
    BY DEF Leads
  <2>1. i + 1 < j + 1
    BY <1>1
  <2>2. Tail(cs)[i] = cs[i + 1] /\ Tail(cs)[j] = cs[j + 1]
    BY <1>1
  <2> QED BY <1>2, <2>1, <2>2 DEF Leads
<1>4. ASSUME k \in KeysIn(Tail(cs)) PROVE RelayOf(Head(cs).key) # v
  <2>1. PICK j \in DOMAIN Tail(cs) : Tail(cs)[j].key = k
    BY <1>4 DEF KeysIn, ToSet
  <2>2. cs[j + 1].key = k
    BY <1>1, <2>1
  <2> QED BY <1>1, <1>2, <2>2 DEF Leads
<1> QED BY <1>3, <1>4

LEMMA LeadsMore ==
    ASSUME NEW k, NEW v, NEW cs \in Seq(Candidate), NEW c \in Candidate
    PROVE  /\ Leads(k, v, cs) /\ (c.key = k => Without(v, cs)) => Leads(k, v, Append(cs, c))
           /\ Without(v, cs) /\ RelayOf(c.key) # v => Without(v, Append(cs, c))
<1> DEFINE n == Len(cs)
           d == Append(cs, c)
<1>1. /\ n \in Nat /\ DOMAIN cs = 1 .. n /\ DOMAIN d = 1 .. n + 1
      /\ d[n + 1] = c /\ \A i \in 1 .. n : d[i] = cs[i]
  OBVIOUS
<1> HIDE DEF n, d
<1>2. \A i \in 1 .. n + 1 : i = n + 1 \/ i \in 1 .. n
  BY <1>1
<1>3. ASSUME Leads(k, v, cs), c.key = k => Without(v, cs) PROVE Leads(k, v, d)
  <2> SUFFICES ASSUME NEW i \in 1 .. n + 1, NEW j \in 1 .. n + 1, d[j].key = k, i < j
               PROVE  RelayOf(d[i].key) # v
    BY <1>1 DEF Leads
  <2>1. i \in 1 .. n /\ d[i] = cs[i]
    BY <1>1
  <2>2. CASE j = n + 1
    BY <1>1, <1>3, <2>1, <2>2 DEF Without
  <2>3. CASE j \in 1 .. n
    BY <1>1, <1>3, <2>1, <2>3 DEF Leads
  <2> QED BY <1>2, <2>2, <2>3
<1>4. ASSUME Without(v, cs), RelayOf(c.key) # v PROVE Without(v, d)
  BY <1>1, <1>2, <1>4 DEF Without
<1> QED BY <1>3, <1>4 DEF d

LEMMA PlaceType == \A k \in Keys : Place(k) \in Nat \ {0}
<1> SUFFICES ASSUME NEW k \in Keys PROVE Place(k) \in Nat \ {0}
  OBVIOUS
<1>1. RelayOf(k) \in Relays /\ k \in ToSet(KeysOf[RelayOf(k)])
  BY RelayFacts
<1>2. PICK ks \in Seq(Keys) : ks = KeysOf[RelayOf(k)]
  BY <1>1, PoolAssumption
<1>3. \E i \in DOMAIN ks : ks[i] = k
  BY <1>1, <1>2 DEF ToSet
<1>4. Place(k) \in DOMAIN ks
  BY <1>2, <1>3 DEF Place
<1> QED BY <1>4

\* The session's own key comes first among the keys of its provider.
LEMMA OwnKeyLeads ==
    ASSUME TypeOK, StickyFits, Available # {}, NEW s \in Sessions, NEW turn, NEW ks \in Arranged(s, turn),
           NEW v \in Relays
    PROVE  Leads(sticky[s][v], v, Candidates(ks))
<1> DEFINE k == sticky[s][v]
<1>1. ks \in Seq(Keys) /\ ToSet(ks) \subseteq Planned /\ \A i, j \in DOMAIN ks : ks[i] = ks[j] => i = j
  BY ArrangedFacts
<1>2. /\ DOMAIN Candidates(ks) = DOMAIN ks
      /\ \A i \in DOMAIN ks : Candidates(ks)[i].key = ks[i] /\ ks[i] \in Planned /\ ks[i] \in Keys
  <2>1. \A i \in DOMAIN ks : Candidates(ks)[i].key = ks[i]
    BY <1>1, CandidatesType
  <2>2. \A i \in DOMAIN ks : ks[i] \in Planned
    BY <1>1 DEF ToSet
  <2>3. \A i \in DOMAIN ks : ks[i] \in Keys
    BY <1>1
  <2> QED BY <2>1, <2>2, <2>3 DEF Candidates
<1> SUFFICES ASSUME NEW i \in DOMAIN ks, NEW j \in DOMAIN ks, ks[j] = k, i < j, RelayOf(ks[i]) = v
             PROVE  FALSE
  BY <1>2 DEF Leads
<1> HIDE DEF k
<1>3. k \in Available /\ ks[i] \in Available
  BY <1>2 DEF Planned
<1>4. \A x \in Available : x \in Keys => ~OpenBreaker(RelayOf(x)) /\ x \in ReadyKeys(RelayOf(x))
  <2> SUFFICES ASSUME NEW x \in Keys, x \in Available
               PROVE  ~OpenBreaker(RelayOf(x)) /\ x \in ReadyKeys(RelayOf(x))
    OBVIOUS
  <2>1. PICK r \in Route : ~OpenBreaker(r) /\ x \in ReadyKeys(r)
    BY DEF Available
  <2>2. r \in Relays
    BY PipelineAssumption, SeqIsFinite DEF Route
  <2>3. r = RelayOf(x)
    BY <2>1, <2>2, RelayFacts DEF ReadyKeys
  <2> QED BY <2>1, <2>3
<1>5. k \in Keys /\ ks[i] \in Keys /\ ks[i] # k
  BY <1>1, <1>2
<1>6. RelayOf(k) = v
  <2>1. k \in ToSet(KeysOf[v]) \cup {NoKey} /\ NoKey \notin Keys
    BY PoolAssumption DEF StickyFits, k
  <2> QED BY <1>5, <2>1, RelayFacts
<1>7. Rank(s, turn, k) = 0
  <2>1. KeyRank(s, turn[v], k) = 0
    BY <1>3, <1>4, <1>5, <1>6 DEF KeyRank, k
  <2> QED BY <1>3, <1>4, <1>5, <1>6, <2>1 DEF Rank
<1>8. Rank(s, turn, ks[i]) \in Nat \ {0}
  <2>1. KeyRank(s, turn[v], ks[i]) = Place(ks[i])
    <3>1. k \in ReadyKeys(v) /\ sticky[s][RelayOf(ks[i])] = k
      BY <1>3, <1>4, <1>5, <1>6 DEF k
    <3> QED BY <1>5, <3>1 DEF KeyRank
  <2>2. ~OpenBreaker(v)
    BY <1>3, <1>4, <1>5
  <2> QED BY <1>5, <2>1, <2>2, PlaceType DEF Rank
<1>9. RelayPlace(ks[i]) = RelayPlace(k) /\ RelayPlace(k) \in Nat
  <2>1. k \in Planned
    BY <1>2
  <2>2. RelayOf(k) \in Route
    BY <2>1, PlannedFacts
  <2>3. \E n \in DOMAIN RelayOrder : RelayOrder[n] = RelayOf(k)
    BY <2>2 DEF Route, ToSet
  <2>4. RelayPlace(k) \in DOMAIN RelayOrder
    BY <2>3 DEF RelayPlace
  <2>5. RelayPlace(k) \in Nat
    BY <2>4, PipelineAssumption
  <2> QED BY <1>6, <2>5 DEF RelayPlace
<1>10. Before(s, turn, ks[i], k)
  <2>1. \A a, b \in DOMAIN ks : a < b => Before(s, turn, ks[a], ks[b])
    BY DEF Arranged
  <2> QED BY <2>1
<1> QED BY <1>7, <1>8, <1>9, <1>10 DEF Before

\* A move keeps the session's own key in front.
LEMMA MovesLead ==
    ASSUME Typed, UsageSound, AllOnce, PinsLead, NEW q \in Requests, NEW r, Moves(q, r)
    PROVE  PinLeads(r)
<1>a. PICK a \in Request : a = req[q] /\ CandidateFits(a) /\ Once(a) /\ PinLeads(a)
  BY DEF Typed, TypeOK, AllOnce, PinsLead
<1>b. PICK b \in Request : b = r /\ CandidateFits(b)
  BY MovesTyped
<1>c. /\ a.pending \in Seq(Candidate) /\ a.deferred \in Seq(Candidate)
      /\ b.pending \in Seq(Candidate) /\ b.deferred \in Seq(Candidate)
  BY DEF Request
<1>d. Listening \cup {"round"} = {"trying", "asking", "dozing", "queued", "round"}
  BY DEF Listening
<1>e. NoKey \notin Keys /\ \A i \in DOMAIN b.pending : b.pending[i].key \in Keys
  <2>1. \A i \in DOMAIN b.pending : b.pending[i] \in Candidate
    BY <1>c
  <2>2. \A c \in Candidate : c.key \in Keys
    BY DEF Candidate
  <2> QED BY <2>1, <2>2, PoolAssumption
<1>1. CASE Plans(q, r)
  <2>1. PICK turn \in [Relays -> Turns] : \E ks \in Arranged(SessionOf[q], turn) :
           ks # << >> /\ r = PlanOf(q, ks, Available = {})
    BY <1>1 DEF Plans
  <2>2. PICK ks \in Arranged(SessionOf[q], turn) : r = PlanOf(q, ks, Available = {})
    BY <2>1
  <2>3. PICK s : s = SessionOf[q]
    OBVIOUS
  <2>4. /\ b.stage = "round" /\ b.deferred = << >> /\ b.pending = Candidates(ks)
        /\ b.through <=> Available = {}
        /\ b.pin = IF s \in Sessions THEN sticky[s] ELSE NoPin
    BY <1>b, <2>2, <2>3, PlanFacts, ArrangedFacts
  <2> SUFFICES ASSUME Available # {}, NEW v \in Relays PROVE Leading(b, v)
    BY <1>b, <2>4 DEF PinLeads
  <2>5. CASE s \in Sessions
    <3>1. b.pin[v] = sticky[s][v] /\ sticky[s][v] \in ToSet(KeysOf[v]) \cup {NoKey}
      BY <2>4, <2>5 DEF PinsLead, StickyFits
    <3>2. Leads(sticky[s][v], v, b.pending)
      BY <2>2, <2>3, <2>4, <2>5, OwnKeyLeads DEF PinsLead, Typed
    <3> QED BY <2>4, <3>1, <3>2, LeadsNone DEF Leading
  <2>6. CASE s \notin Sessions
    <3>1. b.pin[v] = NoKey
      BY <2>4, <2>6 DEF NoPin
    <3>3. Leads(NoKey, v, b.pending) /\ NoKey \notin KeysIn(b.pending)
      BY <1>e DEF Leads, KeysIn, ToSet
    <3> QED BY <2>4, <3>1, <3>3, LeadsNone DEF Leading
  <2> QED BY <2>5, <2>6
<1>2. CASE Waits(q, r) \/ Forwards(q, r)
  BY <1>2, <1>d DEF Waits, Forwards, Rest, PinLeads
<1>3. CASE Ends(q, r)
  BY <1>3, <1>d DEF Ends, Rest, PinLeads, Resting
<1>4. CASE Recovers(q, r)
  <2>1. PICK c \in req[q].waiting : r = [Rest("round") EXCEPT !.pending = <<c>>, !.plan = {c.key}]
    BY <1>4 DEF Recovers
  <2>2. b.stage = "round" /\ b.deferred = << >> /\ b.pin = NoPin
    BY <1>b, <2>1 DEF Rest
  <2>3. \A v \in Relays : b.pin[v] = NoKey
    BY <2>2 DEF NoPin
  <2>5. \A v : Leads(NoKey, v, b.pending) /\ NoKey \notin KeysIn(b.pending)
    BY <1>e DEF Leads, KeysIn, ToSet
  <2>6. \A v \in Relays : Leading(b, v)
    BY <2>2, <2>3, <2>5, LeadsNone DEF Leading
  <2> QED BY <1>b, <2>6 DEF PinLeads
<1>5. CASE SleepsOn(q, r)
  BY <1>5, <1>a, <1>b, <1>d DEF SleepsOn, At, PinLeads, Request
<1>6. CASE Begins(q, r) \/ Drops(q, r) \/ Dozes(q, r) \/ TriesNext(q, r)
  <2>1. /\ a.stage \in Listening \cup {"round"} /\ b.stage # "asking"
        /\ b.pending = a.pending /\ b.deferred = a.deferred
        /\ (b.through <=> a.through) /\ b.pin = a.pin
    <3>1. CASE Begins(q, r) \/ Drops(q, r)
      BY <1>a, <1>b, <1>d, <3>1 DEF Begins, Drops, At, Request
    <3>2. CASE Dozes(q, r)
      BY <1>a, <1>b, <1>d, <3>2 DEF Dozes, At, Request
    <3>3. CASE TriesNext(q, r)
      BY <1>a, <1>b, <1>d, <3>3 DEF TriesNext, NextCandidate, At, Request
    <3> QED BY <1>6, <3>1, <3>2, <3>3
  <2> QED BY <1>a, <1>b, <2>1 DEF PinLeads, Leading
<1>7. CASE Asks(q, r) \/ PutsOff(q, r)
  <2>1. /\ a.stage = "trying" /\ a.pending # << >> /\ b.pending = Tail(a.pending)
        /\ b.stage \in {"trying", "asking"}
        /\ (b.through <=> a.through) /\ b.pin = a.pin
        /\ \/ /\ b.stage = "asking" /\ b.cand = Head(a.pending)
              /\ b.deferred = a.deferred
           \/ b.stage = "trying" /\ b.deferred = Append(a.deferred, Head(a.pending))
    BY <1>7, <1>a, <1>b DEF Asks, PutsOff, At, Request
  <2> SUFFICES ASSUME ~a.through, NEW v \in Relays PROVE Leading(b, v)
    BY <1>b, <2>1 DEF PinLeads
  <2>2. Leading(a, v) /\ OnceEach(a)
    BY <1>a, <1>d, <2>1 DEF PinLeads, Once
  <2>3. PICK k : k = a.pin[v]
    OBVIOUS
  <2>4. /\ KeysIn(a.pending) = {Head(a.pending).key} \cup KeysIn(b.pending)
        /\ Head(a.pending) \in Candidate
    BY <1>c, <2>1, <2>2, KeysOfRest DEF OnceEach
  <2>5. /\ Leads(k, v, b.pending)
        /\ k \in KeysIn(b.pending) => RelayOf(Head(a.pending).key) # v
    BY <1>c, <2>1, <2>2, <2>3, LeadsRest DEF Leading
  <2>6. Head(a.pending).key = k => Without(v, a.deferred)
    BY <2>2, <2>3, <2>4 DEF Leading
  <2>7. Leads(k, v, b.deferred)
    <3>1. Leads(k, v, a.deferred)
      BY <2>2, <2>3 DEF Leading
    <3>2. Leads(k, v, Append(a.deferred, Head(a.pending)))
      BY <1>c, <2>4, <2>6, <3>1, LeadsMore
    <3> QED BY <2>1, <3>1, <3>2
  <2>8. k \in KeysIn(b.pending) => Without(v, b.deferred)
    BY <1>c, <2>1, <2>2, <2>3, <2>4, <2>5, LeadsMore DEF Leading
  <2> QED BY <2>1, <2>2, <2>3, <2>5, <2>7, <2>8 DEF Leading
<1>8. CASE Wakes(q, r)
  <2>1. /\ a.stage = "queued" /\ b.stage = "round" /\ b.pending = a.deferred /\ b.deferred = << >>
        /\ (b.through <=> a.through) /\ b.pin = a.pin
    BY <1>8, <1>a, <1>b DEF Wakes, At, Request
  <2> QED BY <1>a, <1>b, <1>d, <2>1, LeadsNone DEF PinLeads, Leading
<1> QED BY <1>1, <1>2, <1>3, <1>4, <1>5, <1>6, <1>7, <1>8 DEF Moves

LEMMA StickyKept ==
    ASSUME Typed, StickyFits, [Next]_vars PROVE StickyFits'
<1>0. sticky \in [Sessions -> [Relays -> Keys \cup {NoKey}]]
  BY DEF Typed, TypeOK
<1>1. CASE UNCHANGED sticky
  BY <1>1 DEF StickyFits
<1>2. ASSUME NEW q \in Requests, At(q, "asking"),
             RecordSuccess(Key(q), IF StandsIn(q) THEN NoSession ELSE SessionOf[q])
      PROVE  StickyFits'
  <2>1. PICK k \in Keys : k = Key(q)
    BY <1>2 DEF Typed, CandidateFits, At, Candidate, Key
  <2>2. PICK s : s = IF StandsIn(q) THEN NoSession ELSE SessionOf[q]
    OBVIOUS
  <2>3. RelayOf(k) \in Relays /\ k \in ToSet(KeysOf[RelayOf(k)])
    BY RelayFacts
  <2>4. PICK kept \in [Sessions -> [Relays -> Keys \cup {NoKey}]] :
           /\ sticky' = IF s \in Sessions THEN [kept EXCEPT ![s][RelayOf(k)] = k] ELSE sticky
           /\ \A t \in Sessions, v \in Relays : kept[t][v] \in ToSet(KeysOf[v]) \cup {NoKey}
    <3> DEFINE none == [t \in Sessions |-> [r \in Relays |-> NoKey]]
    <3>1. none \in [Sessions -> [Relays -> Keys \cup {NoKey}]]
      OBVIOUS
    <3>2. \A t \in Sessions, v \in Relays : none[t][v] = NoKey
      OBVIOUS
    <3>3. \/ sticky' = IF s \in Sessions THEN [none EXCEPT ![s][RelayOf(k)] = k] ELSE sticky
          \/ sticky' = IF s \in Sessions THEN [sticky EXCEPT ![s][RelayOf(k)] = k] ELSE sticky
      BY <1>2, <2>1, <2>2 DEF RecordSuccess
    <3> HIDE DEF none
    <3> QED BY <1>0, <3>1, <3>2, <3>3 DEF StickyFits
  <2>5. CASE s \notin Sessions
    BY <2>4, <2>5 DEF StickyFits
  <2>6. CASE s \in Sessions
    <3> SUFFICES ASSUME NEW t \in Sessions, NEW v \in Relays
                 PROVE  sticky'[t][v] \in ToSet(KeysOf[v]) \cup {NoKey}
      BY DEF StickyFits
    <3>1. sticky'[t][v] = IF t = s /\ v = RelayOf(k) THEN k ELSE kept[t][v]
      BY <2>4, <2>6
    <3> QED BY <2>3, <2>4, <3>1
  <2> QED BY <2>5, <2>6
<1>3. ASSUME NEW k \in Keys, ForgetKey(k) PROVE StickyFits'
  BY <1>3 DEF StickyFits, ForgetKey
<1>4. ASSUME NEW r \in Relays, Reset(r) PROVE StickyFits'
  <2> SUFFICES ASSUME NEW t \in Sessions, NEW v \in Relays
               PROVE  sticky'[t][v] \in ToSet(KeysOf[v]) \cup {NoKey}
    BY DEF StickyFits
  <2>1. sticky'[t] = [sticky[t] EXCEPT ![r] = NoKey] /\ sticky[t] \in [Relays -> Keys \cup {NoKey}]
    BY <1>0, <1>4 DEF Reset
  <2> QED BY <2>1 DEF StickyFits
<1> QED BY <1>1, <1>2, <1>3, <1>4, WhatHappensToThePool
        DEF Pooled, RecordFailure, ReplaceText, TimePasses

LEMMA PinsKept ==
    ASSUME Typed, UsageSound, AllOnce, PinsLead, [Next]_vars PROVE PinsLead'
<1>0. TypeOK
  BY DEF Typed
<1>1. StickyFits'
  BY StickyKept DEF PinsLead
<1>2. ASSUME NEW q \in Requests PROVE PinLeads(req'[q])
  <2>1. PICK a \in Request : a = req[q] /\ PinLeads(a)
    BY <1>0 DEF TypeOK, PinsLead
  <2>2. /\ \A r \in Request : PinLeads(r) => PinLeads([r EXCEPT !.notified = TRUE])
        /\ PinLeads(Older(a))
    BY <2>1 DEF PinLeads, Leading, Older, Request
  <2>3. CASE Becomes(q, req[q]) \/ req'[q] = Older(req[q])
    BY <2>1, <2>2, <2>3 DEF Becomes
  <2>4. ASSUME NEW r, Moves(q, r), Becomes(q, r) PROVE PinLeads(req'[q])
    <3>1. r \in Request /\ PinLeads(r)
      BY <2>4, MovesLead, MovesTyped
    <3> QED BY <2>2, <2>4, <3>1 DEF Becomes
  <2> QED BY <1>0, <2>3, <2>4, OneStep
<1> QED BY <1>1, <1>2 DEF PinsLead

LEMMA PinsHold == Spec => []PinsLead
<1>1. Init => PinsLead
  BY DEF Init, PoolInit, PinsLead, StickyFits, PinLeads, Rest, Listening
<1>2. ASSUME IInv, Typed, AllOnce, PinsLead, [Next]_vars PROVE PinsLead'
  BY <1>2, PinsKept DEF IInv
<1> QED BY <1>1, <1>2, Invariance, TypesHold, OnceHolds, PTL DEF Spec

\* Only an answer turns a session to another key.
LEMMA WhoForwards ==
    ASSUME TypeOK, [Next]_vars, NEW q \in Requests, At(q, "asking"), req'[q].stage = "forwarding",
           sticky' # sticky
    PROVE  Succeeds(q)
<1>1. ~UNCHANGED vars /\ req' # req
  BY DEF vars, At
<1>2. ASSUME NEW p \in Requests, Resolve(p) \/ Step(p) \/ ForwardEnds(p) \/ ClientGone(p) PROVE FALSE
  BY <1>2 DEF Resolve, Step, WaitForCoolingKey, BeginRound, TryKey, EndRound, FallAsleep, Wake,
              ForwardEnds, ClientGone
<1>3. ASSUME NEW p \in Requests, Answer(p) PROVE Succeeds(q)
  <2>1. Succeeds(p)
    BY <1>3 DEF Answer, Fails, TransportFails, FatalError, PrepareFails, RecordFailure
  <2>2. p # q => req'[q] = req[q]
    BY <2>1 DEF Succeeds, TypeOK
  <2> QED BY <2>1, <2>2 DEF At
<1>4. ASSUME \/ \E k \in Keys : ForgetReplaced(k) \/ (\E v \in Values : ReplaceKey(k, v))
             \/ \E r \in Relays : ResetProvider(r)
      PROVE  FALSE
  BY <1>1, <1>4 DEF ForgetReplaced, ReplaceKey, ResetProvider
<1>5. ASSUME Tick PROVE FALSE
  BY <1>5 DEF Tick, TimePasses
<1> QED BY <1>1, <1>2, <1>3, <1>4, <1>5 DEF Next

\* A session leaves the key it is pinned to only after that key has failed the
\* request: a key that is merely full keeps its sessions.
THEOREM SessionsKeepTheirKeys == Spec => SessionKeepsItsKey
<1>1. ASSUME Typed, AllOnce, PinsLead, [Next]_vars
      PROVE  \A q \in Requests, r \in Relays :
                LeavesItsKey(q, r) /\ ~req[q].through => req[q].pin[r] \in req[q].tried
  <2> SUFFICES ASSUME NEW q \in Requests, NEW v \in Relays, LeavesItsKey(q, v), ~req[q].through,
                      req[q].pin[v] \notin req[q].tried
               PROVE  FALSE
    OBVIOUS
  <2>1. PICK s \in Sessions : s = SessionOf[q]
    BY DEF LeavesItsKey
  <2>2. PICK a \in Request : a = req[q] /\ a.stage = "asking" /\ OnceEach(a) /\ Leading(a, v)
                            /\ a.cand \in Candidate
    BY <1>1 DEF Typed, TypeOK, AllOnce, Once, PinsLead, PinLeads, LeavesItsKey, At, Listening,
                CandidateFits
  <2>3. PICK k : /\ k = a.pin[v] /\ k \in a.plan /\ sticky[s][v] = k /\ sticky'[s][v] # k
                 /\ k \notin a.tried
    BY <2>1, <2>2 DEF LeavesItsKey
  <2>4. PICK c \in Keys : c = Key(q) /\ c = a.cand.key /\ RelayOf(c) = v
    BY <2>2 DEF LeavesItsKey, Key, Candidate
  <2>5. Succeeds(q)
    BY <1>1, <2>3, WhoForwards DEF Typed, LeavesItsKey
  <2>6. ~StandsIn(q) /\ sticky'[s][v] = c
    <3>1. PICK t : t = IF StandsIn(q) THEN NoSession ELSE SessionOf[q]
      OBVIOUS
    <3>2. t \notin Sessions => sticky' = sticky
      BY <2>5, <3>1 DEF Succeeds, RecordSuccess
    <3>3. ~StandsIn(q) /\ t = s
      BY <2>1, <2>3, <3>1, <3>2, PipelineAssumption
    <3> DEFINE none == [x \in Sessions |-> [r \in Relays |-> NoKey]]
    <3>4. none \in [Sessions -> [Relays -> Keys \cup {NoKey}]]
      OBVIOUS
    <3>5. sticky' = [none EXCEPT ![s][v] = c] \/ sticky' = [sticky EXCEPT ![s][v] = c]
      BY <2>4, <2>5, <3>1, <3>3 DEF Succeeds, RecordSuccess
    <3> HIDE DEF none
    <3>6. sticky'[s][v] = c
      BY <1>1, <3>4, <3>5 DEF Typed, TypeOK
    <3> QED BY <3>3, <3>6
  <2>7. Without(v, a.deferred)
    BY <2>2, <2>4, <2>6 DEF StandsIn, Without
  <2>8. a.deferred \in Seq(Candidate)
    BY DEF Request
  <2>9. k \in Keys
    BY <1>1, <2>2, <2>3 DEF Typed, TypeOK, Request
  <2>10. RelayOf(k) = v
    <3>1. k \in ToSet(KeysOf[v]) \cup {NoKey} /\ NoKey \notin Keys
      BY <2>2, <2>3, PoolAssumption DEF Leading
    <3> QED BY <2>9, <3>1, RelayFacts
  <2>11. k \notin KeysIn(a.deferred)
    BY <2>7, <2>10 DEF Without, KeysIn, ToSet
  <2>12. k \notin KeysIn(a.pending)
    BY <2>2, <2>3, <2>4 DEF Leading
  <2>13. k = c
    BY <2>2, <2>3, <2>4, <2>11, <2>12 DEF OnceEach, Asked
  <2> QED BY <2>3, <2>6, <2>13
<1> QED BY <1>1, TypesHold, OnceHolds, PinsHold, PTL DEF Spec, SessionKeepsItsKey
-----------------------------------------------------------------------------
(* Requests asleep in the queue. *)

\* Key k is full, and for n units of time at least if its window is.
Stays(k, n) == ~Free(k) /\ (RpmFull(k) => n <= RetryIn(k))

Sleeps(r) ==
    r.stage \in {"dozing", "queued"} /\ ~r.notified /\ r.sleep > 0
    => \A c \in ToSet(r.deferred) : Stays(c.key, r.sleep)

Asleep == \A q \in Requests : Sleeps(req[q])

\* A step that changes the usage is the clock, the start of a request with a
\* free key, an edit, or wakes whoever listens.
Uses ==
    \/ UNCHANGED usage
    \/ \E k : Free(k) /\ usage' = [usage EXCEPT ![k] = Acquired(k)]
    \/ \E next : req' = Notified(next)

LEMMA ReleaseUses == ASSUME NEW q, NEW r, Release(q, r) PROVE Uses
BY DEF Release, Uses

LEMMA WhoUses ==
    ASSUME WellFormed, edits = 0, [Next]_vars PROVE Uses \/ Tick
<1>1. CASE UNCHANGED vars
  BY <1>1 DEF vars, Uses
<1>2. ASSUME NEW q \in Requests,
             \/ Resolve(q) \/ WaitForCoolingKey(q) \/ BeginRound(q) \/ EndRound(q) \/ FallAsleep(q)
             \/ Wake(q) \/ ClientGone(q) \/ Succeeds(q)
      PROVE  Uses
  BY <1>2 DEF Resolve, WaitForCoolingKey, BeginRound, EndRound, FallAsleep, Wake, ClientGone,
              Succeeds, Uses
<1>3. ASSUME NEW q \in Requests, TryKey(q) PROVE Uses
  BY <1>3 DEF TryKey, Uses
<1>4. ASSUME NEW q \in Requests,
             \/ \E class : Fails(q, class)
             \/ TransportFails(q) \/ FatalError(q) \/ ForwardEnds(q)
      PROVE  Uses
  BY <1>4, ReleaseUses DEF Fails, TransportFails, FatalError, ForwardEnds
<1>5. ASSUME NEW q \in Requests, PrepareFails(q) PROVE Uses
  BY <1>5 DEF PrepareFails, Uses
<1>6. ASSUME NEW k \in Keys, ForgetReplaced(k) \/ (\E v \in Values : ReplaceKey(k, v)) PROVE Uses
  BY <1>6 DEF WellFormed, ForgetReplaced, ReplaceKey, ReplaceText, Uses
<1>7. ASSUME NEW r \in Relays, ResetProvider(r) PROVE Uses
  BY <1>7 DEF ResetProvider, Reset, Uses
<1> QED BY <1>1, <1>2, <1>3, <1>4, <1>5, <1>6, <1>7 DEF Next, Step, Answer

LEMMA StaysFull ==
    ASSUME UsageSound, NEW k \in Keys, NEW n, Stays(k, n),
           \/ UNCHANGED usage
           \/ \E j : Free(j) /\ usage' = [usage EXCEPT ![j] = Acquired(j)]
    PROVE  Stays(k, n)'
<1>1. usage'[k] = usage[k]
  BY DEF Stays, UsageSound
<1> QED BY <1>1 DEF Stays, Free, Busy, RpmFull, RetryIn

\* The full window of a key is full until it has slid as far as RetryIn says.
LEMMA StaysFullAsTimePasses ==
    ASSUME UsageSound, NEW k \in Keys, NEW n \in Nat \ {0}, Stays(k, n + 1),
           usage' = [j \in Keys |-> Slid(usage[j])]
    PROVE  Stays(k, n)'
<1> DEFINE u   == usage[k]
           rpm == Rpm[RelayOf(k)]
<1>1. InOrder(u) /\ DOMAIN u = {"sent", "inFlight"}
  BY DEF UsageSound
<1>2. SlidTo(u, Slid(u))
  BY <1>1, SlideWindow
<1>3. PICK v : v = usage'[k] /\ SlidTo(u, v)
  BY <1>2
<1>4. PICK m \in 0 .. Len(u.sent) :
         /\ v.inFlight = u.inFlight
         /\ v.sent \in Seq(Ages) /\ Len(v.sent) = Len(u.sent) - m
         /\ \A i \in 1 .. Len(v.sent) : v.sent[i] = u.sent[i + m] + 1
         /\ \A i \in 1 .. m : u.sent[i] + 1 >= Window
  BY <1>3 DEF SlidTo
<1>5. /\ Len(u.sent) \in Nat /\ rpm \in Nat /\ Window \in Nat
      /\ \A i \in 1 .. Len(u.sent) : u.sent[i] \in Nat
  BY <1>1, LimitTypes, WindowType DEF InOrder, Ages
<1>6. Busy(k)' <=> Busy(k)
  BY <1>3, <1>4 DEF Busy
<1>7. /\ RpmFull(k) <=> rpm > 0 /\ Len(u.sent) >= rpm
      /\ RpmFull(k)' <=> rpm > 0 /\ Len(v.sent) >= rpm
      /\ RetryIn(k) = Window - u.sent[Len(u.sent) - rpm + 1]
      /\ RetryIn(k)' = Window - v.sent[Len(v.sent) - rpm + 1]
  BY <1>3 DEF RpmFull, RetryIn
<1> HIDE DEF u, rpm
<1>8. RpmFull(k)' => RpmFull(k)
  BY <1>4, <1>5, <1>7
<1>9. ASSUME RpmFull(k) PROVE RpmFull(k)' /\ n <= RetryIn(k)'
  <2>1. PICK i \in 1 .. Len(u.sent) : i = Len(u.sent) - rpm + 1
    BY <1>5, <1>7, <1>9
  <2>2. u.sent[i] + (n + 1) <= Window /\ u.sent[i] \in Nat
    <3>1. n + 1 <= RetryIn(k)
      BY <1>9 DEF Stays
    <3>2. RetryIn(k) = Window - u.sent[i]
      BY <1>7, <2>1
    <3> QED BY <1>5, <3>1, <3>2
  <2>3. m < i
    <3>1. ~(u.sent[i] + 1 >= Window)
      BY <1>5, <2>2
    <3>2. i \notin 1 .. m
      BY <1>4, <3>1
    <3> QED BY <1>4, <2>1, <3>2
  <2>4. Len(v.sent) >= rpm
    BY <1>4, <1>5, <2>1, <2>3
  <2>5. PICK j \in 1 .. Len(v.sent) : j = i - m /\ j = Len(v.sent) - rpm + 1
    <3>1. Len(v.sent) = Len(u.sent) - m /\ m \in Nat /\ rpm \in Nat \ {0}
      BY <1>4, <1>5, <1>7, <1>9
    <3>2. i - m \in 1 .. Len(v.sent) /\ i - m = Len(v.sent) - rpm + 1
      BY <1>5, <2>1, <2>3, <3>1
    <3> QED BY <3>2
  <2>6. v.sent[j] = u.sent[i] + 1
    <3>1. j + m = i
      BY <1>4, <2>5
    <3> QED BY <1>4, <3>1
  <2>7. RpmFull(k)'
    BY <1>7, <1>9, <2>4
  <2>8. RetryIn(k)' = Window - (u.sent[i] + 1)
    BY <1>7, <2>5, <2>6
  <2> QED BY <1>5, <2>2, <2>7, <2>8
<1> QED BY <1>6, <1>8, <1>9 DEF Stays, Free

LEMMA DeferredKeys ==
    ASSUME NEW r \in Request PROVE \A c \in ToSet(r.deferred) : c.key \in Keys
<1>1. r.deferred \in Seq(Candidate)
  BY DEF Request
<1>2. \A c \in ToSet(r.deferred) : c \in Candidate
  BY <1>1, SeqIsFinite
<1> QED BY <1>2 DEF Candidate

\* Whoever goes to sleep finds its keys full.
LEMMA MovesAsleep ==
    ASSUME Typed, UsageSound, Asleep, NEW q \in Requests, NEW r, Moves(q, r)
    PROVE  Sleeps(r)
<1>a. PICK a \in Request : a = req[q] /\ Sleeps(a)
  BY DEF Typed, TypeOK, Asleep
<1>b. PICK b \in Request : b = r
  BY MovesTyped
<1>1. CASE Dozes(q, r)
  <2>1. PICK left : left = Deadline(q)
    OBVIOUS
  <2>2. left \in 0 .. MaxWait
    <3>1. a.left \in NoDeadline .. MaxWait
      BY DEF Request, MaxWait
    <3> QED BY <1>a, <2>1, <3>1, WaitType DEF Deadline, NoDeadline
  <2>3. PICK n : n = SleepOf(q, left)
    OBVIOUS
  <2>4. b.sleep = n /\ b.deferred = a.deferred
    BY <1>1, <1>a, <1>b, <2>1, <2>3 DEF Dozes, Request
  <2>5. n > 0 => \A k \in {c.key : c \in ToSet(req[q].deferred)} :
                    ~Free(k) /\ (RpmFull(k) => n <= RetryIn(k))
    BY <2>2, <2>3, SleepFacts DEF Typed
  <2>6. n > 0 => \A c \in ToSet(a.deferred) : Stays(c.key, n)
    BY <1>a, <2>5 DEF Stays
  <2> QED BY <1>b, <2>4, <2>6 DEF Sleeps
<1>2. CASE Drops(q, r)
  <2>1. /\ a.stage = "dozing" /\ b.deferred = a.deferred /\ b.sleep = a.sleep
        /\ b.notified <=> a.notified
    BY <1>2, <1>a, <1>b DEF Drops, At, Request
  <2> QED BY <1>a, <1>b, <2>1 DEF Sleeps
<1>3. CASE Plans(q, r)
  <2>1. PICK turn \in [Relays -> Turns] : \E ks \in Arranged(SessionOf[q], turn) :
           ks # << >> /\ r = PlanOf(q, ks, Available = {})
    BY <1>3 DEF Plans
  <2>2. PICK ks \in Arranged(SessionOf[q], turn) : r = PlanOf(q, ks, Available = {})
    BY <2>1
  <2>3. b.stage = "round"
    BY <1>b, <2>2, PlanFacts, ArrangedFacts
  <2> QED BY <1>b, <2>3 DEF Sleeps
<1>4. CASE Waits(q, r) \/ Recovers(q, r) \/ Forwards(q, r) \/ Ends(q, r)
  <2>1. b.stage \notin {"dozing", "queued"}
    <3>1. CASE Ends(q, r)
      BY <1>b, <3>1 DEF Ends, Rest, Resting
    <3>2. CASE Waits(q, r)
      BY <1>b, <3>2 DEF Waits, Rest
    <3>3. CASE Recovers(q, r)
      BY <1>b, <3>3 DEF Recovers, Rest
    <3>4. CASE Forwards(q, r)
      BY <1>b, <3>4 DEF Forwards, Rest
    <3> QED BY <1>4, <3>1, <3>2, <3>3, <3>4
  <2> QED BY <1>b, <2>1 DEF Sleeps
<1>5. CASE \/ SleepsOn(q, r) \/ Begins(q, r) \/ Asks(q, r) \/ PutsOff(q, r)
           \/ TriesNext(q, r) \/ Wakes(q, r)
  <2>1. b.stage \in {"cooling", "trying", "asking", "round"}
    BY <1>5, <1>a, <1>b DEF SleepsOn, Begins, Asks, PutsOff, TriesNext, NextCandidate, Wakes, At,
                            Request
  <2> QED BY <1>b, <2>1 DEF Sleeps
<1> QED BY <1>1, <1>2, <1>3, <1>4, <1>5 DEF Moves

LEMMA StaysLess ==
    ASSUME UsageSound, NEW k \in Keys, NEW n \in Nat, Stays(k, n + 1) PROVE Stays(k, n)
<1> SUFFICES ASSUME RpmFull(k) PROVE n <= RetryIn(k)
  BY DEF Stays
<1>1. /\ usage[k].sent \in Seq(Ages) /\ Len(usage[k].sent) \in Nat
      /\ Rpm[RelayOf(k)] \in Nat \ {0} /\ Len(usage[k].sent) >= Rpm[RelayOf(k)]
  BY LimitTypes DEF UsageSound, InOrder, RpmFull
<1>2. Len(usage[k].sent) - Rpm[RelayOf(k)] + 1 \in 1 .. Len(usage[k].sent)
  BY <1>1
<1>3. usage[k].sent[Len(usage[k].sent) - Rpm[RelayOf(k)] + 1] \in Ages
  BY <1>1, <1>2
<1>4. RetryIn(k) \in Int
  BY <1>3, WindowType DEF RetryIn, Ages
<1> QED BY <1>4 DEF Stays

\* Older requests sleep less, and notified ones need no key to be full.
LEMMA OlderForm ==
    ASSUME NEW r \in Request
    PROVE  /\ Older(r).stage = r.stage /\ Older(r).deferred = r.deferred
           /\ (Older(r).notified <=> r.notified)
           /\ r.sleep \in Nat /\ Older(r).sleep = Max2(r.sleep - 1, 0)
           /\ [r EXCEPT !.notified = TRUE].notified
<1>1. r.sleep \in Nat
  <2>1. r.sleep \in 0 .. MaxWait
    BY DEF Request, MaxWait
  <2> QED BY <2>1, WaitType
<1> QED BY <1>1 DEF Older, Request

LEMMA AsleepKept ==
    ASSUME Typed, UsageSound, Asleep, [Next]_vars, Uses \/ Tick PROVE Asleep'
<1>0. TypeOK /\ \A q \in Requests : req[q] \in Request /\ Sleeps(req[q]) /\ req'[q] \in Request
  BY RequestsKeepType DEF Typed, TypeOK, Asleep
<1>1. ASSUME NEW next, req' = Notified(next) PROVE Asleep'
  <2> SUFFICES ASSUME NEW q \in Requests, NEW b, b = req'[q], b.stage \in {"dozing", "queued"}, ~b.notified
               PROVE  FALSE
    BY DEF Asleep, Sleeps
  <2>1. b = IF next[q].stage \in Listening THEN [next[q] EXCEPT !.notified = TRUE] ELSE next[q]
    BY <1>1 DEF Notified
  <2>2. b \in Request
    BY <1>0
  <2>3. next[q].stage \notin Listening /\ b = next[q]
    BY <2>1, <2>2 DEF Request
  <2> QED BY <2>3 DEF Listening
<1>2. CASE Tick
  <2> SUFFICES ASSUME NEW q \in Requests PROVE Sleeps(req[q])'
    BY DEF Asleep
  <2>1. PICK a \in Request : a = req[q] /\ Sleeps(a)
    BY <1>0
  <2>2. PICK b : b = req'[q] /\ b = Older(a)
    BY <1>2, <2>1 DEF Tick
  <2>3. usage' = [k \in Keys |-> Slid(usage[k])]
    BY <1>2 DEF Tick, TimePasses
  <2> SUFFICES ASSUME b.stage \in {"dozing", "queued"}, ~b.notified, b.sleep > 0,
                      NEW c \in ToSet(b.deferred)
               PROVE  Stays(c.key, b.sleep)'
    BY <2>2 DEF Sleeps
  <2>4. b.sleep \in Nat \ {0} /\ b.sleep + 1 = a.sleep
    BY <2>2, OlderForm DEF Max2
  <2>5. c.key \in Keys /\ Stays(c.key, a.sleep)
    BY <2>1, <2>2, <2>4, OlderForm, DeferredKeys DEF Sleeps
  <2>6. PICK k \in Keys, n \in Nat \ {0} : k = c.key /\ n = b.sleep
    BY <2>4, <2>5
  <2>7. Stays(k, n + 1)
    BY <2>4, <2>5, <2>6
  <2>8. Stays(k, n)'
    BY <2>3, <2>7, StaysFullAsTimePasses
  <2> QED BY <2>6, <2>8
<1>3. ASSUME \/ UNCHANGED usage
             \/ \E j : Free(j) /\ usage' = [usage EXCEPT ![j] = Acquired(j)]
      PROVE  Asleep'
  <2>1. \A k \in Keys : \A n : Stays(k, n) => Stays(k, n)'
    BY <1>3, StaysFull
  <2>2. ASSUME NEW r \in Request, Sleeps(r) PROVE \A b : b = r => Sleeps(b)'
    <3> SUFFICES ASSUME NEW b, b = r PROVE Sleeps(b)'
      OBVIOUS
    <3>1. \A c \in ToSet(b.deferred) : c.key \in Keys
      BY DeferredKeys
    <3> QED BY <2>1, <2>2, <3>1 DEF Sleeps
  <2>3. ASSUME NEW q \in Requests PROVE Sleeps(req[q])'
    <3>1. PICK a \in Request : a = req[q] /\ Sleeps(a)
      BY <1>0
    <3>2. PICK b \in Request : b = req'[q]
      BY <1>0
    <3>3. CASE b = a
      BY <2>2, <3>1, <3>2, <3>3
    <3>4. CASE b = Older(a)
      <4>1. Sleeps(b)
        <5> SUFFICES ASSUME b.stage \in {"dozing", "queued"}, ~b.notified, b.sleep > 0,
                            NEW c \in ToSet(b.deferred)
                     PROVE  Stays(c.key, b.sleep)
          BY DEF Sleeps
        <5>1. b.sleep \in Nat /\ b.sleep + 1 = a.sleep
          BY <3>4, OlderForm DEF Max2
        <5>2. c.key \in Keys /\ Stays(c.key, a.sleep)
          BY <3>1, <3>4, <5>1, OlderForm, DeferredKeys DEF Sleeps
        <5>3. PICK k \in Keys, n \in Nat : k = c.key /\ n = b.sleep
          BY <5>1, <5>2
        <5>4. Stays(k, n + 1)
          BY <5>1, <5>2, <5>3
        <5> QED BY <5>3, <5>4, StaysLess
      <4> QED BY <2>2, <3>2, <4>1
    <3>5. ASSUME NEW r \in Request, b = [r EXCEPT !.notified = TRUE] PROVE Sleeps(req[q])'
      BY <3>2, <3>5, OlderForm DEF Sleeps
    <3>6. ASSUME NEW r, Moves(q, r), b = r PROVE Sleeps(req[q])'
      BY <2>2, <3>2, <3>6, MovesAsleep
    <3>7. \/ Becomes(q, a) \/ req'[q] = Older(a)
          \/ \E r : Moves(q, r) /\ Becomes(q, r)
      BY <1>0, <3>1, OneStep
    <3> QED BY <3>1, <3>2, <3>3, <3>4, <3>5, <3>6, <3>7, MovesTyped DEF Becomes
  <2> QED BY <2>3 DEF Asleep
<1> QED BY <1>1, <1>2, <1>3 DEF Uses

LEMMA AsleepHolds == Spec => [](edits = 0 => Asleep)
<1>1. Init => (edits = 0 => Asleep)
  BY DEF Init, Asleep, Sleeps, Rest
<1>2. ASSUME IInv, Typed, edits = 0 => Asleep, [Next]_vars PROVE (edits = 0 => Asleep)'
  <2> SUFFICES ASSUME edits' = 0 PROVE Asleep'
    OBVIOUS
  <2>1. edits = 0 /\ Asleep /\ UsageSound
    BY <1>2, WhatHappensToSlots DEF IInv, Well
  <2>2. Uses \/ Tick
    BY <1>2, <2>1, WhoUses DEF IInv
  <2> QED BY <1>2, <2>1, <2>2, AsleepKept
<1> QED BY <1>1, <1>2, Invariance, TypesHold, PTL DEF Spec

\* Before the user's first edit a request sleeps in the queue only while every
\* key it waits for is full: between its look at the keys and its sleep it
\* misses no slot that is released, and it wakes when a window slides.
THEOREM NoWakeupIsLost == Spec => [](edits = 0 => NoLostWakeup)
<1>1. ASSUME Asleep PROVE NoLostWakeup
  <2> SUFFICES ASSUME NEW q \in Requests, At(q, "queued"), ~req[q].notified, req[q].sleep > 0,
                      NEW c \in ToSet(req[q].deferred)
               PROVE  ~Free(c.key)
    BY DEF NoLostWakeup
  <2> QED BY <1>1 DEF Asleep, Sleeps, Stays, At
<1> QED BY <1>1, AsleepHolds, PTL
=============================================================================
