---------------------------- MODULE AgentStoreProofs ----------------------------
(***************************************************************************)
(* What the transactions of AgentStore preserve, whatever the task list:   *)
(* their typing, and what they may do to a task.                           *)
(***************************************************************************)
EXTENDS AgentStore, FiniteSetTheorems, TLAPS

\* A task list is a function on 1 .. Len, and stays one under a pointwise map.
LEMMA MappedList ==
    ASSUME NEW S, NEW ts \in Seq(S), NEW T, NEW us \in [DOMAIN ts -> T]
    PROVE  us \in Seq(T) /\ Len(us) = Len(ts) /\ DOMAIN us = DOMAIN ts
<1>1. DOMAIN ts = 1 .. Len(ts) /\ Len(ts) \in Nat
  OBVIOUS
<1> QED BY <1>1

LEMMA UpdatedList ==
    ASSUME NEW T, NEW ts \in Seq(T), NEW i \in DOMAIN ts, NEW t \in T
    PROVE  /\ [ts EXCEPT ![i] = t] \in Seq(T)
           /\ Len([ts EXCEPT ![i] = t]) = Len(ts)
           /\ DOMAIN [ts EXCEPT ![i] = t] = DOMAIN ts
  OBVIOUS

\* A task that ends is a task.
LEMMA EndAsType ==
    ASSUME NEW t \in Task, NEW status \in Terminal, NEW notStarted \in BOOLEAN
    PROVE  EndAs(t, status, notStarted) \in Task
<1> USE StoreAssumption
<1>1. 0 \in 0 .. MaxAge /\ 0 \in Nat
  BY DEF MaxAge
<1>2. "cancelled" \in Status /\ status \in Status
  BY DEF Status, Terminal
<1> QED BY <1>1, <1>2 DEF EndAs, Task

LEMMA ExpireTaskType ==
    ASSUME NEW t \in Task, NEW live PROVE ExpireTask(t, live) \in Task
<1>1. EndAs(t, "failed", TRUE) \in Task /\ EndAs(t, "interrupted", FALSE) \in Task
  BY EndAsType DEF Terminal
<1> QED BY <1>1 DEF ExpireTask

LEMMA ExpiredType ==
    ASSUME NEW ts \in Seq(Task), NEW live
    PROVE  /\ Expired(ts, live) \in Seq(Task)
           /\ Len(Expired(ts, live)) = Len(ts)
           /\ DOMAIN Expired(ts, live) = DOMAIN ts
           /\ \A i \in DOMAIN ts : Expired(ts, live)[i] = ExpireTask(ts[i], live)
<1>1. \A i \in DOMAIN ts : ExpireTask(ts[i], live) \in Task
  BY ExpireTaskType
<1>2. Expired(ts, live) \in [DOMAIN ts -> Task]
  BY <1>1 DEF Expired
<1> QED BY <1>2, MappedList DEF Expired

\* The positions of a kind of task are finitely many.
LEMMA PositionsFinite ==
    ASSUME NEW ts \in Seq(Task), NEW P \in SUBSET DOMAIN ts
    PROVE  IsFiniteSet(P) /\ Cardinality(P) \in Nat
<1>1. IsFiniteSet(1 .. Len(ts))
  BY FS_Interval
<1>2. DOMAIN ts = 1 .. Len(ts)
  OBVIOUS
<1>3. IsFiniteSet(P)
  BY <1>1, <1>2, FS_Subset
<1> QED BY <1>3, FS_CardinalityType

LEMMA TasksAheadType ==
    ASSUME NEW ts \in Seq(Task), NEW a, NEW index, NEW limit \in Nat
    PROVE  TasksAhead(ts, a, index, limit) \in Nat
<1> DEFINE earlier == {i \in Queued(ts, a) : i < index}
           running == Cardinality(Running(ts, a) \ {index})
<1>1. earlier \in SUBSET DOMAIN ts /\ Running(ts, a) \ {index} \in SUBSET DOMAIN ts
  BY DEF Queued, Running
<1>2. Cardinality(earlier) \in Nat /\ running \in Nat
  BY <1>1, PositionsFinite
<1>3. (IF running + 1 > limit THEN running + 1 - limit ELSE 0) \in Nat
  BY <1>2
<1> QED BY <1>2, <1>3 DEF TasksAhead

LEMMA NewTaskType ==
    ASSUME NEW ts \in Seq(Task), NEW cfg \in Config, NEW a \in Agents,
           NEW session \in Session
    PROVE  NewTask(ts, cfg, a, session) \in Task
<1>1. ConcurrencyLimit(cfg, a) \in Nat
  BY DEF ConcurrencyLimit, Config, AgentConfig
<1>2. TasksAhead(ts, a, Len(ts) + 1, ConcurrencyLimit(cfg, a)) \in Nat
  BY <1>1, TasksAheadType
<1>3. 0 \in 0 .. MaxAge /\ "queued" \in Status
  BY StoreAssumption DEF MaxAge, Status
<1> QED BY <1>2, <1>3 DEF NewTask, Task

\* What poll_queue answers when the answer is "start": nobody queued before
\* the task, and room for one more under the limit.
LEMMA NothingAhead ==
    ASSUME NEW ts \in Seq(Task), NEW a, NEW index, NEW limit \in Nat,
           TasksAhead(ts, a, index, limit) = 0
    PROVE  /\ \A i \in Queued(ts, a) : ~(i < index)
           /\ Cardinality(Running(ts, a) \ {index}) + 1 <= limit
<1> DEFINE earlier == {i \in Queued(ts, a) : i < index}
           running == Cardinality(Running(ts, a) \ {index})
           excess  == IF running + 1 > limit THEN running + 1 - limit ELSE 0
<1>1. earlier \in SUBSET DOMAIN ts /\ Running(ts, a) \ {index} \in SUBSET DOMAIN ts
  BY DEF Queued, Running
<1>2. IsFiniteSet(earlier) /\ Cardinality(earlier) \in Nat /\ running \in Nat
  BY <1>1, PositionsFinite
<1>3. Cardinality(earlier) + excess = 0
  BY DEF TasksAhead
<1>4. Cardinality(earlier) = 0 /\ running + 1 <= limit
  <2> HIDE DEF earlier, running
  <2> QED BY <1>2, <1>3
<1>5. earlier = {}
  BY <1>2, <1>4, FS_EmptySet
<1> QED BY <1>4, <1>5

-----------------------------------------------------------------------------
(* What a transaction may do to a task. *)

\* A task that says it was not started has ended, and a cancelled one that
\* ended was recorded as cancelled.
TaskInv(t) ==
    /\ t.notStarted => Ended(t)
    /\ t.cancelRequested /\ Ended(t) => t.status = "cancelled"

\* What any transaction may do to a task it is not the worker of.
Bystander(t, u) ==
    /\ Ended(t) => u = t
    /\ t.status = "running" => /\ u.status \in {"running", "cancelled", "interrupted"}
                               /\ u.notStarted => t.notStarted
    /\ t.status = "queued" => u.status \in {"queued", "cancelled", "failed"}
    /\ TaskInv(t) => TaskInv(u)
    /\ u.agent = t.agent /\ u.session = t.session

\* What the worker of a task may do to it, besides claiming it.
OwnStep(t, u) ==
    /\ Ended(t) => u = t
    /\ t.status = "running" => u.status # "queued"
    /\ TaskInv(t) => TaskInv(u)
    /\ u.agent = t.agent /\ (~Ended(u) => u.session = t.session)

LEMMA BystanderReflexive ==
    ASSUME NEW t \in Task PROVE Bystander(t, t)
  BY DEF Bystander, Task, Status, Ended

LEMMA BystanderTransitive ==
    ASSUME NEW t \in Task, NEW u \in Task, NEW v,
           Bystander(t, u), Bystander(u, v)
    PROVE  Bystander(t, v)
<1>1. t.status \in {"queued", "running"} \/ Ended(t)
  BY DEF Task, Status, Ended
<1>2. CASE Ended(t)
  BY <1>2 DEF Bystander
<1>3. CASE t.status = "running"
  <2>1. u.status = "running" \/ Ended(u)
    BY <1>3 DEF Bystander, Ended, Terminal
  <2> QED BY <1>3, <2>1 DEF Bystander, Ended, Terminal
<1>4. CASE t.status = "queued"
  <2>1. u.status = "queued" \/ Ended(u)
    BY <1>4 DEF Bystander, Ended, Terminal
  <2> QED BY <1>4, <2>1 DEF Bystander, Ended, Terminal
<1> QED BY <1>1, <1>2, <1>3, <1>4

LEMMA BystanderIsOwnStep ==
    ASSUME NEW t \in Task, NEW u, Bystander(t, u)
    PROVE  OwnStep(t, u)
  BY DEF Bystander, OwnStep

LEMMA OwnStepTransitive ==
    ASSUME NEW t \in Task, NEW u \in Task, NEW v,
           OwnStep(t, u), OwnStep(u, v)
    PROVE  OwnStep(t, v)
<1>1. u.status \in {"queued", "running"} \/ Ended(u)
  BY DEF Task, Status, Ended
<1>2. Ended(u) => v = u
  BY DEF OwnStep
<1> QED BY <1>1, <1>2 DEF OwnStep

\* Ending a task gives the record the invariant asks for.
LEMMA EndAsStep ==
    ASSUME NEW t \in Task, NEW status \in Terminal, NEW notStarted \in BOOLEAN
    PROVE  LET u == EndAs(t, status, notStarted) IN
           /\ Ended(u)
           /\ TaskInv(u)
           /\ u.status \in {status, "cancelled"}
           /\ u.notStarted = notStarted
           /\ u.agent = t.agent /\ u.session = t.session
           /\ u.cancelRequested = t.cancelRequested
  BY DEF EndAs, Task, TaskInv, Ended, Terminal

LEMMA ExpireTaskStep ==
    ASSUME NEW t \in Task, NEW live
    PROVE  Bystander(t, ExpireTask(t, live))
<1>1. CASE ~Abandoned(t, live)
  BY <1>1, BystanderReflexive DEF ExpireTask
<1>2. CASE Abandoned(t, live) /\ t.status = "queued"
  <2> DEFINE u == EndAs(t, "failed", TRUE)
  <2>1. ExpireTask(t, live) = u
    BY <1>2 DEF ExpireTask
  <2>2. "failed" \in Terminal /\ ~Ended(t)
    BY <1>2 DEF Terminal, Ended
  <2>3. /\ TaskInv(u) /\ u.status \in {"failed", "cancelled"}
        /\ u.agent = t.agent /\ u.session = t.session
    BY <2>2, EndAsStep
  <2> QED BY <1>2, <2>1, <2>2, <2>3 DEF Bystander
<1>3. CASE Abandoned(t, live) /\ t.status = "running"
  <2> DEFINE u == EndAs(t, "interrupted", FALSE)
  <2>1. ExpireTask(t, live) = u
    BY <1>3 DEF ExpireTask
  <2>2. "interrupted" \in Terminal /\ ~Ended(t)
    BY <1>3 DEF Terminal, Ended
  <2>3. /\ TaskInv(u) /\ u.status \in {"interrupted", "cancelled"}
        /\ u.notStarted = FALSE
        /\ u.agent = t.agent /\ u.session = t.session
    BY <2>2, EndAsStep
  <2> QED BY <1>3, <2>1, <2>2, <2>3 DEF Bystander
<1>4. Abandoned(t, live) => t.status \in {"queued", "running"}
  BY DEF Abandoned
<1> QED BY <1>1, <1>2, <1>3, <1>4

LEMMA StopRequestedStep ==
    ASSUME NEW t \in Task
    PROVE  StopRequested(t) \in Task /\ Bystander(t, StopRequested(t))
<1> DEFINE asked == [t EXCEPT !.cancelRequested = TRUE, !.age = 0]
           u     == EndAs(asked, "cancelled", TRUE)
<1>1. asked \in Task
  <2>1. 0 \in 0 .. MaxAge
    BY StoreAssumption DEF MaxAge
  <2> QED BY <2>1 DEF Task
<1>2. CASE Ended(t)
  <2>1. StopRequested(t) = t
    BY <1>2 DEF StopRequested, Ended, Terminal
  <2> QED BY <2>1, BystanderReflexive
<1>3. CASE t.status = "queued"
  <2>1. StopRequested(t) = u /\ ~Ended(t)
    BY <1>3 DEF StopRequested, Ended, Terminal
  <2>2. "cancelled" \in Terminal
    BY DEF Terminal
  <2>3. u \in Task
    BY <1>1, <2>2, EndAsType
  <2>4. TaskInv(u) /\ u.status = "cancelled" /\ u.agent = asked.agent
        /\ u.session = asked.session
    BY <1>1, <2>2, EndAsStep
  <2>5. u.agent = t.agent /\ u.session = t.session
    BY <2>4 DEF Task
  <2> HIDE DEF u
  <2> QED BY <1>3, <2>1, <2>3, <2>4, <2>5 DEF Bystander
<1>4. CASE t.status = "running"
  <2>1. StopRequested(t) = asked /\ ~Ended(t)
    BY <1>4 DEF StopRequested, Ended, Terminal
  <2>2. TaskInv(t) => TaskInv(asked)
    BY <1>4 DEF TaskInv, Task, Ended, Terminal
  <2> QED BY <1>1, <1>4, <2>1, <2>2 DEF Bystander, Task
<1> QED BY <1>2, <1>3, <1>4 DEF Task, Status, Ended

\* Touching, aging and waiting change nothing a bystander may not.
LEMMA SameRecordStep ==
    ASSUME NEW t \in Task, NEW ahead \in Nat, NEW age \in 0 .. MaxAge,
           NEW owner \in Processes \cup {NoOwner}, ~Ended(t)
    PROVE  LET u == [t EXCEPT !.owner = owner, !.ahead = ahead, !.age = age]
           IN  u \in Task /\ Bystander(t, u)
<1> DEFINE u == [t EXCEPT !.owner = owner, !.ahead = ahead, !.age = age]
<1>1. u \in Task
  BY DEF Task
<1>2. /\ u.status = t.status /\ u.notStarted = t.notStarted
      /\ u.cancelRequested = t.cancelRequested
      /\ u.agent = t.agent /\ u.session = t.session
  BY DEF Task
<1> HIDE DEF u
<1>3. Bystander(t, u)
  BY <1>2 DEF Bystander, TaskInv, Ended
<1> QED BY <1>1, <1>3 DEF u

-----------------------------------------------------------------------------
(* What a transaction does to the list. *)

\* Nobody's worker acted: every task saw at most what a bystander may do.
Quiet(ts, us) ==
    /\ us \in Seq(Task)
    /\ Len(us) = Len(ts)
    /\ DOMAIN us = DOMAIN ts
    /\ \A i \in DOMAIN ts : Bystander(ts[i], us[i])

\* The worker of task own acted.
QuietBut(own, ts, us) ==
    /\ us \in Seq(Task)
    /\ Len(us) = Len(ts)
    /\ DOMAIN us = DOMAIN ts
    /\ \A i \in DOMAIN ts \ {own} : Bystander(ts[i], us[i])
    /\ own \in DOMAIN ts => OwnStep(ts[own], us[own])

LEMMA QuietReflexive ==
    ASSUME NEW ts \in Seq(Task) PROVE Quiet(ts, ts)
<1>1. \A i \in DOMAIN ts : ts[i] \in Task
  OBVIOUS
<1> QED BY <1>1, BystanderReflexive DEF Quiet

LEMMA QuietTransitive ==
    ASSUME NEW ts \in Seq(Task), NEW us \in Seq(Task), NEW vs,
           Quiet(ts, us), Quiet(us, vs)
    PROVE  Quiet(ts, vs)
<1>1. ASSUME NEW i \in DOMAIN ts PROVE Bystander(ts[i], vs[i])
  <2>1. i \in DOMAIN us /\ ts[i] \in Task /\ us[i] \in Task
    BY DEF Quiet
  <2>2. Bystander(ts[i], us[i]) /\ Bystander(us[i], vs[i])
    BY <2>1 DEF Quiet
  <2> QED BY <2>1, <2>2, BystanderTransitive
<1> QED BY <1>1 DEF Quiet

LEMMA QuietThenBut ==
    ASSUME NEW ts \in Seq(Task), NEW us \in Seq(Task), NEW vs, NEW own,
           Quiet(ts, us), QuietBut(own, us, vs)
    PROVE  QuietBut(own, ts, vs)
<1>1. ASSUME NEW i \in DOMAIN ts \ {own} PROVE Bystander(ts[i], vs[i])
  <2>1. i \in DOMAIN us /\ ts[i] \in Task /\ us[i] \in Task
    BY DEF Quiet
  <2>2. Bystander(ts[i], us[i]) /\ Bystander(us[i], vs[i])
    BY <2>1 DEF Quiet, QuietBut
  <2> QED BY <2>1, <2>2, BystanderTransitive
<1>2. ASSUME own \in DOMAIN ts PROVE OwnStep(ts[own], vs[own])
  <2>1. own \in DOMAIN us /\ ts[own] \in Task /\ us[own] \in Task
    BY <1>2 DEF Quiet
  <2>2. OwnStep(ts[own], us[own]) /\ OwnStep(us[own], vs[own])
    BY <2>1, <1>2, BystanderIsOwnStep DEF Quiet, QuietBut
  <2> QED BY <2>1, <2>2, OwnStepTransitive
<1> QED BY <1>1, <1>2 DEF Quiet, QuietBut

LEMMA QuietIsQuietBut ==
    ASSUME NEW ts \in Seq(Task), NEW us, NEW own, Quiet(ts, us)
    PROVE  QuietBut(own, ts, us)
<1>1. \A i \in DOMAIN ts : ts[i] \in Task
  OBVIOUS
<1> QED BY <1>1, BystanderIsOwnStep DEF Quiet, QuietBut

\* One task changed as a bystander may change it.
LEMMA QuietUpdate ==
    ASSUME NEW ts \in Seq(Task), NEW i \in DOMAIN ts, NEW t \in Task,
           Bystander(ts[i], t)
    PROVE  Quiet(ts, [ts EXCEPT ![i] = t])
<1> DEFINE us == [ts EXCEPT ![i] = t]
<1>1. us \in Seq(Task) /\ Len(us) = Len(ts) /\ DOMAIN us = DOMAIN ts
  BY UpdatedList
<1>2. ASSUME NEW j \in DOMAIN ts PROVE Bystander(ts[j], us[j])
  <2>1. ts[j] \in Task
    OBVIOUS
  <2>2. CASE j = i
    BY <2>2
  <2>3. CASE j # i
    BY <2>1, <2>3, BystanderReflexive
  <2> QED BY <2>2, <2>3
<1> QED BY <1>1, <1>2 DEF Quiet

LEMMA QuietButUpdate ==
    ASSUME NEW ts \in Seq(Task), NEW i \in DOMAIN ts, NEW t \in Task,
           OwnStep(ts[i], t)
    PROVE  QuietBut(i, ts, [ts EXCEPT ![i] = t])
<1> DEFINE us == [ts EXCEPT ![i] = t]
<1>1. us \in Seq(Task) /\ Len(us) = Len(ts) /\ DOMAIN us = DOMAIN ts
  BY UpdatedList
<1>2. ASSUME NEW j \in DOMAIN ts \ {i} PROVE Bystander(ts[j], us[j])
  BY BystanderReflexive
<1> QED BY <1>1, <1>2 DEF QuietBut

\* Every task changed as a bystander may change it.
LEMMA QuietMap ==
    ASSUME NEW ts \in Seq(Task), NEW us \in [DOMAIN ts -> Task],
           \A i \in DOMAIN ts : Bystander(ts[i], us[i])
    PROVE  Quiet(ts, us)
<1>1. us \in Seq(Task) /\ Len(us) = Len(ts) /\ DOMAIN us = DOMAIN ts
  BY MappedList
<1> QED BY <1>1 DEF Quiet

-----------------------------------------------------------------------------
(* The transactions one by one. *)

LEMMA ExpiredQuiet ==
    ASSUME NEW ts \in Seq(Task), NEW live PROVE Quiet(ts, Expired(ts, live))
<1>1. \A i \in DOMAIN ts : ts[i] \in Task
  OBVIOUS
<1> QED BY <1>1, ExpiredType, ExpireTaskStep DEF Quiet

LEMMA CancelledQuiet ==
    ASSUME NEW ts \in Seq(Task), NEW i \in DOMAIN ts
    PROVE  Quiet(ts, Cancelled(ts, i))
<1>1. ts[i] \in Task
  OBVIOUS
<1> QED BY <1>1, StopRequestedStep, QuietUpdate DEF Cancelled

LEMMA ConfigSavedQuiet ==
    ASSUME NEW ts \in Seq(Task), NEW cfg PROVE Quiet(ts, ConfigSaved(ts, cfg))
<1> DEFINE us == ConfigSaved(ts, cfg)
<1>1. us = [i \in DOMAIN ts |-> us[i]]
  BY DEF ConfigSaved
<1>2. ASSUME NEW i \in DOMAIN ts PROVE us[i] \in Task /\ Bystander(ts[i], us[i])
  <2>1. ts[i] \in Task
    OBVIOUS
  <2>2. us[i] = ts[i] \/ us[i] = StopRequested(ts[i])
    BY DEF ConfigSaved
  <2> QED BY <2>1, <2>2, StopRequestedStep, BystanderReflexive
<1>3. us \in [DOMAIN ts -> Task]
  <2> HIDE DEF us
  <2> QED BY <1>1, <1>2
<1> QED BY <1>2, <1>3, QuietMap

LEMMA TouchedQuiet ==
    ASSUME NEW ts \in Seq(Task), NEW i \in DOMAIN ts
    PROVE  Quiet(ts, Touched(ts, i))
<1>1. CASE Ended(ts[i])
  BY <1>1, QuietReflexive DEF Touched
<1>2. CASE ~Ended(ts[i])
  <2> DEFINE t == ts[i]
             u == [t EXCEPT !.owner = t.owner, !.ahead = t.ahead, !.age = 0]
  <2>1. t \in Task
    OBVIOUS
  <2>2. 0 \in 0 .. MaxAge
    BY StoreAssumption DEF MaxAge
  <2>3. t.owner \in Processes \cup {NoOwner} /\ t.ahead \in Nat
    BY <2>1 DEF Task
  <2>4. u \in Task /\ Bystander(t, u)
    BY <1>2, <2>1, <2>2, <2>3, SameRecordStep
  <2>5. [t EXCEPT !.age = 0] = u
    BY <2>1 DEF Task
  <2>6. Touched(ts, i) = [ts EXCEPT ![i] = u]
    BY <1>2, <2>5 DEF Touched
  <2> HIDE DEF u
  <2> QED BY <2>4, <2>6, QuietUpdate
<1> QED BY <1>1, <1>2

LEMMA AgedQuiet ==
    ASSUME NEW ts \in Seq(Task) PROVE Quiet(ts, Aged(ts))
<1> DEFINE us == Aged(ts)
<1>1. us = [i \in DOMAIN ts |-> us[i]]
  BY DEF Aged
<1>2. ASSUME NEW i \in DOMAIN ts PROVE us[i] \in Task /\ Bystander(ts[i], us[i])
  <2> DEFINE t == ts[i]
             u == [t EXCEPT !.owner = t.owner, !.ahead = t.ahead, !.age = t.age + 1]
  <2>0. t \in Task
    OBVIOUS
  <2>1. t \in Task /\ t.owner \in Processes \cup {NoOwner} /\ t.ahead \in Nat
        /\ t.age \in 0 .. MaxAge
    BY <2>0 DEF Task
  <2>2. CASE Ended(t) \/ t.age = MaxAge
    BY <2>1, <2>2, BystanderReflexive DEF Aged
  <2>3. CASE ~Ended(t) /\ t.age # MaxAge
    <3>1. t.age + 1 \in 0 .. MaxAge
      BY <2>1, <2>3, StoreAssumption DEF MaxAge
    <3>2. u \in Task /\ Bystander(t, u)
      BY <2>1, <2>3, <3>1, SameRecordStep
    <3>3. us[i] = [t EXCEPT !.age = t.age + 1]
      BY <2>3 DEF Aged
    <3>4. [t EXCEPT !.age = t.age + 1] = u
      BY <2>1 DEF Task
    <3> QED BY <3>2, <3>3, <3>4
  <2> QED BY <2>2, <2>3
<1>3. us \in [DOMAIN ts -> Task]
  <2> HIDE DEF us
  <2> QED BY <1>1, <1>2
<1> QED BY <1>2, <1>3, QuietMap

LEMMA StillQueuedQuiet ==
    ASSUME NEW ts \in Seq(Task), NEW cfg \in Config, NEW i \in DOMAIN ts,
           NEW owner \in Processes \cup {NoOwner}, ts[i].status = "queued"
    PROVE  Quiet(ts, StillQueued(ts, cfg, i, owner))
<1> DEFINE t     == ts[i]
           ahead == AheadOf(ts, cfg, i)
           age   == IF QueueWaitIsCurrent(t, ahead) THEN t.age ELSE 0
           u     == [t EXCEPT !.owner = owner, !.ahead = ahead, !.age = age]
<1>0. t \in Task
  OBVIOUS
<1>1. t \in Task /\ t.agent \in Agents /\ t.age \in 0 .. MaxAge
  BY <1>0 DEF Task
<1>2. ~Ended(t)
  BY DEF Ended, Terminal
<1>3. ConcurrencyLimit(cfg, t.agent) \in Nat
  BY <1>1 DEF ConcurrencyLimit, Config, AgentConfig
<1>4. ahead \in Nat
  BY <1>3, TasksAheadType DEF AheadOf
<1>5. age \in 0 .. MaxAge
  BY <1>1, StoreAssumption DEF MaxAge
<1>6. u \in Task /\ Bystander(t, u)
  <2> HIDE DEF ahead, age
  <2> QED BY <1>1, <1>2, <1>4, <1>5, SameRecordStep
<1>7. StillQueued(ts, cfg, i, owner) = [ts EXCEPT ![i] = u]
  BY DEF StillQueued
<1> HIDE DEF u
<1> QED BY <1>6, <1>7, QuietUpdate

LEMMA ClaimedStep ==
    ASSUME NEW ts \in Seq(Task), NEW i \in DOMAIN ts, ts[i].status = "queued"
    PROVE  /\ QuietBut(i, ts, Claimed(ts, i))
           /\ Claimed(ts, i)[i].status = "running"
           /\ Claimed(ts, i)[i].notStarted = ts[i].notStarted
           /\ Claimed(ts, i)[i].session = ts[i].session
<1> DEFINE t == ts[i]
           u == [t EXCEPT !.status = "running", !.ahead = 0, !.age = 0, !.owner = NoOwner]
<1>1. t \in Task /\ 0 \in 0 .. MaxAge
  BY StoreAssumption DEF MaxAge
<1>2. u \in Task /\ u.status = "running" /\ u.notStarted = t.notStarted
      /\ u.session = t.session
  BY <1>1 DEF Task, Status
<1>3. TaskInv(t) => TaskInv(u)
  BY <1>1 DEF TaskInv, Ended, Terminal, Task
<1>4. OwnStep(t, u)
  BY <1>1, <1>3 DEF OwnStep, Ended, Terminal
<1>5. Claimed(ts, i) = [ts EXCEPT ![i] = u]
  BY DEF Claimed
<1> HIDE DEF u
<1> QED BY <1>2, <1>4, <1>5, QuietButUpdate

LEMMA AbandonedBeforeLaunchStep ==
    ASSUME NEW ts \in Seq(Task), NEW i \in DOMAIN ts, NEW includeClaimed \in BOOLEAN
    PROVE  LET us == AbandonedBeforeLaunch(ts, i, includeClaimed) IN
           /\ QuietBut(i, ts, us)
           /\ ~includeClaimed => Quiet(ts, us)
           /\ us = ts \/ Ended(us[i])
           /\ us[i].session = ts[i].session
<1> DEFINE t  == ts[i]
           u  == EndAs(t, "failed", TRUE)
           us == AbandonedBeforeLaunch(ts, i, includeClaimed)
<1>1. t \in Task /\ "failed" \in Terminal
  BY DEF Terminal
<1>2. u \in Task /\ TaskInv(u) /\ u.status \in {"failed", "cancelled"}
      /\ Ended(u) /\ u.agent = t.agent /\ u.session = t.session
  BY <1>1, EndAsType, EndAsStep
<1>3. CASE ~MayAbandon(t, includeClaimed)
  <2>1. us = ts
    BY <1>3 DEF AbandonedBeforeLaunch
  <2> QED BY <2>1, QuietReflexive, QuietIsQuietBut
<1>4. CASE MayAbandon(t, includeClaimed)
  <2>1. us = [ts EXCEPT ![i] = u]
    BY <1>4 DEF AbandonedBeforeLaunch
  <2>2. ~Ended(t)
    BY <1>4 DEF MayAbandon, Ended, Terminal
  <2> HIDE DEF u, us
  <2>3. OwnStep(t, u)
    BY <1>2, <2>2 DEF OwnStep
  <2>4. QuietBut(i, ts, us)
    BY <1>2, <2>1, <2>3, QuietButUpdate
  <2>5. ASSUME ~includeClaimed PROVE Quiet(ts, us)
    <3>1. t.status = "queued"
      BY <1>4, <2>5 DEF MayAbandon
    <3>2. Bystander(t, u)
      BY <1>2, <2>2, <3>1 DEF Bystander
    <3> QED BY <1>2, <2>1, <3>2, QuietUpdate
  <2> QED BY <1>2, <2>1, <2>4, <2>5 DEF us
<1> QED BY <1>3, <1>4

LEMMA FinishedStep ==
    ASSUME NEW ts \in Seq(Task), NEW i \in DOMAIN ts,
           NEW status \in Terminal, NEW session \in Session
    PROVE  LET us == Finished(ts, i, status, session) IN
           /\ QuietBut(i, ts, us)
           /\ Ended(us[i])
           /\ us[i].notStarted => ts[i].notStarted
           /\ us[i].session \in {ts[i].session, session}
           /\ session = NoSession => us[i].session = ts[i].session
<1> DEFINE t  == ts[i]
           e  == EndAs(t, status, FALSE)
           u  == WithSession(e, session)
           us == Finished(ts, i, status, session)
<1>1. t \in Task
  OBVIOUS
<1>2. CASE Ended(t)
  <2>1. us = ts
    BY <1>2 DEF Finished
  <2> QED BY <1>2, <2>1, QuietReflexive, QuietIsQuietBut
<1>3. CASE ~Ended(t)
  <2>1. /\ e \in Task /\ Ended(e) /\ TaskInv(e) /\ e.notStarted = FALSE
        /\ e.agent = t.agent /\ e.session = t.session
    BY <1>1, EndAsType, EndAsStep
  <2>2. us = [ts EXCEPT ![i] = u]
    BY <1>3 DEF Finished
  <2> HIDE DEF e, us
  <2>3. /\ u \in Task /\ u.status = e.status /\ u.notStarted = e.notStarted
        /\ u.cancelRequested = e.cancelRequested /\ u.agent = e.agent
        /\ u.session \in {e.session, session}
        /\ session = NoSession => u.session = e.session
    BY <2>1 DEF Task, WithSession
  <2> HIDE DEF u
  <2>4. Ended(u) /\ TaskInv(u)
    BY <2>1, <2>3 DEF Ended, TaskInv
  <2>5. t.status = "running" => u.status # "queued"
    BY <2>4 DEF Ended, Terminal
  <2>6. OwnStep(t, u)
    BY <1>3, <2>1, <2>3, <2>4, <2>5 DEF OwnStep
  <2>7. QuietBut(i, ts, us) /\ us[i] = u
    BY <2>2, <2>3, <2>6, QuietButUpdate
  <2> QED BY <2>1, <2>3, <2>4, <2>7 DEF us
<1> QED BY <1>2, <1>3
=============================================================================
