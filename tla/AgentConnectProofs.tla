--------------------------- MODULE AgentConnectProofs ---------------------------
(***************************************************************************)
(* Theorems about AgentConnect for every set of threads, files, keys,      *)
(* versions and choices, and every number of edits and faults.             *)
(*                                                                         *)
(* The argument.  As long as no restoration meets a rewriting, an archive  *)
(* has a record of every file, and each record is true (TrueOfAll): the    *)
(* file's address of before and the user's value of every key that the     *)
(* gateway writes, whoever among the threads wrote it last and however old *)
(* what it had read was.  So every file that is about to be rewritten is   *)
(* in the archive that is about to be written or in the one that is there  *)
(* (RewritingIsArchived), and what a restoration has already put back      *)
(* stays right until the archive goes (RestoringIsTrue).                   *)
(***************************************************************************)
EXTENDS AgentConnect, TLAPS

LEMMA PartialFacts ==
    ASSUME NEW fn, NEW S, IsPartial(fn, S)
    PROVE  DOMAIN fn \subseteq Files /\ (\A f \in DOMAIN fn : fn[f] \in S)
BY DEF IsPartial

LEMMA PartialFromFacts ==
    ASSUME NEW fn, NEW D \in SUBSET Files, NEW S, fn \in [D -> S]
    PROVE  IsPartial(fn, S) /\ DOMAIN fn = D
BY DEF IsPartial

LEMMA RestrictPartial ==
    ASSUME NEW fn, NEW S, IsPartial(fn, S), NEW f
    PROVE  /\ IsPartial(Restrict(fn, DOMAIN fn \ {f}), S)
           /\ DOMAIN Restrict(fn, DOMAIN fn \ {f}) = DOMAIN fn \ {f}
           /\ \A g \in DOMAIN fn \ {f} : Restrict(fn, DOMAIN fn \ {f})[g] = fn[g]
<1> DEFINE r == Restrict(fn, DOMAIN fn \ {f})
<1>1. DOMAIN fn \subseteq Files /\ \A g \in DOMAIN fn : fn[g] \in S
  BY PartialFacts
<1>2. r = [g \in DOMAIN fn \ {f} |-> fn[g]]
  BY DEF Restrict
<1>3. r \in [DOMAIN fn \ {f} -> S]
  BY <1>1, <1>2
<1>4. IsPartial(r, S)
  BY <1>1, <1>3, PartialFromFacts
<1> QED BY <1>2, <1>4

LEMMA NothingPartial == ASSUME NEW S PROVE IsPartial(Nothing, S) /\ DOMAIN Nothing = {}
<1>1. Nothing \in [{} -> S]
  BY DEF Nothing
<1> QED BY <1>1, PartialFromFacts

\* An archive of no file is deleted.
LEMMA EmptyIsNothing ==
    ASSUME NEW fn, NEW S, IsPartial(fn, S), DOMAIN fn = {} PROVE fn = Nothing
BY DEF IsPartial, Nothing
-----------------------------------------------------------------------------
(* Types. *)

LEMMA KeyFacts ==
    /\ ConfigFile \in Files /\ Managed \subseteq Keys /\ Url \in Managed /\ Url \in Keys
    /\ MaxEdits \in Nat /\ MaxFaults \in Nat
BY ConnectAssumption

LEMMA ValuesDiffer ==
    /\ \A v, c : Gateway(v) # Chosen(c)
    /\ Gateway(0) \in Value
    /\ \A v \in Versions : Gateway(v) \in Value
    /\ \A c \in Choices : Chosen(c) \in Value
BY DEF Gateway, Chosen, Value

LEMMA OpTypes ==
    /\ IsOp(NoOp) /\ NoOp.kind = "none" /\ NoOp.stage = "idle"
    /\ NoOp.plan = Nothing /\ NoOp.saved = Nothing
BY NothingPartial DEF IsOp, NoOp, Kind, Stage

\* An operation with some of its parts replaced.
LEMMA OpParts ==
    ASSUME NEW o, IsOp(o), NEW kind \in Kind, NEW stage \in Stage,
           NEW plan, IsPartial(plan, Change), NEW saved, IsPartial(saved, Record)
    PROVE  /\ IsOp([o EXCEPT !.plan = plan])
           /\ IsOp([o EXCEPT !.saved = saved])
           /\ IsOp([o EXCEPT !.stage = stage])
           /\ IsOp([o EXCEPT !.stage = stage, !.plan = plan])
           /\ IsOp([o EXCEPT !.stage = stage, !.saved = saved])
           /\ IsOp([o EXCEPT !.kind = kind, !.stage = stage])
<1> DEFINE Ops == [kind : Kind, stage : Stage, plan : {p \in {o.plan, plan} : IsPartial(p, Change)},
                  saved : {s \in {o.saved, saved} : IsPartial(s, Record)}]
<1>1. o \in Ops
  BY DEF IsOp
<1>2. ASSUME NEW new \in Ops PROVE IsOp(new)
  BY <1>2 DEF IsOp
<1>3. plan \in {p \in {o.plan, plan} : IsPartial(p, Change)}
  OBVIOUS
<1>4. saved \in {s \in {o.saved, saved} : IsPartial(s, Record)}
  OBVIOUS
<1>5. /\ [o EXCEPT !.plan = plan] \in Ops
      /\ [o EXCEPT !.saved = saved] \in Ops
      /\ [o EXCEPT !.stage = stage] \in Ops
  BY <1>1, <1>3, <1>4
<1>6. /\ [o EXCEPT !.stage = stage, !.plan = plan] \in Ops
      /\ [o EXCEPT !.stage = stage, !.saved = saved] \in Ops
      /\ [o EXCEPT !.kind = kind, !.stage = stage] \in Ops
  BY <1>1, <1>3, <1>4
<1> QED BY <1>2, <1>5, <1>6

\* The same, for one change.
LEMMA OpStage ==
    ASSUME NEW o, IsOp(o), NEW stage \in Stage
    PROVE  IsOp([o EXCEPT !.stage = stage])
<1>1. IsPartial(o.plan, Change) /\ IsPartial(o.saved, Record) /\ o.kind \in Kind
  BY DEF IsOp
<1> QED BY <1>1, OpParts

LEMMA OpPlan ==
    ASSUME NEW o, IsOp(o), NEW stage \in Stage, NEW plan, IsPartial(plan, Change)
    PROVE  IsOp([o EXCEPT !.plan = plan]) /\ IsOp([o EXCEPT !.stage = stage, !.plan = plan])
<1>1. IsPartial(o.saved, Record) /\ o.kind \in Kind
  BY DEF IsOp
<1> QED BY <1>1, OpParts

LEMMA OpSaved ==
    ASSUME NEW o, IsOp(o), NEW stage \in Stage, NEW saved, IsPartial(saved, Record)
    PROVE  IsOp([o EXCEPT !.saved = saved]) /\ IsOp([o EXCEPT !.stage = stage, !.saved = saved])
<1>1. IsPartial(o.plan, Change) /\ o.kind \in Kind
  BY DEF IsOp
<1> QED BY <1>1, OpParts

LEMMA BecomeType ==
    ASSUME TypeOK, NEW t \in Threads, NEW new, IsOp(new), Become(t, new)
    PROVE  /\ DOMAIN op' = Threads /\ \A u \in Threads : IsOp(op'[u])
           /\ op'[t] = new /\ \A u \in Threads \ {t} : op'[u] = op[u]
BY DEF TypeOK, Become

\* What the variables are, file by file.
LEMMA Parts ==
    ASSUME TypeOK
    PROVE  /\ live \in [Files -> Content] /\ home \in [Files -> Content]
           /\ DOMAIN stash \subseteq Files
           /\ \A f \in DOMAIN stash : stash[f] \in Record
           /\ \A t \in Threads :
                 /\ IsOp(op[t])
                 /\ IsPartial(op[t].plan, Change) /\ IsPartial(op[t].saved, Record)
                 /\ DOMAIN op[t].plan \subseteq Files /\ DOMAIN op[t].saved \subseteq Files
                 /\ \A f \in DOMAIN op[t].plan : op[t].plan[f] \in Change
                 /\ \A f \in DOMAIN op[t].saved : op[t].saved[f] \in Record
<1>1. \A t \in Threads : IsPartial(op[t].plan, Change) /\ IsPartial(op[t].saved, Record)
  BY DEF TypeOK, IsOp
<1> QED BY <1>1, PartialFacts DEF TypeOK

\* What is written into a file.
LEMMA WiredFacts ==
    ASSUME TypeOK, NEW f \in Files
    PROVE  /\ [before |-> live[f], after |-> Wired(f)] \in Change
           /\ Wired(f)[Url] = Gateway(0)
           /\ \A k \in Managed \ {Url} : Wired(f)[k] = Gateway(pool)
           /\ \A k \in Keys \ Managed : Wired(f)[k] = live[f][k]
<1>1. live[f] \in Content /\ pool \in Versions
  BY DEF TypeOK
<1>2. \A k \in Keys : live[f][k] \in Value
  BY <1>1 DEF Content
<1> DEFINE V(k) == IF k = Url THEN Gateway(0) ELSE IF k \in Managed THEN Gateway(pool) ELSE live[f][k]
<1>3. Wired(f) = [k \in Keys |-> V(k)]
  BY DEF Wired
<1>4. \A k \in Keys : V(k) \in Value
  BY <1>1, <1>2, ValuesDiffer
<1>5. Wired(f) \in Content
  BY <1>3, <1>4 DEF Content
<1>6. \A k \in Keys : Wired(f)[k] = V(k)
  BY <1>3
<1> QED BY <1>1, <1>5, <1>6, KeyFacts DEF Change

\* A change leaves the keys alone that the gateway does not write.
Sparing(change) == \A k \in Keys \ Managed : change.after[k] = change.before[k]

\* What is archived for a plan: a file's old text stays, the changed keys are added.
LEMMA ArchivedFacts ==
    ASSUME IsPartial(stash, Record), NEW plan, IsPartial(plan, Change)
    PROVE  /\ DOMAIN Archived(plan) = DOMAIN stash \cup DOMAIN plan
           /\ \A f \in DOMAIN stash :
                 /\ Archived(plan)[f].before = stash[f].before
                 /\ stash[f].changed \subseteq Archived(plan)[f].changed
           /\ \A f \in DOMAIN plan \ DOMAIN stash :
                 /\ Archived(plan)[f].before = plan[f].before
                 /\ Archived(plan)[f].changed = ChangedKeys(plan[f])
           /\ (\A f \in DOMAIN plan : Sparing(plan[f])) => IsPartial(Archived(plan), Record)
<1>1. /\ DOMAIN stash \subseteq Files /\ \A f \in DOMAIN stash : stash[f] \in Record
      /\ DOMAIN plan \subseteq Files /\ \A f \in DOMAIN plan : plan[f] \in Change
  BY PartialFacts
<1> DEFINE D    == DOMAIN stash \cup DOMAIN plan
           R(f) == IF f \in DOMAIN plan THEN Recording(f, plan[f]) ELSE stash[f]
<1>2. DOMAIN Archived(plan) = D /\ \A f \in D : Archived(plan)[f] = R(f)
  BY DEF Archived
<1>3. ASSUME NEW f \in DOMAIN stash
      PROVE  /\ R(f).before = stash[f].before
             /\ stash[f].changed \subseteq R(f).changed
             /\ f \in DOMAIN plan /\ Sparing(plan[f]) => R(f) \in Record
             /\ f \notin DOMAIN plan => R(f) \in Record
  <2>1. stash[f] \in Record
    BY <1>1
  <2>2. CASE f \in DOMAIN plan
    <3>1. R(f) = [stash[f] EXCEPT !.changed = @ \cup ChangedKeys(plan[f])]
      BY <2>2 DEF Recording
    <3>2. Sparing(plan[f]) => ChangedKeys(plan[f]) \subseteq Managed
      BY DEF Sparing, ChangedKeys
    <3> HIDE DEF R
    <3> QED BY <2>1, <2>2, <3>1, <3>2 DEF Record
  <2>3. CASE f \notin DOMAIN plan
    BY <2>1, <2>3
  <2> QED BY <2>2, <2>3
<1>4. ASSUME NEW f \in DOMAIN plan, f \notin DOMAIN stash
      PROVE  /\ R(f).before = plan[f].before /\ R(f).changed = ChangedKeys(plan[f])
             /\ Sparing(plan[f]) => R(f) \in Record
  <2>1. R(f) = [before |-> plan[f].before, changed |-> ChangedKeys(plan[f])]
    BY <1>4 DEF Recording
  <2>2. plan[f].before \in Content
    BY <1>1, <1>4 DEF Change
  <2>3. Sparing(plan[f]) => ChangedKeys(plan[f]) \subseteq Managed
    BY DEF Sparing, ChangedKeys
  <2> HIDE DEF R
  <2> QED BY <2>1, <2>2, <2>3 DEF Record
<1>5. ASSUME \A f \in DOMAIN plan : Sparing(plan[f])
      PROVE  IsPartial(Archived(plan), Record)
  <2>1. \A f \in D : R(f) \in Record
    BY <1>3, <1>4, <1>5
  <2>2. Archived(plan) = [f \in D |-> R(f)]
    BY DEF Archived
  <2>3. Archived(plan) \in [D -> Record]
    BY <2>1, <2>2
  <2> QED BY <1>1, <2>3, PartialFromFacts
<1> HIDE DEF R
<1>6. /\ \A f \in DOMAIN stash : Archived(plan)[f].before = stash[f].before
                                 /\ stash[f].changed \subseteq Archived(plan)[f].changed
      /\ \A f \in DOMAIN plan \ DOMAIN stash :
            /\ Archived(plan)[f].before = plan[f].before
            /\ Archived(plan)[f].changed = ChangedKeys(plan[f])
  BY <1>2, <1>3, <1>4
<1> QED BY <1>2, <1>5, <1>6

LEMMA RestoredFacts ==
    ASSUME NEW record \in Record, NEW content \in Content
    PROVE  /\ Restored(record, content) \in Content
           /\ \A k \in Keys : Restored(record, content)[k] =
                                IF k \in record.changed THEN record.before[k] ELSE content[k]
BY DEF Record, Content, Restored

LEMMA InitTypes ==
    ASSUME Init PROVE TypeOK
<1>1. [Files -> {[k \in Keys |-> Chosen(c)] : c \in Choices}] \subseteq [Files -> Content]
  <2>1. \A c \in Choices : [k \in Keys |-> Chosen(c)] \in Content
    BY ValuesDiffer DEF Content
  <2>2. {[k \in Keys |-> Chosen(c)] : c \in Choices} \subseteq Content
    BY <2>1
  <2> QED BY <2>2
<1>2. live \in [Files -> Content] /\ home \in [Files -> Content]
  BY <1>1 DEF Init
<1>3. DOMAIN op = Threads /\ \A t \in Threads : IsOp(op[t])
  BY OpTypes DEF Init
<1>4. IsPartial(stash, Record) /\ contested \subseteq Files \X Keys
  BY NothingPartial DEF Init
<1>5. edits \in 0 .. MaxEdits /\ faults \in 0 .. MaxFaults
  BY KeyFacts DEF Init
<1>6. /\ binding \in {"none", "on", "off"} /\ restored \in BOOLEAN /\ pool \in Versions
      /\ app \in {"up", "down"} /\ mixed \in BOOLEAN /\ repointed \in BOOLEAN
  BY DEF Init
<1> QED BY <1>2, <1>3, <1>4, <1>5, <1>6 DEF TypeOK

\* The plans of all threads spare the keys that the gateway does not write.
PlansSpare == \A t \in Threads : \A f \in DOMAIN op[t].plan : Sparing(op[t].plan[f])

TypeInv == TypeOK /\ PlansSpare

\* What the types say after a step of one thread, in parts.
LEMMA StepTypes ==
    ASSUME TypeInv, NEW t \in Threads, NEW new, IsOp(new), Become(t, new),
           \A f \in DOMAIN new.plan : Sparing(new.plan[f]),
           live' \in [Files -> Content], IsPartial(stash', Record),
           binding' \in {"none", "on", "off"}, restored' \in BOOLEAN, pool' \in Versions,
           app' \in {"up", "down"}, home' \in [Files -> Content],
           contested' \subseteq Files \X Keys, mixed' \in BOOLEAN, repointed' \in BOOLEAN,
           edits' = edits, faults' \in 0 .. MaxFaults
    PROVE  TypeInv'
<1>1. TypeOK'
  BY BecomeType DEF TypeInv, TypeOK
<1>2. PlansSpare'
  <2>1. op'[t] = new /\ \A u \in Threads \ {t} : op'[u] = op[u]
    BY BecomeType DEF TypeInv
  <2> QED BY <2>1 DEF TypeInv, PlansSpare
<1> QED BY <1>1, <1>2 DEF TypeInv

\* A thread changes only how far it has come.
LEMMA StageTypes ==
    ASSUME TypeInv, NEW t \in Threads, NEW stage \in Stage,
           Become(t, [op[t] EXCEPT !.stage = stage]),
           live' \in [Files -> Content], IsPartial(stash', Record),
           binding' = binding, restored' = restored, pool' = pool, app' = app,
           home' \in [Files -> Content], contested' \subseteq Files \X Keys,
           mixed' \in BOOLEAN, repointed' = repointed,
           edits' = edits, faults' \in 0 .. MaxFaults
    PROVE  TypeInv'
<1>1. IsOp(op[t]) /\ IsOp([op[t] EXCEPT !.stage = stage])
  BY OpStage DEF TypeInv, TypeOK
<1>2. [op[t] EXCEPT !.stage = stage].plan = op[t].plan
  BY <1>1 DEF IsOp
<1>3. \A f \in DOMAIN op[t].plan : Sparing(op[t].plan[f])
  BY DEF TypeInv, PlansSpare
<1>4. /\ binding' \in {"none", "on", "off"} /\ restored' \in BOOLEAN /\ pool' \in Versions
      /\ app' \in {"up", "down"} /\ repointed' \in BOOLEAN
  BY DEF TypeInv, TypeOK
<1> QED BY <1>1, <1>2, <1>3, <1>4, StepTypes

LEMMA TypesStep ==
    ASSUME TypeInv, [Next]_vars PROVE TypeInv'
<1> USE DEF disk, histories
<1>1. /\ live \in [Files -> Content] /\ IsPartial(stash, Record)
      /\ binding \in {"none", "on", "off"} /\ restored \in BOOLEAN /\ pool \in Versions
      /\ app \in {"up", "down"} /\ home \in [Files -> Content]
      /\ contested \subseteq Files \X Keys /\ mixed \in BOOLEAN /\ repointed \in BOOLEAN
      /\ edits \in 0 .. MaxEdits /\ faults \in 0 .. MaxFaults
      /\ DOMAIN op = Threads /\ \A t \in Threads : IsOp(op[t])
  BY DEF TypeInv, TypeOK
<1>2. /\ IsOp(NoOp) /\ IsPartial(Nothing, Record) /\ IsPartial(Nothing, Change)
      /\ NoOp.plan = Nothing /\ DOMAIN Nothing = {}
      /\ {"none", "enable", "disable", "exit", "reapply", "refresh"} = Kind
      /\ {"idle", "checking", "begun", "planned", "archiving", "writing", "decided",
          "restoring", "restored", "forgetting", "takenOver"} = Stage
  <2>1. \A S : IsPartial(Nothing, S) /\ DOMAIN Nothing = {}
    BY NothingPartial
  <2> QED BY <2>1, OpTypes DEF Kind, Stage
<1>3. ASSUME NEW kind \in Kind, NEW stage \in Stage
      PROVE  /\ IsOp([NoOp EXCEPT !.kind = kind, !.stage = stage])
             /\ \A f \in DOMAIN [NoOp EXCEPT !.kind = kind, !.stage = stage].plan :
                   Sparing([NoOp EXCEPT !.kind = kind, !.stage = stage].plan[f])
  <2>1. IsOp([NoOp EXCEPT !.kind = kind, !.stage = stage])
    BY <1>2, OpParts
  <2>2. [NoOp EXCEPT !.kind = kind, !.stage = stage].plan = Nothing
    BY <1>2 DEF NoOp
  <2> QED BY <1>2, <2>1, <2>2
<1>4. Fault => faults' \in 0 .. MaxFaults
  BY <1>1, KeyFacts DEF Fault
<1>5. ASSUME NEW t \in Threads, Enable(t) PROVE TypeInv'
  BY <1>1, <1>2, <1>3, <1>5, StepTypes DEF Enable
<1>6. ASSUME NEW t \in Threads, ChangePool(t) PROVE TypeInv'
  BY <1>1, <1>2, <1>3, <1>6, StepTypes DEF ChangePool
<1>7. ASSUME NEW t \in Threads, StartFromSavedState(t) PROVE TypeInv'
  <2>1. CASE UNCHANGED op
    BY <1>1, <1>7, <2>1 DEF StartFromSavedState, TypeInv, TypeOK, PlansSpare
  <2>2. CASE \E kind \in {"reapply", "refresh"} :
                Become(t, [NoOp EXCEPT !.kind = kind, !.stage = "checking"])
    BY <1>1, <1>2, <1>3, <1>7, <2>2, StepTypes DEF StartFromSavedState
  <2> QED BY <1>7, <2>1, <2>2 DEF StartFromSavedState
<1>8. ASSUME NEW t \in Threads, UndoRestore(t) PROVE TypeInv'
  BY <1>1, <1>2, <1>3, <1>8, StepTypes DEF UndoRestore
<1>9. ASSUME NEW t \in Threads, Check(t) PROVE TypeInv'
  <2>1. CASE PassOver(t)
    <3>1. Become(t, NoOp) /\ restored' \in BOOLEAN
      BY <1>1, <1>9, <2>1 DEF Check, MarkMayGo
    <3> QED BY <1>1, <1>2, <1>9, <3>1, StepTypes DEF Check
  <2>2. CASE ~PassOver(t)
    BY <1>1, <1>2, <1>9, <2>2, StageTypes DEF Check
  <2> QED BY <2>1, <2>2
<1>10. ASSUME NEW t \in Threads, Plan(t) PROVE TypeInv'
  <2> DEFINE plan == [f \in Changes |-> [before |-> live[f], after |-> Wired(f)]]
  <2>1. CASE Changes = {}
    BY <1>1, <1>2, <1>10, <2>1, StageTypes DEF Plan
  <2>2. CASE Changes # {}
    <3>1. /\ Become(t, [op[t] EXCEPT !.stage = "planned", !.plan = plan])
          /\ mixed' \in BOOLEAN
      BY <1>1, <1>10, <2>2 DEF Plan
    <3>2. /\ Changes \in SUBSET Files
          /\ \A f \in Changes : [before |-> live[f], after |-> Wired(f)] \in Change
          /\ \A f \in Changes : \A k \in Keys \ Managed : Wired(f)[k] = live[f][k]
      BY WiredFacts DEF Changes, TypeInv
    <3>3. IsPartial(plan, Change) /\ DOMAIN plan = Changes
      <4>1. plan \in [Changes -> Change]
        BY <3>2
      <4> QED BY <3>2, <4>1, PartialFromFacts
    <3>4. \A f \in DOMAIN plan : Sparing(plan[f])
      BY <3>2, <3>3 DEF Sparing
    <3> HIDE DEF plan
    <3>5. /\ IsOp([op[t] EXCEPT !.stage = "planned", !.plan = plan])
          /\ [op[t] EXCEPT !.stage = "planned", !.plan = plan].plan = plan
      <4>1. IsOp([op[t] EXCEPT !.stage = "planned", !.plan = plan])
        BY <1>1, <1>2, <3>3, OpPlan
      <4>2. IsOp(op[t])
        BY <1>1
      <4> QED BY <4>1, <4>2 DEF IsOp
    <3> QED BY <1>1, <1>10, <3>1, <3>4, <3>5, StepTypes DEF Plan
  <2> QED BY <2>1, <2>2
<1>11. ASSUME NEW t \in Threads, LoadArchive(t) PROVE TypeInv'
  <2> DEFINE saved == Archived(op[t].plan)
  <2>1. /\ IsPartial(op[t].plan, Change) /\ IsOp(op[t])
        /\ \A f \in DOMAIN op[t].plan : Sparing(op[t].plan[f])
    BY Parts DEF TypeInv, PlansSpare
  <2>2. IsPartial(saved, Record)
    BY <1>1, <2>1, ArchivedFacts
  <2> HIDE DEF saved
  <2>3. /\ IsOp([op[t] EXCEPT !.stage = "archiving", !.saved = saved])
        /\ [op[t] EXCEPT !.stage = "archiving", !.saved = saved].plan = op[t].plan
    <3>1. IsOp([op[t] EXCEPT !.stage = "archiving", !.saved = saved])
      BY <1>2, <2>1, <2>2, OpSaved
    <3> QED BY <2>1, <3>1 DEF IsOp
  <2>4. Become(t, [op[t] EXCEPT !.stage = "archiving", !.saved = saved])
    BY <1>11 DEF LoadArchive, saved
  <2> QED BY <1>1, <1>11, <2>1, <2>3, <2>4, StepTypes DEF LoadArchive
<1>12. ASSUME NEW t \in Threads, SaveArchive(t) PROVE TypeInv'
  <2>1. /\ IsOp(op[t]) /\ IsPartial(op[t].saved, Record)
        /\ \A f \in DOMAIN op[t].plan : Sparing(op[t].plan[f])
    BY Parts DEF TypeInv, PlansSpare
  <2>2. /\ IsOp([op[t] EXCEPT !.stage = "writing", !.saved = Nothing])
        /\ [op[t] EXCEPT !.stage = "writing", !.saved = Nothing].plan = op[t].plan
    <3>1. IsOp([op[t] EXCEPT !.stage = "writing", !.saved = Nothing])
      BY <1>2, <2>1, OpSaved
    <3> QED BY <2>1, <3>1 DEF IsOp
  <2> QED BY <1>1, <1>12, <2>1, <2>2, StepTypes DEF SaveArchive
<1>13. ASSUME NEW t \in Threads, WriteFile(t) PROVE TypeInv'
  <2>1. PICK f \in DOMAIN op[t].plan :
           /\ live' = [live EXCEPT ![f] = op[t].plan[f].after]
           /\ Become(t, [op[t] EXCEPT !.plan = Restrict(@, DOMAIN @ \ {f})])
    BY <1>13 DEF WriteFile
  <2> DEFINE plan == Restrict(op[t].plan, DOMAIN op[t].plan \ {f})
  <2>2. /\ IsPartial(op[t].plan, Change) /\ IsOp(op[t])
        /\ op[t].plan[f] \in Change
        /\ \A g \in DOMAIN op[t].plan : Sparing(op[t].plan[g])
    BY Parts DEF TypeInv, PlansSpare
  <2>3. IsPartial(plan, Change) /\ \A g \in DOMAIN plan : Sparing(plan[g])
    <3>1. /\ IsPartial(plan, Change) /\ DOMAIN plan = DOMAIN op[t].plan \ {f}
          /\ \A g \in DOMAIN op[t].plan \ {f} : plan[g] = op[t].plan[g]
      BY <2>2, RestrictPartial
    <3> QED BY <2>2, <3>1
  <2> HIDE DEF plan
  <2>4. IsOp([op[t] EXCEPT !.plan = plan]) /\ [op[t] EXCEPT !.plan = plan].plan = plan
    <3>1. IsOp([op[t] EXCEPT !.plan = plan])
      BY <1>2, <2>2, <2>3, OpPlan
    <3> QED BY <2>2, <3>1 DEF IsOp
  <2>5. live' \in [Files -> Content]
    BY <1>1, <2>1, <2>2 DEF Change
  <2>6. Become(t, [op[t] EXCEPT !.plan = plan])
    BY <2>1 DEF plan
  <2> QED BY <1>1, <1>13, <2>3, <2>4, <2>5, <2>6, StepTypes DEF WriteFile
<1>14. ASSUME NEW t \in Threads, Connected(t) PROVE TypeInv'
  <2>1. restored' \in BOOLEAN /\ binding' \in {"none", "on", "off"}
    BY <1>1, <1>14 DEF Connected, MarkMayGo
  <2> QED BY <1>1, <1>2, <1>14, <2>1, StepTypes DEF Connected
<1>15. ASSUME NEW t \in Threads, BeginRestore(t) PROVE TypeInv'
  <2>1. PICK kind \in {"disable", "exit"} :
          Become(t, [NoOp EXCEPT !.kind = kind,
                                 !.stage = IF TakenOver THEN "forgetting" ELSE "decided"])
    BY <1>15 DEF BeginRestore
  <2>2. PICK stage \in Stage : Become(t, [NoOp EXCEPT !.kind = kind, !.stage = stage])
    BY <1>2, <2>1
  <2>3. mixed' \in BOOLEAN
    BY <1>1, <1>15 DEF BeginRestore
  <2> QED BY <1>1, <1>2, <1>3, <1>15, <2>2, <2>3, StepTypes DEF BeginRestore
<1>16. RemoveStash => IsPartial(stash', Record) /\ faults' \in 0 .. MaxFaults
  BY <1>1, <1>2, <1>4 DEF RemoveStash
<1>17. ASSUME NEW t \in Threads, Forget(t) PROVE TypeInv'
  <2>1. home' \in [Files -> Content] /\ contested' \subseteq Files \X Keys
    <3>1. CASE UNCHANGED stash
      BY <1>1, <1>17, <3>1 DEF Forget
    <3>2. CASE ~UNCHANGED stash
      <4>1. [f \in Files |-> [k \in Keys |->
               IF IsArchived(f, k) /\ IsChosen(live[f][k]) THEN live[f][k] ELSE home[f][k]]]
              \in [Files -> Content]
        BY <1>1 DEF Content
      <4> QED BY <1>1, <1>17, <3>2, <4>1 DEF Forget
    <3> QED BY <3>1, <3>2
  <2> QED BY <1>1, <1>2, <1>16, <1>17, <2>1, StageTypes DEF Forget
<1>18. ASSUME NEW t \in Threads, LoadRecords(t) PROVE TypeInv'
  <2>1. CASE Recorded
    <3>1. /\ IsOp([op[t] EXCEPT !.stage = "restoring", !.saved = stash])
          /\ [op[t] EXCEPT !.stage = "restoring", !.saved = stash].plan = op[t].plan
      <4>1. IsOp([op[t] EXCEPT !.stage = "restoring", !.saved = stash])
        BY <1>1, <1>2, OpSaved
      <4>2. IsOp(op[t])
        BY <1>1
      <4> QED BY <4>1, <4>2 DEF IsOp
    <3>2. mixed' \in BOOLEAN /\ \A f \in DOMAIN op[t].plan : Sparing(op[t].plan[f])
      BY <1>1, <1>18, <2>1 DEF LoadRecords, TypeInv, PlansSpare
    <3> QED BY <1>1, <1>18, <2>1, <3>1, <3>2, StepTypes DEF LoadRecords
  <2>2. CASE ~Recorded
    BY <1>1, <1>2, <1>18, <2>2, StageTypes DEF LoadRecords
  <2> QED BY <2>1, <2>2
<1>19. ASSUME NEW t \in Threads, RestoreFile(t) PROVE TypeInv'
  <2>1. PICK f \in DOMAIN op[t].saved :
           /\ live' = [live EXCEPT ![f] = Restored(op[t].saved[f], live[f])]
           /\ Become(t, [op[t] EXCEPT !.saved = Restrict(@, DOMAIN @ \ {f})])
    BY <1>19 DEF RestoreFile
  <2> DEFINE saved == Restrict(op[t].saved, DOMAIN op[t].saved \ {f})
  <2>2. /\ IsPartial(op[t].saved, Record) /\ IsOp(op[t])
        /\ op[t].saved[f] \in Record /\ f \in Files
        /\ \A g \in DOMAIN op[t].plan : Sparing(op[t].plan[g])
    BY Parts DEF TypeInv, PlansSpare
  <2>3. IsPartial(saved, Record)
    BY <2>2, RestrictPartial
  <2> HIDE DEF saved
  <2>4. IsOp([op[t] EXCEPT !.saved = saved]) /\ [op[t] EXCEPT !.saved = saved].plan = op[t].plan
    <3>1. IsOp([op[t] EXCEPT !.saved = saved])
      BY <1>2, <2>2, <2>3, OpSaved
    <3> QED BY <2>2, <3>1 DEF IsOp
  <2>5. live' \in [Files -> Content]
    <3>1. live[f] \in Content
      BY <1>1, <2>2
    <3>2. Restored(op[t].saved[f], live[f]) \in Content
      BY <2>2, <3>1, RestoredFacts
    <3> QED BY <1>1, <2>1, <3>2
  <2>6. Become(t, [op[t] EXCEPT !.saved = saved])
    BY <2>1 DEF saved
  <2> QED BY <1>1, <1>19, <2>2, <2>4, <2>5, <2>6, StepTypes DEF RestoreFile
<1>20. ASSUME NEW t \in Threads, Unstash(t) PROVE TypeInv'
  BY <1>1, <1>2, <1>16, <1>20, StageTypes DEF Unstash
<1>21. ASSUME NEW t \in Threads, Disconnected(t) PROVE TypeInv'
  <2>1. restored' \in BOOLEAN /\ binding' \in {"none", "on", "off"}
    BY <1>1, <1>21 DEF Disconnected
  <2> QED BY <1>1, <1>2, <1>21, <2>1, StepTypes DEF Disconnected
<1>22. ASSUME NEW t \in Threads, Fails(t) PROVE TypeInv'
  BY <1>1, <1>2, <1>4, <1>22, StepTypes DEF Fails
<1>23. CASE Quit
  BY <1>1, <1>23 DEF Quit, TypeInv, TypeOK, PlansSpare
<1>24. CASE Crash
  <2>1. /\ DOMAIN op' = Threads /\ \A t \in Threads : IsOp(op'[t])
        /\ \A t \in Threads : DOMAIN op'[t].plan = {}
    BY <1>2, <1>24 DEF Crash
  <2> QED BY <1>1, <1>4, <1>24, <2>1 DEF Crash, TypeInv, TypeOK, PlansSpare
<1>25. ASSUME NEW f \in Files, NEW k \in Keys, NEW c \in Choices, Edit(f, k, c) PROVE TypeInv'
  <2>1. ASSUME NEW content \in [Files -> Content]
        PROVE  [content EXCEPT ![f][k] = Chosen(c)] \in [Files -> Content]
    BY ValuesDiffer DEF Content
  <2>2. live' \in [Files -> Content] /\ home' \in [Files -> Content]
    BY <1>1, <1>25, <2>1 DEF Edit
  <2>3. contested' \subseteq Files \X Keys /\ edits' \in 0 .. MaxEdits
    BY <1>1, <1>25, KeyFacts DEF Edit
  <2>4. repointed' \in BOOLEAN
    BY <1>1, <1>25 DEF Edit
  <2> QED BY <1>1, <1>25, <2>2, <2>3, <2>4 DEF Edit, TypeInv, TypeOK, PlansSpare
<1>26. CASE UNCHANGED vars
  BY <1>1, <1>26 DEF vars, TypeInv, TypeOK, PlansSpare
<1>27. ASSUME NEW t \in Threads, Operation(t) PROVE TypeInv'
  BY <1>5, <1>6, <1>7, <1>8, <1>9, <1>10, <1>11, <1>12, <1>13, <1>14, <1>15, <1>17, <1>18,
     <1>19, <1>20, <1>21, <1>22, <1>27 DEF Operation
<1> QED BY <1>23, <1>24, <1>25, <1>26, <1>27 DEF Next

LEMMA InitTypeInv == ASSUME Init PROVE TypeInv
<1>1. \A t \in Threads : DOMAIN op[t].plan = {}
  BY OpTypes, NothingPartial DEF Init
<1> QED BY <1>1, InitTypes DEF TypeInv, PlansSpare

\* The type invariant, for any number of threads.
THEOREM TypeCorrect == Spec => []TypeOK
<1>1. Init => TypeInv
  BY InitTypeInv
<1>2. TypeInv /\ [Next]_vars => TypeInv'
  BY TypesStep
<1>3. TypeInv => TypeOK
  BY DEF TypeInv
<1> QED BY <1>1, <1>2, <1>3, PTL DEF Spec
-----------------------------------------------------------------------------
(* As long as no restoration meets a rewriting. *)

Uncontested(f, k) == <<f, k>> \notin contested

\* A record knows the address of before, and the user's value of every key that the
\* gateway writes.
TrueOf(f, record) ==
    /\ Url \in record.changed
    /\ record.before[Url] # Gateway(0)
    /\ \A k \in Managed : Uncontested(f, k) => k \in record.changed /\ record.before[k] = home[f][k]

TrueOfAll(records) == \A f \in Files : f \in DOMAIN records /\ TrueOf(f, records[f])

\* What the gateway writes is as the user wants it.
IsBack(f) == ~Mentions(f) /\ \A k \in Managed : Uncontested(f, k) => live[f][k] = home[f][k]

ArchiveIsTrue == IF Recorded THEN TrueOfAll(stash) ELSE \A f \in Files : IsBack(f)

\* The other keys are as the user wants them at any time.
OthersAreHome ==
    \A f \in Files, k \in Keys \ Managed : Uncontested(f, k) => live[f][k] = home[f][k]

\* The record of a file that is not yet in the archive.
FirstRecord(change) == [before |-> change.before, changed |-> ChangedKeys(change)]

RewritingIsArchived(t) ==
    /\ Rewriting(t) => op[t].stage \in {"planned", "archiving", "writing"}
    /\ At(t, "planned") =>
          /\ Rewriting(t)
          /\ Recorded \/ \A f \in Files : f \in DOMAIN op[t].plan /\ TrueOf(f, FirstRecord(op[t].plan[f]))
    /\ At(t, "archiving") =>
          /\ Rewriting(t)
          /\ TrueOfAll(op[t].saved)
          /\ Recorded \/ Files \subseteq DOMAIN op[t].plan
    /\ At(t, "writing") /\ Rewriting(t) => Recorded
    /\ \A f \in DOMAIN op[t].plan, k \in Keys \ Managed :
          Uncontested(f, k) => op[t].plan[f].after[k] = home[f][k]

\* What a restoration has done with is back; at a takeover no file points at the gateway.
RestoringIsTrue(t) ==
    /\ At(t, "restoring") => \A f \in Files :
          IF f \in DOMAIN op[t].saved THEN TrueOf(f, op[t].saved[f]) ELSE IsBack(f)
    /\ At(t, "forgetting") => \A f \in Files : ~Mentions(f)

NotMixed == \A t, u \in Threads : ~(Rewriting(t) /\ Restoring(u))

HomeIsChosen == \A f \in Files, k \in Keys : IsChosen(home[f][k])

Apart ==
    /\ NotMixed
    /\ ArchiveIsTrue
    /\ OthersAreHome
    /\ \A t \in Threads : RewritingIsArchived(t) /\ RestoringIsTrue(t)

IInv == TypeInv /\ HomeIsChosen /\ (~mixed => Apart)

\* The disk and the histories are left alone, and so are the other threads.
LEMMA OthersKeep ==
    ASSUME Apart, UNCHANGED <<live, stash, home, contested>>
    PROVE  /\ ArchiveIsTrue' /\ OthersAreHome'
           /\ \A u \in Threads : op'[u] = op[u] => (RewritingIsArchived(u) /\ RestoringIsTrue(u))'
<1> USE DEF Mentions, Recorded, Uncontested, TrueOf, IsBack
<1>1. ArchiveIsTrue' /\ OthersAreHome'
  BY DEF Apart, ArchiveIsTrue, OthersAreHome, TrueOfAll
<1>2. ASSUME NEW u \in Threads, op'[u] = op[u]
      PROVE  RewritingIsArchived(u)' /\ RestoringIsTrue(u)'
  <2>1. RewritingIsArchived(u) /\ RestoringIsTrue(u)
    BY DEF Apart
  <2>2. RewritingIsArchived(u)'
    BY <1>2, <2>1 DEF RewritingIsArchived, TrueOfAll, FirstRecord, Rewriting, At
  <2>3. RestoringIsTrue(u)'
    BY <1>2, <2>1 DEF RestoringIsTrue, At
  <2> QED BY <2>2, <2>3
<1> QED BY <1>1, <1>2

\* A thread neither rewrites nor restores after its step.
LEMMA IdleKeeps ==
    ASSUME TypeInv, Apart, NEW t \in Threads, NEW new, IsOp(new), Become(t, new),
           UNCHANGED <<live, stash, home, contested>>,
           new.plan = Nothing,
           new.stage \notin {"planned", "archiving", "restoring", "forgetting"}
    PROVE  Apart'
<1>1. op'[t] = new /\ \A u \in Threads \ {t} : op'[u] = op[u]
  BY BecomeType DEF TypeInv
<1>2. RewritingIsArchived(t)' /\ RestoringIsTrue(t)' /\ ~Rewriting(t)' /\ ~Restoring(t)'
  BY <1>1, NothingPartial DEF RewritingIsArchived, RestoringIsTrue, Rewriting, Restoring, At
<1>3. NotMixed'
  BY <1>1, <1>2 DEF Apart, NotMixed, Rewriting, Restoring
<1> QED BY <1>1, <1>2, <1>3, OthersKeep DEF Apart

\* A thread that has no plan moves on.
LEMMA MovesOn ==
    ASSUME TypeInv, Apart, NEW t \in Threads, ~Rewriting(t),
           NEW stage \in Stage \ {"planned", "archiving", "restoring", "forgetting"},
           Become(t, [op[t] EXCEPT !.stage = stage]),
           UNCHANGED <<live, stash, home, contested>>
    PROVE  Apart'
<1>1. IsOp(op[t])
  BY DEF TypeInv, TypeOK
<1>2. IsOp([op[t] EXCEPT !.stage = stage])
  BY <1>1, OpStage
<1>3. /\ [op[t] EXCEPT !.stage = stage].plan = Nothing
      /\ [op[t] EXCEPT !.stage = stage].stage = stage
  BY <1>1 DEF IsOp, Rewriting
<1> QED BY <1>2, <1>3, IdleKeeps

LEMMA PlanKeeps ==
    ASSUME TypeInv, HomeIsChosen, Apart, NEW t \in Threads, Plan(t), ~mixed'
    PROVE  Apart'
<1>1. UNCHANGED <<live, stash, home, contested>> /\ At(t, "begun")
  BY DEF Plan, disk
<1>2. ~Rewriting(t)
  BY <1>1 DEF Apart, RewritingIsArchived, At
<1>3. CASE Changes = {}
  BY <1>1, <1>2, <1>3, MovesOn DEF Plan, Stage
<1>4. CASE Changes # {}
  <2> DEFINE plan == [f \in Changes |-> [before |-> live[f], after |-> Wired(f)]]
  <2>1. Become(t, [op[t] EXCEPT !.stage = "planned", !.plan = plan])
        /\ \A u \in Threads : ~Restoring(u)
    BY <1>4 DEF Plan
  <2>2. Changes \subseteq Files /\ DOMAIN plan = Changes /\ plan # Nothing
    BY <1>4, NothingPartial DEF Changes
  <2>3. /\ \A f \in Changes : plan[f].before = live[f] /\ plan[f].after = Wired(f)
        /\ IsPartial(plan, Change)
    <3>1. \A f \in Changes : [before |-> live[f], after |-> Wired(f)] \in Change
      BY <2>2, WiredFacts DEF TypeInv
    <3>2. plan \in [Changes -> Change]
      BY <3>1
    <3> QED BY <2>2, <3>2, PartialFromFacts
  <2> HIDE DEF plan
  <2>4. /\ op'[t].stage = "planned" /\ op'[t].plan = plan
        /\ \A u \in Threads \ {t} : op'[u] = op[u]
    <3>1. IsOp(op[t]) /\ DOMAIN op = Threads
      BY DEF TypeInv, TypeOK
    <3>2. op'[t] = [op[t] EXCEPT !.stage = "planned", !.plan = plan]
      BY <2>1, <3>1 DEF Become
    <3>3. \A u \in Threads \ {t} : op'[u] = op[u]
      BY <2>1, <3>1 DEF Become
    <3> QED BY <3>1, <3>2, <3>3 DEF IsOp
  <2>5. NotMixed'
    <3>1. ~Restoring(t)'
      BY <2>4 DEF Restoring
    <3> QED BY <2>1, <2>4, <3>1 DEF NotMixed, Restoring
  <2>6. ASSUME NEW f \in Files, ~Recorded
        PROVE  f \in DOMAIN plan /\ TrueOf(f, FirstRecord(plan[f]))
    <3>1. IsBack(f)
      BY <2>6 DEF Apart, ArchiveIsTrue
    <3>2. /\ Wired(f)[Url] = Gateway(0)
          /\ \A k \in Managed \ {Url} : Wired(f)[k] = Gateway(pool)
      BY WiredFacts DEF TypeInv
    <3>3. f \in Changes
      BY <3>1, <3>2 DEF Changes, IsBack, Mentions
    <3>4. ChangedKeys(plan[f]) = {k \in Keys : Wired(f)[k] # live[f][k]}
      BY <2>3, <3>3 DEF ChangedKeys
    <3>5. Url \in ChangedKeys(plan[f]) /\ live[f][Url] # Gateway(0)
      BY <3>1, <3>2, <3>4, KeyFacts DEF IsBack, Mentions
    <3>6. ASSUME NEW k \in Managed, Uncontested(f, k)
          PROVE  k \in ChangedKeys(plan[f]) /\ live[f][k] = home[f][k]
      <4>1. live[f][k] = home[f][k] /\ k \in Keys
        BY <3>1, <3>6, KeyFacts DEF IsBack
      <4>2. \E c \in Choices : live[f][k] = Chosen(c)
        BY <4>1 DEF HomeIsChosen, IsChosen
      <4>3. \E v : Wired(f)[k] = Gateway(v)
        BY <3>2
      <4> QED BY <3>4, <4>1, <4>2, <4>3, ValuesDiffer
    <3> QED BY <2>2, <2>3, <3>3, <3>5, <3>6 DEF TrueOf, FirstRecord
  <2>7. RewritingIsArchived(t)'
    <3>1. Recorded \/ \A f \in Files : f \in DOMAIN plan /\ TrueOf(f, FirstRecord(plan[f]))
      BY <2>6
    <3>2. (Recorded \/ \A f \in Files :
              f \in DOMAIN op[t].plan /\ TrueOf(f, FirstRecord(op[t].plan[f])))'
      BY <1>1, <2>4, <3>1 DEF Recorded, TrueOf, FirstRecord, Uncontested
    <3>3. ASSUME NEW f \in DOMAIN plan, NEW k \in Keys \ Managed, Uncontested(f, k)
          PROVE  plan[f].after[k] = home[f][k]
      <4>1. Wired(f)[k] = live[f][k] /\ f \in Files
        BY <2>2, WiredFacts DEF TypeInv
      <4> QED BY <2>2, <2>3, <3>3, <4>1 DEF Apart, OthersAreHome
    <3> QED BY <1>1, <2>2, <2>4, <3>2, <3>3 DEF RewritingIsArchived, Rewriting, At, Uncontested
  <2>8. RestoringIsTrue(t)'
    BY <2>4 DEF RestoringIsTrue, At
  <2> QED BY <1>1, <2>4, <2>5, <2>7, <2>8, OthersKeep DEF Apart
<1> QED BY <1>3, <1>4

LEMMA LoadArchiveKeeps ==
    ASSUME TypeInv, Apart, NEW t \in Threads, LoadArchive(t) PROVE Apart'
<1> DEFINE saved == Archived(op[t].plan)
<1>1. /\ At(t, "planned") /\ UNCHANGED <<live, stash, home, contested>>
      /\ Become(t, [op[t] EXCEPT !.stage = "archiving", !.saved = saved])
  BY DEF LoadArchive, disk, histories
<1>2. /\ Rewriting(t) /\ RewritingIsArchived(t)
      /\ Recorded \/ \A f \in Files : f \in DOMAIN op[t].plan /\ TrueOf(f, FirstRecord(op[t].plan[f]))
  BY <1>1 DEF Apart, RewritingIsArchived
<1>3. TrueOfAll(saved) /\ (Recorded \/ Files \subseteq DOMAIN op[t].plan)
  <2>1. IsPartial(stash, Record) /\ IsPartial(op[t].plan, Change)
    BY Parts DEF TypeInv, TypeOK
  <2>2. /\ DOMAIN saved = DOMAIN stash \cup DOMAIN op[t].plan
        /\ \A f \in DOMAIN stash : /\ saved[f].before = stash[f].before
                                   /\ stash[f].changed \subseteq saved[f].changed
        /\ \A f \in DOMAIN op[t].plan \ DOMAIN stash :
              /\ saved[f].before = op[t].plan[f].before
              /\ saved[f].changed = ChangedKeys(op[t].plan[f])
    BY <2>1, ArchivedFacts
  <2> HIDE DEF saved
  <2>3. CASE Recorded
    <3>1. \A f \in Files : f \in DOMAIN stash /\ TrueOf(f, stash[f])
      BY <2>3 DEF Apart, ArchiveIsTrue, TrueOfAll
    <3>2. \A f \in Files : f \in DOMAIN saved /\ TrueOf(f, saved[f])
      BY <2>2, <3>1 DEF TrueOf
    <3> QED BY <2>3, <3>2 DEF TrueOfAll
  <2>4. CASE ~Recorded
    <3>1. \A f \in Files : f \in DOMAIN op[t].plan /\ TrueOf(f, FirstRecord(op[t].plan[f]))
      BY <1>2, <2>4
    <3>2. \A f \in Files : f \in DOMAIN saved /\ TrueOf(f, saved[f])
      BY <2>2, <2>4, <3>1 DEF TrueOf, FirstRecord, Recorded
    <3> QED BY <3>1, <3>2 DEF TrueOfAll
  <2> QED BY <2>3, <2>4
<1> HIDE DEF saved
<1>4. /\ op'[t].stage = "archiving" /\ op'[t].saved = saved /\ op'[t].plan = op[t].plan
      /\ \A u \in Threads \ {t} : op'[u] = op[u]
  <2>1. IsOp(op[t]) /\ DOMAIN op = Threads
    BY DEF TypeInv, TypeOK
  <2>2. op'[t] = [op[t] EXCEPT !.stage = "archiving", !.saved = saved]
        /\ \A u \in Threads \ {t} : op'[u] = op[u]
    BY <1>1, <2>1 DEF Become
  <2> QED BY <2>1, <2>2 DEF IsOp
<1>5. NotMixed'
  BY <1>2, <1>4 DEF Apart, NotMixed, Rewriting, Restoring
<1>6. RewritingIsArchived(t)' /\ RestoringIsTrue(t)'
  <2>1. TrueOfAll(op[t].saved)'
    BY <1>1, <1>3, <1>4 DEF TrueOfAll, TrueOf, Uncontested
  <2>2. (Recorded \/ Files \subseteq DOMAIN op[t].plan)'
    BY <1>1, <1>3, <1>4 DEF Recorded
  <2>3. (\A f \in DOMAIN op[t].plan, k \in Keys \ Managed :
            Uncontested(f, k) => op[t].plan[f].after[k] = home[f][k])'
    BY <1>1, <1>2, <1>4 DEF RewritingIsArchived, Uncontested
  <2> QED BY <1>2, <1>4, <2>1, <2>2, <2>3 DEF RewritingIsArchived, RestoringIsTrue, Rewriting, At
<1> QED BY <1>1, <1>4, <1>5, <1>6, OthersKeep DEF Apart

LEMMA SaveArchiveKeeps ==
    ASSUME TypeInv, Apart, NEW t \in Threads, SaveArchive(t) PROVE Apart'
<1>1. /\ At(t, "archiving") /\ UNCHANGED <<live, home, contested>> /\ stash' = op[t].saved
      /\ Become(t, [op[t] EXCEPT !.stage = "writing", !.saved = Nothing])
  BY DEF SaveArchive, histories
<1>2. Rewriting(t) /\ RewritingIsArchived(t) /\ TrueOfAll(op[t].saved)
  BY <1>1 DEF Apart, RewritingIsArchived
<1>3. /\ op'[t].stage = "writing" /\ op'[t].plan = op[t].plan
      /\ \A u \in Threads \ {t} : op'[u] = op[u]
  <2>1. IsOp(op[t]) /\ DOMAIN op = Threads
    BY DEF TypeInv, TypeOK
  <2>2. op'[t] = [op[t] EXCEPT !.stage = "writing", !.saved = Nothing]
        /\ \A u \in Threads \ {t} : op'[u] = op[u]
    BY <1>1, <2>1 DEF Become
  <2> QED BY <2>1, <2>2 DEF IsOp
<1>4. NotMixed' /\ \A u \in Threads : ~Restoring(u)'
  BY <1>2, <1>3 DEF Apart, NotMixed, Rewriting, Restoring
<1>5. Recorded' /\ ArchiveIsTrue'
  <2>1. Recorded'
    BY <1>1, <1>2, KeyFacts DEF Recorded, TrueOfAll
  <2>2. TrueOfAll(stash)'
    BY <1>1, <1>2 DEF TrueOfAll, TrueOf, Uncontested
  <2> QED BY <2>1, <2>2 DEF ArchiveIsTrue
<1>6. OthersAreHome'
  BY <1>1 DEF Apart, OthersAreHome, Uncontested
<1>7. ASSUME NEW u \in Threads PROVE RewritingIsArchived(u)' /\ RestoringIsTrue(u)'
  <2>1. RewritingIsArchived(u)
    BY DEF Apart
  <2>2. op'[u].plan = op[u].plan
    BY <1>3
  <2>3. (\A f \in DOMAIN op[u].plan, k \in Keys \ Managed :
            Uncontested(f, k) => op[u].plan[f].after[k] = home[f][k])'
    BY <1>1, <2>1, <2>2 DEF RewritingIsArchived, Uncontested
  <2>4. (At(u, "archiving") => Rewriting(u) /\ TrueOfAll(op[u].saved))'
    BY <1>1, <1>3, <2>1 DEF RewritingIsArchived, TrueOfAll, TrueOf, Uncontested, At, Rewriting
  <2>5. (At(u, "planned") => Rewriting(u))'
    BY <1>3, <2>1 DEF RewritingIsArchived, At, Rewriting
  <2>6. (Rewriting(u) => op[u].stage \in {"planned", "archiving", "writing"})'
    BY <1>3, <2>1 DEF RewritingIsArchived, Rewriting
  <2>7. RewritingIsArchived(u)'
    BY <1>5, <2>3, <2>4, <2>5, <2>6 DEF RewritingIsArchived
  <2>8. RestoringIsTrue(u)'
    BY <1>4 DEF RestoringIsTrue, Restoring, At
  <2> QED BY <2>7, <2>8
<1> QED BY <1>4, <1>5, <1>6, <1>7 DEF Apart

LEMMA WriteFileKeeps ==
    ASSUME TypeInv, Apart, NEW t \in Threads, WriteFile(t) PROVE Apart'
<1>1. PICK f \in DOMAIN op[t].plan :
        /\ live' = [live EXCEPT ![f] = op[t].plan[f].after]
        /\ Become(t, [op[t] EXCEPT !.plan = Restrict(@, DOMAIN @ \ {f})])
  BY DEF WriteFile
<1>2. At(t, "writing") /\ UNCHANGED <<stash, home, contested>>
  BY DEF WriteFile, histories
<1>3. /\ IsOp(op[t]) /\ DOMAIN op = Threads /\ IsPartial(op[t].plan, Change) /\ f \in Files
      /\ live \in [Files -> Content] /\ DOMAIN op[t].plan # {}
  BY <1>1, Parts DEF TypeInv, TypeOK
<1>4. Rewriting(t) /\ Recorded /\ RewritingIsArchived(t)
  <2>1. Rewriting(t)
    BY <1>3, NothingPartial DEF Rewriting
  <2> QED BY <1>2, <2>1 DEF Apart, RewritingIsArchived
<1>5. /\ op'[t].stage = "writing" /\ DOMAIN op'[t].plan \subseteq DOMAIN op[t].plan
      /\ \A g \in DOMAIN op'[t].plan : op'[t].plan[g] = op[t].plan[g]
      /\ \A u \in Threads \ {t} : op'[u] = op[u]
  <2> DEFINE plan == Restrict(op[t].plan, DOMAIN op[t].plan \ {f})
  <2>1. /\ DOMAIN plan = DOMAIN op[t].plan \ {f}
        /\ \A g \in DOMAIN op[t].plan \ {f} : plan[g] = op[t].plan[g]
    BY <1>3, RestrictPartial
  <2>2. Become(t, [op[t] EXCEPT !.plan = plan])
    BY <1>1
  <2> HIDE DEF plan
  <2>3. op'[t] = [op[t] EXCEPT !.plan = plan] /\ \A u \in Threads \ {t} : op'[u] = op[u]
    BY <1>3, <2>2 DEF Become
  <2> QED BY <1>2, <1>3, <2>1, <2>3 DEF IsOp, At
<1>6. NotMixed' /\ \A u \in Threads : ~Restoring(u)'
  <2>1. \A u \in Threads : ~Restoring(u)
    BY <1>4 DEF Apart, NotMixed
  <2>2. \A u \in Threads : ~Restoring(u)'
    BY <1>5, <2>1 DEF Restoring
  <2> QED BY <2>2 DEF NotMixed
<1>7. ArchiveIsTrue'
  BY <1>2, <1>4 DEF Apart, ArchiveIsTrue, TrueOfAll, TrueOf, Recorded, Uncontested
<1>8. OthersAreHome'
  <2>1. ASSUME NEW k \in Keys \ Managed, Uncontested(f, k) PROVE op[t].plan[f].after[k] = home[f][k]
    BY <1>1, <1>4, <2>1 DEF RewritingIsArchived
  <2> QED BY <1>1, <1>2, <1>3, <2>1 DEF Apart, OthersAreHome, Uncontested
<1>9. ASSUME NEW u \in Threads PROVE RewritingIsArchived(u)' /\ RestoringIsTrue(u)'
  <2>1. RestoringIsTrue(u)'
    BY <1>6 DEF RestoringIsTrue, Restoring, At
  <2>2. CASE u = t
    BY <1>2, <1>4, <1>5, <2>1, <2>2
    DEF RewritingIsArchived, Rewriting, At, Recorded, Uncontested
  <2>3. CASE u # t
    <3>1. RewritingIsArchived(u) /\ op'[u] = op[u]
      BY <1>5, <2>3 DEF Apart
    <3>2. RewritingIsArchived(u)'
      BY <1>2, <3>1 DEF RewritingIsArchived, TrueOfAll, TrueOf, FirstRecord, Rewriting, At,
                        Recorded, Uncontested
    <3> QED BY <2>1, <3>2
  <2> QED BY <2>2, <2>3
<1> QED BY <1>6, <1>7, <1>8, <1>9 DEF Apart

LEMMA BeginRestoreKeeps ==
    ASSUME TypeInv, Apart, NEW t \in Threads, BeginRestore(t), ~mixed' PROVE Apart'
<1>1. UNCHANGED <<live, stash, home, contested>>
  BY DEF BeginRestore, disk
<1>2. PICK kind \in Kind : Become(t, [NoOp EXCEPT !.kind = kind,
                                        !.stage = IF TakenOver THEN "forgetting" ELSE "decided"])
  BY DEF BeginRestore, Kind
<1>3. CASE ~TakenOver
  <2>1. Become(t, [NoOp EXCEPT !.kind = kind, !.stage = "decided"])
    BY <1>2, <1>3
  <2>2. /\ IsOp([NoOp EXCEPT !.kind = kind, !.stage = "decided"])
        /\ [NoOp EXCEPT !.kind = kind, !.stage = "decided"].plan = Nothing
        /\ [NoOp EXCEPT !.kind = kind, !.stage = "decided"].stage = "decided"
    BY OpTypes, OpParts, NothingPartial DEF Stage, NoOp
  <2> QED BY <1>1, <2>1, <2>2, IdleKeeps
<1>4. CASE TakenOver
  <2>1. Become(t, [NoOp EXCEPT !.kind = kind, !.stage = "forgetting"])
    BY <1>2, <1>4
  <2>2. \A u \in Threads : ~Rewriting(u)
    BY <1>4 DEF BeginRestore
  <2>3. \A f \in Files : ~Mentions(f)
    BY <1>4 DEF TakenOver, PointsAtGateway, Apart, ArchiveIsTrue, TrueOfAll
  <2>4. /\ op'[t].plan = Nothing /\ op'[t].stage = "forgetting"
        /\ \A u \in Threads \ {t} : op'[u] = op[u]
    BY <2>1, OpTypes DEF Become, TypeInv, TypeOK, NoOp
  <2>5. NotMixed'
    BY <2>2, <2>4 DEF NotMixed, Rewriting
  <2>6. RewritingIsArchived(t)'
    BY <2>4, NothingPartial DEF RewritingIsArchived, Rewriting, At
  <2>7. RestoringIsTrue(t)'
    BY <1>1, <2>3, <2>4 DEF RestoringIsTrue, At, Mentions
  <2> QED BY <1>1, <2>4, <2>5, <2>6, <2>7, OthersKeep DEF Apart
<1> QED BY <1>3, <1>4

LEMMA LoadRecordsKeeps ==
    ASSUME TypeInv, Apart, NEW t \in Threads, LoadRecords(t), ~mixed' PROVE Apart'
<1>1. At(t, "decided") /\ UNCHANGED <<live, stash, home, contested>>
  BY DEF LoadRecords, disk
<1>2. ~Rewriting(t)
  BY <1>1 DEF Apart, RewritingIsArchived, At
<1>3. CASE ~Recorded
  BY <1>1, <1>2, <1>3, MovesOn DEF LoadRecords, Stage
<1>4. CASE Recorded
  <2>1. /\ Become(t, [op[t] EXCEPT !.stage = "restoring", !.saved = stash])
        /\ \A u \in Threads : ~Rewriting(u)
    BY <1>4 DEF LoadRecords
  <2>2. /\ op'[t].plan = Nothing /\ op'[t].stage = "restoring" /\ op'[t].saved = stash
        /\ \A u \in Threads \ {t} : op'[u] = op[u]
    <3>1. IsOp(op[t]) /\ DOMAIN op = Threads
      BY DEF TypeInv, TypeOK
    <3>2. op'[t] = [op[t] EXCEPT !.stage = "restoring", !.saved = stash]
          /\ \A u \in Threads \ {t} : op'[u] = op[u]
      BY <2>1, <3>1 DEF Become
    <3> QED BY <1>2, <3>1, <3>2 DEF IsOp, Rewriting
  <2>3. NotMixed'
    BY <2>1, <2>2 DEF NotMixed, Rewriting
  <2>4. RewritingIsArchived(t)'
    BY <2>2, NothingPartial DEF RewritingIsArchived, Rewriting, At
  <2>5. RestoringIsTrue(t)'
    <3>1. \A f \in Files : f \in DOMAIN stash /\ TrueOf(f, stash[f])
      BY <1>4 DEF Apart, ArchiveIsTrue, TrueOfAll
    <3> QED BY <1>1, <2>2, <3>1 DEF RestoringIsTrue, At, TrueOf, Uncontested
  <2> QED BY <1>1, <2>2, <2>3, <2>4, <2>5, OthersKeep DEF Apart
<1> QED BY <1>3, <1>4

\* A record that is true puts its file back.
LEMMA RestoredIsBack ==
    ASSUME NEW f \in Files, NEW record \in Record, TrueOf(f, record), live[f] \in Content
    PROVE  /\ Restored(record, live[f])[Url] # Gateway(0)
           /\ \A k \in Managed : Uncontested(f, k) => Restored(record, live[f])[k] = home[f][k]
           /\ \A k \in Keys \ Managed : Restored(record, live[f])[k] = live[f][k]
<1>1. record.changed \subseteq Managed
  BY DEF Record
<1> QED BY <1>1, RestoredFacts, KeyFacts DEF TrueOf

LEMMA RestoreFileKeeps ==
    ASSUME TypeInv, Apart, NEW t \in Threads, RestoreFile(t) PROVE Apart'
<1>1. PICK f \in DOMAIN op[t].saved :
        /\ live' = [live EXCEPT ![f] = Restored(op[t].saved[f], live[f])]
        /\ Become(t, [op[t] EXCEPT !.saved = Restrict(@, DOMAIN @ \ {f})])
  BY DEF RestoreFile
<1>2. At(t, "restoring") /\ UNCHANGED <<stash, home, contested>>
  BY DEF RestoreFile, histories
<1>3. /\ IsOp(op[t]) /\ DOMAIN op = Threads /\ IsPartial(op[t].saved, Record) /\ f \in Files
      /\ live \in [Files -> Content] /\ op[t].saved[f] \in Record
  BY <1>1, Parts DEF TypeInv, TypeOK
<1>4. TrueOf(f, op[t].saved[f]) /\ RestoringIsTrue(t)
  BY <1>1, <1>2, <1>3 DEF Apart, RestoringIsTrue
<1>5. /\ live'[f][Url] # Gateway(0)
      /\ \A k \in Managed : Uncontested(f, k) => live'[f][k] = home[f][k]
      /\ \A k \in Keys \ Managed : live'[f][k] = live[f][k]
      /\ \A g \in Files \ {f} : live'[g] = live[g]
  <2>1. live[f] \in Content
    BY <1>3
  <2> QED BY <1>1, <1>3, <1>4, <2>1, RestoredIsBack
<1>6. IsBack(f)'
  BY <1>2, <1>5 DEF IsBack, Mentions, Uncontested
<1>7. \A g \in Files \ {f} : IsBack(g) => IsBack(g)'
  BY <1>2, <1>5 DEF IsBack, Mentions, Uncontested
<1>8. /\ op'[t].stage = "restoring" /\ op'[t].plan = op[t].plan
      /\ DOMAIN op'[t].saved = DOMAIN op[t].saved \ {f}
      /\ \A g \in DOMAIN op'[t].saved : op'[t].saved[g] = op[t].saved[g]
      /\ \A u \in Threads \ {t} : op'[u] = op[u]
  <2> DEFINE saved == Restrict(op[t].saved, DOMAIN op[t].saved \ {f})
  <2>1. /\ DOMAIN saved = DOMAIN op[t].saved \ {f}
        /\ \A g \in DOMAIN op[t].saved \ {f} : saved[g] = op[t].saved[g]
    BY <1>3, RestrictPartial
  <2>2. Become(t, [op[t] EXCEPT !.saved = saved])
    BY <1>1
  <2> HIDE DEF saved
  <2>3. op'[t] = [op[t] EXCEPT !.saved = saved] /\ \A u \in Threads \ {t} : op'[u] = op[u]
    BY <1>3, <2>2 DEF Become
  <2> QED BY <1>2, <1>3, <2>1, <2>3 DEF IsOp, At
<1>9. \A u \in Threads : op'[u].stage = op[u].stage /\ op'[u].plan = op[u].plan
  BY <1>2, <1>8 DEF At
<1>10. NotMixed'
  BY <1>9 DEF Apart, NotMixed, Rewriting, Restoring
<1>11. ArchiveIsTrue'
  <2>1. CASE Recorded
    BY <1>2, <2>1 DEF Apart, ArchiveIsTrue, TrueOfAll, TrueOf, Recorded, Uncontested
  <2>2. CASE ~Recorded
    <3>1. \A g \in Files : IsBack(g)'
      BY <1>6, <1>7, <2>2 DEF Apart, ArchiveIsTrue
    <3> QED BY <1>2, <2>2, <3>1 DEF ArchiveIsTrue, Recorded
  <2> QED BY <2>1, <2>2
<1>12. OthersAreHome'
  BY <1>2, <1>5 DEF Apart, OthersAreHome, Uncontested
<1>13. ASSUME NEW u \in Threads PROVE RewritingIsArchived(u)'
  <2>1. \A v \in Threads : ~Rewriting(v)
    BY <1>2 DEF Apart, NotMixed, Restoring, At
  <2>2. RewritingIsArchived(u) /\ op'[u].plan = Nothing
    BY <1>9, <2>1 DEF Apart, Rewriting
  <2> QED BY <1>9, <2>1, <2>2, NothingPartial DEF RewritingIsArchived, Rewriting, At
<1>14. ASSUME NEW u \in Threads PROVE RestoringIsTrue(u)'
  <2>1. RestoringIsTrue(u)
    BY DEF Apart
  <2>2. (At(u, "forgetting") => \A g \in Files : ~Mentions(g))'
    BY <1>5, <1>9, <2>1 DEF RestoringIsTrue, At, Mentions
  <2>3. ASSUME At(u, "restoring"), NEW g \in Files
        PROVE  IF g \in DOMAIN op'[u].saved THEN TrueOf(g, op[u].saved[g]) /\ op'[u].saved[g] = op[u].saved[g]
                                            ELSE IsBack(g)'
    BY <1>6, <1>7, <1>8, <2>1, <2>3 DEF RestoringIsTrue
  <2>4. (At(u, "restoring") => \A g \in Files :
            IF g \in DOMAIN op[u].saved THEN TrueOf(g, op[u].saved[g]) ELSE IsBack(g))'
    <3> SUFFICES ASSUME At(u, "restoring"), NEW g \in Files
                 PROVE  (IF g \in DOMAIN op[u].saved THEN TrueOf(g, op[u].saved[g]) ELSE IsBack(g))'
      BY <1>9 DEF At
    <3>1. CASE g \in DOMAIN op'[u].saved
      BY <1>2, <2>3, <3>1 DEF TrueOf, Uncontested
    <3>2. CASE g \notin DOMAIN op'[u].saved
      BY <2>3, <3>2
    <3> QED BY <3>1, <3>2
  <2> QED BY <2>2, <2>4 DEF RestoringIsTrue
<1> QED BY <1>10, <1>11, <1>12, <1>13, <1>14 DEF Apart

LEMMA UnstashKeeps ==
    ASSUME TypeInv, Apart, NEW t \in Threads, Unstash(t) PROVE Apart'
<1>1. /\ At(t, "restoring") /\ op[t].saved = Nothing /\ UNCHANGED <<live, home, contested>>
      /\ Become(t, [op[t] EXCEPT !.stage = "restored"])
      /\ stash' = Nothing \/ UNCHANGED stash
  BY DEF Unstash, RemoveStash, histories
<1>2. \A f \in Files : IsBack(f)
  BY <1>1, NothingPartial DEF Apart, RestoringIsTrue
<1>3. \A u \in Threads : ~Rewriting(u)
  BY <1>1 DEF Apart, NotMixed, Restoring, At
<1>4. CASE UNCHANGED stash
  BY <1>1, <1>3, <1>4, MovesOn DEF Stage
<1>5. CASE stash' = Nothing
  <2>1. /\ op'[t].stage = "restored" /\ op'[t].plan = op[t].plan
        /\ \A u \in Threads \ {t} : op'[u] = op[u]
    <3>1. IsOp(op[t]) /\ DOMAIN op = Threads
      BY DEF TypeInv, TypeOK
    <3>2. op'[t] = [op[t] EXCEPT !.stage = "restored"] /\ \A u \in Threads \ {t} : op'[u] = op[u]
      BY <1>1, <3>1 DEF Become
    <3> QED BY <3>1, <3>2 DEF IsOp
  <2>2. NotMixed'
    BY <1>3, <2>1 DEF NotMixed, Rewriting
  <2>3. ArchiveIsTrue'
    <3>1. \A f \in Files : IsBack(f)'
      BY <1>1, <1>2 DEF IsBack, Mentions, Uncontested
    <3> QED BY <1>5, <3>1, NothingPartial DEF ArchiveIsTrue, Recorded
  <2>4. OthersAreHome'
    BY <1>1 DEF Apart, OthersAreHome, Uncontested
  <2>5. ASSUME NEW u \in Threads PROVE RewritingIsArchived(u)'
    <3>1. RewritingIsArchived(u) /\ op'[u].plan = Nothing /\ ~At(u, "planned") /\ ~At(u, "archiving")
      BY <1>3, <2>1 DEF Apart, RewritingIsArchived, Rewriting
    <3> QED BY <2>1, <3>1, NothingPartial DEF RewritingIsArchived, Rewriting, At
  <2>6. ASSUME NEW u \in Threads PROVE RestoringIsTrue(u)'
    <3>1. CASE u = t
      BY <2>1, <3>1 DEF RestoringIsTrue, At
    <3>2. CASE u # t
      BY <1>1, <2>1, <3>2
      DEF Apart, RestoringIsTrue, At, IsBack, TrueOf, Mentions, Uncontested
    <3> QED BY <3>1, <3>2
  <2> QED BY <2>2, <2>3, <2>4, <2>5, <2>6 DEF Apart
<1> QED BY <1>1, <1>4, <1>5

LEMMA ForgetKeeps ==
    ASSUME TypeInv, HomeIsChosen, Apart, NEW t \in Threads, Forget(t)
    PROVE  Apart' /\ HomeIsChosen'
<1>1. /\ At(t, "forgetting") /\ UNCHANGED live
      /\ Become(t, [op[t] EXCEPT !.stage = "takenOver"])
      /\ stash' = Nothing \/ UNCHANGED stash
  BY DEF Forget, RemoveStash
<1>2. /\ \A u \in Threads : ~Rewriting(u)
      /\ \A f \in Files : ~Mentions(f)
  BY <1>1 DEF Apart, NotMixed, Restoring, At, RestoringIsTrue
<1>3. CASE UNCHANGED stash
  <2>1. UNCHANGED <<home, contested>>
    BY <1>3 DEF Forget
  <2>2. Apart'
    BY <1>1, <1>2, <1>3, <2>1, MovesOn DEF Stage
  <2> QED BY <2>1, <2>2 DEF HomeIsChosen
<1>4. CASE ~UNCHANGED stash
  <2>1. stash' = Nothing /\ Recorded /\ TrueOfAll(stash)
    <3>1. IsPartial(stash, Record) /\ stash # Nothing
      BY <1>1, <1>4 DEF TypeInv, TypeOK
    <3>2. Recorded
      BY <3>1, EmptyIsNothing DEF Recorded
    <3> QED BY <1>1, <1>4, <3>2 DEF Apart, ArchiveIsTrue
  <2>2. /\ home' = [f \in Files |-> [k \in Keys |->
                      IF IsArchived(f, k) /\ IsChosen(live[f][k]) THEN live[f][k] ELSE home[f][k]]]
        /\ contested' = contested \cup
               {p \in Files \X Keys :
                   /\ IsArchived(p[1], p[2])
                   /\ ~IsChosen(live[p[1]][p[2]]) \/ \E u \in Threads : At(u, "restoring")}
    BY <1>4 DEF Forget
  <2>3. \A f \in Files, k \in Keys : home'[f][k] =
           IF IsArchived(f, k) /\ IsChosen(live[f][k]) THEN live[f][k] ELSE home[f][k]
    BY <2>2
  <2>4. ASSUME NEW f \in Files, NEW k \in Keys, Uncontested(f, k)'
        PROVE  /\ Uncontested(f, k)
               /\ IsArchived(f, k) => IsChosen(live[f][k]) /\ ~\E u \in Threads : At(u, "restoring")
    <3> DEFINE p == <<f, k>>
    <3>1. p \in Files \X Keys /\ p[1] = f /\ p[2] = k
      OBVIOUS
    <3>2. p \notin contested'
      BY <2>4 DEF Uncontested
    <3> QED BY <2>2, <3>1, <3>2 DEF Uncontested
  <2>5. ASSUME NEW f \in Files, NEW k \in Managed, Uncontested(f, k)'
        PROVE  home'[f][k] = live[f][k] /\ ~\E u \in Threads : At(u, "restoring")
    <3>1. k \in Keys /\ Uncontested(f, k)
      BY <2>4, <2>5, KeyFacts
    <3>2. IsArchived(f, k)
      BY <2>1, <3>1 DEF TrueOfAll, TrueOf, IsArchived
    <3> QED BY <2>3, <2>4, <2>5, <3>1, <3>2
  <2>6. ASSUME NEW f \in Files, NEW k \in Keys \ Managed PROVE home'[f][k] = home[f][k]
    <3>1. ~IsArchived(f, k)
      BY Parts DEF TypeInv, IsArchived, Record
    <3> QED BY <2>3, <3>1
  <2>7. HomeIsChosen'
    BY <2>3 DEF HomeIsChosen, IsChosen
  <2>8. /\ op'[t].stage = "takenOver"
        /\ \A u \in Threads : op'[u].plan = op[u].plan
        /\ \A u \in Threads \ {t} : op'[u] = op[u]
    <3>1. IsOp(op[t]) /\ DOMAIN op = Threads
      BY DEF TypeInv, TypeOK
    <3>2. op'[t] = [op[t] EXCEPT !.stage = "takenOver"] /\ \A u \in Threads \ {t} : op'[u] = op[u]
      BY <1>1, <3>1 DEF Become
    <3> QED BY <3>1, <3>2 DEF IsOp
  <2>9. NotMixed'
    BY <1>2, <2>8 DEF NotMixed, Rewriting
  <2>10. ArchiveIsTrue'
    <3>1. \A f \in Files : IsBack(f)'
      BY <1>1, <1>2, <2>5 DEF IsBack, Mentions
    <3> QED BY <2>1, <3>1, NothingPartial DEF ArchiveIsTrue, Recorded
  <2>11. OthersAreHome'
    BY <1>1, <2>4, <2>6 DEF Apart, OthersAreHome
  <2>12. ASSUME NEW u \in Threads PROVE RewritingIsArchived(u)'
    <3>1. RewritingIsArchived(u) /\ op'[u].plan = Nothing /\ ~At(u, "planned") /\ ~At(u, "archiving")
      BY <1>2, <2>8 DEF Apart, RewritingIsArchived, Rewriting
    <3> QED BY <2>8, <3>1, NothingPartial DEF RewritingIsArchived, Rewriting, At
  <2>13. ASSUME NEW u \in Threads PROVE RestoringIsTrue(u)'
    <3>1. CASE u = t
      BY <2>8, <3>1 DEF RestoringIsTrue, At
    <3>2. CASE u # t
      <4>1. (At(u, "forgetting") => \A f \in Files : ~Mentions(f))'
        BY <1>1, <1>2 DEF Mentions
      <4>2. At(u, "restoring") => \A f \in Files, k \in Managed : ~Uncontested(f, k)'
        BY <2>5
      <4>3. (At(u, "restoring") => \A f \in Files :
                IF f \in DOMAIN op[u].saved THEN TrueOf(f, op[u].saved[f]) ELSE IsBack(f))'
        BY <1>1, <1>2, <2>8, <3>2, <4>2
        DEF Apart, RestoringIsTrue, At, IsBack, TrueOf, Mentions
      <4> QED BY <4>1, <4>3 DEF RestoringIsTrue
    <3> QED BY <3>1, <3>2
  <2> QED BY <2>7, <2>9, <2>10, <2>11, <2>12, <2>13 DEF Apart
<1> QED BY <1>3, <1>4

LEMMA EditKeeps ==
    ASSUME TypeInv, HomeIsChosen, Apart,
           NEW f \in Files, NEW k \in Keys, NEW c \in Choices, Edit(f, k, c)
    PROVE  Apart' /\ HomeIsChosen'
<1>1. UNCHANGED <<stash, op>> /\ contested \subseteq contested'
  BY DEF Edit
<1>2. live \in [Files -> Content] /\ home \in [Files -> Content]
  BY Parts DEF TypeInv
<1>3. /\ live'[f][k] = Chosen(c)
      /\ \A g \in Files, l \in Keys : g # f \/ l # k => live'[g][l] = live[g][l]
      /\ home'[f][k] = IF IsArchived(f, k) THEN home[f][k] ELSE Chosen(c)
      /\ \A g \in Files, l \in Keys : g # f \/ l # k => home'[g][l] = home[g][l]
  BY <1>2 DEF Edit, Content
<1>4. Uncontested(f, k)' =>
        /\ \A t \in Threads : f \notin DOMAIN op[t].plan
        /\ k \in Managed => \A t \in Threads : ~At(t, "restoring")
        /\ ~(f \in DOMAIN stash /\ k \in Managed \ stash[f].changed)
  BY DEF Edit, Uncontested
<1>5. \A g \in Files, l \in Keys : Uncontested(g, l)' => Uncontested(g, l)
  BY <1>1 DEF Uncontested
<1>6. \A g \in Files : ~Mentions(g) => ~Mentions(g)'
  BY <1>3, KeyFacts, ValuesDiffer DEF Mentions
<1>7. HomeIsChosen'
  BY <1>3 DEF HomeIsChosen, IsChosen
<1>8. NotMixed'
  BY <1>1 DEF Apart, NotMixed, Rewriting, Restoring
<1>9. ArchiveIsTrue'
  <2>1. CASE Recorded
    <3>1. ASSUME NEW g \in Files, NEW l \in Managed, Uncontested(g, l)'
          PROVE  l \in stash[g].changed /\ stash[g].before[l] = home'[g][l]
      <4>1. /\ g \in DOMAIN stash /\ l \in stash[g].changed /\ stash[g].before[l] = home[g][l]
            /\ l \in Keys
        BY <1>5, <2>1, <3>1, KeyFacts DEF Apart, ArchiveIsTrue, TrueOfAll, TrueOf
      <4> QED BY <1>3, <4>1 DEF IsArchived
    <3> QED BY <1>1, <2>1, <3>1 DEF Apart, ArchiveIsTrue, TrueOfAll, TrueOf, Recorded
  <2>2. CASE ~Recorded
    <3>1. ASSUME NEW g \in Files PROVE IsBack(g)'
      <4>1. IsBack(g) /\ ~IsArchived(f, k)
        BY <2>2 DEF Apart, ArchiveIsTrue, Recorded, IsArchived
      <4>2. ASSUME NEW l \in Managed, Uncontested(g, l)' PROVE live'[g][l] = home'[g][l]
        <5>1. Uncontested(g, l) /\ live[g][l] = home[g][l] /\ l \in Keys
          BY <1>5, <4>1, <4>2, KeyFacts DEF IsBack
        <5> QED BY <1>3, <4>1, <5>1
      <4> QED BY <1>6, <4>1, <4>2 DEF IsBack
    <3> QED BY <1>1, <2>2, <3>1 DEF ArchiveIsTrue, Recorded
  <2> QED BY <2>1, <2>2
<1>10. OthersAreHome'
  <2>1. k \notin Managed => ~IsArchived(f, k)
    BY Parts DEF TypeInv, IsArchived, Record
  <2> QED BY <1>3, <1>5, <2>1 DEF Apart, OthersAreHome
\* A key that is not contested after the step is none of a file about to be rewritten.
<1>11. ASSUME NEW t \in Threads, NEW g \in DOMAIN op[t].plan, NEW l \in Keys, Uncontested(g, l)'
       PROVE  home'[g][l] = home[g][l]
  <2>1. g \in Files
    BY <1>11, Parts DEF TypeInv
  <2> QED BY <1>3, <1>4, <1>11, <2>1
<1>12. ASSUME NEW t \in Threads PROVE RewritingIsArchived(t)'
  <2>1. RewritingIsArchived(t) /\ op'[t] = op[t] /\ DOMAIN op[t].plan \subseteq Files
    BY <1>1, Parts DEF Apart, TypeInv
  <2>2. ASSUME At(t, "planned"), ~Recorded, NEW g \in Files
        PROVE  g \in DOMAIN op[t].plan /\ TrueOf(g, FirstRecord(op[t].plan[g]))'
    <3>1. g \in DOMAIN op[t].plan /\ TrueOf(g, FirstRecord(op[t].plan[g]))
      BY <2>1, <2>2 DEF RewritingIsArchived
    <3>2. \A l \in Managed : Uncontested(g, l)' => Uncontested(g, l) /\ home'[g][l] = home[g][l]
      BY <1>5, <1>11, <3>1, KeyFacts
    <3> QED BY <2>1, <3>1, <3>2 DEF TrueOf, FirstRecord
  <2>3. ASSUME At(t, "archiving")
        PROVE  TrueOfAll(op[t].saved)'
    <3>1. TrueOfAll(op[t].saved) /\ (Recorded \/ Files \subseteq DOMAIN op[t].plan)
      BY <2>1, <2>3 DEF RewritingIsArchived
    <3>2. ASSUME NEW g \in Files, NEW l \in Managed, Uncontested(g, l)'
          PROVE  Uncontested(g, l) /\ home'[g][l] = home[g][l]
      <4>1. Uncontested(g, l) /\ l \in Keys
        BY <1>5, <3>2, KeyFacts
      <4>2. CASE Recorded
        <5>1. g \in DOMAIN stash
          BY <4>2 DEF Apart, ArchiveIsTrue, TrueOfAll
        <5> QED BY <1>3, <1>4, <3>2, <4>1, <5>1 DEF IsArchived
      <4>3. CASE ~Recorded
        BY <1>11, <3>1, <3>2, <4>1, <4>3
      <4> QED BY <4>1, <4>2, <4>3
    <3> QED BY <2>1, <3>1, <3>2 DEF TrueOfAll, TrueOf
  <2>4. (\A g \in DOMAIN op[t].plan, l \in Keys \ Managed :
            Uncontested(g, l) => op[t].plan[g].after[l] = home[g][l])'
    <3>1. ASSUME NEW g \in DOMAIN op[t].plan, NEW l \in Keys \ Managed, Uncontested(g, l)'
          PROVE  op[t].plan[g].after[l] = home'[g][l]
      <4>1. Uncontested(g, l) /\ home'[g][l] = home[g][l]
        BY <1>5, <1>11, <2>1, <3>1
      <4> QED BY <2>1, <3>1, <4>1 DEF RewritingIsArchived
    <3> QED BY <2>1, <3>1
  <2>5. (At(t, "planned") =>
           /\ Rewriting(t)
           /\ Recorded \/ \A g \in Files :
                g \in DOMAIN op[t].plan /\ TrueOf(g, FirstRecord(op[t].plan[g])))'
    BY <1>1, <2>1, <2>2 DEF RewritingIsArchived, At, Rewriting, Recorded
  <2>6. (At(t, "archiving") =>
           /\ Rewriting(t)
           /\ TrueOfAll(op[t].saved)
           /\ Recorded \/ Files \subseteq DOMAIN op[t].plan)'
    BY <1>1, <2>1, <2>3 DEF RewritingIsArchived, At, Rewriting, Recorded
  <2>7. /\ (Rewriting(t) => op[t].stage \in {"planned", "archiving", "writing"})'
        /\ (At(t, "writing") /\ Rewriting(t) => Recorded)'
    BY <1>1, <2>1 DEF RewritingIsArchived, At, Rewriting, Recorded
  <2> QED BY <2>4, <2>5, <2>6, <2>7 DEF RewritingIsArchived
<1>13. ASSUME NEW t \in Threads PROVE RestoringIsTrue(t)'
  <2>1. RestoringIsTrue(t) /\ op'[t] = op[t]
    BY <1>1 DEF Apart
  <2>2. ASSUME At(t, "restoring"), NEW g \in Files, NEW l \in Managed, Uncontested(g, l)'
        PROVE  Uncontested(g, l) /\ home'[g][l] = home[g][l] /\ live'[g][l] = live[g][l]
    <3>1. l \in Keys /\ Uncontested(g, l)
      BY <1>5, <2>2, KeyFacts
    <3>2. g # f \/ l # k
      BY <1>4, <2>2
    <3> QED BY <1>3, <3>1, <3>2
  <2>3. (At(t, "restoring") => \A g \in Files :
            IF g \in DOMAIN op[t].saved THEN TrueOf(g, op[t].saved[g]) ELSE IsBack(g))'
    BY <1>6, <2>1, <2>2 DEF RestoringIsTrue, At, TrueOf, IsBack
  <2>4. (At(t, "forgetting") => \A g \in Files : ~Mentions(g))'
    BY <1>6, <2>1 DEF RestoringIsTrue, At
  <2> QED BY <2>3, <2>4 DEF RestoringIsTrue
<1> QED BY <1>7, <1>8, <1>9, <1>10, <1>12, <1>13 DEF Apart

LEMMA InvInit == ASSUME Init PROVE IInv
<1>1. TypeInv
  BY InitTypeInv
<1>2. live \in [Files -> {[k \in Keys |-> Chosen(c)] : c \in Choices}]
      /\ home = live /\ DOMAIN stash = {} /\ op = [t \in Threads |-> NoOp]
  BY NothingPartial DEF Init
<1>3. \A f \in Files, k \in Keys : \E c \in Choices : live[f][k] = Chosen(c)
  <2>1. ASSUME NEW f \in Files PROVE \E c \in Choices : live[f] = [k \in Keys |-> Chosen(c)]
    BY <1>2
  <2> QED BY <2>1
<1>4. HomeIsChosen
  BY <1>2, <1>3 DEF HomeIsChosen, IsChosen
<1>5. \A f \in Files : ~Mentions(f)
  BY <1>3, KeyFacts, ValuesDiffer DEF Mentions
<1>6. ArchiveIsTrue /\ OthersAreHome
  BY <1>2, <1>5 DEF ArchiveIsTrue, OthersAreHome, IsBack, Recorded
<1>7. \A t \in Threads : op[t].plan = Nothing /\ op[t].stage = "idle" /\ DOMAIN op[t].plan = {}
  BY <1>2, OpTypes, NothingPartial
<1>8. NotMixed /\ \A t \in Threads : RewritingIsArchived(t) /\ RestoringIsTrue(t)
  BY <1>7 DEF NotMixed, Rewriting, Restoring, RewritingIsArchived, RestoringIsTrue, At
<1> QED BY <1>1, <1>4, <1>6, <1>8 DEF IInv, Apart

LEMMA InvStep ==
    ASSUME IInv, [Next]_vars PROVE IInv'
<1> USE DEF disk, histories
<1>1. TypeInv /\ TypeInv' /\ HomeIsChosen
  BY TypesStep DEF IInv
<1>2. /\ IsOp(NoOp) /\ NoOp.plan = Nothing /\ NoOp.stage = "idle"
      /\ \A kind \in Kind, stage \in Stage :
            /\ IsOp([NoOp EXCEPT !.kind = kind, !.stage = stage])
            /\ [NoOp EXCEPT !.kind = kind, !.stage = stage].plan = Nothing
            /\ [NoOp EXCEPT !.kind = kind, !.stage = stage].stage = stage
  BY OpTypes, OpParts, NothingPartial DEF NoOp
<1>3. /\ {"none", "enable", "disable", "exit", "reapply", "refresh"} = Kind
      /\ {"idle", "checking", "begun", "planned", "archiving", "writing", "decided",
          "restoring", "restored", "forgetting", "takenOver"} = Stage
  BY DEF Kind, Stage
\* What a step that leaves the histories alone needs.
<1>4. ASSUME ~mixed' => ~mixed, HomeIsChosen', Apart /\ ~mixed' => Apart'
      PROVE  IInv'
  <2>1. ~mixed' => Apart'
    BY <1>4 DEF IInv
  <2> QED BY <1>1, <1>4, <2>1 DEF IInv
<1>5. UNCHANGED home => HomeIsChosen'
  BY <1>1 DEF HomeIsChosen
<1>6. ASSUME NEW t \in Threads, NEW new, IsOp(new), Become(t, new), new.plan = Nothing,
             new.stage \notin {"planned", "archiving", "restoring", "forgetting"},
             UNCHANGED <<live, stash, home, contested, mixed>>
      PROVE  IInv'
  BY <1>1, <1>4, <1>5, <1>6, IdleKeeps
<1>7. ASSUME NEW t \in Threads, Enable(t) PROVE IInv'
  BY <1>2, <1>3, <1>6, <1>7 DEF Enable
<1>8. ASSUME NEW t \in Threads, ChangePool(t) PROVE IInv'
  BY <1>2, <1>3, <1>6, <1>8 DEF ChangePool
<1>9. ASSUME NEW t \in Threads, StartFromSavedState(t) PROVE IInv'
  <2>1. CASE UNCHANGED op
    <3>1. UNCHANGED <<live, stash, home, contested, mixed, op>>
      BY <1>9, <2>1 DEF StartFromSavedState
    <3>2. Apart => Apart'
      <4>1. NotMixed => NotMixed'
        BY <3>1 DEF NotMixed, Rewriting, Restoring
      <4> QED BY <3>1, <4>1, OthersKeep DEF Apart
    <3> QED BY <1>4, <1>5, <3>1, <3>2
  <2>2. CASE \E kind \in {"reapply", "refresh"} :
                Become(t, [NoOp EXCEPT !.kind = kind, !.stage = "checking"])
    <3>1. PICK kind \in Kind : Become(t, [NoOp EXCEPT !.kind = kind, !.stage = "checking"])
      BY <1>3, <2>2
    <3>2. UNCHANGED <<live, stash, home, contested, mixed>>
      BY <1>9 DEF StartFromSavedState
    <3> DEFINE new == [NoOp EXCEPT !.kind = kind, !.stage = "checking"]
    <3>3. IsOp(new) /\ new.plan = Nothing /\ new.stage = "checking"
      <4>1. kind \in Kind /\ "checking" \in Stage
        BY <1>3
      <4> QED BY <1>2, <4>1, Zenon
    <3> HIDE DEF new
    <3>4. Become(t, new)
      BY <3>1 DEF new
    <3> QED BY <1>6, <3>2, <3>3, <3>4
  <2> QED BY <1>9, <2>1, <2>2 DEF StartFromSavedState
<1>10. ASSUME NEW t \in Threads, UndoRestore(t) PROVE IInv'
  BY <1>2, <1>3, <1>6, <1>10 DEF UndoRestore
<1>11. ASSUME NEW t \in Threads, Check(t) PROVE IInv'
  <2>1. CASE PassOver(t)
    BY <1>2, <1>6, <1>11, <2>1 DEF Check
  <2>2. CASE ~PassOver(t)
    <3>1. Apart => Apart'
      <4>1. Apart => ~Rewriting(t)
        BY <1>11 DEF Check, Apart, RewritingIsArchived, At
      <4> QED BY <1>1, <1>3, <1>11, <2>2, <4>1, MovesOn DEF Check
    <3> QED BY <1>4, <1>5, <1>11, <3>1 DEF Check
  <2> QED BY <2>1, <2>2
<1>12. ASSUME NEW t \in Threads, Plan(t) PROVE IInv'
  <2>1. UNCHANGED home /\ (~mixed' => ~mixed)
    BY <1>12 DEF Plan
  <2> QED BY <1>1, <1>4, <1>5, <1>12, <2>1, PlanKeeps
<1>13. ASSUME NEW t \in Threads, LoadArchive(t) PROVE IInv'
  BY <1>1, <1>4, <1>5, <1>13, LoadArchiveKeeps DEF LoadArchive
<1>14. ASSUME NEW t \in Threads, SaveArchive(t) PROVE IInv'
  BY <1>1, <1>4, <1>5, <1>14, SaveArchiveKeeps DEF SaveArchive
<1>15. ASSUME NEW t \in Threads, WriteFile(t) PROVE IInv'
  BY <1>1, <1>4, <1>5, <1>15, WriteFileKeeps DEF WriteFile
<1>16. ASSUME NEW t \in Threads, Connected(t) PROVE IInv'
  BY <1>2, <1>6, <1>16 DEF Connected
<1>17. ASSUME NEW t \in Threads, BeginRestore(t) PROVE IInv'
  BY <1>1, <1>4, <1>5, <1>17, BeginRestoreKeeps DEF BeginRestore
<1>18. ASSUME NEW t \in Threads, Forget(t) PROVE IInv'
  <2>1. mixed' = mixed
    BY <1>18 DEF Forget
  <2>2. CASE mixed
    <3>1. HomeIsChosen'
      <4>1. CASE UNCHANGED home
        BY <1>5, <4>1
      <4>2. CASE home' = [f \in Files |-> [k \in Keys |->
                      IF IsArchived(f, k) /\ IsChosen(live[f][k]) THEN live[f][k] ELSE home[f][k]]]
        <5>1. \A f \in Files, k \in Keys : home'[f][k] =
                 IF IsArchived(f, k) /\ IsChosen(live[f][k]) THEN live[f][k] ELSE home[f][k]
          BY <4>2
        <5> QED BY <1>1, <5>1 DEF HomeIsChosen, IsChosen
      <4> QED BY <1>18, <4>1, <4>2 DEF Forget
    <3> QED BY <1>1, <2>1, <2>2, <3>1 DEF IInv
  <2>3. CASE ~mixed
    BY <1>1, <1>18, <2>1, <2>3, ForgetKeeps DEF IInv
  <2> QED BY <2>2, <2>3
<1>19. ASSUME NEW t \in Threads, LoadRecords(t) PROVE IInv'
  <2>1. UNCHANGED home /\ (~mixed' => ~mixed)
    BY <1>19 DEF LoadRecords
  <2> QED BY <1>1, <1>4, <1>5, <1>19, <2>1, LoadRecordsKeeps
<1>20. ASSUME NEW t \in Threads, RestoreFile(t) PROVE IInv'
  BY <1>1, <1>4, <1>5, <1>20, RestoreFileKeeps DEF RestoreFile
<1>21. ASSUME NEW t \in Threads, Unstash(t) PROVE IInv'
  BY <1>1, <1>4, <1>5, <1>21, UnstashKeeps DEF Unstash
<1>22. ASSUME NEW t \in Threads, Disconnected(t) PROVE IInv'
  BY <1>2, <1>6, <1>22 DEF Disconnected
<1>23. ASSUME NEW t \in Threads, Fails(t) PROVE IInv'
  BY <1>2, <1>6, <1>23 DEF Fails
\* No operation is under way after a crash, or nothing of what is looked at changes.
<1>24. ASSUME UNCHANGED <<live, stash, home, contested, mixed>>,
              UNCHANGED op \/ op' = [t \in Threads |-> NoOp]
       PROVE  IInv'
  <2>1. ASSUME Apart PROVE Apart'
    <3>1. CASE UNCHANGED op
      <4>1. NotMixed'
        BY <2>1, <3>1 DEF Apart, NotMixed, Rewriting, Restoring
      <4> QED BY <1>24, <2>1, <3>1, <4>1, OthersKeep DEF Apart
    <3>2. CASE op' = [t \in Threads |-> NoOp]
      <4>1. \A t \in Threads : op'[t].plan = Nothing /\ op'[t].stage = "idle" /\ DOMAIN op'[t].plan = {}
        BY <1>2, <3>2, NothingPartial
      <4>2. (NotMixed /\ \A t \in Threads : RewritingIsArchived(t) /\ RestoringIsTrue(t))'
        BY <4>1 DEF NotMixed, Rewriting, Restoring, RewritingIsArchived, RestoringIsTrue, At
      <4> QED BY <1>24, <2>1, <4>2, OthersKeep DEF Apart
    <3> QED BY <1>24, <3>1, <3>2
  <2> QED BY <1>4, <1>5, <1>24, <2>1
<1>25. CASE Quit \/ Crash \/ UNCHANGED vars
  BY <1>24, <1>25 DEF Quit, Crash, vars
<1>26. ASSUME NEW f \in Files, NEW k \in Keys, NEW c \in Choices, Edit(f, k, c) PROVE IInv'
  <2>1. mixed' = mixed
    BY <1>26 DEF Edit
  <2>2. HomeIsChosen'
    <3>1. home \in [Files -> Content]
      BY <1>1, Parts DEF TypeInv
    <3>2. \A g \in Files, l \in Keys : home'[g][l] = home[g][l] \/ home'[g][l] = Chosen(c)
      BY <1>26, <3>1 DEF Edit, Content
    <3> QED BY <1>1, <3>2 DEF HomeIsChosen, IsChosen
  <2> QED BY <1>1, <1>4, <1>26, <2>1, <2>2, EditKeeps
<1>27. ASSUME NEW t \in Threads, Operation(t) PROVE IInv'
  BY <1>7, <1>8, <1>9, <1>10, <1>11, <1>12, <1>13, <1>14, <1>15, <1>16, <1>17, <1>18, <1>19,
     <1>20, <1>21, <1>22, <1>23, <1>27 DEF Operation
<1> QED BY <1>25, <1>26, <1>27 DEF Next

LEMMA InvAlways == Spec => []IInv
<1>1. Init => IInv
  BY InvInit
<1>2. IInv /\ [Next]_vars => IInv'
  BY InvStep
<1> QED BY <1>1, <1>2, PTL DEF Spec

\* As long as no restoration meets a rewriting, a file that points at the gateway is in
\* the archive with the address it had before, whatever the number of threads and
\* wherever a failed write or a crash stops an operation.
THEOREM WaysBackAreArchived == Spec => []WayBackIsArchived
<1>1. IInv => WayBackIsArchived
  BY DEF IInv, Apart, ArchiveIsTrue, TrueOfAll, TrueOf, IsBack, WayBackIsArchived
<1> QED BY <1>1, InvAlways, PTL

\* As long as no restoration meets a rewriting, nothing of the gateway is left once the
\* archive is gone: what it had changed is as the user last set it, and the user's edits
\* to other keys are still there.  Contested keys are left out.
THEOREM UserSettingsComeBack == Spec => []NothingArchivedIsHome
<1>1. ASSUME IInv PROVE NothingArchivedIsHome
  <2> SUFFICES ASSUME ~mixed, stash = Nothing, NEW f \in Files, NEW k \in Keys, Uncontested(f, k)
               PROVE  live[f][k] = home[f][k]
    BY DEF NothingArchivedIsHome, Uncontested
  <2>1. ~Recorded /\ Apart
    BY <1>1, NothingPartial DEF Recorded, IInv
  <2>2. CASE k \in Managed
    BY <2>1, <2>2 DEF Apart, ArchiveIsTrue, IsBack
  <2>3. CASE k \notin Managed
    BY <2>1, <2>3 DEF Apart, OthersAreHome
  <2> QED BY <2>2, <2>3
<1>2. IInv => NothingArchivedIsHome
  BY <1>1
<1> QED BY <1>2, InvAlways, PTL
=============================================================================
