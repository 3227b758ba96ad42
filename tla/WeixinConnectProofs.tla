-------------------------- MODULE WeixinConnectProofs --------------------------
(***************************************************************************)
(* Theorems about WeixinConnect for every number of messages, resets,      *)
(* repetitions, failures and ends of the loop, and every length of the     *)
(* list of marks.                                                          *)
(*                                                                         *)
(* The argument.  A reset is honoured because the two files agree in one   *)
(* way at all times: a saved thread that is older than the last reset has  *)
(* that reset still on file and not noted as carried out (ResetOnFile);    *)
(* the request leaves its file only after the new thread is saved.  The    *)
(* marks and the cursor follow the same pattern: what a message has gone   *)
(* through is in both copies of the state, in the batch, or named in the   *)
(* history of what an end of the loop has lost.                            *)
(***************************************************************************)
EXTENDS WeixinConnect, SequenceTheorems, TLAPS

Working == {"request", "forget", "load", "prepare", "save", "complete", "turn", "set", "ended"}

-----------------------------------------------------------------------------
(* Sequences. *)

MarksOK(s) == s \in Seq(Messages) /\ Len(s) <= MaxProcessed /\ IsInjective(s)

LEMMA Bounds ==
    /\ {MaxMessages, MaxResets, MaxRepeats, MaxFaults, MaxEnds} \subseteq Nat
    /\ MaxProcessed \in Nat \ {0}
    /\ NoThread \notin Nat /\ NoRequest \notin Nat /\ Default \notin Nat
BY ConnectAssumption

LEMMA MarkedStep ==
    ASSUME NEW s, MarksOK(s), NEW m \in Messages
    PROVE  MarksOK(Marked(s, m))
<1> DEFINE all == Append(s, m)
           n   == IF Len(all) < MaxProcessed THEN Len(all) ELSE MaxProcessed
           r   == SubSeq(all, Len(all) - n + 1, Len(all))
<1>1. /\ s \in Seq(Messages) /\ Len(s) \in Nat /\ Len(s) <= MaxProcessed
      /\ \A i, j \in 1 .. Len(s) : s[i] = s[j] => i = j
  BY DEF MarksOK, IsInjective
<1>2. CASE m \in ToSet(s)
  BY <1>2 DEF Marked
<1>3. CASE m \notin ToSet(s)
  <2>1. \A i \in 1 .. Len(s) : s[i] # m
    BY <1>1, <1>3 DEF ToSet
  <2>2. /\ all \in Seq(Messages) /\ Len(all) = Len(s) + 1
        /\ \A i \in 1 .. Len(s) : all[i] = s[i]
        /\ all[Len(all)] = m
    BY <1>1
  <2> HIDE DEF all
  <2>3. \A i, j \in 1 .. Len(all) : all[i] = all[j] => i = j
    <3> SUFFICES ASSUME NEW i \in 1 .. Len(all), NEW j \in 1 .. Len(all), all[i] = all[j]
                 PROVE  i = j
      OBVIOUS
    <3>1. \A x \in 1 .. Len(all) : x \in 1 .. Len(s) \/ x = Len(all)
      BY <1>1, <2>2
    <3> QED BY <1>1, <2>1, <2>2, <3>1
  <2>4. n \in 0 .. Len(all) /\ n <= MaxProcessed /\ Len(all) \in Nat
    BY <1>1, <2>2, Bounds
  <2> HIDE DEF n
  <2>5. /\ r \in Seq(Messages) /\ Len(r) = n
        /\ \A i \in 1 .. n : r[i] = all[i + (Len(all) - n)]
    <3>1. \A i \in Len(all) - n + 1 .. Len(all) : all[i] \in Messages
      BY <2>2, <2>4
    <3>2. /\ r \in Seq(Messages)
          /\ Len(r) = IF Len(all) - n + 1 <= Len(all) THEN Len(all) - (Len(all) - n + 1) + 1 ELSE 0
          /\ \A i \in 1 .. Len(all) - (Len(all) - n + 1) + 1 : r[i] = all[(Len(all) - n + 1) + i - 1]
      BY <2>4, <3>1, SubSeqProperties
    <3>3. /\ Len(all) - (Len(all) - n + 1) + 1 = n
          /\ \A i \in 1 .. n : (Len(all) - n + 1) + i - 1 = i + (Len(all) - n)
      BY <2>4
    <3> QED BY <2>4, <3>2, <3>3
  <2> HIDE DEF r
  <2>6. \A i, j \in 1 .. Len(r) : r[i] = r[j] => i = j
    <3> SUFFICES ASSUME NEW i \in 1 .. Len(r), NEW j \in 1 .. Len(r), r[i] = r[j] PROVE i = j
      OBVIOUS
    <3>1. i + (Len(all) - n) \in 1 .. Len(all) /\ j + (Len(all) - n) \in 1 .. Len(all)
      BY <2>4, <2>5
    <3>2. i + (Len(all) - n) = j + (Len(all) - n)
      BY <2>3, <2>5, <3>1
    <3> QED BY <2>4, <2>5, <3>2
  <2>7. Marked(s, m) = r
    BY <1>3 DEF Marked, r, n, all
  <2>8. DOMAIN r = 1 .. Len(r)
    BY <2>5
  <2> QED BY <2>4, <2>5, <2>6, <2>7, <2>8 DEF MarksOK, IsInjective
<1> QED BY <1>2, <1>3

\* The message is marked, and only the oldest mark may go for it.
LEMMA MarkedAdds ==
    ASSUME NEW s, MarksOK(s), NEW m \in Messages
    PROVE  m \in ToSet(Marked(s, m)) /\ ToSet(Marked(s, m)) \subseteq ToSet(s) \cup {m}
<1> DEFINE all == Append(s, m)
           n   == IF Len(all) < MaxProcessed THEN Len(all) ELSE MaxProcessed
           r   == SubSeq(all, Len(all) - n + 1, Len(all))
<1>1. s \in Seq(Messages) /\ Len(s) \in Nat /\ DOMAIN s = 1 .. Len(s)
  BY DEF MarksOK
<1>2. CASE m \in ToSet(s)
  BY <1>2 DEF Marked
<1>3. CASE m \notin ToSet(s)
  <2>1. /\ all \in Seq(Messages) /\ Len(all) = Len(s) + 1
        /\ \A i \in 1 .. Len(s) : all[i] = s[i]
        /\ all[Len(all)] = m
    BY <1>1
  <2> HIDE DEF all
  <2>2. n \in 1 .. Len(all) /\ Len(all) \in Nat
    BY <1>1, <2>1, Bounds
  <2> HIDE DEF n
  <2>3. /\ Len(r) = n /\ r \in Seq(Messages)
        /\ \A i \in 1 .. n : r[i] = all[(Len(all) - n + 1) + i - 1]
    <3>1. \A i \in Len(all) - n + 1 .. Len(all) : all[i] \in Messages
      BY <2>1, <2>2
    <3>2. /\ r \in Seq(Messages)
          /\ Len(r) = IF Len(all) - n + 1 <= Len(all) THEN Len(all) - (Len(all) - n + 1) + 1 ELSE 0
          /\ \A i \in 1 .. Len(all) - (Len(all) - n + 1) + 1 : r[i] = all[(Len(all) - n + 1) + i - 1]
      BY <2>2, <3>1, SubSeqProperties
    <3> QED BY <2>2, <3>2
  <2> HIDE DEF r
  <2>4. DOMAIN r = 1 .. n
    BY <2>3
  <2>5. m \in ToSet(r)
    <3>1. r[n] = all[Len(all)] /\ n \in 1 .. n
      BY <2>2, <2>3
    <3> QED BY <2>1, <2>4, <3>1 DEF ToSet
  <2>6. ToSet(r) \subseteq ToSet(s) \cup {m}
    <3> SUFFICES ASSUME NEW i \in 1 .. n PROVE r[i] \in ToSet(s) \cup {m}
      BY <2>4 DEF ToSet
    <3>1. PICK j \in 1 .. Len(all) : r[i] = all[j]
      <4>1. (Len(all) - n + 1) + i - 1 \in 1 .. Len(all)
        BY <2>2
      <4> QED BY <2>3, <4>1
    <3>2. CASE j = Len(all)
      BY <2>1, <3>1, <3>2
    <3>3. CASE j # Len(all)
      <4>1. j \in 1 .. Len(s)
        BY <1>1, <2>1, <3>3
      <4> QED BY <1>1, <2>1, <3>1, <4>1 DEF ToSet
    <3> QED BY <3>2, <3>3
  <2>7. Marked(s, m) = r
    BY <1>3 DEF Marked, r, n, all
  <2> QED BY <2>5, <2>6, <2>7
<1> QED BY <1>2, <1>3

\* What is left of a batch.
LEMMA Rest ==
    ASSUME NEW b \in Seq(Messages), b # << >>
    PROVE  /\ Head(b) \in Messages /\ Tail(b) \in Seq(Messages)
           /\ ToSet(b) = {Head(b)} \cup ToSet(Tail(b))
<1>1. /\ Tail(b) \in Seq(Messages) /\ Len(b) \in Nat /\ Len(b) > 0
      /\ Len(Tail(b)) = Len(b) - 1 /\ Head(b) = b[1]
      /\ \A i \in 1 .. Len(b) - 1 : Tail(b)[i] = b[i + 1]
  BY HeadTailProperties
<1>2. DOMAIN b = 1 .. Len(b) /\ DOMAIN Tail(b) = 1 .. Len(b) - 1
  BY <1>1
<1>3. ToSet(b) \subseteq {Head(b)} \cup ToSet(Tail(b))
  <2> SUFFICES ASSUME NEW i \in 1 .. Len(b) PROVE b[i] = Head(b) \/ b[i] \in ToSet(Tail(b))
    BY <1>2 DEF ToSet
  <2>1. i = 1 \/ (i - 1 \in 1 .. Len(b) - 1 /\ Tail(b)[i - 1] = b[(i - 1) + 1] /\ (i - 1) + 1 = i)
    BY <1>1
  <2> QED BY <1>1, <1>2, <2>1 DEF ToSet
<1>4. {Head(b)} \cup ToSet(Tail(b)) \subseteq ToSet(b)
  <2>1. Head(b) \in ToSet(b)
    BY <1>1, <1>2 DEF ToSet
  <2>2. ASSUME NEW i \in 1 .. Len(b) - 1 PROVE Tail(b)[i] \in ToSet(b)
    <3>1. i + 1 \in 1 .. Len(b)
      BY <1>1
    <3> QED BY <1>1, <1>2, <3>1 DEF ToSet
  <2> QED BY <1>2, <2>1, <2>2 DEF ToSet
<1>5. Head(b) \in Messages
  BY <1>1
<1> QED BY <1>1, <1>3, <1>4, <1>5
-----------------------------------------------------------------------------
(* Types. *)

\* There is a message where one is worked on, and none between the batches.
BatchThere ==
    /\ loop.stage \in Working => loop.batch # << >>
    /\ loop.stage \in {"down", "poll", "polling"} => loop.batch = << >>

Types == TypeOK /\ BatchThere

StateOK(state) == state \in State /\ MarksOK(state.processed)

LEMMA StateType == ASSUME TypeOK PROVE StateOK(disk) /\ StateOK(mem)
BY DEF TypeOK, StateOK, MarksOK, State

LEMMA FirstTypes ==
    /\ StateOK(NewState) /\ NewOptions \in Options /\ Down \in Loop
    /\ Down.stage = "down" /\ Down.batch = << >>
<1>1. << >> \in Seq(Messages) /\ Len(<< >>) = 0 /\ IsInjective(<< >>)
  BY DEF IsInjective
<1>2. 0 \in Threads /\ 0 \in 0 .. MaxMessages
  BY Bounds DEF Threads
<1>3. StateOK(NewState)
  BY <1>1, <1>2, Bounds DEF StateOK, MarksOK, NewState, State
<1>4. NewOptions \in Options
  BY DEF NewOptions, Options, Overrides
<1>5. Down \in Loop
  BY <1>1, <1>2, <1>4 DEF Down, Loop, Stages
<1> QED BY <1>3, <1>4, <1>5 DEF Down

LEMMA CurrentType ==
    ASSUME Types, loop.batch # << >>
    PROVE  /\ Current \in Messages /\ Tail(loop.batch) \in Seq(Messages)
           /\ ToSet(loop.batch) = {Current} \cup ToSet(Tail(loop.batch))
BY Rest DEF Types, TypeOK, Loop, Current

LEMMA BatchIsMessages ==
    ASSUME TypeOK PROVE ToSet(loop.batch) \subseteq Messages
<1>1. loop.batch \in Seq(Messages)
  BY DEF TypeOK, Loop
<1> QED BY <1>1 DEF ToSet

\* What the types say after a step, in parts.
LEMMA TypesFromParts ==
    ASSUME inbox' = inbox, StateOK(disk'), StateOK(mem'), options' \in Options, loop' \in Loop,
           stop' \in BOOLEAN, resets' \in Threads, turns' \in [Messages -> Nat],
           handled' \subseteq Messages, lapsed' \subseteq Messages, again' \subseteq Messages,
           overtaken' \subseteq Resets, BatchThere', Types
    PROVE  Types'
BY DEF Types, TypeOK, StateOK, MarksOK

LEMMA ForgottenType ==
    ASSUME TypeOK, NEW state PROVE Forgotten(state) \subseteq Messages
BY DEF TypeOK, State, Forgotten, ToSet

LEMMA BreaksType ==
    ASSUME Types, NEW forgotten \in SUBSET Messages, Breaks(forgotten)
    PROVE  /\ loop' = Down /\ loop' \in Loop /\ StateOK(mem') /\ stop' \in BOOLEAN
           /\ lapsed' \subseteq Messages /\ BatchThere'
<1>1. loop' = Down /\ mem' = NewState /\ stop' = FALSE
      /\ lapsed' = lapsed \cup ToSet(loop.batch) \cup forgotten
  BY DEF Breaks
<1>2. lapsed' \subseteq Messages
  BY <1>1, BatchIsMessages DEF Types, TypeOK
<1>3. BatchThere'
  BY <1>1, FirstTypes DEF BatchThere, Working
<1> QED BY <1>1, <1>2, <1>3, FirstTypes

\* The loop moves on with the same batch.
LEMMA GoToType ==
    ASSUME Types, NEW stage \in Stages, GoTo(stage), loop.batch # << >>,
           stage \notin {"down", "poll", "polling"}
    PROVE  loop' \in Loop /\ BatchThere'
BY DEF GoTo, Types, TypeOK, Loop, BatchThere

LEMMA ResetType ==
    ASSUME Types, RequestReset
    PROVE  options' \in Options /\ resets' \in Threads /\ resets' \in Resets
<1>1. resets \in 0 .. MaxResets /\ resets < MaxResets /\ resets' = resets + 1
      /\ options' = [NewOptions EXCEPT !.request = resets + 1]
  BY DEF RequestReset, Types, TypeOK, Threads
<1>2. resets + 1 \in Resets /\ resets + 1 \in Threads
  BY <1>1, Bounds DEF Resets, Threads
<1> QED BY <1>1, <1>2, FirstTypes DEF Options

LEMMA TypesStep ==
    ASSUME Types, [Next]_vars PROVE Types'
<1> USE DEF history, bounds
<1>1. /\ TypeOK /\ BatchThere /\ StateOK(disk) /\ StateOK(mem)
      /\ options \in Options /\ loop \in Loop /\ stop \in BOOLEAN /\ resets \in Threads
      /\ turns \in [Messages -> Nat]
      /\ handled \subseteq Messages /\ lapsed \subseteq Messages /\ again \subseteq Messages
      /\ overtaken \subseteq Resets
  BY StateType DEF Types, TypeOK
<1>2. CASE Start
  <2>1. loop' \in Loop /\ BatchThere'
    BY <1>1, <1>2 DEF Start, At, GoTo, Loop, Stages, BatchThere, Working
  <2> QED BY <1>1, <1>2, <2>1, TypesFromParts DEF Start
<1>3. CASE Stop
  <2>1. BatchThere'
    BY <1>1, <1>3 DEF Stop, BatchThere
  <2> QED BY <1>1, <1>3, <2>1, TypesFromParts DEF Stop
<1>4. CASE Crash
  <2>1. Breaks({})
    BY <1>4 DEF Crash, Ends
  <2>2. /\ loop' \in Loop /\ StateOK(mem') /\ stop' \in BOOLEAN
        /\ lapsed' \subseteq Messages /\ BatchThere'
    BY <2>1, BreaksType
  <2> QED BY <1>1, <1>4, <2>2, TypesFromParts DEF Crash
<1>5. CASE ManagerResets
  <2>1. options' \in Options /\ resets' \in Threads /\ overtaken' \subseteq Resets
    BY <1>1, <1>5, ResetType DEF ManagerResets
  <2>2. BatchThere'
    BY <1>1, <1>5 DEF ManagerResets, BatchThere
  <2> QED BY <1>1, <1>5, <2>1, <2>2, TypesFromParts DEF ManagerResets
<1>6. CASE BeginPoll
  <2>1. loop' \in Loop /\ BatchThere'
    BY <1>1, <1>6 DEF BeginPoll, At, GoTo, Loop, Stages, BatchThere, Working
  <2> QED BY <1>1, <1>6, <2>1, TypesFromParts DEF BeginPoll
<1>7. CASE Poll
  <2>1. PICK k \in mem.cursor .. MaxMessages :
          /\ loop' = [loop EXCEPT !.stage = "batch",
                                  !.batch = [i \in 1 .. k - mem.cursor |-> mem.cursor + i]]
          /\ \/ mem' = [mem EXCEPT !.cursor = k] /\ UNCHANGED <<again, repeats>>
             \/ /\ repeats < MaxRepeats
                /\ k > mem.cursor
                /\ repeats' = repeats + 1
                /\ again' = again \cup (mem.cursor + 1 .. k)
                /\ UNCHANGED mem
    BY <1>7 DEF Poll
  <2>2. mem.cursor \in Nat /\ k \in Nat /\ mem.cursor <= k /\ k <= MaxMessages
    BY <1>1, <2>1, Bounds DEF StateOK, State
  <2> DEFINE b == [i \in 1 .. k - mem.cursor |-> mem.cursor + i]
  <2>3. b \in Seq(Messages)
    <3>1. \A i \in 1 .. k - mem.cursor : mem.cursor + i \in Messages
      BY <2>2, Bounds DEF Messages
    <3>2. k - mem.cursor \in Nat
      BY <2>2
    <3> QED BY <3>1, <3>2
  <2> HIDE DEF b
  <2>4. loop' = [loop EXCEPT !.stage = "batch", !.batch = b]
    BY <2>1 DEF b
  <2>5. loop' \in Loop /\ BatchThere'
    BY <1>1, <2>3, <2>4 DEF Loop, Stages, BatchThere, Working
  <2>6. StateOK(mem')
    <3>1. k \in 0 .. MaxMessages
      BY <2>2, Bounds
    <3>2. StateOK([mem EXCEPT !.cursor = k])
      BY <1>1, <3>1 DEF StateOK, State
    <3> QED BY <1>1, <2>1, <3>2
  <2>7. again' \subseteq Messages
    BY <1>1, <2>1, <2>2, Bounds DEF Messages
  <2> QED BY <1>1, <1>7, <2>5, <2>6, <2>7, TypesFromParts DEF Poll
<1>8. CASE PassOver
  <2>1. Current \in Messages /\ Tail(loop.batch) \in Seq(Messages)
    BY <1>8, CurrentType DEF PassOver
  <2>2. StateOK(mem')
    <3>1. StateOK([mem EXCEPT !.processed = Marked(@, Current)])
      <4>1. MarksOK(Marked(mem.processed, Current))
        BY <1>1, <2>1, MarkedStep DEF StateOK
      <4> QED BY <1>1, <4>1 DEF StateOK, State, MarksOK
    <3> QED BY <1>1, <1>8, <3>1 DEF PassOver
  <2>3. loop' \in Loop /\ BatchThere'
    BY <1>1, <1>8, <2>1 DEF PassOver, At, Loop, BatchThere, Working
  <2>4. lapsed' \subseteq Messages /\ handled' \subseteq Messages
    BY <1>1, <1>8, <2>1, ForgottenType DEF PassOver
  <2> QED BY <1>1, <1>8, <2>2, <2>3, <2>4, TypesFromParts DEF PassOver
<1>9. CASE Begin
  <2>1. loop' \in Loop /\ BatchThere'
    <3>1. \E stage \in {"load", "request", "ended"} : GoTo(stage)
      BY <1>9 DEF Begin
    <3> QED BY <1>9, <3>1, GoToType DEF Begin, Stages
  <2>2. StateOK(mem')
    <3>1. StateOK([mem EXCEPT !.thread = NoThread])
      BY <1>1 DEF StateOK, State
    <3> QED BY <1>1, <1>9, <3>1 DEF Begin
  <2> QED BY <1>1, <1>9, <2>1, <2>2, TypesFromParts DEF Begin
<1>10. ASSUME NEW state, StateOK(state), NEW next \in Stages, NEW failed \in Stages,
              SaveThen(state, next, failed), loop.batch # << >>,
              {next, failed} \cap {"down", "poll", "polling"} = {},
              UNCHANGED <<inbox, options, stop, resets, turns, handled, lapsed, again, overtaken>>
       PROVE  Types'
  <2>1. mem' = state /\ (disk' = disk \/ disk' = state) /\ (GoTo(next) \/ GoTo(failed))
    BY <1>10 DEF SaveThen
  <2>2. loop' \in Loop /\ BatchThere'
    BY <1>10, <2>1, GoToType
  <2> QED BY <1>1, <1>10, <2>1, <2>2, TypesFromParts
<1>11. CASE Forget
  <2>1. StateOK([mem EXCEPT !.thread = NoThread, !.completed = NoRequest])
    BY <1>1 DEF StateOK, State
  <2>2. "ended" \in Stages /\ loop.batch # << >>
    BY <1>1, <1>11 DEF Stages, Forget, At, BatchThere, Working
  <2> QED BY <1>10, <1>11, <2>1, <2>2 DEF Forget
<1>12. CASE Save
  <2>1. "ended" \in Stages /\ "complete" \in Stages /\ loop.batch # << >>
    BY <1>1, <1>12 DEF Stages, Save, At, BatchThere, Working
  <2> QED BY <1>1, <1>10, <1>12, <2>1 DEF Save
<1>13. CASE Request
  <2>1. options' \in Options /\ resets' \in Threads
    BY <1>1, <1>13, ResetType DEF Request
  <2>2. loop' \in Loop /\ BatchThere'
    <3>1. loop.batch # << >> /\ \E stage \in {"forget", "ended"} : GoTo(stage)
      BY <1>1, <1>13 DEF Request, At, BatchThere, Working
    <3> QED BY <3>1, GoToType DEF Stages
  <2> QED BY <1>1, <1>13, <2>1, <2>2, TypesFromParts DEF Request
<1>14. CASE Load
  <2>1. loop' \in Loop /\ BatchThere'
    BY <1>1, <1>14 DEF Load, At, Loop, Stages, BatchThere, Working
  <2> QED BY <1>1, <1>14, <2>1, TypesFromParts DEF Load
<1>15. CASE GiveUp \/ EndTurn
  <2>1. loop' \in Loop /\ BatchThere'
    BY <1>1, <1>15, GoToType DEF GiveUp, EndTurn, At, Stages, BatchThere, Working
  <2> QED BY <1>1, <1>15, <2>1, TypesFromParts DEF GiveUp, EndTurn
<1>16. CASE Prepare
  <2>1. PICK thread \in {Saved, loop.seen} \ {NoThread} :
          mem' = Completed([mem EXCEPT !.thread = thread], loop.options.request)
    BY <1>16 DEF Prepare
  <2>2. thread \in Threads
    BY <1>1, <2>1 DEF Saved, StateOK, State, Loop
  <2>3. StateOK(mem')
    BY <1>1, <2>1, <2>2 DEF StateOK, State, Completed, Loop, Options
  <2>4. loop' \in Loop /\ BatchThere'
    BY <1>1, <1>16, GoToType DEF Prepare, At, Stages, BatchThere, Working
  <2> QED BY <1>1, <1>16, <2>3, <2>4, TypesFromParts DEF Prepare
<1>17. CASE CompleteReset
  <2>1. loop.batch # << >> /\ Current \in Messages
    BY <1>1, <1>17, CurrentType DEF CompleteReset, At, BatchThere, Working
  <2>2. options' \in Options
    BY <1>1, <1>17 DEF CompleteReset, RequestCompleted, Options
  <2>3. turns' \in [Messages -> Nat]
    BY <1>1, <1>17, <2>1 DEF CompleteReset
  <2>4. loop' \in Loop /\ BatchThere'
    <3>1. \E stage \in {"turn", "ended"} : GoTo(stage)
      BY <1>17 DEF CompleteReset
    <3> QED BY <2>1, <3>1, GoToType DEF Stages
  <2> QED BY <1>1, <1>17, <2>2, <2>3, <2>4, TypesFromParts DEF CompleteReset
<1>18. CASE ToolLoads \/ ToolSaves
  <2>1. CASE ToolLoads
    <3>1. PICK named \in SUBSET Halves \ {{}}, new \in {resets, Default} :
            loop' = [loop EXCEPT !.stage = "set",
                                 !.next = [options EXCEPT !.override =
                                    [half \in Halves |-> IF half \in named THEN new ELSE @[half]]]]
      BY <2>1 DEF ToolLoads
    <3>2. new \in {Default} \cup 0 .. MaxResets
      BY <1>1 DEF Threads
    <3>3. [half \in Halves |-> IF half \in named THEN new ELSE options.override[half]] \in Overrides
      BY <1>1, <3>2 DEF Options, Overrides
    <3>4. loop' \in Loop /\ BatchThere'
      BY <1>1, <2>1, <3>1, <3>3 DEF ToolLoads, At, Loop, Options, Stages, BatchThere, Working
    <3> QED BY <1>1, <2>1, <3>4, TypesFromParts DEF ToolLoads
  <2>2. CASE ToolSaves
    <3>1. options' \in Options
      BY <1>1, <2>2 DEF ToolSaves, SavedOptions, Loop, Options
    <3>2. loop' \in Loop /\ BatchThere'
      BY <1>1, <2>2, FirstTypes DEF ToolSaves, At, Loop, Stages, BatchThere, Working
    <3> QED BY <1>1, <2>2, <3>1, <3>2, TypesFromParts DEF ToolSaves
  <2> QED BY <1>18, <2>1, <2>2
<1>19. CASE ToolResets
  <2>1. options' \in Options /\ resets' \in Threads
    BY <1>19, ResetType DEF ToolResets
  <2>2. BatchThere'
    BY <1>1, <1>19 DEF ToolResets, BatchThere
  <2> QED BY <1>1, <1>19, <2>1, <2>2, TypesFromParts DEF ToolResets
<1>20. CASE Finish
  <2> DEFINE state == [mem EXCEPT !.processed = Marked(@, Current)]
  <2>1. Current \in Messages /\ Tail(loop.batch) \in Seq(Messages)
    BY <1>1, <1>20, CurrentType DEF Finish, At, BatchThere, Working
  <2>2. StateOK(state)
    <3>1. MarksOK(Marked(mem.processed, Current))
      BY <1>1, <2>1, MarkedStep DEF StateOK
    <3> QED BY <1>1, <3>1 DEF StateOK, State, MarksOK
  <2> HIDE DEF state
  <2>3. CASE /\ disk' = state /\ mem' = state
             /\ loop' = [Down EXCEPT !.stage = "batch", !.batch = Tail(loop.batch)]
             /\ handled' = handled \cup {Current}
             /\ lapsed' = lapsed \cup Forgotten(state)
             /\ UNCHANGED <<stop, faults>>
    <3>1. loop' \in Loop /\ BatchThere'
      BY <2>1, <2>3, FirstTypes DEF Loop, Stages, BatchThere, Working
    <3>2. lapsed' \subseteq Messages /\ handled' \subseteq Messages
      BY <1>1, <2>1, <2>3, ForgottenType
    <3> QED BY <1>1, <1>20, <2>2, <2>3, <3>1, <3>2, TypesFromParts DEF Finish
  <2>4. CASE disk' \in {disk, state} /\ Breaks(Forgotten(state)) /\ UNCHANGED handled
    <3>1. /\ loop' \in Loop /\ StateOK(mem') /\ stop' \in BOOLEAN
          /\ lapsed' \subseteq Messages /\ BatchThere'
      BY <1>1, <2>4, BreaksType, ForgottenType
    <3> QED BY <1>1, <1>20, <2>2, <2>4, <3>1, TypesFromParts DEF Finish
  <2> QED BY <1>20, <2>3, <2>4 DEF Finish, state
<1>21. CASE EndBatch
  <2>1. lapsed' \subseteq Messages
    BY <1>1, <1>21, BatchIsMessages DEF EndBatch
  <2>2. loop' \in Loop /\ BatchThere'
    BY <1>21, FirstTypes DEF EndBatch, Loop, Stages, BatchThere, Working
  <2>3. StateOK(disk') /\ StateOK(mem') /\ stop' \in BOOLEAN
    BY <1>1, <1>21, FirstTypes DEF EndBatch
  <2> QED BY <1>1, <1>21, <2>1, <2>2, <2>3, TypesFromParts DEF EndBatch
<1>22. CASE Stopped
  <2>1. /\ loop' \in Loop /\ StateOK(mem') /\ stop' \in BOOLEAN
        /\ lapsed' \subseteq Messages /\ BatchThere'
    BY <1>22, BreaksType DEF Stopped, Ends
  <2> QED BY <1>1, <1>22, <2>1, TypesFromParts DEF Stopped
<1>23. CASE UNCHANGED vars
  BY <1>1, <1>23, TypesFromParts DEF vars, BatchThere
<1> QED BY <1>2, <1>3, <1>4, <1>5, <1>6, <1>7, <1>8, <1>9, <1>11, <1>12, <1>13, <1>14, <1>15,
           <1>16, <1>17, <1>18, <1>19, <1>20, <1>21, <1>22, <1>23 DEF Next

LEMMA InitTypes ==
    ASSUME Init PROVE Types
<1>1. inbox \in [Messages -> Kinds] /\ disk = NewState /\ mem = NewState /\ options = NewOptions
      /\ loop = Down /\ stop = FALSE /\ resets = 0 /\ turns = [m \in Messages |-> 0]
      /\ handled = {} /\ lapsed = {} /\ again = {} /\ overtaken = {}
  BY DEF Init
<1>2. 0 \in Threads /\ turns \in [Messages -> Nat]
  BY <1>1, Bounds DEF Threads
<1>3. TypeOK
  BY <1>1, <1>2, FirstTypes DEF TypeOK, StateOK, MarksOK
<1> QED BY <1>1, <1>3, FirstTypes DEF Types, BatchThere, Working

\* The type invariant: the list of marks never outgrows its limit nor names a message twice.
THEOREM TypeCorrect == Spec => []TypeOK
<1>1. Init => Types
  BY InitTypes
<1>2. Types /\ [Next]_vars => Types'
  BY TypesStep
<1>3. Types => TypeOK
  BY DEF Types
<1> QED BY <1>1, <1>2, <1>3, PTL DEF Spec
-----------------------------------------------------------------------------
(* Overrides. *)

\* From when the options are loaded.
Answering == {"prepare", "save", "complete", "turn", "set"}

\* What is loaded stays until the turn is over.
LEMMA StillAnswering ==
    ASSUME Types, [Next]_vars, loop'.stage \in Answering
    PROVE  \/ Load
           \/ /\ loop.stage \in Answering
              /\ loop'.options = loop.options /\ loop'.seen = loop.seen /\ loop'.batch = loop.batch
<1>1. loop \in Loop
  BY DEF Types, TypeOK
<1>2. UNCHANGED loop => loop.stage \in Answering /\ loop'.options = loop.options
                          /\ loop'.seen = loop.seen /\ loop'.batch = loop.batch
  OBVIOUS
<1>3. ASSUME NEW stage, GoTo(stage)
      PROVE  /\ loop'.stage = stage
             /\ loop'.options = loop.options /\ loop'.seen = loop.seen /\ loop'.batch = loop.batch
  BY <1>1, <1>3 DEF GoTo, Loop
<1>4. CASE Start \/ BeginPoll \/ Begin
  <2>1. \E stage \in {"poll", "polling", "load", "request", "ended"} : GoTo(stage)
    BY <1>4 DEF Start, BeginPoll, Begin
  <2> QED BY <1>3, <2>1 DEF Answering
<1>5. CASE Request \/ Forget \/ GiveUp \/ EndTurn
  <2>1. \E stage \in {"forget", "ended"} : GoTo(stage)
    BY <1>5 DEF Request, Forget, SaveThen, GiveUp, EndTurn
  <2> QED BY <1>3, <2>1 DEF Answering
<1>6. CASE Poll \/ PassOver
  BY <1>1, <1>6 DEF Poll, PassOver, At, Loop, Answering
<1>7. CASE Crash \/ Finish \/ EndBatch \/ Stopped
  <2>1. \/ loop' = Down
        \/ loop' = [Down EXCEPT !.stage = "batch", !.batch = Tail(loop.batch)]
        \/ loop' = [Down EXCEPT !.stage = "poll"]
    BY <1>7 DEF Crash, Finish, EndBatch, Stopped, Ends, Breaks
  <2>2. loop'.stage \in {"down", "batch", "poll"}
    BY <2>1, FirstTypes DEF Loop
  <2> QED BY <2>2 DEF Answering
<1>8. CASE Prepare \/ Save \/ CompleteReset
  <2>1. loop.stage \in Answering /\ \E stage \in Stages : GoTo(stage)
    BY <1>8 DEF Prepare, Save, SaveThen, CompleteReset, At, Answering, Stages
  <2> QED BY <1>3, <2>1
<1>9. CASE Stop \/ ManagerResets \/ ToolResets
  BY <1>2, <1>9 DEF Stop, ManagerResets, ToolResets
<1>10. CASE UNCHANGED vars
  BY <1>2, <1>10 DEF vars
<1>11. CASE ToolLoads \/ ToolSaves
  BY <1>1, <1>11 DEF ToolLoads, ToolSaves, At, Loop, Answering
<1> QED BY <1>4, <1>5, <1>6, <1>7, <1>8, <1>9, <1>10, <1>11 DEF Next

\* The resets that the overrides have outlived overtook a tool.
Covered(opts, last, undone) ==
    \A half \in Halves :
        opts.override[half] # Default => opts.override[half] + 1 .. last \subseteq undone

\* So it is with what is on file, with what the tool is about to save, and with what the
\* turn uses.
OverridesAreCovered ==
    /\ Covered(options, resets, overtaken)
    /\ At("set") => Covered(loop.next, resets, overtaken)
    /\ loop.stage \in Answering => Covered(loop.options, loop.seen, overtaken)

LEMMA RequestResetEffect ==
    ASSUME RequestReset
    PROVE  /\ resets' = resets + 1
           /\ options'.request = resets + 1
           /\ \A half \in Halves : options'.override[half] = Default
BY DEF RequestReset, NewOptions

\* While the tool is between its load and its save only the manager resets.
LEMMA AtWork ==
    ASSUME Types, [Next]_vars, loop'.stage = "set"
    PROVE  \/ ToolLoads
           \/ /\ loop.stage = "set" /\ loop' = loop
              /\ \/ resets' = resets
                 \/ resets' = resets + 1 /\ resets' \in overtaken'
<1> USE DEF history, bounds
<1>1. loop \in Loop
  BY DEF Types, TypeOK
<1>2. ASSUME NEW stage, GoTo(stage) PROVE loop'.stage = stage
  BY <1>1, <1>2 DEF GoTo, Loop
<1>3. CASE Start \/ BeginPoll \/ Begin \/ Request \/ Forget \/ GiveUp \/ Prepare \/ Save
           \/ CompleteReset \/ EndTurn
  <2>1. \E stage \in Stages \ {"set"} : GoTo(stage)
    BY <1>3
    DEF Start, BeginPoll, Begin, Request, Forget, GiveUp, Prepare, Save, SaveThen, CompleteReset,
        EndTurn, Stages
  <2> QED BY <1>2, <2>1
<1>4. CASE Poll \/ PassOver \/ Load \/ ToolSaves
  BY <1>1, <1>4 DEF Poll, PassOver, At, Load, ToolSaves, Loop
<1>5. CASE Crash \/ Finish \/ EndBatch \/ Stopped
  <2>1. \/ loop' = Down
        \/ loop' = [Down EXCEPT !.stage = "batch", !.batch = Tail(loop.batch)]
        \/ loop' = [Down EXCEPT !.stage = "poll"]
    BY <1>5 DEF Crash, Finish, EndBatch, Stopped, Ends, Breaks
  <2> QED BY <2>1, FirstTypes DEF Loop
<1>6. CASE Stop \/ ToolResets \/ UNCHANGED vars
  BY <1>6 DEF Stop, ToolResets, At, vars
<1>7. CASE ManagerResets
  BY <1>7, RequestResetEffect DEF ManagerResets, At
<1> QED BY <1>3, <1>4, <1>5, <1>6, <1>7 DEF Next

LEMMA OverridesStep ==
    ASSUME Types, OverridesAreCovered, [Next]_vars PROVE OverridesAreCovered'
<1> USE DEF history, bounds
<1>1. options \in Options /\ loop \in Loop /\ resets \in Nat
  BY Bounds DEF Types, TypeOK, Threads
<1>2. overtaken \subseteq overtaken'
  BY DEF Next, vars, Start, Stop, Crash, ManagerResets, BeginPoll, Poll, PassOver, Begin, Request,
         Forget, Load, GiveUp, Prepare, Save, CompleteReset, ToolLoads, ToolSaves, ToolResets,
         EndTurn, Finish, EndBatch, Stopped
<1>3. ASSUME NEW opts, NEW last, Covered(opts, last, overtaken),
             NEW other, other.override = opts.override
      PROVE  Covered(other, last, overtaken')
  BY <1>2, <1>3 DEF Covered
<1>4. Covered(options', resets', overtaken')
  <2>1. CASE UNCHANGED <<options, resets>>
    BY <1>3, <2>1 DEF OverridesAreCovered
  <2>2. CASE RequestReset
    BY <2>2, RequestResetEffect DEF Covered
  <2>3. CASE CompleteReset
    <3>1. options'.override = options.override /\ resets' = resets
      BY <1>1, <2>3 DEF CompleteReset, RequestCompleted, Options
    <3> QED BY <1>3, <3>1 DEF OverridesAreCovered
  <2>4. CASE ToolSaves
    <3>1. /\ resets' = resets /\ At("set")
          /\ options'.override \in {options.override, loop.next.override}
      BY <1>1, <2>4 DEF ToolSaves, SavedOptions, Options
    <3> QED BY <1>3, <3>1 DEF OverridesAreCovered
  <2> QED
    BY <2>1, <2>2, <2>3, <2>4
    DEF Next, vars, Start, Stop, Crash, ManagerResets, BeginPoll, Poll, PassOver, Begin, Request,
        Forget, Load, GiveUp, Prepare, Save, ToolLoads, ToolResets, EndTurn, Finish, EndBatch, Stopped
<1>5. At("set")' => Covered(loop'.next, resets', overtaken')
  <2> SUFFICES ASSUME loop'.stage = "set" PROVE Covered(loop'.next, resets', overtaken')
    BY DEF At
  <2>1. CASE ToolLoads
    <3>1. PICK named \in SUBSET Halves \ {{}}, new \in {resets, Default} :
            loop' = [loop EXCEPT !.stage = "set",
                                 !.next = [options EXCEPT !.override =
                                    [half \in Halves |-> IF half \in named THEN new ELSE @[half]]]]
      BY <2>1 DEF ToolLoads
    <3>2. \A half \in Halves : loop'.next.override[half] \in {resets, Default, options.override[half]}
      BY <1>1, <3>1 DEF Loop, Options
    <3>3. resets' = resets /\ resets + 1 .. resets = {}
      BY <1>1, <2>1 DEF ToolLoads
    <3> QED BY <1>2, <3>2, <3>3 DEF OverridesAreCovered, Covered
  <2>2. CASE ~ToolLoads
    <3>1. /\ loop.stage = "set" /\ loop' = loop
          /\ \/ resets' = resets
             \/ resets' = resets + 1 /\ resets' \in overtaken'
      BY <2>2, AtWork
    <3>2. Covered(loop.next, resets, overtaken)
      BY <3>1 DEF OverridesAreCovered, At
    <3>3. ASSUME NEW made \in Nat, made + 1 .. resets \subseteq overtaken
          PROVE  made + 1 .. resets' \subseteq overtaken'
      BY <1>1, <1>2, <3>1, <3>3
    <3>4. \A half \in Halves : loop.next.override[half] # Default => loop.next.override[half] \in Nat
      BY <1>1, Bounds DEF Loop, Options, Overrides
    <3> QED BY <3>1, <3>2, <3>3, <3>4 DEF Covered
  <2> QED BY <2>1, <2>2
<1>6. loop'.stage \in Answering => Covered(loop'.options, loop'.seen, overtaken')
  <2> SUFFICES ASSUME loop'.stage \in Answering PROVE Covered(loop'.options, loop'.seen, overtaken')
    OBVIOUS
  <2>1. CASE Load
    <3>1. loop'.options = options /\ loop'.seen = resets
      BY <1>1, <2>1 DEF Load, Loop
    <3> QED BY <1>3, <3>1 DEF OverridesAreCovered
  <2>2. CASE loop.stage \in Answering /\ loop'.options = loop.options /\ loop'.seen = loop.seen
    BY <1>3, <2>2 DEF OverridesAreCovered
  <2> QED BY <2>1, <2>2, StillAnswering
<1> QED BY <1>4, <1>5, <1>6 DEF OverridesAreCovered, Covered, At

\* An override outlives only the resets that overtake a tool at work.
THEOREM OverridesAreCleared == Spec => []ResetClearsOverrides
<1>1. Init => Types /\ OverridesAreCovered
  <2>1. Init => Types
    BY InitTypes
  <2>2. Init => (\A half \in Halves : options.override[half] = Default) /\ loop.stage = "down"
    BY DEF Init, NewOptions, Down
  <2> QED BY <2>1, <2>2 DEF OverridesAreCovered, Covered, Answering, At
<1>2. (Types /\ OverridesAreCovered) /\ [Next]_vars => (Types /\ OverridesAreCovered)'
  BY TypesStep, OverridesStep
<1>3. Types /\ OverridesAreCovered => ResetClearsOverrides
  BY DEF OverridesAreCovered, Covered, ResetClearsOverrides, Turning, Answering
<1> QED BY <1>1, <1>2, <1>3, PTL DEF Spec
-----------------------------------------------------------------------------
(* Resets. *)

\* Threads and resets that are named have been there.
NamesAreKnown ==
    /\ \A state \in {mem, disk} :
          /\ state.thread # NoThread => state.thread <= resets
          /\ state.completed # NoRequest => state.completed <= resets
    /\ options.request # NoRequest => options.request <= resets
    /\ loop.seen <= resets

\* A saved thread is older than a request only if that is still to be carried out,
\* and younger only if it has been.
OnFile(state, request, last) ==
    state.thread # NoThread =>
        /\ state.thread >= last \/ (request = last /\ state.completed # last)
        /\ request # NoRequest /\ state.thread >= request => state.completed = request

ResetOnFile == \A state \in {mem, disk} : OnFile(state, options.request, resets)

\* What has been loaded is what was on file then.
LoadedIsOnFile ==
    At("prepare") =>
        /\ mem.thread # NoThread => mem.thread <= loop.seen
        /\ mem.completed # NoRequest => mem.completed <= loop.seen
        /\ OnFile(mem, loop.options.request, loop.seen)

\* A reset that was asked for since then is still on file.
LaterResetIsOnFile ==
    loop.stage \in {"prepare", "save", "complete"} =>
        /\ loop.options.request # NoRequest => loop.options.request <= loop.seen
        /\ loop.seen < resets => options.request = resets
        /\ options.request # NoRequest
             => options.request = loop.options.request \/ options.request > loop.seen

\* From when the thread is made or resumed; and it is saved before the request goes.
ThreadIsNew ==
    /\ loop.stage \in {"save", "complete", "turn", "set"} => mem.thread # NoThread /\ mem.thread >= loop.seen
    /\ At("complete") => disk = mem

ResetsInv ==
    NamesAreKnown /\ ResetOnFile /\ LoadedIsOnFile /\ LaterResetIsOnFile /\ ThreadIsNew
\* The thread that there was before, or none.
Like(state) ==
    \E old \in {mem, disk} :
        /\ state.completed \in {old.completed, NoRequest}
        /\ state.thread \in {old.thread, NoThread}
        /\ state.thread # NoThread => state.completed = old.completed

LEMMA NewIsLike == Like(NewState) /\ Like(mem) /\ Like(disk)
BY DEF Like, NewState

\* The loop stays where it is, or the tool is at work in the same turn.
SameTurn == loop' = loop \/ ({loop.stage, loop'.stage} = {"turn", "set"} /\ loop'.seen = loop.seen)

\* Whatever is done besides the resets and the turns.
LEMMA AsideKeepsResets ==
    ASSUME Types, ResetsInv, UNCHANGED resets, options'.request = options.request, Like(mem'), Like(disk'),
           \/ UNCHANGED <<mem, disk>> /\ SameTurn
           \/ loop'.stage \notin Answering /\ loop'.seen \in {loop.seen, 0}
    PROVE  ResetsInv'
<1>1. loop \in Loop /\ resets \in Nat /\ loop.seen \in Nat
  BY Bounds DEF Types, TypeOK, Threads, Loop
<1>2. NamesAreKnown'
  <2>1. loop'.seen \in {loop.seen, 0}
    BY DEF SameTurn
  <2> QED BY <1>1, <2>1 DEF ResetsInv, NamesAreKnown, Like
<1>3. ResetOnFile'
  <2> SUFFICES ASSUME NEW state, Like(state) PROVE OnFile(state, options'.request, resets')
    BY DEF ResetOnFile
  <2> QED BY DEF Like, ResetsInv, ResetOnFile, OnFile
<1>4. LoadedIsOnFile' /\ LaterResetIsOnFile' /\ ThreadIsNew'
  <2>1. CASE loop'.stage \notin Answering
    BY <2>1 DEF LoadedIsOnFile, LaterResetIsOnFile, ThreadIsNew, Answering, At
  <2>2. CASE UNCHANGED <<mem, disk>> /\ SameTurn
    BY <2>2 DEF SameTurn, ResetsInv, LoadedIsOnFile, LaterResetIsOnFile, ThreadIsNew, At, OnFile
  <2> QED BY <2>1, <2>2
<1> QED BY <1>2, <1>3, <1>4 DEF ResetsInv

LEMMA RequestKeepsResets ==
    ASSUME Types, ResetsInv, RequestReset, UNCHANGED <<mem, disk>>,
           loop' = loop \/ (loop'.stage \notin Answering /\ loop'.seen = loop.seen)
    PROVE  ResetsInv'
<1>1. /\ resets \in Nat /\ loop.seen \in Nat
      /\ resets' = resets + 1 /\ options'.request = resets'
      /\ \A state \in {mem, disk} :
            /\ state.thread # NoThread => state.thread \in Nat
            /\ state.completed # NoRequest => state.completed \in Nat
  BY RequestResetEffect, Bounds DEF Types, TypeOK, Threads, Loop, State, Resets
<1>2. NamesAreKnown'
  BY <1>1 DEF ResetsInv, NamesAreKnown
<1>3. ResetOnFile'
  <2> SUFFICES ASSUME NEW state \in {mem, disk}, state.thread # NoThread
               PROVE  OnFile(state, resets', resets')
    BY <1>1 DEF ResetOnFile, OnFile
  <2>1. state.thread < resets' /\ state.completed # resets'
    BY <1>1, Bounds DEF ResetsInv, NamesAreKnown
  <2> QED BY <1>1, <2>1 DEF OnFile
<1>4. LoadedIsOnFile' /\ LaterResetIsOnFile' /\ ThreadIsNew'
  <2>1. CASE loop'.stage \notin Answering
    BY <2>1 DEF LoadedIsOnFile, LaterResetIsOnFile, ThreadIsNew, Answering, At
  <2>2. CASE loop' = loop
    <3>1. LoadedIsOnFile' /\ ThreadIsNew'
      BY <2>2 DEF ResetsInv, LoadedIsOnFile, ThreadIsNew, At, OnFile
    <3>2. LaterResetIsOnFile'
      <4>1. loop.seen <= resets /\ resets' > loop.seen
        BY <1>1 DEF ResetsInv, NamesAreKnown
      <4> QED BY <1>1, <2>2, <4>1 DEF ResetsInv, LaterResetIsOnFile
    <3> QED BY <3>1, <3>2
  <2> QED BY <2>1, <2>2
<1> QED BY <1>2, <1>3, <1>4 DEF ResetsInv

LEMMA LoadKeepsResets ==
    ASSUME Types, ResetsInv, Load PROVE ResetsInv'
<1>1. loop'.stage = "prepare" /\ loop'.options = options /\ loop'.seen = resets
  BY DEF Load, Types, TypeOK, Loop
<1>2. UNCHANGED <<mem, disk, options, resets>> /\ resets \in Nat
  BY Bounds DEF Load, history, Types, TypeOK, Threads
<1>3. NamesAreKnown' /\ ResetOnFile'
  BY <1>1, <1>2 DEF ResetsInv, NamesAreKnown, ResetOnFile, OnFile
<1>4. LoadedIsOnFile' /\ LaterResetIsOnFile'
  BY <1>1, <1>2
  DEF ResetsInv, NamesAreKnown, ResetOnFile, LoadedIsOnFile, LaterResetIsOnFile, OnFile
<1>5. ThreadIsNew'
  BY <1>1 DEF ThreadIsNew, At
<1> QED BY <1>3, <1>4, <1>5 DEF ResetsInv

\* The thread that is prepared is not older than the resets that have been loaded, and
\* what has been loaded is noted as carried out.
LEMMA PrepareKeepsResets ==
    ASSUME Types, ResetsInv, Prepare PROVE ResetsInv'
<1>1. PICK thread \in {Saved, loop.seen} \ {NoThread} :
        mem' = Completed([mem EXCEPT !.thread = thread], loop.options.request)
  BY DEF Prepare
<1>2. /\ At("prepare") /\ mem \in State /\ loop \in Loop /\ UNCHANGED <<disk, options, resets>>
      /\ resets \in Nat /\ loop.seen \in Nat /\ loop.seen <= resets
  BY Bounds DEF Prepare, Types, TypeOK, Threads, Loop, history, ResetsInv, NamesAreKnown
<1>3. loop'.stage = "save" /\ loop'.options = loop.options /\ loop'.seen = loop.seen
  BY <1>2 DEF Prepare, GoTo, Loop
<1> DEFINE request == loop.options.request
<1>4. /\ mem'.thread = thread
      /\ mem'.completed = IF request = NoRequest THEN mem.completed ELSE request
  BY <1>1, <1>2 DEF Completed, State
<1>5. request # NoRequest => request \in Nat /\ request <= loop.seen
  BY <1>2, Bounds DEF Loop, Options, Resets, ResetsInv, LaterResetIsOnFile, At
<1>6. mem.thread # NoThread => mem.thread \in Nat /\ mem.thread <= loop.seen
  BY <1>2, Bounds DEF State, Threads, ResetsInv, LoadedIsOnFile
<1>7. mem.completed # NoRequest => mem.completed \in Nat /\ mem.completed <= loop.seen
  BY <1>2, Bounds DEF State, Resets, ResetsInv, LoadedIsOnFile
<1>8. thread \in Nat /\ thread = loop.seen
  <2>1. CASE thread = loop.seen
    BY <1>2, <2>1
  <2>2. CASE thread # loop.seen
    <3>1. thread = mem.thread /\ ~Pending(request) /\ mem.thread # NoThread
      BY <1>1, <2>2 DEF Saved
    <3>2. mem.thread >= loop.seen
      BY <1>2, <3>1, Bounds DEF Pending, ResetsInv, LoadedIsOnFile, OnFile
    <3> QED BY <1>2, <1>6, <3>1, <3>2
  <2> QED BY <2>1, <2>2
<1>9. mem'.completed # NoRequest => mem'.completed \in Nat /\ mem'.completed <= loop.seen
  BY <1>4, <1>5, <1>7
<1>10. NamesAreKnown'
  BY <1>2, <1>3, <1>4, <1>8, <1>9 DEF ResetsInv, NamesAreKnown
<1>11. options.request # NoRequest => options.request \in Nat
  BY Bounds DEF Types, TypeOK, Options, Resets
<1>12. /\ loop.seen < resets => options.request = resets
       /\ options.request # NoRequest => options.request = request \/ options.request > loop.seen
  BY <1>2 DEF ResetsInv, LaterResetIsOnFile, At
<1>13. OnFile(mem', options.request, resets)
  <2>1. mem'.thread >= resets \/ (options.request = resets /\ mem'.completed # resets)
    <3>1. CASE loop.seen < resets
      BY <1>2, <1>9, <1>12, <3>1, Bounds
    <3>2. CASE loop.seen = resets
      BY <1>2, <1>4, <1>8, <3>2
    <3> QED BY <1>2, <3>1, <3>2
  <2>2. options.request # NoRequest /\ mem'.thread >= options.request => mem'.completed = options.request
    BY <1>2, <1>4, <1>8, <1>11, <1>12
  <2> QED BY <2>1, <2>2 DEF OnFile
<1>14. ResetOnFile'
  BY <1>2, <1>13 DEF ResetsInv, ResetOnFile, OnFile
<1>15. LoadedIsOnFile' /\ LaterResetIsOnFile' /\ ThreadIsNew'
  BY <1>2, <1>3, <1>4, <1>8
  DEF ResetsInv, LoadedIsOnFile, LaterResetIsOnFile, ThreadIsNew, At
<1> QED BY <1>10, <1>14, <1>15 DEF ResetsInv

LEMMA SaveKeepsResets ==
    ASSUME Types, ResetsInv, Save PROVE ResetsInv'
<1>1. /\ At("save") /\ loop \in Loop /\ mem' = mem /\ UNCHANGED <<options, resets>>
      /\ disk' = disk \/ disk' = mem
      /\ (disk' = mem /\ GoTo("complete")) \/ GoTo("ended")
  BY DEF Save, SaveThen, history, Types, TypeOK
<1>2. CASE GoTo("ended")
  <2>1. loop'.stage \notin Answering /\ loop'.seen = loop.seen
    BY <1>1, <1>2 DEF GoTo, Loop, Answering
  <2> QED BY <1>1, <2>1, NewIsLike, AsideKeepsResets DEF Like
<1>3. CASE disk' = mem /\ GoTo("complete")
  <2>1. loop'.stage = "complete" /\ loop'.options = loop.options /\ loop'.seen = loop.seen
    BY <1>1, <1>3 DEF GoTo, Loop
  <2>2. NamesAreKnown' /\ ResetOnFile'
    BY <1>1, <1>3, <2>1 DEF ResetsInv, NamesAreKnown, ResetOnFile, OnFile
  <2>3. LoadedIsOnFile' /\ LaterResetIsOnFile' /\ ThreadIsNew'
    BY <1>1, <1>3, <2>1 DEF ResetsInv, LoadedIsOnFile, LaterResetIsOnFile, ThreadIsNew, At
  <2> QED BY <2>2, <2>3 DEF ResetsInv
<1> QED BY <1>1, <1>2, <1>3

\* The request leaves its file when the thread is new in both copies.
LEMMA CompleteKeepsResets ==
    ASSUME Types, ResetsInv, CompleteReset PROVE ResetsInv'
<1>1. At("complete") /\ loop \in Loop /\ UNCHANGED <<disk, mem, resets>>
  BY DEF CompleteReset, Types, TypeOK
<1>2. CASE GoTo("ended") /\ UNCHANGED options
  <2>1. loop'.stage \notin Answering /\ loop'.seen = loop.seen
    BY <1>1, <1>2 DEF GoTo, Loop, Answering
  <2> QED BY <1>1, <1>2, <2>1, NewIsLike, AsideKeepsResets DEF Like
<1>3. CASE options' = RequestCompleted /\ (GoTo("turn") \/ GoTo("ended"))
  <2>1. loop'.stage \in {"turn", "ended"} /\ loop'.seen = loop.seen
    BY <1>1, <1>3 DEF GoTo, Loop
  <2>2. /\ resets \in Nat /\ loop.seen \in Nat /\ disk = mem /\ mem.thread \in Nat
        /\ mem.thread >= loop.seen
        /\ loop.seen < resets => options.request = resets
        /\ loop.options.request # NoRequest => loop.options.request <= loop.seen
    BY <1>1, Bounds
    DEF Types, TypeOK, Threads, Loop, State, ResetsInv, ThreadIsNew, LaterResetIsOnFile, At
  <2>3. \/ options'.request = options.request
        \/ options'.request = NoRequest /\ mem.thread >= resets
    <3>1. CASE loop.options.request # NoRequest /\ options.request = loop.options.request
      <4>1. options'.request = NoRequest
        BY <1>3, <3>1 DEF RequestCompleted, Types, TypeOK, Options
      <4>2. loop.options.request \in Nat
        BY <1>1, <3>1, Bounds DEF Loop, Options, Resets
      <4> QED BY <2>2, <3>1, <4>1, <4>2
    <3>2. CASE ~(loop.options.request # NoRequest /\ options.request = loop.options.request)
      BY <1>3, <3>2 DEF RequestCompleted
    <3> QED BY <3>1, <3>2
  <2>4. NamesAreKnown'
    BY <1>1, <2>1, <2>3 DEF ResetsInv, NamesAreKnown
  <2>5. ResetOnFile'
    BY <1>1, <2>2, <2>3 DEF ResetsInv, ResetOnFile, OnFile
  <2>6. LoadedIsOnFile' /\ LaterResetIsOnFile' /\ ThreadIsNew'
    BY <1>1, <2>1, <2>2 DEF ResetsInv, LoadedIsOnFile, LaterResetIsOnFile, ThreadIsNew, At
  <2> QED BY <2>4, <2>5, <2>6 DEF ResetsInv
<1> QED BY <1>2, <1>3 DEF CompleteReset
\* Steps that leave the thread and the resets as they are.
LEMMA MostStepsAreAside ==
    ASSUME Types, \/ Start \/ Stop \/ Crash \/ BeginPoll \/ Poll \/ PassOver \/ Begin \/ Forget
                  \/ GiveUp \/ ToolLoads \/ ToolSaves \/ EndTurn \/ Finish \/ EndBatch \/ Stopped \/ UNCHANGED vars
    PROVE  /\ UNCHANGED resets /\ options'.request = options.request /\ Like(mem') /\ Like(disk')
           /\ \/ UNCHANGED <<mem, disk>> /\ SameTurn
              \/ loop'.stage \notin Answering /\ loop'.seen \in {loop.seen, 0}
<1> USE DEF history, bounds
<1>1. /\ loop \in Loop /\ mem \in State /\ disk \in State /\ options \in Options
      /\ Like(mem) /\ Like(disk) /\ Like(NewState)
  BY NewIsLike DEF Types, TypeOK
<1>2. Down.stage = "down" /\ Down.seen = 0 /\ Down \in Loop
  BY FirstTypes DEF Down
<1>3. ASSUME NEW stage, GoTo(stage) PROVE loop'.stage = stage /\ loop'.seen = loop.seen
  BY <1>1, <1>3 DEF GoTo, Loop
<1>4. CASE Start \/ BeginPoll \/ GiveUp \/ EndTurn
  <2>1. \E stage \in {"poll", "polling", "ended"} : GoTo(stage)
    BY <1>4 DEF Start, BeginPoll, GiveUp, EndTurn
  <2>2. loop'.stage \notin Answering /\ loop'.seen = loop.seen
    BY <1>3, <2>1 DEF Answering
  <2> QED BY <1>1, <1>4, <2>2 DEF Start, BeginPoll, GiveUp, EndTurn
<1>5. CASE Stop \/ UNCHANGED vars
  BY <1>1, <1>5 DEF Stop, vars, SameTurn
<1>6. CASE ToolLoads \/ ToolSaves
  BY <1>1, <1>6 DEF ToolLoads, ToolSaves, SavedOptions, Options, Loop, At, SameTurn
<1>7. CASE Crash \/ Stopped
  BY <1>1, <1>2, <1>7 DEF Crash, Stopped, Ends, Breaks, Answering
<1>8. CASE Poll
  <2>1. PICK k : mem' \in {mem, [mem EXCEPT !.cursor = k]}
    BY <1>8 DEF Poll
  <2>2. loop'.stage = "batch" /\ loop'.seen = loop.seen
    BY <1>1, <1>8 DEF Poll, Loop
  <2>3. Like(mem')
    BY <1>1, <2>1 DEF Like, State
  <2> QED BY <1>1, <1>8, <2>2, <2>3 DEF Poll, Answering
<1>9. CASE PassOver
  <2>1. loop'.stage = "batch" /\ loop'.seen = loop.seen
    BY <1>1, <1>9 DEF PassOver, Loop, At
  <2>2. Like(mem')
    BY <1>1, <1>9 DEF PassOver, Like, State
  <2> QED BY <1>1, <1>9, <2>1, <2>2 DEF PassOver, Answering
<1>10. CASE Begin
  <2>1. loop'.stage \notin Answering /\ loop'.seen = loop.seen
    <3>1. \E stage \in {"load", "request", "ended"} : GoTo(stage)
      BY <1>10 DEF Begin
    <3> QED BY <1>3, <3>1 DEF Answering
  <2>2. Like(mem')
    <3>1. Like([mem EXCEPT !.thread = NoThread])
      BY <1>1 DEF Like, State
    <3> QED BY <1>1, <1>10, <3>1 DEF Begin
  <2> QED BY <1>1, <1>10, <2>1, <2>2 DEF Begin
<1>11. CASE Forget
  <2> DEFINE state == [mem EXCEPT !.thread = NoThread, !.completed = NoRequest]
  <2>1. Like(state)
    BY <1>1 DEF Like, State
  <2> HIDE DEF state
  <2>2. mem' = state /\ disk' \in {disk, state} /\ GoTo("ended")
    BY <1>11 DEF Forget, SaveThen, state
  <2>3. loop'.stage \notin Answering /\ loop'.seen = loop.seen
    BY <1>3, <2>2 DEF Answering
  <2> QED BY <1>1, <1>11, <2>1, <2>2, <2>3 DEF Forget
<1>12. CASE Finish
  <2> DEFINE state == [mem EXCEPT !.processed = Marked(@, Current)]
  <2>1. Like(state)
    BY <1>1 DEF Like, State
  <2> HIDE DEF state
  <2>2. mem' \in {state, NewState} /\ disk' \in {disk, state}
    BY <1>12 DEF Finish, Breaks, state
  <2>3. loop' = Down \/ loop' = [Down EXCEPT !.stage = "batch", !.batch = Tail(loop.batch)]
    BY <1>12 DEF Finish, Breaks
  <2>4. loop'.stage \notin Answering /\ loop'.seen = 0
    BY <1>2, <2>3 DEF Loop, Answering
  <2> QED BY <1>1, <1>12, <2>1, <2>2, <2>4 DEF Finish
<1>13. CASE EndBatch
  <2>1. mem' \in {mem, NewState} /\ disk' \in {disk, mem}
    BY <1>13 DEF EndBatch
  <2>2. loop' = Down \/ loop' = [Down EXCEPT !.stage = "poll"]
    BY <1>13 DEF EndBatch
  <2>3. loop'.stage \notin Answering /\ loop'.seen = 0
    BY <1>2, <2>2 DEF Loop, Answering
  <2> QED BY <1>1, <1>13, <2>1, <2>3 DEF EndBatch
<1> QED BY <1>4, <1>5, <1>6, <1>7, <1>8, <1>9, <1>10, <1>11, <1>12, <1>13

LEMMA ResetsStep ==
    ASSUME Types, ResetsInv, [Next]_vars PROVE ResetsInv'
<1>1. loop \in Loop
  BY DEF Types, TypeOK
<1>2. CASE ManagerResets \/ ToolResets
  BY <1>2, RequestKeepsResets DEF ManagerResets, ToolResets
<1>3. CASE Request
  <2>1. PICK stage \in {"forget", "ended"} : GoTo(stage)
    BY <1>3 DEF Request
  <2>2. loop'.stage \notin Answering /\ loop'.seen = loop.seen
    BY <1>1, <2>1 DEF GoTo, Loop, Answering
  <2>3. CASE RequestReset
    BY <1>3, <2>2, <2>3, RequestKeepsResets DEF Request
  <2>4. CASE UNCHANGED <<options, resets>>
    BY <1>3, <2>2, <2>4, NewIsLike, AsideKeepsResets DEF Request
  <2> QED BY <1>3, <2>3, <2>4 DEF Request
<1>4. CASE \/ Start \/ Stop \/ Crash \/ BeginPoll \/ Poll \/ PassOver \/ Begin \/ Forget
           \/ GiveUp \/ ToolLoads \/ ToolSaves \/ EndTurn \/ Finish \/ EndBatch \/ Stopped \/ UNCHANGED vars
  BY <1>4, MostStepsAreAside, AsideKeepsResets
<1> QED BY <1>2, <1>3, <1>4, LoadKeepsResets, PrepareKeepsResets, SaveKeepsResets, CompleteKeepsResets
        DEF Next

LEMMA InitResets ==
    ASSUME Init PROVE ResetsInv
<1>1. /\ loop.stage = "down" /\ loop.seen = 0 /\ resets = 0 /\ options.request = NoRequest
      /\ mem.thread = NoThread /\ mem.completed = NoRequest /\ mem = disk
  BY DEF Init, Down, NewOptions, NewState
<1> QED
  BY <1>1
  DEF ResetsInv, NamesAreKnown, ResetOnFile, OnFile, LoadedIsOnFile, LaterResetIsOnFile, ThreadIsNew, At

LEMMA ResetsHold == Spec => [](Types /\ ResetsInv)
<1>1. Init => Types /\ ResetsInv
  BY InitTypes, InitResets
<1>2. (Types /\ ResetsInv) /\ [Next]_vars => (Types /\ ResetsInv)'
  BY TypesStep, ResetsStep
<1> QED BY <1>1, <1>2, PTL DEF Spec

\* After a reset the old thread is never used again.
THEOREM ResetsAreHonoured == Spec => []ResetIsHonoured
<1>1. Types /\ ResetsInv => ResetIsHonoured
  BY DEF ResetsInv, ThreadIsNew, ResetIsHonoured, Turning
<1> QED BY <1>1, ResetsHold, PTL

\* A request that has been carried out does not cost the thread that came of it.
THEOREM ResetsAreCarriedOutOnce == Spec => []ResetOnce
<1>1. Types /\ ResetsInv => ResetOnce
  <2> SUFFICES ASSUME Types, ResetsInv, At("prepare"), Pending(loop.options.request),
                      mem.thread # NoThread
               PROVE  mem.thread < loop.options.request
    BY DEF ResetOnce
  <2>1. mem.thread \in Nat /\ loop.options.request \in Nat
    BY Bounds DEF Types, TypeOK, State, Threads, Loop, Options, Resets, Pending
  <2>2. ~(mem.thread >= loop.options.request)
    BY DEF ResetsInv, LoadedIsOnFile, OnFile, Pending
  <2> QED BY <2>1, <2>2
<1> QED BY <1>1, ResetsHold, PTL
-----------------------------------------------------------------------------
(* Messages. *)

BeforeTurn == {"request", "forget", "load", "prepare", "save", "complete"}
InTurn     == {"turn", "set", "ended"}

\* What a copy of the cursor has left behind is accounted for.
BehindIsAccounted(cursor) == \A m \in 1 .. cursor : m \in handled \cup lapsed \cup ToSet(loop.batch)

CursorsAgree ==
    /\ ~At("down") => disk.cursor <= mem.cursor /\ BehindIsAccounted(mem.cursor)
    /\ BehindIsAccounted(disk.cursor)

\* A batch is behind the cursor, or sent once more, and names a message once.
BatchIsBehind ==
    /\ IsInjective(loop.batch)
    /\ \A m \in ToSet(loop.batch) : m <= mem.cursor \/ m \in again

InHand(m) == loop.stage \in InTurn /\ m = Current

\* A message that has had a turn is marked in both copies, or at hand, unless its
\* mark is lost.
TurnsAreMarked ==
    \A m \in Messages : turns[m] > 0 /\ m \notin lapsed =>
        InHand(m) \/ (m \in ToSet(disk.processed) /\ (~At("down") => m \in ToSet(mem.processed)))

\* It is behind the saved cursor and does not come again, unless it is sent again.
TurnsAreBehind ==
    \A m \in Messages : turns[m] > 0 /\ m \notin again =>
        m <= disk.cursor /\ (m \in ToSet(loop.batch) => InHand(m))

\* The message at hand has not had a turn, unless both has happened.
SecondTurns ==
    /\ loop.stage \in BeforeTurn /\ turns[Current] > 0 => Current \in again /\ Current \in lapsed
    /\ OneTurnPerMessage

MessagesInv ==
    CursorsAgree /\ BatchIsBehind /\ TurnsAreMarked /\ TurnsAreBehind /\ SecondTurns

LEMMA CursorTypes ==
    ASSUME TypeOK
    PROVE  /\ mem.cursor \in Nat /\ disk.cursor \in Nat
           /\ mem.cursor <= MaxMessages /\ disk.cursor <= MaxMessages
BY Bounds DEF TypeOK, State

LEMMA NothingLeft == IsInjective(<< >>) /\ ToSet(<< >>) = {}
BY DEF IsInjective, ToSet

LEMMA RestOnce ==
    ASSUME NEW b \in Seq(Messages), b # << >>, IsInjective(b)
    PROVE  IsInjective(Tail(b)) /\ Head(b) \notin ToSet(Tail(b))
<1>1. /\ Tail(b) \in Seq(Messages) /\ Len(b) \in Nat /\ Len(b) > 0
      /\ Len(Tail(b)) = Len(b) - 1 /\ Head(b) = b[1]
      /\ \A i \in 1 .. Len(b) - 1 : Tail(b)[i] = b[i + 1]
  BY HeadTailProperties
<1>2. DOMAIN b = 1 .. Len(b) /\ DOMAIN Tail(b) = 1 .. Len(b) - 1
  BY <1>1
<1>3. \A i, j \in 1 .. Len(b) : b[i] = b[j] => i = j
  BY <1>2 DEF IsInjective
<1>4. \A i \in 1 .. Len(b) - 1 : i + 1 \in 1 .. Len(b) /\ 1 \in 1 .. Len(b) /\ i + 1 # 1
  BY <1>1
<1>5. IsInjective(Tail(b))
  <2> SUFFICES ASSUME NEW i \in 1 .. Len(b) - 1, NEW j \in 1 .. Len(b) - 1, Tail(b)[i] = Tail(b)[j]
               PROVE  i = j
    BY <1>2 DEF IsInjective
  <2>1. i + 1 = j + 1
    BY <1>1, <1>3, <1>4
  <2> QED BY <2>1
<1>6. ASSUME NEW i \in 1 .. Len(b) - 1 PROVE Tail(b)[i] # Head(b)
  BY <1>1, <1>3, <1>4
<1> QED BY <1>2, <1>5, <1>6 DEF ToSet

\* Steps that begin no turn and finish with no message.
LEMMA QuietKeepsMessages ==
    ASSUME Types, MessagesInv, UNCHANGED <<turns, handled, lapsed, again>>, loop'.batch = loop.batch,
           mem'.cursor = mem.cursor, mem'.processed = mem.processed,
           \/ disk'.cursor = disk.cursor /\ disk'.processed = disk.processed
           \/ loop.stage # "down" /\ disk'.cursor = mem.cursor /\ disk'.processed = mem.processed,
           loop'.stage = "down" <=> loop.stage = "down",
           loop.stage \in InTurn => loop'.stage \in InTurn,
           loop'.stage \in BeforeTurn =>
              \/ loop.stage \in BeforeTurn
              \/ loop.stage = "batch" /\ loop.batch # << >> /\ Current \notin ToSet(mem.processed)
    PROVE  MessagesInv'
<1>1. mem.cursor \in Nat /\ disk.cursor \in Nat
  BY CursorTypes DEF Types
<1>2. CursorsAgree' /\ BatchIsBehind'
  BY <1>1 DEF MessagesInv, CursorsAgree, BehindIsAccounted, BatchIsBehind, At
<1>3. \A m \in Messages : InHand(m) => InHand(m)'
  BY DEF InHand, Current
<1>4. TurnsAreMarked'
  BY <1>3 DEF MessagesInv, TurnsAreMarked, At
<1>5. TurnsAreBehind'
  <2>1. disk.cursor <= disk'.cursor
    BY <1>1 DEF MessagesInv, CursorsAgree, At
  <2>2. disk'.cursor \in Nat /\ \A m \in Messages : m \in Nat
    BY <1>1 DEF Messages
  <2> QED BY <1>1, <1>3, <2>1, <2>2 DEF MessagesInv, TurnsAreBehind
<1>6. SecondTurns'
  <2>1. OneTurnPerMessage'
    BY DEF MessagesInv, SecondTurns, OneTurnPerMessage
  <2>2. ASSUME loop.stage = "batch", loop.batch # << >>, Current \notin ToSet(mem.processed),
               turns[Current] > 0
        PROVE  Current \in again /\ Current \in lapsed
    <3>1. Current \in Messages /\ Current \in ToSet(loop.batch)
      BY <2>2, CurrentType
    <3>2. ~InHand(Current) /\ ~At("down")
      BY <2>2 DEF InHand, InTurn, At
    <3> QED BY <2>2, <3>1, <3>2 DEF MessagesInv, TurnsAreMarked, TurnsAreBehind
  <2> QED BY <2>1, <2>2 DEF MessagesInv, SecondTurns, Current
<1> QED BY <1>2, <1>4, <1>5, <1>6 DEF MessagesInv

\* The batch is over, and maybe the loop.
LEMMA EndKeepsMessages ==
    ASSUME Types, MessagesInv, loop.stage # "down", UNCHANGED <<turns, handled, again>>,
           loop'.batch = << >>, lapsed \cup ToSet(loop.batch) \subseteq lapsed',
           \/ disk' = disk
           \/ /\ disk'.cursor = mem.cursor
              /\ \A m \in ToSet(mem.processed) : m \in ToSet(disk'.processed) \/ m \in lapsed',
           \/ loop'.stage = "down"
           \/ loop'.stage = "poll" /\ mem' = mem /\ disk' = mem
    PROVE  MessagesInv'
<1>1. /\ mem.cursor \in Nat /\ disk.cursor \in Nat /\ disk.cursor <= mem.cursor
      /\ disk'.cursor \in {disk.cursor, mem.cursor}
  BY CursorTypes DEF Types, MessagesInv, CursorsAgree, At
<1>2. CursorsAgree'
  BY <1>1, NothingLeft DEF MessagesInv, CursorsAgree, BehindIsAccounted, At
<1>3. BatchIsBehind'
  BY NothingLeft DEF BatchIsBehind
<1>4. ASSUME NEW m \in Messages, m \notin lapsed' PROVE ~InHand(m)
  <2>1. InHand(m) => loop.batch # << >>
    BY DEF InHand, InTurn, Types, BatchThere, Working
  <2> QED BY <1>4, <2>1, CurrentType DEF InHand
<1>5. TurnsAreMarked'
  BY <1>4 DEF MessagesInv, TurnsAreMarked, At
<1>6. TurnsAreBehind'
  <2>1. \A m \in Messages : m \in Nat
    BY DEF Messages
  <2> QED BY <1>1, <2>1, NothingLeft DEF MessagesInv, TurnsAreBehind
<1>7. SecondTurns'
  BY DEF MessagesInv, SecondTurns, OneTurnPerMessage, BeforeTurn
<1> QED BY <1>2, <1>3, <1>5, <1>6, <1>7 DEF MessagesInv

\* A message is done with: it is marked if it has had a turn.
LEMMA NextMessageKeepsMessages ==
    ASSUME Types, MessagesInv, loop.stage # "down", loop.batch # << >>,
           loop'.stage = "batch", loop'.batch = Tail(loop.batch),
           handled' = handled \cup {Current}, lapsed' = lapsed \cup Forgotten(mem'),
           UNCHANGED <<turns, again>>, mem'.cursor = mem.cursor,
           \/ disk' = disk /\ loop.stage \notin InTurn
           \/ disk' = mem' /\ Current \in ToSet(mem'.processed)
    PROVE  MessagesInv'
<1>1. /\ mem.cursor \in Nat /\ disk.cursor \in Nat /\ disk.cursor <= mem.cursor
      /\ disk'.cursor \in {disk.cursor, mem.cursor}
  BY CursorTypes DEF Types, MessagesInv, CursorsAgree, At
<1>2. /\ loop.batch \in Seq(Messages)
      /\ ToSet(loop.batch) = {Current} \cup ToSet(loop'.batch)
      /\ IsInjective(loop'.batch) /\ Current \notin ToSet(loop'.batch)
  BY CurrentType, RestOnce DEF Types, TypeOK, Loop, MessagesInv, BatchIsBehind, Current
<1>3. CursorsAgree'
  BY <1>1, <1>2 DEF MessagesInv, CursorsAgree, BehindIsAccounted, At
<1>4. BatchIsBehind'
  BY <1>2 DEF MessagesInv, BatchIsBehind
<1>5. TurnsAreMarked'
  <2> SUFFICES ASSUME NEW m \in Messages, turns[m] > 0, m \notin lapsed'
               PROVE  m \in ToSet(disk'.processed) /\ m \in ToSet(mem'.processed)
    BY DEF TurnsAreMarked
  <2>1. InHand(m) \/ (m \in ToSet(disk.processed) /\ m \in ToSet(mem.processed))
    BY DEF MessagesInv, TurnsAreMarked, At
  <2>2. m \in ToSet(mem.processed) => m \in ToSet(mem'.processed)
    BY DEF Forgotten
  <2> QED BY <2>1, <2>2 DEF InHand
<1>6. TurnsAreBehind'
  <2>1. \A m \in Messages : m \in Nat
    BY DEF Messages
  <2> QED BY <1>1, <1>2, <2>1 DEF MessagesInv, TurnsAreBehind, InHand
<1>7. SecondTurns'
  BY DEF MessagesInv, SecondTurns, OneTurnPerMessage, BeforeTurn
<1> QED BY <1>3, <1>4, <1>5, <1>6, <1>7 DEF MessagesInv

LEMMA StartKeepsMessages ==
    ASSUME Types, MessagesInv, Start PROVE MessagesInv'
<1>1. /\ loop.stage = "down" /\ loop'.stage = "poll" /\ loop'.batch = loop.batch
      /\ mem' = disk /\ UNCHANGED <<disk, turns, handled, lapsed, again>>
  BY DEF Start, At, GoTo, history, Types, TypeOK, Loop
<1>2. loop.batch = << >> /\ disk.cursor \in Nat
  BY <1>1, CursorTypes DEF Types, BatchThere
<1>3. CursorsAgree' /\ BatchIsBehind'
  BY <1>1, <1>2, NothingLeft DEF MessagesInv, CursorsAgree, BehindIsAccounted, BatchIsBehind, At
<1>4. TurnsAreMarked'
  BY <1>1 DEF MessagesInv, TurnsAreMarked, InHand, InTurn, At
<1>5. TurnsAreBehind' /\ SecondTurns'
  BY <1>1, <1>2, NothingLeft
  DEF MessagesInv, TurnsAreBehind, SecondTurns, OneTurnPerMessage, InHand, InTurn, BeforeTurn
<1> QED BY <1>3, <1>4, <1>5 DEF MessagesInv

LEMMA PollKeepsMessages ==
    ASSUME Types, MessagesInv, Poll PROVE MessagesInv'
<1>1. PICK k \in mem.cursor .. MaxMessages :
        /\ loop' = [loop EXCEPT !.stage = "batch",
                                !.batch = [i \in 1 .. k - mem.cursor |-> mem.cursor + i]]
        /\ \/ mem' = [mem EXCEPT !.cursor = k] /\ UNCHANGED <<again, repeats>>
           \/ /\ repeats < MaxRepeats
              /\ k > mem.cursor
              /\ repeats' = repeats + 1
              /\ again' = again \cup (mem.cursor + 1 .. k)
              /\ UNCHANGED mem
  BY DEF Poll
<1>2. PICK c \in Nat : c = mem.cursor
  BY CursorTypes DEF Types
<1>3. /\ k \in Nat /\ c <= k /\ k <= MaxMessages
      /\ loop \in Loop /\ mem \in State
      /\ disk.cursor \in Nat /\ disk.cursor <= c
      /\ At("polling") /\ loop.batch = << >>
      /\ UNCHANGED <<disk, turns, handled, lapsed>>
  BY <1>1, <1>2, CursorTypes, Bounds
  DEF Poll, Types, TypeOK, BatchThere, At, MessagesInv, CursorsAgree
<1> DEFINE b == [i \in 1 .. k - c |-> c + i]
<1>4. ToSet(b) = c + 1 .. k /\ IsInjective(b)
  <2>1. DOMAIN b = 1 .. k - c /\ \A i \in 1 .. k - c : b[i] = c + i
    OBVIOUS
  <2>2. \A i \in 1 .. k - c : c + i \in c + 1 .. k
    BY <1>3
  <2>3. \A m \in c + 1 .. k : m - c \in 1 .. k - c /\ c + (m - c) = m
    BY <1>3
  <2>4. \A i, j \in 1 .. k - c : c + i = c + j => i = j
    OBVIOUS
  <2> HIDE DEF b
  <2> QED BY <2>1, <2>2, <2>3, <2>4 DEF ToSet, IsInjective
<1> HIDE DEF b
<1>5. /\ loop'.stage = "batch" /\ loop'.batch = b
      /\ mem'.processed = mem.processed
      /\ \/ mem'.cursor = k /\ again' = again
         \/ mem'.cursor = c /\ again' = again \cup (c + 1 .. k)
  BY <1>1, <1>2, <1>3 DEF b, Loop, State
<1>6. CursorsAgree'
  <2>1. \A m \in 1 .. c : m \in handled \cup lapsed
    BY <1>2, <1>3, NothingLeft DEF MessagesInv, CursorsAgree, BehindIsAccounted, At
  <2>2. \A m \in 1 .. k : m \in 1 .. c \/ m \in c + 1 .. k
    BY <1>3
  <2>3. \A m \in 1 .. disk.cursor : m \in 1 .. c
    BY <1>3
  <2> QED BY <1>3, <1>4, <1>5, <2>1, <2>2, <2>3 DEF CursorsAgree, BehindIsAccounted, At
<1>7. BatchIsBehind'
  BY <1>3, <1>4, <1>5 DEF BatchIsBehind
<1>8. TurnsAreMarked'
  BY <1>3, <1>5 DEF MessagesInv, TurnsAreMarked, InHand, InTurn, At
<1>9. TurnsAreBehind'
  <2> SUFFICES ASSUME NEW m \in Messages, turns[m] > 0, m \notin again
               PROVE  m <= disk.cursor /\ m \notin ToSet(b)
    BY <1>3, <1>5 DEF TurnsAreBehind
  <2>1. m <= disk.cursor
    BY DEF MessagesInv, TurnsAreBehind
  <2> QED BY <1>3, <1>4, <2>1 DEF Messages
<1>10. SecondTurns'
  BY <1>3, <1>5 DEF MessagesInv, SecondTurns, OneTurnPerMessage, BeforeTurn
<1> QED BY <1>6, <1>7, <1>8, <1>9, <1>10 DEF MessagesInv

\* The turn begins: the cursor has been saved with the thread.
LEMMA TurnKeepsMessages ==
    ASSUME Types, ResetsInv, MessagesInv, At("complete"), GoTo("turn"),
           turns' = [turns EXCEPT ![Current] = @ + 1],
           UNCHANGED <<disk, mem, handled, lapsed, again>>
    PROVE  MessagesInv'
<1>1. /\ loop.stage = "complete" /\ loop'.stage = "turn" /\ loop'.batch = loop.batch
      /\ Current' = Current
  BY DEF At, GoTo, Types, TypeOK, Loop, Current
<1>2. Current \in Messages /\ Current \in ToSet(loop.batch)
  BY <1>1, CurrentType DEF Types, BatchThere, Working
<1>3. /\ disk = mem /\ turns \in [Messages -> Nat]
      /\ turns'[Current] = turns[Current] + 1
      /\ \A m \in Messages : m # Current => turns'[m] = turns[m]
  BY <1>1, <1>2 DEF Types, TypeOK, ResetsInv, ThreadIsNew, At
<1>4. CursorsAgree' /\ BatchIsBehind'
  BY <1>1 DEF MessagesInv, CursorsAgree, BehindIsAccounted, BatchIsBehind, At
<1>5. /\ InHand(Current)'
      /\ \A m \in Messages : ~InHand(m)
  BY <1>1 DEF InHand, InTurn
<1>6. TurnsAreMarked'
  <2> SUFFICES ASSUME NEW m \in Messages, m # Current, turns[m] > 0, m \notin lapsed
               PROVE  m \in ToSet(disk.processed) /\ m \in ToSet(mem.processed)
    BY <1>1, <1>3, <1>5 DEF TurnsAreMarked, InHand, InTurn
  <2> QED BY <1>1, <1>5 DEF MessagesInv, TurnsAreMarked, At
<1>7. TurnsAreBehind'
  <2> SUFFICES ASSUME NEW m \in Messages, turns'[m] > 0, m \notin again
               PROVE  m <= disk.cursor /\ (m \in ToSet(loop.batch) => m = Current)
    BY <1>1 DEF TurnsAreBehind, InHand, InTurn
  <2>1. CASE m = Current
    BY <1>2, <1>3, <2>1 DEF MessagesInv, BatchIsBehind
  <2>2. CASE m # Current
    BY <1>3, <1>5, <2>2 DEF MessagesInv, TurnsAreBehind
  <2> QED BY <2>1, <2>2
<1>8. SecondTurns'
  <2>1. turns[Current] > 0 => Current \in again /\ Current \in lapsed
    BY <1>1 DEF MessagesInv, SecondTurns, BeforeTurn
  <2>2. ASSUME NEW m \in Messages, turns'[m] > 1 PROVE m \in again /\ m \in lapsed
    <3>1. CASE m = Current
      BY <1>2, <1>3, <2>1, <2>2, <3>1
    <3>2. CASE m # Current
      BY <1>3, <2>2, <3>2 DEF MessagesInv, SecondTurns, OneTurnPerMessage
    <3> QED BY <3>1, <3>2
  <2> QED BY <1>1, <2>2 DEF SecondTurns, OneTurnPerMessage, BeforeTurn
<1> QED BY <1>4, <1>6, <1>7, <1>8 DEF MessagesInv

LEMMA MessagesStep ==
    ASSUME Types, ResetsInv, MessagesInv, [Next]_vars PROVE MessagesInv'
<1> USE DEF history, bounds
<1>1. /\ loop \in Loop /\ mem \in State /\ disk \in State /\ BatchThere
      /\ MarksOK(mem.processed)
  BY StateType DEF Types, TypeOK, StateOK
<1>2. Down \in Loop /\ Down.stage = "down" /\ Down.batch = << >>
  BY FirstTypes
<1>3. ASSUME NEW stage, GoTo(stage) PROVE loop'.stage = stage /\ loop'.batch = loop.batch
  BY <1>1, <1>3 DEF GoTo, Loop
<1>4. CASE Stop \/ ManagerResets \/ ToolResets \/ UNCHANGED vars
  BY <1>4, QuietKeepsMessages DEF Stop, ManagerResets, ToolResets, vars, BeforeTurn
<1>5. CASE BeginPoll
  <2>1. GoTo("polling") /\ loop.stage = "poll"
    BY <1>5 DEF BeginPoll, At
  <2>2. loop'.stage = "polling" /\ loop'.batch = loop.batch
    BY <1>3, <2>1
  <2> QED BY <1>5, <2>1, <2>2, QuietKeepsMessages DEF BeginPoll, InTurn, BeforeTurn
<1>6. CASE Request \/ Load \/ GiveUp \/ EndTurn
  <2>1. loop.stage \in {"request", "load", "prepare", "turn"}
    BY <1>6 DEF Request, Load, GiveUp, EndTurn, At
  <2>2. loop'.stage \in {"forget", "ended", "prepare"} /\ loop'.batch = loop.batch
    BY <1>1, <1>3, <1>6 DEF Request, Load, GiveUp, EndTurn, Loop
  <2>3. loop.stage = "turn" => loop'.stage = "ended"
    BY <1>3, <1>6 DEF Request, Load, GiveUp, EndTurn, At
  <2>4. UNCHANGED <<mem, disk, turns, handled, lapsed, again>>
    BY <1>6 DEF Request, Load, GiveUp, EndTurn
  <2> QED BY <2>1, <2>2, <2>3, <2>4, QuietKeepsMessages DEF InTurn, BeforeTurn
<1>7. CASE Begin
  <2>1. /\ loop.stage = "batch" /\ loop.batch # << >> /\ Current \notin ToSet(mem.processed)
        /\ \E stage \in {"load", "request", "ended"} : GoTo(stage)
    BY <1>7 DEF Begin, At, Skips
  <2>2. loop'.stage \in {"load", "request", "ended"} /\ loop'.batch = loop.batch
    BY <1>3, <2>1
  <2>3. mem'.cursor = mem.cursor /\ mem'.processed = mem.processed
    BY <1>1, <1>7 DEF Begin, State
  <2> QED BY <1>7, <2>1, <2>2, <2>3, QuietKeepsMessages DEF Begin, InTurn, BeforeTurn
<1>8. CASE Prepare
  <2>1. GoTo("save") /\ loop.stage = "prepare"
    BY <1>8 DEF Prepare, At
  <2>2. loop'.stage = "save" /\ loop'.batch = loop.batch
    BY <1>3, <2>1
  <2>3. mem'.cursor = mem.cursor /\ mem'.processed = mem.processed
    BY <1>1, <1>8 DEF Prepare, Completed, State
  <2> QED BY <1>8, <2>1, <2>2, <2>3, QuietKeepsMessages DEF Prepare, InTurn, BeforeTurn
<1>9. ASSUME NEW state, state.cursor = mem.cursor, state.processed = mem.processed,
             NEW next \in {"complete", "ended"}, SaveThen(state, next, "ended"),
             loop.stage \in {"forget", "save"}, UNCHANGED <<turns, handled, lapsed, again>>
      PROVE  MessagesInv'
  <2>1. mem' = state /\ disk' \in {disk, state} /\ (GoTo(next) \/ GoTo("ended"))
    BY <1>9 DEF SaveThen
  <2>2. loop'.stage \in {"complete", "ended"} /\ loop'.batch = loop.batch
    BY <1>3, <1>9, <2>1
  <2> QED BY <1>9, <2>1, <2>2, QuietKeepsMessages DEF InTurn, BeforeTurn
<1>10. CASE CompleteReset
  <2>1. CASE GoTo("turn") /\ turns' = [turns EXCEPT ![Current] = @ + 1]
    BY <1>10, <2>1, TurnKeepsMessages DEF CompleteReset
  <2>2. CASE GoTo("ended") /\ UNCHANGED turns
    <3>1. loop.stage = "complete" /\ loop'.stage = "ended" /\ loop'.batch = loop.batch
      BY <1>3, <1>10, <2>2 DEF CompleteReset, At
    <3> QED BY <1>10, <2>2, <3>1, QuietKeepsMessages DEF CompleteReset, InTurn, BeforeTurn
  <2> QED BY <1>10, <2>1, <2>2 DEF CompleteReset
<1>11. CASE PassOver
  <2>1. loop'.stage = "batch" /\ loop'.batch = Tail(loop.batch) /\ loop.stage = "batch"
    BY <1>1, <1>11 DEF PassOver, At, Loop
  <2>2. mem'.cursor = mem.cursor
    BY <1>1, <1>11 DEF PassOver, State
  <2> QED BY <1>11, <2>1, <2>2, NextMessageKeepsMessages DEF PassOver, InTurn
<1>12. CASE Crash \/ Stopped
  <2>1. Breaks({}) /\ loop.stage # "down"
    BY <1>12 DEF Crash, Stopped, Ends, At
  <2>2. loop' = Down /\ lapsed' = lapsed \cup ToSet(loop.batch)
    BY <2>1 DEF Breaks
  <2> QED BY <1>2, <1>12, <2>1, <2>2, EndKeepsMessages DEF Crash, Stopped
<1>13. CASE Finish
  <2> DEFINE state == [mem EXCEPT !.processed = Marked(@, Current)]
  <2>1. loop.stage = "ended" /\ loop.batch # << >> /\ Current \in Messages
    BY <1>1, <1>13, CurrentType DEF Finish, At, BatchThere, Working
  <2>2. state.cursor = mem.cursor /\ Current \in ToSet(state.processed)
    BY <1>1, <2>1, MarkedAdds DEF State
  <2> HIDE DEF state
  <2>3. CASE /\ disk' = state /\ mem' = state
             /\ loop' = [Down EXCEPT !.stage = "batch", !.batch = Tail(loop.batch)]
             /\ handled' = handled \cup {Current}
             /\ lapsed' = lapsed \cup Forgotten(state)
    <3>1. loop'.stage = "batch" /\ loop'.batch = Tail(loop.batch)
      BY <1>2, <2>3 DEF Loop
    <3> QED BY <1>13, <2>1, <2>2, <2>3, <3>1, NextMessageKeepsMessages DEF Finish
  <2>4. CASE disk' \in {disk, state} /\ Breaks(Forgotten(state)) /\ UNCHANGED handled
    <3>1. loop' = Down /\ lapsed' = lapsed \cup ToSet(loop.batch) \cup Forgotten(state)
      BY <2>4 DEF Breaks
    <3>2. \A m \in ToSet(mem.processed) : m \in ToSet(state.processed) \/ m \in lapsed'
      BY <3>1 DEF Forgotten
    <3> QED BY <1>2, <1>13, <2>1, <2>2, <2>4, <3>1, <3>2, EndKeepsMessages DEF Finish
  <2> QED BY <1>13, <2>3, <2>4 DEF Finish, state
<1>14. CASE EndBatch
  <2>1. loop' = Down \/ (loop' = [Down EXCEPT !.stage = "poll"] /\ mem' = mem /\ disk' = mem)
    BY <1>14 DEF EndBatch
  <2>2. /\ loop'.batch = << >>
        /\ loop'.stage = "down" \/ (loop'.stage = "poll" /\ mem' = mem /\ disk' = mem)
    BY <1>2, <2>1 DEF Loop
  <2>3. /\ loop.stage # "down" /\ disk' \in {disk, mem}
        /\ lapsed' = lapsed \cup ToSet(loop.batch) /\ UNCHANGED <<turns, handled, again>>
    BY <1>14 DEF EndBatch, At
  <2> QED BY <2>2, <2>3, EndKeepsMessages
<1>15. CASE Forget
  <2> DEFINE state == [mem EXCEPT !.thread = NoThread, !.completed = NoRequest]
  <2>1. state.cursor = mem.cursor /\ state.processed = mem.processed
    BY <1>1 DEF State
  <2> HIDE DEF state
  <2>2. SaveThen(state, "ended", "ended") /\ loop.stage = "forget"
    BY <1>15 DEF Forget, At, state
  <2> QED BY <1>9, <1>15, <2>1, <2>2 DEF Forget
<1>16. CASE Save
  <2>1. SaveThen(mem, "complete", "ended") /\ loop.stage = "save"
    BY <1>16 DEF Save, At
  <2> QED BY <1>9, <1>16, <2>1 DEF Save
<1>17. CASE ToolLoads \/ ToolSaves
  <2>1. {loop.stage, loop'.stage} = {"turn", "set"} /\ loop'.batch = loop.batch
    BY <1>1, <1>17 DEF ToolLoads, ToolSaves, At, Loop
  <2> QED BY <1>17, <2>1, QuietKeepsMessages DEF ToolLoads, ToolSaves, InTurn, BeforeTurn
<1> QED BY <1>4, <1>5, <1>6, <1>7, <1>8, <1>10, <1>11, <1>12, <1>13, <1>14, <1>15, <1>16, <1>17,
           StartKeepsMessages, PollKeepsMessages DEF Next

LEMMA InitMessages ==
    ASSUME Init PROVE MessagesInv
<1>1. /\ loop.stage = "down" /\ loop.batch = << >> /\ mem.cursor = 0 /\ disk.cursor = 0
      /\ \A m \in Messages : turns[m] = 0
  BY DEF Init, Down, NewState
<1>2. CursorsAgree /\ BatchIsBehind
  BY <1>1, NothingLeft DEF CursorsAgree, BehindIsAccounted, BatchIsBehind, At
<1>3. TurnsAreMarked /\ TurnsAreBehind /\ SecondTurns
  BY <1>1 DEF TurnsAreMarked, TurnsAreBehind, SecondTurns, OneTurnPerMessage, BeforeTurn
<1> QED BY <1>2, <1>3 DEF MessagesInv

LEMMA MessagesHold == Spec => []MessagesInv
<1>1. Init => Types /\ ResetsInv /\ MessagesInv
  BY InitTypes, InitResets, InitMessages
<1>2. (Types /\ ResetsInv /\ MessagesInv) /\ [Next]_vars => (Types /\ ResetsInv /\ MessagesInv)'
  BY TypesStep, ResetsStep, MessagesStep
<1> QED BY <1>1, <1>2, PTL DEF Spec

\* A message gets a second turn only if it is sent once more and its mark is lost.
THEOREM MessagesGetOneTurn == Spec => []OneTurnPerMessage
<1>1. MessagesInv => OneTurnPerMessage
  BY DEF MessagesInv, SecondTurns
<1> QED BY <1>1, MessagesHold, PTL

\* Whatever the saved cursor has left behind is accounted for.
THEOREM OnlyEndsLoseMessages == Spec => []OnlyAnEndLosesMessages
<1>1. MessagesInv => OnlyAnEndLosesMessages
  BY DEF MessagesInv, CursorsAgree, BehindIsAccounted, OnlyAnEndLosesMessages
<1> QED BY <1>1, MessagesHold, PTL
=============================================================================
