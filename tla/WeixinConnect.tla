------------------------------ MODULE WeixinConnect ------------------------------
(***************************************************************************)
(* The WeChat connection (connect/mod.rs, session_store.rs, controls.rs):  *)
(* a loop asks the server for messages after a cursor, and answers each    *)
(* with a turn in the peer's Codex thread.  Cursor, thread and the         *)
(* messages processed are saved in one file; the model overrides and a     *)
(* pending reset of the thread in another, which the manager, and the tool *)
(* that Codex calls during a turn, write as well.                          *)
(*                                                                         *)
(* One peer: peers share the cursor and the list of processed messages     *)
(* only.  A message that arrives is text, a command, empty, or stray (not  *)
(* a finished message, too old, or of somebody who is not allowed).        *)
(* Attachments, projects and the choice of models are left out: they       *)
(* decide whether a turn can begin.                                        *)
(***************************************************************************)
EXTENDS Integers, Sequences, FiniteSets, SequencesExt

CONSTANTS
    MaxProcessed,  \* MAX_PROCESSED_IDS
    NoThread, NoRequest, Default,
    Halves,        \* the fields of SessionOptions that override: model and reasoning_effort
    MaxMessages,   \* bound on the messages
    MaxResets,     \* bound on the requests to reset
    MaxRepeats,    \* bound on the batches that the server sends once more
    MaxFaults,     \* bound on the writes that fail
    MaxEnds        \* bound on the crashes and stops

ASSUME ConnectAssumption ==
    /\ MaxProcessed \in Nat \ {0}
    /\ {MaxMessages, MaxResets, MaxRepeats, MaxFaults, MaxEnds} \subseteq Nat
    /\ {NoThread, NoRequest, Default} \cap Nat = {}

VARIABLES
    inbox,    \* the messages that arrive at the server, sooner or later
    disk,     \* ConnectState on disk
    mem,      \* ConnectState in memory
    options,  \* SessionOptions on disk
    loop,     \* where the loop stands
    stop,     \* the flag that stops it
    resets,   \* history: requests to reset so far; each is named by its number
    turns,    \* history: turns begun for each message
    handled,  \* history: messages that are done with
    lapsed,   \* history: messages whose mark is lost, or that were lost with the loop
    again,    \* history: messages that the server has sent once more
    overtaken, \* history: resets asked for between the load and the save of a tool's "set"
    repeats, faults, ends

history  == <<resets, turns, handled, lapsed, again, overtaken>>
bounds   == <<repeats, faults, ends>>
vars     == <<inbox, disk, mem, options, loop, stop, history, bounds>>
-----------------------------------------------------------------------------
Kinds    == {"text", "reset", "resetAttachments", "empty", "stray"}
Messages == 1 .. MaxMessages
Resets   == 1 .. MaxResets

\* A thread, and a half of the overrides, is named by the resets there were when it
\* was made or asked for.
Threads   == 0 .. MaxResets
Overrides == [Halves -> {Default} \cup 0 .. MaxResets]

State   == [cursor : 0 .. MaxMessages, thread : Threads \cup {NoThread},
            completed : Resets \cup {NoRequest}, processed : Seq(Messages)]
Options == [request : Resets \cup {NoRequest}, override : Overrides]

NewState   == [cursor |-> 0, thread |-> NoThread, completed |-> NoRequest, processed |-> << >>]
NewOptions == [request |-> NoRequest, override |-> [half \in Halves |-> Default]]

Stages == {"down", "poll", "polling", "batch", "request", "forget", "load", "prepare", "save", "complete",
           "turn", "set", "ended"}

\* options: what process_weixin_message has loaded; seen: the resets there were then;
\* next: what the tool is about to save.
Loop == [stage : Stages, batch : Seq(Messages), options : Options, seen : Threads, next : Options]
Down == [stage |-> "down", batch |-> << >>, options |-> NewOptions, seen |-> 0, next |-> NewOptions]

Init ==
    /\ inbox \in [Messages -> Kinds]
    /\ disk = NewState /\ mem = NewState /\ options = NewOptions
    /\ loop = Down /\ stop = FALSE
    /\ resets = 0 /\ turns = [m \in Messages |-> 0]
    /\ handled = {} /\ lapsed = {} /\ again = {} /\ overtaken = {}
    /\ repeats = 0 /\ faults = 0 /\ ends = 0
-----------------------------------------------------------------------------
At(stage)   == loop.stage = stage
GoTo(stage) == loop' = [loop EXCEPT !.stage = stage]
Current     == Head(loop.batch)

Fault == faults < MaxFaults /\ faults' = faults + 1

\* Mutant: it keeps all of them.
MarkedForever(processed, m) == IF m \in ToSet(processed) THEN processed ELSE Append(processed, m)

\* mark_processed, which forgets the oldest beyond the limit.
Marked(processed, m) ==
    IF m \in ToSet(processed) THEN processed
    ELSE LET all == Append(processed, m)
         IN  SubSeq(all, Len(all) - (IF Len(all) < MaxProcessed THEN Len(all) ELSE MaxProcessed) + 1,
                    Len(all))

Forgotten(state) == ToSet(mem.processed) \ ToSet(state.processed)

\* The loop ends, with or without an error; what it was at is lost.
Breaks(forgotten) ==
    /\ loop' = Down
    /\ mem' = NewState
    /\ stop' = FALSE
    /\ lapsed' = lapsed \cup ToSet(loop.batch) \cup forgotten

Ends == Breaks({})
-----------------------------------------------------------------------------
(* The world around the loop. *)

\* weixin_connect_start: only when there is no loop.
Start ==
    /\ At("down")
    /\ mem' = disk
    /\ GoTo("poll")
    /\ UNCHANGED <<inbox, disk, options, stop, history, bounds>>

\* weixin_connect_stop
Stop ==
    /\ ~At("down") /\ ~stop
    /\ ends < MaxEnds
    /\ stop' = TRUE
    /\ ends' = ends + 1
    /\ UNCHANGED <<inbox, disk, mem, options, loop, history, repeats, faults>>

Crash ==
    /\ ~At("down")
    /\ ends < MaxEnds
    /\ ends' = ends + 1
    /\ Ends
    /\ UNCHANGED <<inbox, disk, options, resets, turns, handled, again, overtaken, repeats, faults>>

\* Mutant: the overrides stay.
RequestResetOnly ==
    /\ resets < MaxResets
    /\ resets' = resets + 1
    /\ options' = [options EXCEPT !.request = resets + 1]

\* request_reset, by the manager or the tool or the command.
RequestReset ==
    /\ resets < MaxResets
    /\ resets' = resets + 1
    /\ options' = [NewOptions EXCEPT !.request = resets + 1]

\* weixin_connect_reset_session, at any time
ManagerResets ==
    /\ RequestReset
    /\ overtaken' = IF At("set") THEN overtaken \cup {resets'} ELSE overtaken
    /\ UNCHANGED <<inbox, disk, mem, loop, stop, turns, handled, lapsed, again, bounds>>
-----------------------------------------------------------------------------
(* The loop. *)

BeginPoll ==
    /\ At("poll") /\ ~stop
    /\ GoTo("polling")
    /\ UNCHANGED <<inbox, disk, mem, options, stop, history, bounds>>

\* The server sends what comes after the cursor, or nothing; when it sends no new
\* cursor, the same messages come once more.  The user may have stopped the loop
\* meanwhile.
Poll ==
    /\ At("polling")
    /\ \E k \in mem.cursor .. MaxMessages :
          /\ loop' = [loop EXCEPT !.stage = "batch",
                                  !.batch = [i \in 1 .. k - mem.cursor |-> mem.cursor + i]]
          /\ \/ mem' = [mem EXCEPT !.cursor = k] /\ UNCHANGED <<again, repeats>>
             \/ /\ repeats < MaxRepeats
                /\ k > mem.cursor
                /\ repeats' = repeats + 1
                /\ again' = again \cup (mem.cursor + 1 .. k)
                /\ UNCHANGED mem
    /\ UNCHANGED <<inbox, disk, options, stop, resets, turns, handled, lapsed, overtaken, faults, ends>>

\* One message is passed over; an empty one is marked.
Skips(m) == inbox[m] = "stray" \/ m \in ToSet(mem.processed)

\* Mutant: a message that is passed over ends the batch.
PassOverAll ==
    /\ At("batch") /\ ~stop /\ loop.batch # << >>
    /\ Skips(Current)
    /\ loop' = [loop EXCEPT !.batch = << >>]
    /\ handled' = handled \cup {Current}
    /\ UNCHANGED <<inbox, disk, mem, options, stop, resets, turns, lapsed, again, overtaken, bounds>>

PassOver ==
    /\ At("batch") /\ ~stop /\ loop.batch # << >>
    /\ \/ Skips(Current) /\ UNCHANGED mem
       \/ /\ ~Skips(Current) /\ inbox[Current] = "empty"
          /\ mem' = [mem EXCEPT !.processed = Marked(@, Current)]
    /\ loop' = [loop EXCEPT !.batch = Tail(@)]
    /\ handled' = handled \cup {Current}
    /\ lapsed' = lapsed \cup Forgotten(mem')
    /\ UNCHANGED <<inbox, disk, options, stop, resets, turns, again, overtaken, bounds>>

\* process_weixin_message begins.  /reset-attachments forgets the thread when
\* attachments are allowed.
Begin ==
    /\ At("batch") /\ ~stop /\ loop.batch # << >>
    /\ ~Skips(Current)
    /\ \/ inbox[Current] = "text" /\ GoTo("load") /\ UNCHANGED mem
       \/ inbox[Current] = "reset" /\ GoTo("request") /\ UNCHANGED mem
       \/ /\ inbox[Current] = "resetAttachments"
          /\ GoTo("ended")
          /\ mem' \in {mem, [mem EXCEPT !.thread = NoThread]}
    /\ UNCHANGED <<inbox, disk, options, stop, history, bounds>>

\* /reset: the request first, then the state without the thread.  A write that fails
\* has replaced the file or not.  Beyond the bound every request fails.
Request ==
    /\ At("request")
    /\ \/ RequestReset /\ GoTo("forget") /\ UNCHANGED faults
       \/ RequestReset /\ GoTo("ended") /\ Fault
       \/ /\ Fault \/ (resets = MaxResets /\ UNCHANGED faults)
          /\ GoTo("ended")
          /\ UNCHANGED <<options, resets>>
    /\ UNCHANGED <<inbox, disk, mem, stop, turns, handled, lapsed, again, overtaken, repeats, ends>>

\* The state is saved (in one piece) and the loop goes on, or that fails.
SaveThen(state, next, failed) ==
    /\ mem' = state
    /\ \/ disk' = state /\ GoTo(next) /\ UNCHANGED faults
       \/ Fault /\ disk' \in {disk, state} /\ GoTo(failed)

Forget ==
    /\ At("forget")
    /\ SaveThen([mem EXCEPT !.thread = NoThread, !.completed = NoRequest], "ended", "ended")
    /\ UNCHANGED <<inbox, options, stop, history, repeats, ends>>

\* Any step up to the thread may fail, and the user may stop the loop meanwhile.
Load ==
    /\ At("load")
    /\ loop' = [loop EXCEPT !.stage = "prepare", !.options = options, !.seen = resets]
    /\ UNCHANGED <<inbox, disk, mem, options, stop, history, bounds>>

GiveUp ==
    /\ loop.stage \in {"load", "prepare"}
    /\ GoTo("ended")
    /\ UNCHANGED <<inbox, disk, mem, options, stop, history, bounds>>

Pending(request) == request # NoRequest /\ mem.completed # request

\* The saved thread is resumed, unless it is to be reset; one that cannot be
\* resumed is replaced by a new one.
Saved == IF Pending(loop.options.request) THEN NoThread ELSE mem.thread

\* Mutant: what has been carried out is not noted.
CompletedUnnoted(state, request) == state

Completed(state, request) ==
    IF request = NoRequest THEN state ELSE [state EXCEPT !.completed = request]

Prepare ==
    /\ At("prepare")
    /\ \E thread \in {Saved, loop.seen} \ {NoThread} :
          mem' = Completed([mem EXCEPT !.thread = thread], loop.options.request)
    /\ GoTo("save")
    /\ UNCHANGED <<inbox, disk, options, stop, history, bounds>>

\* Mutant: the state is saved only when the message has been dealt with.
SaveLater ==
    /\ At("save")
    /\ GoTo("complete")
    /\ UNCHANGED <<inbox, disk, mem, options, stop, history, bounds>>

Save ==
    /\ At("save")
    /\ SaveThen(mem, "complete", "ended")
    /\ UNCHANGED <<inbox, options, stop, history, repeats, ends>>

\* complete_reset: only the request that has been loaded.
RequestCompleted ==
    IF loop.options.request # NoRequest /\ options.request = loop.options.request
    THEN [options EXCEPT !.request = NoRequest] ELSE options

\* Then the turn begins.
CompleteReset ==
    /\ At("complete")
    /\ \/ /\ options' = RequestCompleted
          /\ GoTo("turn")
          /\ turns' = [turns EXCEPT ![Current] = @ + 1]
          /\ UNCHANGED faults
       \/ Fault /\ GoTo("ended") /\ options' \in {options, RequestCompleted} /\ UNCHANGED turns
    /\ UNCHANGED <<inbox, disk, mem, stop, resets, handled, lapsed, again, overtaken, repeats, ends>>

\* weixin_session_settings during a turn.  "set" loads the options without the lock
\* and changes the halves that it names, to a value or to the default (updated_options);
\* what fails before the save, and "get", changes nothing.
ToolLoads ==
    /\ At("turn")
    /\ \E named \in SUBSET Halves \ {{}}, new \in {resets, Default} :
          loop' = [loop EXCEPT !.stage = "set",
                               !.next = [options EXCEPT !.override =
                                            [half \in Halves |-> IF half \in named THEN new ELSE @[half]]]]
    /\ UNCHANGED <<inbox, disk, mem, options, stop, history, bounds>>

\* Mutant: the request is saved as it was loaded.
SavedWhole == loop.next

\* save reads the request again, and nothing else.
SavedOptions == [options EXCEPT !.override = loop.next.override]

ToolSaves ==
    /\ At("set")
    /\ loop' = [loop EXCEPT !.stage = "turn", !.next = NewOptions]
    /\ \/ options' = SavedOptions /\ UNCHANGED faults
       \/ options' \in {options, SavedOptions} /\ Fault
    /\ UNCHANGED <<inbox, disk, mem, stop, history, repeats, ends>>

\* "reset"
ToolResets ==
    /\ At("turn")
    /\ RequestReset
    /\ UNCHANGED <<inbox, disk, mem, loop, stop, turns, handled, lapsed, again, overtaken, bounds>>

\* The turn ends with an answer or an error, or because of a stop.
EndTurn ==
    /\ At("turn")
    /\ GoTo("ended")
    /\ UNCHANGED <<inbox, disk, mem, options, stop, history, bounds>>

\* With or without an error the message is marked and the state saved; an error
\* of this save ends the loop.
Finish ==
    LET state == [mem EXCEPT !.processed = Marked(@, Current)] IN
    /\ At("ended") /\ ~stop
    /\ \/ /\ disk' = state /\ mem' = state
          /\ loop' = [Down EXCEPT !.stage = "batch", !.batch = Tail(loop.batch)]
          /\ handled' = handled \cup {Current}
          /\ lapsed' = lapsed \cup Forgotten(state)
          /\ UNCHANGED <<stop, faults>>
       \/ /\ Fault
          /\ disk' \in {disk, state}
          /\ Breaks(Forgotten(state))
          /\ UNCHANGED handled
    /\ UNCHANGED <<inbox, options, resets, turns, again, overtaken, repeats, ends>>

\* The end of a batch, or a stop inside it: the state is saved with its cursor
\* and the messages that are left are not looked at.
EndBatch ==
    /\ \/ At("batch") /\ (stop \/ loop.batch = << >>)
       \/ At("ended") /\ stop
    /\ lapsed' = lapsed \cup ToSet(loop.batch)
    /\ \/ /\ disk' = mem
          /\ loop' = [Down EXCEPT !.stage = "poll"]
          /\ UNCHANGED <<mem, stop, faults>>
       \/ /\ Fault
          /\ disk' \in {disk, mem}
          /\ loop' = Down /\ mem' = NewState /\ stop' = FALSE
    /\ UNCHANGED <<inbox, options, resets, turns, handled, again, overtaken, repeats, ends>>

Stopped ==
    /\ At("poll") /\ stop
    /\ Ends
    /\ UNCHANGED <<inbox, disk, options, resets, turns, handled, again, overtaken, bounds>>

Next ==
    \/ Start \/ Stop \/ Crash \/ ManagerResets
    \/ BeginPoll \/ Poll \/ PassOver \/ Begin \/ Request \/ Forget
    \/ Load \/ GiveUp \/ Prepare \/ Save \/ CompleteReset
    \/ ToolLoads \/ ToolSaves \/ ToolResets \/ EndTurn
    \/ Finish \/ EndBatch \/ Stopped

Spec == Init /\ [][Next]_vars
-----------------------------------------------------------------------------
(* Properties. *)

\* The type invariant: among others, the list of marks never outgrows its limit
\* nor names a message twice (ConnectState::mark_processed).
TypeOK ==
    /\ inbox \in [Messages -> Kinds]
    /\ disk \in State /\ mem \in State
    /\ \A state \in {disk, mem} : Len(state.processed) <= MaxProcessed /\ IsInjective(state.processed)
    /\ options \in Options
    /\ loop \in Loop
    /\ stop \in BOOLEAN
    /\ resets \in Threads
    /\ turns \in [Messages -> Nat]
    /\ handled \subseteq Messages /\ lapsed \subseteq Messages /\ again \subseteq Messages
    /\ overtaken \subseteq Resets

Turning == loop.stage \in {"turn", "set"}

\* After a reset the old thread is never used again: a turn runs in a thread that
\* was made after every reset that had been asked for when its message was taken
\* up, whoever asked, whatever failed and wherever a crash fell between the two
\* files.
ResetIsHonoured == Turning => mem.thread >= loop.seen

\* A reset makes a new thread once: a request that has been carried out, but is
\* still on file after a failure or a crash, does not cost the peer the thread
\* that came of it.
ResetOnce ==
    At("prepare") /\ Pending(loop.options.request) /\ mem.thread # NoThread
        => mem.thread < loop.options.request

\* A message gets a second turn only if the server sends it once more and its
\* mark is lost: the cursor is on disk before its turn begins, so a crash does
\* not bring it back.
OneTurnPerMessage == \A m \in Messages : turns[m] > 1 => m \in again /\ m \in lapsed

\* Only the end of the loop loses messages: whatever the cursor has left behind
\* is done with, still in the batch, or was in a batch when the loop was stopped
\* or broke off.
OnlyAnEndLosesMessages ==
    \A m \in 1 .. disk.cursor : m \in handled \cup lapsed \cup ToSet(loop.batch)

\* An override outlives only the resets that overtake a tool at work: for every half
\* of the overrides that a turn uses, each reset asked for since that half was, and
\* before the message was taken up, came between the load and the save of a "set",
\* which puts what the reset has cleared back.
ResetClearsOverrides ==
    Turning => \A half \in Halves :
        LET made == loop.options.override[half] IN
        made # Default => made + 1 .. loop.seen \subseteq overtaken
=============================================================================
