-------------------------------- MODULE TaskBoard --------------------------------
(***************************************************************************)
(* What a user of the agent collaboration may rely on (the comments of     *)
(* agent_collaboration/mod.rs), without processes, leases, workers or      *)
(* transactions: one board that lists the tasks of each agent in the order *)
(* of their submission.  AgentCollaboration implements it.                 *)
(***************************************************************************)
EXTENDS Integers, Sequences, FiniteSets

CONSTANTS Agents, MaxTasks, MaxQueuedPerAgent

VARIABLES
    board,  \* the tasks: their agents and how far they are
    limit   \* how many tasks of an agent may run at a time; 0 if it is switched off

vars == <<board, limit>>
-----------------------------------------------------------------------------
Results == {"completed", "failed", "cancelled", "interrupted"}

Queued(b, a)  == {i \in DOMAIN b : b[i].agent = a /\ b[i].status = "queued"}
Running(b, a) == {i \in DOMAIN b : b[i].agent = a /\ b[i].status = "running"}

\* What may happen to a task without its worker: it is called off, or given up
\* as never started or as lost.
Passes(e, f) ==
    /\ f.agent = e.agent
    /\ e.status = "queued"  => f.status \in {"queued", "cancelled", "failed"}
    /\ e.status = "running" => f.status \in {"running", "cancelled", "interrupted"}
    /\ e.status \in Results => f.status = e.status

OthersPass(except) ==
    /\ DOMAIN board \subseteq DOMAIN board'
    /\ \A i \in DOMAIN board \ except : Passes(board[i], board'[i])
-----------------------------------------------------------------------------
Init == board = << >> /\ limit \in [Agents -> Nat]

\* A task of an agent that is switched on joins the end of the queue.
Submit(a) ==
    /\ limit[a] > 0
    /\ OthersPass({})
    /\ Len(board') = Len(board) + 1 /\ Len(board') <= MaxTasks
    /\ board'[Len(board')] = [agent |-> a, status |-> "queued"]
    /\ Cardinality(Queued(board', a)) <= MaxQueuedPerAgent
    /\ UNCHANGED limit

\* The first of a queue starts, alone and within the limit.
Start(i) ==
    LET a == board[i].agent IN
    /\ board[i].status = "queued"
    /\ OthersPass({i}) /\ DOMAIN board' = DOMAIN board
    /\ board'[i] = [board[i] EXCEPT !.status = "running"]
    /\ \A j \in Queued(board', a) : i < j
    /\ Cardinality(Running(board', a)) <= limit[a]
    /\ UNCHANGED limit

\* The worker of a task ends it; a result is given once.
Report(i) ==
    /\ board[i].status \notin Results
    /\ OthersPass({i}) /\ DOMAIN board' = DOMAIN board
    /\ board'[i].agent = board[i].agent /\ board'[i].status \in Results
    /\ UNCHANGED limit

\* Tasks are called off or expire.
Pass == OthersPass({}) /\ DOMAIN board' = DOMAIN board /\ UNCHANGED limit

\* New limits: nothing stays in the queue of an agent that is switched off.
Configure ==
    /\ OthersPass({}) /\ DOMAIN board' = DOMAIN board
    /\ limit' \in [Agents -> Nat]
    /\ \A a \in Agents : limit'[a] = 0 => Queued(board', a) = {}

Next ==
    \/ \E a \in Agents : Submit(a)
    \/ \E i \in DOMAIN board : Start(i) \/ Report(i)
    \/ Pass
    \/ Configure

Spec == Init /\ [][Next]_vars
=============================================================================
