-------------------------- MODULE MCAgentCollaboration --------------------------
(***************************************************************************)
(* AgentCollaboration on small instances: model values for agents and      *)
(* processes, and the configurations the user switches between.            *)
(***************************************************************************)
EXTENDS AgentCollaboration, TLC

Uniform(enabled, limit) ==
    [enabled |-> enabled, agents |-> [a \in Agents |-> [enabled |-> TRUE, limit |-> limit]]]

\* Collaboration is switched on and off.
OnAndOff == {Uniform(on, MaxConcurrentTasks) : on \in BOOLEAN}

\* The limit of every agent is raised and lowered.
EveryLimit == {Uniform(TRUE, limit) : limit \in 1 .. MaxConcurrentTasks}

\* Leaves shutdowns, crashes and cancellations to the other runs.
NobodyStopsATask ==
    /\ \A p \in Processes : process[p] = "up"
    /\ \A i \in DOMAIN tasks : ~tasks[i].cancelRequested

Symmetry == Permutations(Processes)
=============================================================================
