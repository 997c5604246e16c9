---- MODULE MCUpdateChain ----
EXTENDS UpdateChain

\* A tolerant automatic chain that undoes completed members and whose second
\* member has a red plan, and a strict manual one that does not; the first and
\* the last member share their data.
Chain(auto, undo, actions) ==
    [auto |-> auto, stop |-> ~auto, undo |-> undo, scope |-> {1, 3}, red |-> {2},
     current |-> [s \in Steps |-> actions[s]]]
MCDefinitions ==
    {Chain(TRUE, TRUE, <<"skip", "restart", "recreate">>),
     Chain(FALSE, FALSE, <<"recreate", "restart", "skip">>)}

\* Two members on one data baseline.
MCShared ==
    {[auto |-> FALSE, stop |-> TRUE, undo |-> FALSE, scope |-> Steps, red |-> {},
      current |-> [s \in Steps |-> "skip"]]}
====
