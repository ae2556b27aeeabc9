------------------------------- MODULE MCWork -------------------------------
EXTENDS Work

CONSTANTS i1, i2

\* A row has these kinds: of a source or none, in a channel or with a thread
\* to make, run by a container or by the host, unknown, or of an old release.
Kind(feature, mode) == [feature |-> feature, known |-> TRUE, handler |-> FALSE, mode |-> mode]
MCSetups ==
  {Kind(feature, "channel") : feature \in {"none", "rss", "mail"}}
    \cup {Kind("none", "new-thread"), Kind("rss", "new-thread"),
          Kind("rss", "legacy"), Kind("mail", "legacy"),
          [Kind("none", "channel") EXCEPT !.handler = TRUE],
          [Kind("mail", "channel") EXCEPT !.known = FALSE]}

MCIssues == {i1, i2}

MCTurns == <<<<"eligible", "ineligible", "eligible", "eligible">>,
             <<"refused", "eligible">>>>

\* The other parts do not depend on the kind of the row.
MCInit == Init /\ (part # "worker" => setup = Kind("none", "channel"))
MCSpec == MCInit /\ [][Next]_vars
=============================================================================
