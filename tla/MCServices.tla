----------------------------- MODULE MCServices -----------------------------
EXTENDS Services, TLC

CONSTANTS
  j1, j2, s1,
  c1, c2, r1, r2, r3, r4, p, q, main, other, bot, i1, e1

MCToolRequests == {c1}
MCIntervalJobs == {i1}
MCCronJobs == {e1}
MCJobs == {j1, j2}
MCSessions == {s1}
MCCaptures == {<<1, "like">>, <<2, "like">>}

\* Two calls of r1, into a session a queued run of its provider shares and
\* into one another run has; r3 is a run of a second provider.
MCRuns == {r1, r2, r3, r4}
MCCalls == {c1, c2}
MCParent == c1 :> r1 @@ c2 :> r1
MCProviders == {p, q}
MCProvider == r1 :> p @@ r2 :> p @@ r3 :> q @@ r4 :> p
MCLanes == {main, other, bot}
MCLane == r1 :> main @@ r2 :> bot @@ r3 :> main @@ r4 :> other @@ c1 :> bot @@ c2 :> other

\* The limit of q, which has one run, is of no account, and that of p is to
\* the calls only.
MCInit == Init /\ config[q] = 1 /\ (part # "calls" => config[p] = 1)
MCSpec == MCInit /\ [][Next]_vars /\ Fairness
=============================================================================
