------------------------------ MODULE MCStores ------------------------------
EXTENDS Stores

CONSTANTS
  all, one   \* dispatchers: of all feeds, of the feed with article 2

MCRoute == <<"route", "route">>
MCOwners == {all, one}
MCFeed == [o \in {all, one} |-> IF o = all THEN {1, 2} ELSE {2}]
MCCaptures == {<<1, "like">>, <<1, "bookmark">>}
MCPictures == 1 .. 4
MCDay == <<1, 2, 2, 3>>
MCRows == 1 .. 4
MCSession == <<1, 2, 1, 1>>

\* The parts besides "schema" have no ledger to open.
MCInit == Init /\ (part # "schema" => ledger = Opening!NoStore)
MCSpec == MCInit /\ [][Next]_vars
=============================================================================
