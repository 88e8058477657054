------------------------------- MODULE MCSync -------------------------------
(* Small instances of module Sync. *)
EXTENDS Sync

CONSTANTS i1, i2, b1, s1

\* Two items of one boundary, each on a page of its own, or one yet to come.
MCInit ==
    /\ Init
    /\ remote[i1].place = b1 /\ remote[i1].page = 1
    /\ remote[i2].place \in {b1, NULL} /\ remote[i2].page = 2

\* At most Trouble failures, clicks and changes in all.  A second tab is at
\* work on a Drive source only, while nothing fails and with one click or
\* change fewer, and syncs beside the first only while the account stays as it
\* is.  A second credential is stored only before a boundary was saved; the
\* first one saved is b1.  Time passes for the two kinds with a watermark.
CONSTANT Trouble
MCNext ==
    /\ Next
    /\ faults' + changes' + clicks' <= Trouble
    /\ \A s \in Session \ {s1} :
         \/ session'[s] = Idle
         \/ /\ source.kind = "drive"
            /\ faults' = 0 /\ changes' + clicks' < Trouble
            /\ changes' = 0 \/ ~session'[s].syncing \/ ~session'[s1].syncing
    /\ clicks' = 1 => source'.boundary \in {b1, NULL}
    /\ issued' = 2 => source'.boundary = NULL /\ source.kind = "drive"
    /\ source.kind \in {"drive", "calendar"} => now' = 0

MCSpec == MCInit /\ [][MCNext]_vars
=============================================================================
