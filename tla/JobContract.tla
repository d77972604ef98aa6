---------------------------- MODULE JobContract -----------------------------
(***************************************************************************)
(* What the scheduler promises the owner of a job: "a job runs once it has *)
(* been queued and its dependency count reaches zero, whichever happens    *)
(* last" (engine/shared/Jobs.cppm), it runs once, and a fire-and-forget    *)
(* body runs once after it was submitted.                                  *)
(***************************************************************************)
EXTENDS Naturals

CONSTANTS Job, Raw, MaxDeps

Item == Job \cup Raw

VARIABLES
    deps,    \* dependencies of a job not yet released
    asked,   \* the item was queued (a job) or submitted (a raw body)
    runs,    \* how often its body was started
    state    \* "waiting", "running" or "done"

vars == <<deps, asked, runs, state>>

Init ==
    /\ deps = [j \in Job |-> 0]
    /\ asked = [i \in Item |-> FALSE]
    /\ runs = [i \in Item |-> 0]
    /\ state = [i \in Item |-> "waiting"]

\* A job gets its dependency count before anything else happens to it.
Create(j) ==
    /\ ~asked[j] /\ deps[j] = 0
    /\ \E n \in 0..MaxDeps : deps' = [deps EXCEPT ![j] = n]
    /\ UNCHANGED <<asked, runs, state>>

Release(j) ==
    /\ deps[j] > 0
    /\ deps' = [deps EXCEPT ![j] = @ - 1]
    /\ UNCHANGED <<asked, runs, state>>

Ask(i) ==
    /\ ~asked[i]
    /\ asked' = [asked EXCEPT ![i] = TRUE]
    /\ UNCHANGED <<deps, runs, state>>

Ready(i) == asked[i] /\ (i \in Job => deps[i] = 0)

Start(i) ==
    /\ Ready(i) /\ state[i] = "waiting" /\ runs[i] = 0
    /\ runs' = [runs EXCEPT ![i] = 1]
    /\ state' = [state EXCEPT ![i] = "running"]
    /\ UNCHANGED <<deps, asked>>

Finish(i) ==
    /\ state[i] = "running"
    /\ state' = [state EXCEPT ![i] = "done"]
    /\ UNCHANGED <<deps, asked, runs>>

Next == \/ \E j \in Job : Create(j) \/ Release(j)
        \/ \E i \in Item : Ask(i) \/ Start(i) \/ Finish(i)

Spec == Init /\ [][Next]_vars
=============================================================================
