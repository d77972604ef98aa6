------------------------------ MODULE Teardown ------------------------------
(***************************************************************************)
(* TeardownScheduler (engine/shared/Teardown.cppm): a graph of destruction *)
(* tasks, built with Add and executed once by Run as dependency-counted    *)
(* jobs of the shared pool.                                                *)
(*                                                                         *)
(* The jobs are JobScheduler's as JobContract states them: a job is        *)
(* submitted when it is queued and its count is 0, tested by QueueJob and  *)
(* by the RemoveDependency that takes the count from 1.  The count is an   *)
(* unsigned integer; Modulus stands for 2^32.  Task ids count from 1.      *)
(***************************************************************************)
EXTENDS Integers, Sequences, FiniteSets

CONSTANTS
    Caller,     \* threads that call Run (the destructor calls it too)
    MaxTasks,   \* bound on the number of Adds that succeed
    DepLists,   \* dependency lists that Add may be given
    MayThrow,   \* tasks whose function may throw
    Modulus,
    PartialAdds, \* may a refused list begin with valid entries?
    None

Id == 1..MaxTasks

ASSUME TeardownConstants ==
    /\ MaxTasks \in Nat /\ DepLists \subseteq Seq(Nat \ {0})
    /\ Modulus \in Nat /\ Modulus > MaxTasks
    /\ \A list \in DepLists : Len(list) < Modulus
    /\ PartialAdds \in BOOLEAN /\ None \notin Id

VARIABLES
    deps,        \* the lists the accepted tasks were added with, by id
    dependents,  \* tasks_[id].dependents, also of ids not yet given out
    run,         \* run_
    cycle,       \* cycle_
    pending,     \* the job's dependency count
    state,       \* where a task's job is
    released,    \* how many of its dependents a task has released
    firstError,  \* the task whose exception batch->first_error holds, or None
    thrown,      \* the tasks whose function threw
    pc, idx      \* the callers of Run, and how many jobs each has queued

vars == <<deps, dependents, run, cycle, pending, state, released,
          firstError, thrown, pc, idx>>
graphVars == <<deps, dependents>>
batchVars == <<pending, state, released, firstError, thrown>>

Task == 1..Len(deps)
State == {"none", "created", "asked", "queued", "body", "release", "done"}

\* Types; every edge leads to a task of the graph, and no task releases more
\* dependents than it has.
TypeOK ==
    /\ deps \in Seq(Seq(Nat \ {0})) /\ Len(deps) <= MaxTasks
    /\ dependents \in [Id -> Seq(Id)]
    /\ run \in BOOLEAN /\ cycle \in BOOLEAN
    /\ pending \in [Id -> 0..Modulus-1]
    /\ state \in [Id -> State]
    /\ released \in [Id -> Nat]
    /\ \A i \in Id : released[i] <= Len(dependents[i])
    /\ firstError \in Id \cup {None} /\ thrown \subseteq Id
    /\ pc \in [Caller -> {"idle", "queue", "wait", "returned", "threw",
                          "undefined"}]
    /\ idx \in [Caller -> 0..MaxTasks]

Init ==
    /\ deps = <<>> /\ dependents = [i \in Id |-> <<>>]
    /\ run = FALSE /\ cycle = FALSE
    /\ pending = [i \in Id |-> 0] /\ state = [i \in Id |-> "none"]
    /\ released = [i \in Id |-> 0]
    /\ firstError = None /\ thrown = {}
    /\ pc = [c \in Caller |-> "idle"] /\ idx = [c \in Caller |-> 0]

-----------------------------------------------------------------------------
(* Building the graph *)

\* "One edge per declared dependency (duplicates are honored)."
Edges(list, d) == Cardinality({k \in DOMAIN list : list[k] = d})

\* dependents, after Add pushed an edge to id for each entry of the list.
Linked(list, id) ==
    [d \in Id |-> dependents[d] \o [k \in 1..Edges(list, d) |-> id]]

\* tasks_.size() before the push.
NextId == Len(deps) + 1
Invalid(list) == {k \in DOMAIN list : list[k] >= NextId}

Add(list) ==
    /\ ~run /\ Len(deps) < MaxTasks /\ Invalid(list) = {}
    /\ dependents' = Linked(list, NextId)
    /\ deps' = Append(deps, list)
    /\ UNCHANGED <<run, cycle, batchVars, pc, idx>>

\* out_of_range is thrown at the first entry that names a task not yet added;
\* the edges pushed for the entries before it stay.
AddThrows(list) ==
    /\ ~run /\ Len(deps) < MaxTasks
    /\ \E first \in Invalid(list) :
           /\ \A k \in Invalid(list) : first <= k
           /\ first > 1 => PartialAdds
           /\ dependents' = Linked(SubSeq(list, 1, first - 1), NextId)
    /\ UNCHANGED <<deps, run, cycle, batchVars, pc, idx>>

\* A task counts its dependencies.  Mutation: it does not count the first.
MutPendingDeps(i) == IF deps[i] = <<>> THEN 0 ELSE Len(deps[i]) - 1
PendingDeps(i) == Len(deps[i])

\* The tasks HasCycle processes: the least set that holds a task once its
\* indegree, decremented along the edges from the set, has been 0.
EdgesFrom(P, i) ==
    Cardinality(UNION {{<<p, k>> : k \in {m \in DOMAIN dependents[p] :
                                             dependents[p][m] = i}} : p \in P})
ClosedSet(P) == \A i \in Task : EdgesFrom(P, i) >= PendingDeps(i) => i \in P
Processed == {i \in Task : \A P \in SUBSET Task : ClosedSet(P) => i \in P}
HasCycle == Processed # Task

\* An edge to an id that was never given out: HasCycle and the release of the
\* dependents index their vectors out of range.
Dangling == \E i \in Task : \E k \in DOMAIN dependents[i] :
                dependents[i][k] \notin Task

-----------------------------------------------------------------------------
(* Run *)

\* A second call returns at once.
RunAgain(c) ==
    /\ pc[c] = "idle" /\ run
    /\ pc' = [pc EXCEPT ![c] = "returned"]
    /\ UNCHANGED <<graphVars, run, cycle, batchVars, idx>>

\* The first call tests the graph and creates every job.
RunStarts(c) ==
    /\ pc[c] = "idle" /\ ~run
    /\ run' = TRUE
    /\ cycle' = (~Dangling /\ HasCycle)
    /\ pc' = [pc EXCEPT ![c] = IF Dangling THEN "undefined"
                               ELSE IF HasCycle THEN "threw"
                               ELSE IF Task = {} THEN "returned" ELSE "queue"]
    /\ IF Dangling \/ HasCycle
       THEN UNCHANGED <<pending, state>>
       ELSE /\ pending' = [i \in Id |-> IF i \in Task THEN PendingDeps(i) ELSE 0]
            /\ state' = [i \in Id |-> IF i \in Task THEN "created" ELSE "none"]
    /\ UNCHANGED <<graphVars, released, firstError, thrown, idx>>

\* QueueJob on the next handle.
QueueNext(c) ==
    /\ pc[c] = "queue"
    /\ LET i == idx[c] + 1 IN
       /\ state' = [state EXCEPT ![i] = IF pending[i] = 0 THEN "queued" ELSE "asked"]
       /\ idx' = [idx EXCEPT ![c] = i]
       /\ pc' = [pc EXCEPT ![c] = IF i = Len(deps) THEN "wait" ELSE "queue"]
    /\ UNCHANGED <<graphVars, run, cycle, pending, released, firstError, thrown>>

\* Wait on every handle, then the first error is rethrown.  Mutation: Run waits
\* for the task added last only.
MutAllDone == state[Len(deps)] = "done"
AllDone == \A i \in Task : state[i] = "done"

RunEnds(c) ==
    /\ pc[c] = "wait" /\ AllDone
    /\ pc' = [pc EXCEPT ![c] = IF firstError = None THEN "returned" ELSE "threw"]
    /\ UNCHANGED <<graphVars, run, cycle, batchVars, idx>>

-----------------------------------------------------------------------------
(* The jobs.  A step of a task belongs to the thread that executes its job:  *)
(* a worker, or the caller of Run in its participating wait.                 *)

StartTask(i) ==
    /\ state[i] = "queued"
    /\ state' = [state EXCEPT ![i] = "body"]
    /\ UNCHANGED <<graphVars, run, cycle, pending, released, firstError, thrown,
                   pc, idx>>

\* Where the job goes after a function that threw.  Mutation: the exception
\* skips the release of the dependents.
MutAfterThrow == "done"
AfterThrow == "release"

TaskReturns(i) ==
    /\ state[i] = "body"
    /\ state' = [state EXCEPT ![i] = "release"]
    /\ UNCHANGED <<graphVars, run, cycle, pending, released, firstError, thrown,
                   pc, idx>>

TaskThrows(i) ==
    /\ state[i] = "body" /\ i \in MayThrow
    /\ state' = [state EXCEPT ![i] = AfterThrow]
    /\ thrown' = thrown \cup {i}
    /\ firstError' = IF firstError = None THEN i ELSE firstError
    /\ UNCHANGED <<graphVars, run, cycle, pending, released, pc, idx>>

Releasing(i) == state[i] = "release" /\ released[i] < Len(dependents[i])

\* RemoveDependency on the next dependent.
ReleaseNext(i) ==
    /\ Releasing(i)
    /\ released' = [released EXCEPT ![i] = @ + 1]
    /\ LET d == dependents[i][released[i] + 1] IN
       /\ pending' = [pending EXCEPT ![d] = (@ + Modulus - 1) % Modulus]
       /\ state' = [state EXCEPT ![d] =
                       IF pending[d] = 1 /\ @ = "asked" THEN "queued" ELSE @]
    /\ UNCHANGED <<graphVars, run, cycle, firstError, thrown, pc, idx>>

FinishTask(i) ==
    /\ state[i] = "release" /\ ~Releasing(i)
    /\ state' = [state EXCEPT ![i] = "done"]
    /\ UNCHANGED <<graphVars, run, cycle, pending, released, firstError, thrown,
                   pc, idx>>

-----------------------------------------------------------------------------
RunStep(c) == QueueNext(c) \/ RunEnds(c)
TaskStep(i) == \/ StartTask(i) \/ TaskReturns(i) \/ TaskThrows(i)
               \/ ReleaseNext(i) \/ FinishTask(i)

Next == \/ \E list \in DepLists : Add(list) \/ AddThrows(list)
        \/ \E c \in Caller : RunStarts(c) \/ RunAgain(c) \/ RunStep(c)
        \/ \E i \in Id : TaskStep(i)

Spec == Init /\ [][Next]_vars

\* A thread inside Run is scheduled again, destruction functions end, and a
\* queued job is executed, by the caller of Run if by nobody else.
FairSpec == /\ Spec
            /\ \A c \in Caller : WF_vars(RunStep(c))
            /\ \A i \in Id : WF_vars(TaskStep(i))

-----------------------------------------------------------------------------
(* Properties *)

Started(i) == state[i] \in {"body", "release", "done"}
Completed(i) == state[i] \in {"release", "done"}

\* "A task starts only after every task in its `dependencies` list has
\* completed" (Teardown.cppm:18).
StartsAfterDependencies ==
    \A i \in Task : Started(i) => \A k \in DOMAIN deps[i] : Completed(deps[i][k])

\* When the call of Run that executes the graph ends, every task is done, no
\* job is left that refers to the scheduler, and it throws exactly if a task's
\* function did.
RunEndsLast ==
    \A c \in Caller : pc[c] \in {"returned", "threw"} /\ idx[c] > 0 =>
        /\ \A i \in Task : state[i] = "done"
        /\ (pc[c] = "threw") = (thrown # {})
        /\ firstError \in thrown \cup {None}

\* "a teardown batch must never deadlock on a broken task": Run returns, with
\* tasks that throw and whatever order the jobs are taken in.
RunReturns ==
    \A c \in Caller : pc[c] = "queue" ~> pc[c] \in {"returned", "threw"}
=============================================================================
