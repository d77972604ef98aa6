---------------------------- MODULE JobInvariant ----------------------------
(***************************************************************************)
(* The inductive invariant of JobScheduler.  Its parts say what each       *)
(* position of a thread implies about the jobs, barriers and items that    *)
(* thread holds, which the safety properties alone do not.                 *)
(***************************************************************************)
EXTENDS JobScheduler

\* A position that acts on a job or a barrier names one, and a thread outside
\* the worker loop executes something.
ThreadInv ==
    \A t \in Thread :
       /\ pc[t] \in QueueingPc => arg[t] \in Job
       /\ pc[t] \in {"signal", "destroy"} => arg[t] \in Barrier
       /\ pc[t] \notin {"off", "loop", "asleep"} => stack[t] # <<>>
       /\ pc[t] \in {"retire", "signal"} => Head(stack[t]).item \in Item

\* `submitted` is won by one thread, which then holds the unsubmitted job.
SubmitInv ==
    /\ \A j \in Job : ~submitted[j] => phase[j] = "new"
    /\ \A t \in Thread : pc[t] = "submit" => phase[arg[t]] = "claimed"
    /\ \A t, u \in Thread :
          pc[t] = "submit" /\ pc[u] = "submit" /\ arg[t] = arg[u] => t = u

\* An item on some stack runs, and it is on one stack at one depth.
FrameInv ==
    /\ \A t \in Thread : \A k \in 1..Len(stack[t]) :
          stack[t][k].item \in Item => phase[stack[t][k].item] = "running"
    /\ \A t, u \in Thread :
       \A k \in 1..Len(stack[t]), l \in 1..Len(stack[u]) :
          stack[t][k].item \in Item /\ stack[t][k].item = stack[u][l].item
             => t = u /\ k = l

\* A body was started exactly when its item was popped.
StartsInv ==
    \A i \in Item :
       starts[i] = IF phase[i] \in {"running", "retired"} THEN 1 ELSE 0

\* What a thread inside MaybeQueue has established about its job.
AskInv ==
    /\ \A t \in Thread :
          /\ pc[t] \in {"load_pending", "claim"} =>
                queued[arg[t]] \/ buffer[t] = arg[t]
          /\ pc[t] = "claim" => pending[arg[t]] = 0
          /\ pc[t] \in QueueingPc => handle[arg[t]] # "none"
          /\ buffer[t] # None => handle[buffer[t]] # "none"
    /\ \A j \in Job :
          handle[j] = "none" => /\ ~queued[j] /\ pending[j] = 0
                                /\ phase[j] = "new"

\* A pooled barrier counts nothing, nor does one on its way to the pool, which
\* still belongs to the thread that destroys it.
PoolInv ==
    /\ \A b \in Barrier : owner[b] = None => count[b] = 0
    /\ \A t \in Thread :
          pc[t] = "destroy" => owner[arg[t]] = t /\ count[arg[t]] = 0

\* Without delayed stores nothing is ever buffered.
BufferInv == ~StoreBuffer => \A t \in Thread : buffer[t] = None

IInv ==
    /\ TypeOK /\ ThreadInv /\ SubmitInv /\ FrameInv /\ StartsInv /\ AskInv
    /\ PoolInv /\ BufferInv
    /\ QueuesExact /\ ReadyBeforeSubmit
    /\ InFlightCount /\ BarrierAccount
    /\ ~StoreBuffer => NoLostJob
=============================================================================
