----------------------------- MODULE ParallelFor -----------------------------
(***************************************************************************)
(* JobScheduler::ParallelFor (engine/shared/Jobs.cppm:185): a loop whose   *)
(* indices are claimed from one counter by copies of a lambda, of which    *)
(* the calling thread runs one itself before it waits for the others by    *)
(* executing queued work.                                                  *)
(*                                                                         *)
(* The lambda refers to the loop body on the caller's stack, so no copy    *)
(* may still use it once the call has returned.  The pool is abstracted to *)
(* the number of copies of each loop that wait in it: JobScheduler's tiers *)
(* decide which one is served, and here it may be any.  A body may call    *)
(* ParallelFor again, and its call may end with that one's exception.      *)
(***************************************************************************)
EXTENDS Integers, Sequences, FiniteSets

CONSTANTS
    Worker,    \* the pool's threads; worker_count_ of them
    Client,    \* other threads that call ParallelFor
    Loop,      \* calls of ParallelFor
    Count,     \* loop -> number of indices
    Inner,     \* loop -> (index -> the loop its body calls, or None)
    MayThrow,  \* <<l, i>>: the body of l may throw at index i
    None

Thread == Worker \cup Client
Indices(l) == 0 .. Count[l] - 1
Top == {l \in Loop : \A m \in Loop : \A i \in Indices(m) : Inner[m][i] # l}

ASSUME ParallelForConstants ==
    /\ IsFiniteSet(Worker) /\ IsFiniteSet(Client) /\ Worker \cap Client = {}
    /\ IsFiniteSet(Loop) /\ None \notin Loop \cup Nat
    /\ Count \in [Loop -> Nat]
    /\ \A l \in Loop : Inner[l] \in [Indices(l) -> Loop \cup {None}]

VARIABLES
    next,       \* loop -> *next
    remaining,  \* loop -> *remaining
    firstError, \* loop -> the index whose exception *first_error holds, or None
    inPool,     \* loop -> copies that wait in the scheduler's queues
    stack,      \* thread -> frames, innermost first
    attempts,   \* loop -> how often the body was called with each index
    thrown,     \* loop -> indices whose body threw
    result      \* loop -> "none", "open" while the call lasts, how it ended

vars == <<next, remaining, firstError, inPool, stack, attempts, thrown, result>>

Role == {"caller", "copy", "serial"}
At == {"submit", "fetch", "body", "inner", "record", "leave", "help"}
Frame == [loop : Loop, role : Role, at : At, idx : Nat]

\* Types; *remaining never goes below 0, and *first_error is one of the loop's own.
TypeOK ==
    /\ next \in [Loop -> Nat] /\ remaining \in [Loop -> Nat]
    /\ \A l \in Loop : firstError[l] \in Indices(l) \cup {None}
    /\ inPool \in [Loop -> Nat]
    /\ stack \in [Thread -> Seq(Frame)]
    /\ \A l \in Loop : attempts[l] \in [Indices(l) -> Nat]
    /\ \A l \in Loop : thrown[l] \subseteq Indices(l)
    /\ result \in [Loop -> {"none", "open", "returned", "threw"}]

\* spawned = min(worker_count_, count), for a set of threads and a count
Spawned(l) == IF Cardinality(Worker) <= Count[l]
              THEN Cardinality(Worker) ELSE Count[l]
Serial(l) == Count[l] = 1 \/ Worker = {}
Closed(l) == result[l] \in {"returned", "threw"}

Init ==
    /\ next = [l \in Loop |-> 0] /\ remaining = [l \in Loop |-> 0]
    /\ firstError = [l \in Loop |-> None] /\ inPool = [l \in Loop |-> 0]
    /\ stack = [t \in Thread |-> <<>>]
    /\ attempts = [l \in Loop |-> [i \in Indices(l) |-> 0]]
    /\ thrown = [l \in Loop |-> {}]
    /\ result = [l \in Loop |-> "none"]

-----------------------------------------------------------------------------
(* Frames *)

Running(t) == stack[t] # <<>>
Frm(t) == Head(stack[t])
IsAt(t, p) == Running(t) /\ Frm(t).at = p

Moved(t, p) == <<[Frm(t) EXCEPT !.at = p]>> \o Tail(stack[t])
Goto(t, p) == stack' = [stack EXCEPT ![t] = Moved(t, p)]
CopyOf(l) == [loop |-> l, role |-> "copy", at |-> "fetch", idx |-> 0]
FirstFrame(l) == [loop |-> l, role |-> IF Serial(l) THEN "serial" ELSE "caller",
                  at |-> IF Serial(l) THEN "body" ELSE "submit", idx |-> 0]

\* One participant for each copy, and the caller.
MutParticipants(l) == Spawned(l)   \* mutation: the caller is not counted
Participants(l) == Spawned(l) + 1

\* ParallelFor is entered on top of the frames `below` of thread t.
Enter(t, l, below) ==
    /\ result[l] = "none"
    /\ IF Count[l] = 0
       THEN /\ result' = [result EXCEPT ![l] = "returned"]
            /\ stack' = [stack EXCEPT ![t] = below]
            /\ UNCHANGED remaining
       ELSE /\ result' = [result EXCEPT ![l] = "open"]
            /\ stack' = [stack EXCEPT ![t] = <<FirstFrame(l)>> \o below]
            /\ remaining' = [remaining EXCEPT
                                ![l] = IF Serial(l) THEN 0 ELSE Participants(l)]

Call(t, l) ==
    /\ t \in Client /\ stack[t] = <<>> /\ l \in Top
    /\ Enter(t, l, <<>>)
    /\ UNCHANGED <<next, firstError, inPool, attempts, thrown>>


\* The call whose frame is innermost on t ends.
Leaves(t, how) ==
    /\ result' = [result EXCEPT ![Frm(t).loop] = how]
    /\ stack' = [stack EXCEPT ![t] = Tail(@)]

-----------------------------------------------------------------------------
(* The calling thread hands out copies *)

SubmitCopy(t) ==
    /\ IsAt(t, "submit")
    /\ inPool' = [inPool EXCEPT ![Frm(t).loop] = @ + 1]
    /\ stack' = [stack EXCEPT ![t] =
          IF Frm(t).idx + 1 = Spawned(Frm(t).loop)
          THEN Moved(t, "fetch")
          ELSE <<[Frm(t) EXCEPT !.idx = @ + 1]>> \o Tail(@)]
    /\ UNCHANGED <<next, remaining, firstError, attempts, thrown, result>>

-----------------------------------------------------------------------------
(* A participant: the lambda `run` *)

\* What the counter holds after a claim.  Mutation: an update may be lost, as
\* with a load and a store in place of fetch_add.
MutAdvanced(l) == {next[l], next[l] + 1}
Advanced(l) == {next[l] + 1}

Fetch(t) ==
    /\ IsAt(t, "fetch")
    /\ LET l == Frm(t).loop  n == next[l] IN
       /\ \E m \in Advanced(l) : next' = [next EXCEPT ![l] = m]
       /\ stack' = [stack EXCEPT ![t] =
             <<[Frm(t) EXCEPT !.at = IF n >= Count[l] THEN "leave" ELSE "body",
                              !.idx = n]>> \o Tail(@)]
    /\ UNCHANGED <<remaining, firstError, inPool, attempts, thrown, result>>

\* The body is called; it may first call the loop it contains.
Callee(t) == Inner[Frm(t).loop][Frm(t).idx]

StartBody(t) ==
    /\ IsAt(t, "body")
    /\ attempts' = [attempts EXCEPT ![Frm(t).loop][Frm(t).idx] = @ + 1]
    /\ IF Callee(t) = None
       THEN Goto(t, "inner") /\ UNCHANGED <<remaining, result>>
       ELSE Enter(t, Callee(t), Moved(t, "inner"))
    /\ UNCHANGED <<next, firstError, inPool, thrown>>

\* The body throws what the loop it called threw, or for a reason of its own.
Throws(t) ==
    IF Callee(t) # None /\ result[Callee(t)] = "threw" THEN {TRUE}
    ELSE {FALSE} \cup {TRUE : x \in {<<Frm(t).loop, Frm(t).idx>>} \cap MayThrow}

\* A participant records an exception and goes on claiming indices; the serial
\* loop has no handler, so its first exception leaves ParallelFor.
EndBody(t) ==
    /\ IsAt(t, "inner")
    /\ \E threw \in Throws(t) :
          /\ thrown' = [thrown EXCEPT ![Frm(t).loop] =
                            IF threw THEN @ \cup {Frm(t).idx} ELSE @]
          /\ IF Frm(t).role # "serial"
             THEN /\ Goto(t, IF threw THEN "record" ELSE "fetch")
                  /\ UNCHANGED result
             ELSE IF threw THEN Leaves(t, "threw")
             ELSE IF Frm(t).idx + 1 = Count[Frm(t).loop]
                  THEN Leaves(t, "returned")
             ELSE /\ stack' = [stack EXCEPT ![t] =
                        <<[Frm(t) EXCEPT !.at = "body", !.idx = @ + 1]>> \o Tail(@)]
                  /\ UNCHANGED result
    /\ UNCHANGED <<next, remaining, firstError, inPool, attempts>>

\* Under error_mutex, the first exception is kept.  Mutation: after a failure
\* the participant leaves without having recorded it.
MutKept(t) == firstError[Frm(t).loop]
Kept(t) == IF firstError[Frm(t).loop] = None
           THEN Frm(t).idx ELSE firstError[Frm(t).loop]

RecordError(t) ==
    /\ IsAt(t, "record")
    /\ firstError' = [firstError EXCEPT ![Frm(t).loop] = Kept(t)]
    /\ Goto(t, "fetch")
    /\ UNCHANGED <<next, remaining, inPool, attempts, thrown, result>>

\* remaining->fetch_sub: the last thing a copy does.
Leave(t) ==
    /\ IsAt(t, "leave")
    /\ remaining' = [remaining EXCEPT ![Frm(t).loop] = @ - 1]
    /\ IF Frm(t).role = "copy"
       THEN stack' = [stack EXCEPT ![t] = Tail(@)]
       ELSE Goto(t, "help")
    /\ UNCHANGED <<next, firstError, inPool, attempts, thrown, result>>

-----------------------------------------------------------------------------
(* The caller's wait, and the pool *)

Finished(t) == IsAt(t, "help") /\ remaining[Frm(t).loop] = 0

Return(t) ==
    /\ Finished(t)
    /\ Leaves(t, IF firstError[Frm(t).loop] = None THEN "returned" ELSE "threw")
    /\ UNCHANGED <<next, remaining, firstError, inPool, attempts, thrown>>

\* Takes a copy from the pool, on top of what t is doing.
TakeCopy(t) ==
    /\ \E l \in {m \in Loop : inPool[m] > 0} :
          /\ inPool' = [inPool EXCEPT ![l] = @ - 1]
          /\ stack' = [stack EXCEPT ![t] = <<CopyOf(l)>> \o @]
    /\ UNCHANGED <<next, remaining, firstError, attempts, thrown, result>>

\* TryExecuteOne in the caller's loop; mutation: the caller only sleeps.
MutHelps(t) == FALSE
Helps(t) == IsAt(t, "help") /\ ~Finished(t)

Help(t) == Helps(t) /\ TakeCopy(t)
WorkerTake(w) == w \in Worker /\ stack[w] = <<>> /\ TakeCopy(w)

-----------------------------------------------------------------------------
Step(t) == \/ SubmitCopy(t) \/ Fetch(t) \/ StartBody(t) \/ EndBody(t)
           \/ RecordError(t) \/ Leave(t) \/ Return(t) \/ Help(t)

Next == \/ \E t \in Client, l \in Loop : Call(t, l)
        \/ \E t \in Thread : Step(t) \/ WorkerTake(t)

Spec == Init /\ [][Next]_vars

\* Threads that are executing are scheduled again and bodies end.  Nothing is
\* assumed of idle workers: they may be busy elsewhere for good.
FairSpec == Spec /\ \A t \in Thread : WF_vars(Step(t))

-----------------------------------------------------------------------------
(* Properties *)

FrameAt(x) == stack[x[1]][x[2]]
FramesOf(l, roles) ==
    {x \in UNION {{t} \X DOMAIN stack[t] : t \in Thread} :
        FrameAt(x).loop = l /\ FrameAt(x).role \in roles}

\* `remaining` counts the copies not yet submitted, those in the pool and the
\* participants that have not left: it reaches 0 once, when all have left.
RemainingExact ==
    \A l \in Loop : result[l] = "open" /\ ~Serial(l) =>
        LET present == {x \in FramesOf(l, {"caller", "copy"}) :
                            FrameAt(x).at # "help"}
            counted == inPool[l] + Cardinality(present)
        IN IF \E x \in present : FrameAt(x).at = "submit"
           THEN \E x \in present : /\ FrameAt(x).at = "submit"
                                   /\ remaining[l] = counted + Spawned(l)
                                                        - FrameAt(x).idx
           ELSE remaining[l] = counted

\* After the call has ended, no copy of the lambda is left that could touch the
\* loop body, which lived in the caller's frame.
NoCopyOutlivesCall ==
    \A l \in Loop : Closed(l) =>
        inPool[l] = 0 /\ FramesOf(l, Role) = {}

\* The body is called at most once for each index, and when the parallel path
\* ends it was called for every index, whoever threw.
EachIndexOnce ==
    \A l \in Loop :
        /\ \A i \in Indices(l) : attempts[l][i] <= 1
        /\ Closed(l) /\ ~Serial(l) => \A i \in Indices(l) : attempts[l][i] = 1

\* ParallelFor throws exactly if a body threw, and it is a body's exception.
ErrorReported ==
    \A l \in Loop : Closed(l) =>
        /\ result[l] = "threw" <=> thrown[l] # {}
        /\ firstError[l] \in thrown[l] \cup {None}

\* "Exceptions are rethrown on the calling thread after every index has been
\* attempted" (Jobs.cppm:183).
EveryIndexAttempted ==
    \A l \in Loop : Closed(l) => \A i \in Indices(l) : attempts[l][i] = 1

\* Every call ends, even if no worker ever takes a copy, however deeply loops
\* are nested: whoever waits executes what is queued.
CallReturns == \A l \in Loop : result[l] = "open" ~> Closed(l)
=============================================================================
