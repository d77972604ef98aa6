------------------------ MODULE EngineShutdown_proofs ------------------------
(***************************************************************************)
(* For every graph and every set of subsystems: a task starts after its    *)
(* dependencies, Run ends last, a subsystem outlives those that reach into *)
(* it, and no reload outlives the shader manager of an engine with physics. *)
(*                                                                         *)
(* The heart is Counts: while Run executes, a task's count is at least the *)
(* number of edges into it that have not been released.                    *)
(***************************************************************************)
EXTENDS EngineShutdown, FiniteSetTheorems, TLAPS

\* The edges into task i, as pairs of a task and a place in its dependents, and
\* those not released yet.
EdgesInto(i) == {e \in Id \X Nat :
    e[2] \in 1..Len(dependents[e[1]]) /\ dependents[e[1]][e[2]] = i}
Unreleased(i) == {e \in EdgesInto(i) : e[2] > released[e[1]]}

-----------------------------------------------------------------------------
(* The invariant *)

\* The graph: no task has more edges than it counts, no edge leads out of the
\* graph, and each dependency has an edge.
EdgesCounted == \A i \in Task :
    IsFiniteSet(EdgesInto(i)) /\ Cardinality(EdgesInto(i)) <= Len(deps[i])
EdgesInside == \A p \in Id : \A k \in 1..Len(dependents[p]) : dependents[p][k] \in Task
EdgesComplete == \A i \in Task : \A n \in DOMAIN deps[i] :
    /\ deps[i][n] \in Id
    /\ \E k \in 1..Len(dependents[deps[i][n]]) : dependents[deps[i][n]][k] = i
CountsFit == \A i \in Task : Len(deps[i]) < Modulus
GraphInv == EdgesCounted /\ EdgesInside /\ EdgesComplete /\ CountsFit

\* Jobs exist once Run created them, for all tasks or for none.
NotRunYet == ~run => /\ \A i \in Id : state[i] = "none" /\ released[i] = 0
                     /\ \A c \in Caller : pc[c] = "idle" /\ idx[c] = 0
AllOrNone == (\E i \in Id : state[i] # "none") =>
                 \A i \in Id : state[i] # "none" <=> i \in Task
Counts == \A i \in Id : state[i] # "none" =>
              /\ IsFiniteSet(Unreleased(i)) /\ Cardinality(Unreleased(i)) <= pending[i]
              /\ state[i] \in {"queued", "body", "release", "done"} => pending[i] = 0
ReleasedByDone == \A i \in Id : released[i] > 0 => Completed(i)
JobsInv == NotRunYet /\ AllOrNone /\ Counts /\ ReleasedByDone

\* One caller executes the graph; the jobs it has not queued yet are as created.
Executing(c) == pc[c] \in {"queue", "wait"} \/ idx[c] > 0
OneExecutes == \A c, d \in Caller : Executing(c) /\ Executing(d) => c = d
Queueing == \A c \in Caller :
    pc[c] = "queue" => /\ idx[c] < Len(deps)
                       /\ \A i \in Task : i > idx[c] => state[i] = "created"
Errors == (firstError = None => thrown = {}) /\ firstError \in thrown \cup {None}
IdleQueuedNone == \A c \in Caller : pc[c] = "idle" => idx[c] = 0
CallerInv == OneExecutes /\ IdleQueuedNone /\ Queueing /\ Errors /\ RunEndsLast

GraphRunInv == TypeOK /\ GraphInv /\ JobsInv /\ CallerInv

\* The engine's part: tasks are added in order, each with the ids of those that
\* reach into it, and no reload is left when an engine with physics gets there.
NamesMatch == /\ client = "engine" => Len(names) = Len(deps)
              /\ client = "other" => names = <<>> /\ phase = "running"
              /\ names # <<>> => phase = "device"
Ordered == \A i, j \in DOMAIN names : i < j => Rank(names[i]) < Rank(names[j])
UsersAreDependencies == \A i, j \in DOMAIN names :
    names[j] \in Uses(names[i]) => \E k \in DOMAIN deps[j] : deps[j][k] = i
NoReloadLeft == /\ phase = "device" => debounce = "stopped" /\ (physics => reload = "none")
                /\ phase = "watchStopped" => debounce = "stopped"
EngineInv == NamesMatch /\ Ordered /\ UsersAreDependencies /\ NoReloadLeft

IInv == GraphRunInv /\ EngineTypeOK /\ EngineInv
-----------------------------------------------------------------------------
(* Add *)

\* An Add pushes as many edges as the list has entries for the task.
LEMMA EdgesCount ==
    ASSUME NEW list \in Seq(Nat), NEW d
    PROVE  /\ Edges(list, d) \in Nat
           /\ IsFiniteSet({k \in DOMAIN list : list[k] = d})
           /\ ExistsBijection(1..Edges(list, d), {k \in DOMAIN list : list[k] = d})
           /\ (\E k \in DOMAIN list : list[k] = d) => Edges(list, d) >= 1
<1> DEFINE S == {k \in DOMAIN list : list[k] = d}
<1>1. IsFiniteSet(S)
  <2>1. IsFiniteSet(1..Len(list)) /\ DOMAIN list = 1..Len(list)
    BY FS_Interval
  <2>2. S \in SUBSET (1..Len(list))
    BY <2>1
  <2> QED BY <2>1, <2>2, FS_Subset
<1>2. Cardinality(S) \in Nat /\ ExistsBijection(1..Cardinality(S), S)
  BY <1>1, FS_CardinalityType
<1>3. S # {} => Cardinality(S) # 0
  BY <1>1, FS_EmptySet
<1>4. Edges(list, d) = Cardinality(S)
  BY DEF Edges
<1> HIDE DEF S
<1>5. (\E k \in DOMAIN list : list[k] = d) => S # {}
  BY DEF S
<1> QED BY <1>1, <1>2, <1>3, <1>4, <1>5 DEF S

\* What Add does to one task's list of dependents.
LEMMA LinkedOne ==
    ASSUME TypeOK, Len(deps) < MaxTasks, NEW list \in Seq(Nat), NEW d \in Id,
           dependents' = Linked(list, NextId)
    PROVE  /\ NextId \in Id
           /\ Edges(list, d) \in Nat
           /\ dependents[d] \in Seq(Id) /\ dependents'[d] \in Seq(Id)
           /\ Len(dependents'[d]) = Len(dependents[d]) + Edges(list, d)
           /\ \A k \in 1..Len(dependents[d]) : dependents'[d][k] = dependents[d][k]
           /\ \A k \in (Len(dependents[d]) + 1)..Len(dependents'[d]) :
                  dependents'[d][k] = NextId
<1>1. MaxTasks \in Nat
  BY TeardownConstants
<1>2. NextId \in Id
  BY <1>1 DEF NextId, Id, TypeOK
<1>3. dependents[d] \in Seq(Id)
  BY DEF TypeOK
<1>4. Edges(list, d) \in Nat
  BY EdgesCount
<1> DEFINE w == [k \in 1..Edges(list, d) |-> NextId]
<1>5. dependents'[d] = dependents[d] \o w
  BY DEF Linked
<1>6. w \in Seq(Id) /\ Len(w) = Edges(list, d) /\ \A k \in 1..Len(w) : w[k] = NextId
  BY <1>2, <1>4
<1> HIDE DEF w
<1> DEFINE s == dependents[d]  t == dependents'[d]
<1>7. s \in Seq(Id) /\ t = s \o w
  BY <1>3, <1>5
<1> HIDE DEF s, t
<1>8. /\ t \in Seq(Id) /\ Len(t) = Len(s) + Len(w)
      /\ \A k \in 1..Len(s) : t[k] = s[k]
      /\ \A k \in (Len(s) + 1)..Len(t) : t[k] = NextId
  BY <1>6, <1>7
<1> QED BY <1>2, <1>3, <1>4, <1>6, <1>8 DEF s, t

\* The edges into the task that Add adds: one for each entry of its list.
LEMMA NewEdges ==
    ASSUME TypeOK, EdgesInside, Len(deps) < MaxTasks, NEW list \in Seq(Nat),
           dependents' = Linked(list, NextId)
    PROVE  LET E == {e \in Id \X Nat : /\ e[2] \in 1..Len(dependents'[e[1]])
                                       /\ dependents'[e[1]][e[2]] = NextId}
           IN IsFiniteSet(E) /\ Cardinality(E) <= Len(list)
<1> DEFINE E == {e \in Id \X Nat : /\ e[2] \in 1..Len(dependents'[e[1]])
                                   /\ dependents'[e[1]][e[2]] = NextId}
           B(d) == {k \in DOMAIN list : list[k] = d}
           place(d) == CHOOSE f \in Bijection(1..Edges(list, d), B(d)) : TRUE
           at(e) == e[2] - Len(dependents[e[1]])
           h == [e \in E |-> place(e[1])[at(e)]]
<1>1. \A d \in Id : /\ place(d) \in [1..Edges(list, d) -> B(d)]
                    /\ \A a, b \in 1..Edges(list, d) : place(d)[a] = place(d)[b] => a = b
  <2> TAKE d \in Id
  <2>1. ExistsBijection(1..Edges(list, d), B(d))
    BY EdgesCount
  <2>2. Bijection(1..Edges(list, d), B(d)) # {}
    BY <2>1 DEF ExistsBijection
  <2>3. place(d) \in Bijection(1..Edges(list, d), B(d))
    BY <2>2
  <2> HIDE DEF place, B
  <2> QED BY <2>3 DEF Bijection, Injection, IsInjective
<1>2. \A e \in E : /\ e[1] \in Id /\ e[2] \in Nat /\ Len(dependents[e[1]]) \in Nat
                   /\ at(e) \in 1..Edges(list, e[1])
  <2> TAKE e \in E
  <2>1. e[1] \in Id /\ e[2] \in Nat
    OBVIOUS
  <2>2. \A k \in 1..Len(dependents[e[1]]) : dependents[e[1]][k] # NextId
    <3>1. Len(deps) \in Nat
      BY DEF TypeOK
    <3>2. NextId \notin Task
      BY <3>1 DEF Task, NextId
    <3> QED BY <2>1, <3>2 DEF EdgesInside
  <2>3. Len(dependents[e[1]]) \in Nat
    BY <2>1, LinkedOne
  <2>4. /\ Edges(list, e[1]) \in Nat
        /\ Len(dependents'[e[1]]) = Len(dependents[e[1]]) + Edges(list, e[1])
        /\ \A k \in 1..Len(dependents[e[1]]) : dependents'[e[1]][k] = dependents[e[1]][k]
    BY <2>1, LinkedOne
  <2>5. e[2] \in 1..Len(dependents'[e[1]]) /\ dependents'[e[1]][e[2]] = NextId
    OBVIOUS
  <2>6. ~(e[2] \in 1..Len(dependents[e[1]]))
    BY <2>2, <2>4, <2>5
  <2> QED BY <2>1, <2>3, <2>4, <2>5, <2>6
<1>3. \A e \in E : h[e] = place(e[1])[at(e)]
  OBVIOUS
<1>4. DOMAIN h = E /\ h = [e \in E |-> h[e]] /\ E \subseteq Id \X Nat
  OBVIOUS
<1> HIDE DEF h, place, at, E, B
<1>5. \A e \in E : h[e] \in B(e[1])
  <2> TAKE e \in E
  <2>1. place(e[1]) \in [1..Edges(list, e[1]) -> B(e[1])]
    BY <1>1, <1>2
  <2>2. at(e) \in 1..Edges(list, e[1])
    BY <1>2
  <2>3. place(e[1])[at(e)] \in B(e[1])
    BY <2>1, <2>2
  <2> QED BY <1>3, <2>3
<1>6. \A e \in E : h[e] \in DOMAIN list /\ list[h[e]] = e[1]
  BY <1>5 DEF B
<1>7. \A a, b \in E : h[a] = h[b] => a = b
  <2> SUFFICES ASSUME NEW a \in E, NEW b \in E, h[a] = h[b] PROVE a = b
    OBVIOUS
  <2>1. a[1] = b[1]
    BY <1>6
  <2>2. at(a) = at(b)
    BY <1>1, <1>2, <1>3, <2>1
  <2>3. a[2] = b[2]
    BY <1>2, <2>1, <2>2 DEF at
  <2>4. a \in Id \X Nat /\ b \in Id \X Nat
    BY <1>4
  <2>5. \A e \in Id \X Nat : e = <<e[1], e[2]>>
    OBVIOUS
  <2> QED BY <2>1, <2>3, <2>4, <2>5
<1>8. h \in Injection(E, DOMAIN list)
  BY <1>4, <1>6, <1>7 DEF Injection, IsInjective
<1>9. IsFiniteSet(DOMAIN list) /\ Cardinality(DOMAIN list) = Len(list)
  <2>1. DOMAIN list = 1..Len(list) /\ Len(list) \in Nat
    OBVIOUS
  <2>2. IsFiniteSet(1..Len(list)) /\ Cardinality(1..Len(list)) = Len(list)
    <3>1. /\ IsFiniteSet(1..Len(list))
          /\ Cardinality(1..Len(list)) = IF 1 > Len(list) THEN 0 ELSE Len(list) - 1 + 1
      <4>1. 1 \in Int /\ Len(list) \in Int
        BY <2>1
      <4> QED BY <4>1, FS_Interval
    <3> QED BY <2>1, <3>1
  <2> QED BY <2>1, <2>2
<1>10. IsFiniteSet(E) /\ Cardinality(E) <= Cardinality(DOMAIN list)
  BY <1>8, <1>9, FS_Injection
<1> QED BY <1>9, <1>10 DEF E

\* Add keeps the types.
LEMMA AddTypes ==
    ASSUME TypeOK, NEW list \in Seq(Nat \ {0}), Add(list)
    PROVE  TypeOK'
<1>1. MaxTasks \in Nat /\ Len(deps) < MaxTasks
  BY TeardownConstants DEF Add
<1>2. deps' = Append(deps, list) /\ dependents' = Linked(list, NextId)
  BY DEF Add
<1>3. list \in Seq(Nat)
  OBVIOUS
<1>4. \A d \in Id : dependents'[d] \in Seq(Id) /\ Len(dependents'[d]) >= Len(dependents[d])
  <2> TAKE d \in Id
  <2>1. /\ Edges(list, d) \in Nat /\ dependents[d] \in Seq(Id) /\ dependents'[d] \in Seq(Id)
        /\ Len(dependents'[d]) = Len(dependents[d]) + Edges(list, d)
    BY <1>1, <1>2, <1>3, LinkedOne
  <2> QED BY <2>1
<1>5. dependents' \in [Id -> Seq(Id)]
  <2>1. dependents' = [d \in Id |-> dependents[d] \o [k \in 1..Edges(list, d) |-> NextId]]
    BY <1>2 DEF Linked
  <2>2. dependents' = [d \in Id |-> dependents'[d]]
    BY <2>1
  <2> QED BY <1>4, <2>2
<1>6. \A i \in Id : released'[i] <= Len(dependents'[i])
  <2> TAKE i \in Id
  <2>1. /\ released[i] \in Nat /\ released[i] <= Len(dependents[i])
        /\ released' = released
    BY DEF TypeOK, Add, batchVars
  <2>2. dependents[i] \in Seq(Id)
    BY DEF TypeOK
  <2> QED BY <1>4, <2>1, <2>2
<1>7. deps' \in Seq(Seq(Nat \ {0})) /\ Len(deps') <= MaxTasks
  BY <1>1, <1>2 DEF TypeOK
<1>8. /\ run \in BOOLEAN /\ cycle \in BOOLEAN
      /\ pending \in [Id -> 0..Modulus-1]
      /\ state \in [Id -> State] /\ released \in [Id -> Nat]
      /\ firstError \in Id \cup {None} /\ thrown \subseteq Id
      /\ pc \in [Caller -> {"idle", "queue", "wait", "returned", "threw",
                            "undefined"}]
      /\ idx \in [Caller -> 0..MaxTasks]
  BY DEF TypeOK
<1>9. UNCHANGED <<run, cycle, pending, state, released, firstError, thrown, pc, idx>>
  BY DEF Add, batchVars
<1> QED BY <1>5, <1>6, <1>7, <1>8, <1>9 DEF TypeOK

\* Add's edges all lead to the task added, one for each entry of its list.
LEMMA AddGraph ==
    ASSUME TypeOK, GraphInv, NEW list \in Seq(Nat \ {0}), Len(list) < Modulus, Add(list)
    PROVE  GraphInv'
<1>1. MaxTasks \in Nat /\ Len(deps) < MaxTasks /\ Len(deps) \in Nat
  BY TeardownConstants DEF Add, TypeOK
<1>2. deps' = Append(deps, list) /\ dependents' = Linked(list, NextId)
  BY DEF Add
<1>3. list \in Seq(Nat)
  OBVIOUS
<1>4. /\ NextId = Len(deps) + 1 /\ NextId \in Id /\ NextId \notin Task
      /\ Task' = Task \cup {NextId} /\ Task \subseteq Id
      /\ deps'[NextId] = list /\ \A i \in Task : deps'[i] = deps[i]
  <2>1. NextId = Len(deps) + 1 /\ NextId \in Id /\ NextId \notin Task /\ Task \subseteq Id
    BY <1>1 DEF NextId, Task, Id
  <2>2. deps \in Seq(Seq(Nat \ {0}))
    BY DEF TypeOK
  <2>3. /\ Len(deps') = Len(deps) + 1 /\ deps'[Len(deps) + 1] = list
        /\ \A i \in 1..Len(deps) : deps'[i] = deps[i]
    BY <1>2, <2>2
  <2>4. Task' = Task \cup {NextId}
    BY <1>1, <2>1, <2>3 DEF Task
  <2> QED BY <2>1, <2>3, <2>4 DEF Task
<1>5. \A d \in Id :
        /\ Edges(list, d) \in Nat
        /\ dependents[d] \in Seq(Id) /\ dependents'[d] \in Seq(Id)
        /\ Len(dependents'[d]) = Len(dependents[d]) + Edges(list, d)
        /\ \A k \in 1..Len(dependents[d]) : dependents'[d][k] = dependents[d][k]
        /\ \A k \in (Len(dependents[d]) + 1)..Len(dependents'[d]) :
               dependents'[d][k] = NextId
  BY <1>1, <1>2, <1>3, LinkedOne
<1>6. \A d \in Id : /\ Len(dependents[d]) \in Nat /\ Len(dependents'[d]) \in Nat
                    /\ Len(dependents'[d]) = Len(dependents[d]) + Edges(list, d)
                    /\ \A k \in 1..Len(dependents'[d]) :
                         IF k \in 1..Len(dependents[d])
                         THEN dependents'[d][k] = dependents[d][k]
                         ELSE dependents'[d][k] = NextId
  <2> TAKE d \in Id
  <2> DEFINE s == dependents[d]  t == dependents'[d]
  <2>1. /\ Edges(list, d) \in Nat /\ s \in Seq(Id) /\ t \in Seq(Id)
        /\ Len(t) = Len(s) + Edges(list, d)
        /\ \A k \in 1..Len(s) : t[k] = s[k]
        /\ \A k \in (Len(s) + 1)..Len(t) : t[k] = NextId
    BY <1>5
  <2> HIDE DEF s, t
  <2>2. /\ Len(s) \in Nat /\ Len(t) \in Nat /\ Len(t) = Len(s) + Edges(list, d)
        /\ \A k \in 1..Len(t) : IF k \in 1..Len(s) THEN t[k] = s[k] ELSE t[k] = NextId
    BY <2>1
  <2> QED BY <2>2 DEF s, t
<1>7. ASSUME NEW i \in Task PROVE EdgesInto(i)' = EdgesInto(i)
  <2>1. i # NextId
    BY <1>4
  <2>2. ASSUME NEW d \in Id, NEW k \in Nat
        PROVE  (k \in 1..Len(dependents'[d]) /\ dependents'[d][k] = i)
               <=> (k \in 1..Len(dependents[d]) /\ dependents[d][k] = i)
    <3>1. 1..Len(dependents[d]) \subseteq 1..Len(dependents'[d])
      BY <1>5
    <3> QED BY <1>6, <2>1, <3>1
  <2> DEFINE old(d, k) == k \in 1..Len(dependents[d]) /\ dependents[d][k] = i
             new(d, k) == k \in 1..Len(dependents'[d]) /\ dependents'[d][k] = i
  <2>3. EdgesInto(i) = {e \in Id \X Nat : old(e[1], e[2])}
    BY DEF EdgesInto
  <2>4. EdgesInto(i)' = {e \in Id \X Nat : new(e[1], e[2])}
    BY DEF EdgesInto
  <2>5. \A d \in Id, k \in Nat : new(d, k) <=> old(d, k)
    BY <2>2
  <2> HIDE DEF old, new
  <2>6. \A e \in Id \X Nat : new(e[1], e[2]) <=> old(e[1], e[2])
    BY <2>5
  <2> QED BY <2>3, <2>4, <2>6
<1>8. EdgesCounted'
  <2>1. ASSUME NEW i \in Task
        PROVE  IsFiniteSet(EdgesInto(i)') /\ Cardinality(EdgesInto(i)') <= Len(deps'[i])
    BY <1>4, <1>7 DEF GraphInv, EdgesCounted
  <2>2. EdgesInside
    BY DEF GraphInv
  <2>3. ASSUME NEW id \in Id, id = NextId
        PROVE  IsFiniteSet(EdgesInto(id)') /\ Cardinality(EdgesInto(id)') <= Len(deps'[id])
    <3> DEFINE E == {e \in Id \X Nat : /\ e[2] \in 1..Len(dependents'[e[1]])
                                       /\ dependents'[e[1]][e[2]] = NextId}
    <3>1. IsFiniteSet(E) /\ Cardinality(E) <= Len(list)
      BY <1>1, <1>2, <1>3, <2>2, NewEdges
    <3> HIDE DEF E
    <3>2. E = EdgesInto(id)'
      BY <2>3 DEF E, EdgesInto
    <3> QED BY <1>4, <2>3, <3>1, <3>2
  <2>4. ASSUME NEW i \in Task'
        PROVE  IsFiniteSet(EdgesInto(i)') /\ Cardinality(EdgesInto(i)') <= Len(deps'[i])
    BY <1>4, <2>1, <2>3
  <2> QED BY <2>4 DEF EdgesCounted
<1>9. EdgesInside'
  <2>1. ASSUME NEW p \in Id, NEW k \in 1..Len(dependents'[p])
        PROVE  dependents'[p][k] \in Task \cup {NextId}
    BY <1>6 DEF GraphInv, EdgesInside
  <2> QED BY <1>4, <2>1 DEF EdgesInside
<1>10. EdgesComplete'
  <2>1. ASSUME NEW i \in Task, NEW n \in DOMAIN deps'[i]
        PROVE  /\ deps'[i][n] \in Id
               /\ \E k \in 1..Len(dependents'[deps'[i][n]]) :
                      dependents'[deps'[i][n]][k] = i
    <3>1. deps'[i] = deps[i]
      BY <1>4
    <3>2. PICK k \in 1..Len(dependents[deps[i][n]]) : dependents[deps[i][n]][k] = i
      BY <3>1 DEF GraphInv, EdgesComplete
    <3>3. deps[i][n] \in Id
      BY <3>1 DEF GraphInv, EdgesComplete
    <3>4. k \in 1..Len(dependents'[deps[i][n]]) /\ dependents'[deps[i][n]][k] = i
      <4> DEFINE d == deps[i][n]
      <4>1. d \in Id /\ k \in 1..Len(dependents[d]) /\ dependents[d][k] = i
        BY <3>2, <3>3
      <4> HIDE DEF d
      <4>2. 1..Len(dependents[d]) \subseteq 1..Len(dependents'[d])
        BY <1>5, <4>1
      <4>3. k \in 1..Len(dependents'[d]) /\ dependents'[d][k] = i
        BY <1>5, <4>1, <4>2
      <4> QED BY <4>3 DEF d
    <3> QED BY <3>1, <3>3, <3>4
  <2>2. ASSUME NEW n \in DOMAIN list
        PROVE  /\ list[n] \in Id
               /\ \E k \in 1..Len(dependents'[list[n]]) : dependents'[list[n]][k] = NextId
    <3>1. list[n] \in Nat \ {0} /\ list[n] < NextId
      BY <1>4 DEF Add, Invalid
    <3>2. list[n] \in Id
      BY <1>1, <1>4, <3>1 DEF Id
    <3>3. Edges(list, list[n]) >= 1
      BY <1>3, EdgesCount
    <3>4. Len(dependents[list[n]]) + 1 \in 1..Len(dependents'[list[n]])
      BY <1>6, <1>5, <3>2, <3>3
    <3>5. Len(dependents[list[n]]) + 1 \notin 1..Len(dependents[list[n]])
      BY <1>6, <3>2
    <3>6. dependents'[list[n]][Len(dependents[list[n]]) + 1] = NextId
      BY <1>6, <3>2, <3>4, <3>5
    <3> QED BY <3>2, <3>4, <3>6
  <2> QED BY <1>4, <2>1, <2>2 DEF EdgesComplete
<1>11. CountsFit'
  BY <1>4 DEF GraphInv, CountsFit
<1> QED BY <1>8, <1>9, <1>10, <1>11 DEF GraphInv

\* Before Run, nothing but the graph matters.
LEMMA AddKeeps ==
    ASSUME GraphRunInv, NEW list \in Seq(Nat \ {0}), Len(list) < Modulus, Add(list)
    PROVE  GraphRunInv'
<1>1. TypeOK' /\ GraphInv'
  BY AddTypes, AddGraph DEF GraphRunInv
<1>2. /\ ~run
      /\ UNCHANGED <<run, cycle, pending, state, released, firstError, thrown, pc, idx>>
  BY DEF Add, batchVars
<1>3. /\ \A i \in Id : state[i] = "none" /\ released[i] = 0
      /\ \A c \in Caller : pc[c] = "idle" /\ idx[c] = 0
  BY <1>2 DEF GraphRunInv, JobsInv, NotRunYet
<1>4. JobsInv'
  BY <1>2, <1>3 DEF JobsInv, NotRunYet, AllOrNone, Counts, ReleasedByDone
<1>5. CallerInv'
  <2>1. Errors'
    BY <1>2 DEF GraphRunInv, CallerInv, Errors
  <2> QED BY <1>2, <1>3, <2>1 DEF CallerInv, OneExecutes, Executing, IdleQueuedNone,
                                  Queueing, RunEndsLast
<1> QED BY <1>1, <1>4, <1>5 DEF GraphRunInv

\* A list that is refused at its first entry leaves no edge.
LEMMA AddThrowsKeeps ==
    ASSUME PartialAdds = FALSE, TypeOK, NEW list \in Seq(Nat \ {0}), AddThrows(list)
    PROVE  UNCHANGED vars
<1>1. PICK first \in Invalid(list) :
          /\ first > 1 => PartialAdds
          /\ dependents' = Linked(SubSeq(list, 1, first - 1), NextId)
  BY DEF AddThrows
<1>2. first = 1
  BY <1>1 DEF Invalid
<1>3. SubSeq(list, 1, first - 1) = <<>>
  BY <1>2
<1>4. dependents' = Linked(<<>>, NextId)
  BY <1>1, <1>3
<1>5. ASSUME NEW d PROVE Edges(<<>>, d) = 0
  <2>1. {k \in DOMAIN <<>> : <<>>[k] = d} = {}
    OBVIOUS
  <2> QED BY <2>1, FS_EmptySet DEF Edges
<1>6. dependents' = [d \in Id |-> dependents[d] \o [k \in 1..0 |-> NextId]]
  BY <1>4, <1>5 DEF Linked
<1>7. [k \in 1..0 |-> NextId] = <<>>
  OBVIOUS
<1>8. ASSUME NEW d \in Id PROVE dependents[d] \o <<>> = dependents[d]
  BY DEF TypeOK
<1>9. dependents' = dependents
  BY <1>6, <1>7, <1>8 DEF TypeOK
<1> QED BY <1>9 DEF AddThrows, vars, batchVars

-----------------------------------------------------------------------------
(* Run *)

\* A step of Run or of a task that adds nothing keeps the graph.
LEMMA SameGraph ==
    ASSUME GraphInv, UNCHANGED graphVars
    PROVE  GraphInv'
<1>1. deps' = deps /\ dependents' = dependents /\ Task' = Task
  BY DEF graphVars, Task
<1>2. \A i : EdgesInto(i)' = EdgesInto(i)
  BY <1>1 DEF EdgesInto
<1>3. EdgesCounted'
  BY <1>1, <1>2 DEF GraphInv, EdgesCounted
<1>4. EdgesInside' /\ CountsFit'
  BY <1>1 DEF GraphInv, EdgesInside, CountsFit
<1>5. EdgesComplete'
  BY <1>1 DEF GraphInv, EdgesComplete
<1> QED BY <1>3, <1>4, <1>5 DEF GraphInv

\* Every edge leads to a task of the graph, so none dangles.
LEMMA NoneDangles ==
    ASSUME TypeOK, GraphInv
    PROVE  ~Dangling /\ Task \subseteq Id /\ \A i \in Task : deps[i] \in Seq(Nat \ {0})
<1>1. MaxTasks \in Nat
  BY TeardownConstants
<1>2. Task \subseteq Id /\ \A i \in Task : deps[i] \in Seq(Nat \ {0})
  <2>1. deps \in Seq(Seq(Nat \ {0})) /\ Len(deps) <= MaxTasks /\ Len(deps) \in Nat
    BY DEF TypeOK
  <2>2. \A i \in 1..Len(deps) : deps[i] \in Seq(Nat \ {0})
    BY <2>1
  <2> QED BY <1>1, <2>1, <2>2 DEF Task, Id
<1>3. \A i \in Id : DOMAIN dependents[i] = 1..Len(dependents[i])
  <2>1. dependents \in [Id -> Seq(Id)]
    BY DEF TypeOK
  <2> QED BY <2>1
<1> QED BY <1>2, <1>3 DEF Dangling, GraphInv, EdgesInside

\* The first call of Run.
LEMMA RunStartsKeeps ==
    ASSUME GraphRunInv, NEW c \in Caller, RunStarts(c)
    PROVE  GraphRunInv'
<1> USE DEF GraphRunInv
<1>1. ~Dangling /\ Task \subseteq Id /\ \A i \in Task : deps[i] \in Seq(Nat \ {0})
  BY NoneDangles
<1>2. /\ ~run /\ run' = TRUE /\ pc[c] = "idle"
      /\ UNCHANGED <<deps, dependents, released, firstError, thrown, idx>>
      /\ cycle' \in BOOLEAN
  BY DEF RunStarts, graphVars
<1>3. /\ \A i \in Id : state[i] = "none" /\ released[i] = 0
      /\ \A d \in Caller : pc[d] = "idle" /\ idx[d] = 0
  BY <1>2 DEF JobsInv, NotRunYet
<1>4. GraphInv'
  BY <1>2, SameGraph DEF graphVars
<1>5. CASE HasCycle
  <2>1. UNCHANGED <<pending, state>> /\ pc' = [pc EXCEPT ![c] = "threw"]
    BY <1>1, <1>5 DEF RunStarts
  <2>2. TypeOK'
    BY <1>2, <2>1 DEF TypeOK
  <2>3. JobsInv'
    BY <1>2, <1>3, <2>1 DEF JobsInv, NotRunYet, AllOrNone, Counts, ReleasedByDone
  <2>4. \A d \in Caller : pc'[d] \in {"idle", "threw"} /\ idx'[d] = 0
    BY <1>2, <1>3, <2>1 DEF TypeOK
  <2>5. CallerInv'
    <3>1. Errors'
      BY <1>2 DEF CallerInv, Errors
    <3> QED BY <2>4, <3>1 DEF CallerInv, OneExecutes, Executing, IdleQueuedNone,
                              Queueing, RunEndsLast
  <2> QED BY <1>4, <2>2, <2>3, <2>5
<1>6. CASE ~HasCycle
  <2>1. /\ pending' = [i \in Id |-> IF i \in Task THEN PendingDeps(i) ELSE 0]
        /\ state' = [i \in Id |-> IF i \in Task THEN "created" ELSE "none"]
        /\ pc' = [pc EXCEPT ![c] = IF Task = {} THEN "returned" ELSE "queue"]
    BY <1>1, <1>6 DEF RunStarts
  <2>2. Modulus \in Nat /\ Modulus > MaxTasks /\ MaxTasks \in Nat
    BY TeardownConstants
  <2>3. pending' \in [Id -> 0..Modulus-1]
    <3>1. \A i \in Task : PendingDeps(i) \in 0..Modulus-1
      BY <1>1, <2>2 DEF PendingDeps, GraphInv, CountsFit
    <3> QED BY <2>1, <2>2, <3>1
  <2>4. state' \in [Id -> State]
    BY <2>1 DEF State
  <2>5. TypeOK'
    BY <1>2, <2>1, <2>3, <2>4 DEF TypeOK
  <2>6. Counts'
    <3> SUFFICES ASSUME NEW i \in Id, state'[i] # "none"
                 PROVE  /\ IsFiniteSet(Unreleased(i)')
                        /\ Cardinality(Unreleased(i)') <= pending'[i]
                        /\ state'[i] \notin {"queued", "body", "release", "done"}
      BY DEF Counts
    <3>1. i \in Task /\ state'[i] = "created" /\ pending'[i] = Len(deps[i])
      BY <2>1 DEF PendingDeps
    <3>2. Unreleased(i)' \in SUBSET EdgesInto(i)
      BY <1>2 DEF Unreleased, EdgesInto
    <3>3. IsFiniteSet(EdgesInto(i)) /\ Cardinality(EdgesInto(i)) <= Len(deps[i])
      BY <3>1 DEF GraphInv, EdgesCounted
    <3>4. /\ IsFiniteSet(Unreleased(i)')
          /\ Cardinality(Unreleased(i)') <= Cardinality(EdgesInto(i))
      BY <3>2, <3>3, FS_Subset
    <3>5. Cardinality(Unreleased(i)') \in Nat /\ Cardinality(EdgesInto(i)) \in Nat
      BY <3>3, <3>4, FS_CardinalityType
    <3> QED BY <1>1, <3>1, <3>3, <3>4, <3>5
  <2>7. JobsInv'
    <3>1. Task' = Task
      BY <1>2 DEF Task
    <3>2. AllOrNone'
      BY <2>1, <3>1 DEF AllOrNone
    <3> QED BY <1>2, <1>3, <2>6, <3>2 DEF JobsInv, NotRunYet, ReleasedByDone
  <2>8. \A d \in Caller : /\ pc'[d] = "queue" => Task # {} /\ d = c
                          /\ pc'[d] # "wait" /\ idx'[d] = 0
                          /\ pc'[d] = "idle" => idx'[d] = 0
    BY <1>2, <1>3, <2>1 DEF TypeOK
  <2>9. CallerInv'
    <3>1. Errors'
      BY <1>2 DEF CallerInv, Errors
    <3>2. Queueing'
      <4>1. Task # {} => 0 < Len(deps)
        BY DEF Task, TypeOK
      <4>2. \A i \in Task : state'[i] = "created"
        BY <1>1, <2>1
      <4>3. Task' = Task /\ deps' = deps
        BY <1>2 DEF Task
      <4> QED BY <2>8, <4>1, <4>2, <4>3 DEF Queueing
    <3> QED BY <2>8, <3>1, <3>2 DEF CallerInv, OneExecutes, Executing, IdleQueuedNone,
                                    RunEndsLast
  <2> QED BY <1>4, <2>5, <2>7, <2>9
<1> QED BY <1>5, <1>6

\* The jobs, where a step of a caller leaves them alone.
LEMMA SameJobs ==
    ASSUME JobsInv, run' = TRUE,
           UNCHANGED <<deps, dependents, pending, state, released>>
    PROVE  JobsInv'
<1>1. \A j : Unreleased(j)' = Unreleased(j)
  BY DEF Unreleased, EdgesInto
<1>2. Counts'
  BY <1>1 DEF JobsInv, Counts
<1>3. AllOrNone' /\ ReleasedByDone' /\ NotRunYet'
  BY DEF JobsInv, AllOrNone, ReleasedByDone, NotRunYet, Completed, Task
<1> QED BY <1>2, <1>3 DEF JobsInv

\* A second call of Run.
LEMMA RunAgainKeeps ==
    ASSUME GraphRunInv, NEW c \in Caller, RunAgain(c)
    PROVE  GraphRunInv'
<1> USE DEF GraphRunInv
<1>1. /\ run /\ pc[c] = "idle" /\ pc' = [pc EXCEPT ![c] = "returned"]
      /\ UNCHANGED <<deps, dependents, run, cycle, pending, state, released, firstError,
                     thrown, idx>>
  BY DEF RunAgain, graphVars, batchVars
<1>2. GraphInv'
  BY <1>1, SameGraph DEF graphVars
<1>3. TypeOK'
  BY <1>1 DEF TypeOK
<1>4. JobsInv'
  <2>1. run' = TRUE
    BY <1>1 DEF TypeOK
  <2> QED BY <1>1, <2>1, SameJobs
<1>5. \A d \in Caller : /\ pc'[d] = IF d = c THEN "returned" ELSE pc[d]
                        /\ d = c => idx[d] = 0
  BY <1>1 DEF TypeOK, CallerInv, IdleQueuedNone
<1>6. CallerInv'
  <2>1. Errors'
    BY <1>1 DEF CallerInv, Errors
  <2>2. OneExecutes' /\ IdleQueuedNone'
    BY <1>1, <1>5 DEF CallerInv, OneExecutes, Executing, IdleQueuedNone
  <2>3. Queueing'
    BY <1>1, <1>5 DEF CallerInv, Queueing, Task
  <2>4. RunEndsLast'
    BY <1>1, <1>5 DEF CallerInv, RunEndsLast, Task
  <2> QED BY <2>1, <2>2, <2>3, <2>4 DEF CallerInv
<1> QED BY <1>2, <1>3, <1>4, <1>6

\* The next job is queued, or waits for its last dependency.
LEMMA QueueNextKeeps ==
    ASSUME GraphRunInv, NEW c \in Caller, QueueNext(c)
    PROVE  GraphRunInv'
<1> USE DEF GraphRunInv
<1> DEFINE i == idx[c] + 1
<1>1. /\ pc[c] = "queue"
      /\ state' = [state EXCEPT ![i] = IF pending[i] = 0 THEN "queued" ELSE "asked"]
      /\ idx' = [idx EXCEPT ![c] = i]
      /\ pc' = [pc EXCEPT ![c] = IF i = Len(deps) THEN "wait" ELSE "queue"]
      /\ UNCHANGED <<deps, dependents, run, cycle, pending, released, firstError, thrown>>
  BY DEF QueueNext, graphVars
<1>2. /\ i \in Task /\ i \in Id /\ i > idx[c] /\ i <= MaxTasks /\ state[i] = "created"
      /\ Len(deps) \in Nat /\ Len(deps) <= MaxTasks /\ MaxTasks \in Nat
  <2>1. idx[c] \in Nat /\ idx[c] < Len(deps) /\ Len(deps) \in Nat /\ MaxTasks \in Nat
        /\ Len(deps) <= MaxTasks
    BY <1>1, TeardownConstants DEF CallerInv, Queueing, TypeOK
  <2>2. i \in Task /\ i \in Id /\ i > idx[c] /\ i <= MaxTasks
    BY <2>1 DEF Task, Id
  <2> QED BY <1>1, <2>1, <2>2 DEF CallerInv, Queueing
<1> HIDE DEF i
<1>3. GraphInv'
  BY <1>1, SameGraph DEF graphVars
<1>4. /\ i \in Nat /\ i \in 0..MaxTasks
      /\ \A j \in Id : state'[j] = IF j # i THEN state[j]
                                   ELSE IF pending[i] = 0 THEN "queued" ELSE "asked"
      /\ \A d \in Caller : /\ idx'[d] = IF d = c THEN i ELSE idx[d]
                           /\ pc'[d] = IF d # c THEN pc[d]
                                       ELSE IF i = Len(deps) THEN "wait" ELSE "queue"
  BY <1>1, <1>2 DEF TypeOK, Id
<1>5. TypeOK'
  <2>1. state' \in [Id -> State]
    BY <1>1 DEF TypeOK, State
  <2>2. idx' \in [Caller -> 0..MaxTasks] /\ pc' \in [Caller -> {"idle", "queue", "wait",
                                             "returned", "threw", "undefined"}]
    BY <1>1, <1>4 DEF TypeOK
  <2> QED BY <1>1, <2>1, <2>2 DEF TypeOK
<1>6. \A d \in Caller : Executing(d) => d = c
  BY <1>1 DEF CallerInv, OneExecutes, Executing
<1>7. JobsInv'
  <2>1. NotRunYet'
    BY <1>1, <1>2 DEF JobsInv, NotRunYet
  <2>2. AllOrNone'
    <3>1. \A j \in Id : state'[j] # "none" <=> state[j] # "none"
      BY <1>2, <1>4
    <3>2. Task' = Task
      BY <1>1 DEF Task
    <3> QED BY <3>1, <3>2 DEF JobsInv, AllOrNone
  <2>3. \A j : Unreleased(j)' = Unreleased(j)
    BY <1>1 DEF Unreleased, EdgesInto
  <2>4. Counts'
    BY <1>1, <1>2, <1>4, <2>3 DEF JobsInv, Counts
  <2>5. ReleasedByDone'
    BY <1>1, <1>2, <1>4 DEF JobsInv, ReleasedByDone, Completed
  <2> QED BY <2>1, <2>2, <2>4, <2>5 DEF JobsInv
<1>8. CallerInv'
  <2>1. Errors'
    BY <1>1 DEF CallerInv, Errors
  <2>2. OneExecutes' /\ IdleQueuedNone'
    <3>1. \A d \in Caller : Executing(d)' => d = c
      BY <1>4, <1>6 DEF Executing
    <3> QED BY <1>1, <1>4, <3>1 DEF CallerInv, OneExecutes, IdleQueuedNone
  <2>3. Queueing'
    <3>1. \A d \in Caller : pc'[d] = "queue" => d = c
      BY <1>4, <1>6 DEF Executing
    <3>2. pc'[c] = "queue" => idx'[c] < Len(deps)
      BY <1>2, <1>4 DEF Task
    <3>3. ASSUME NEW j \in Task, j > i PROVE state'[j] = "created"
      <4>1. j > idx[c] /\ j # i /\ j \in Id
        BY <1>2, <3>3 DEF Task, Id, TypeOK
      <4> QED BY <1>1, <1>4, <4>1 DEF CallerInv, Queueing
    <3> QED BY <1>1, <1>4, <3>1, <3>2, <3>3 DEF Queueing, Task
  <2>4. RunEndsLast'
    BY <1>1, <1>4, <1>6 DEF RunEndsLast, Executing
  <2> QED BY <2>1, <2>2, <2>3, <2>4 DEF CallerInv
<1> QED BY <1>3, <1>5, <1>7, <1>8

\* Run ends when every job is done, with an error if a task left one.
LEMMA RunEndsKeeps ==
    ASSUME GraphRunInv, NEW c \in Caller, RunEnds(c)
    PROVE  GraphRunInv'
<1> USE DEF GraphRunInv
<1>1. /\ pc[c] = "wait" /\ AllDone
      /\ pc' = [pc EXCEPT ![c] = IF firstError = None THEN "returned" ELSE "threw"]
      /\ UNCHANGED <<deps, dependents, run, cycle, pending, state, released, firstError,
                     thrown, idx>>
  BY DEF RunEnds, graphVars, batchVars
<1>2. GraphInv'
  BY <1>1, SameGraph DEF graphVars
<1>3. TypeOK'
  BY <1>1 DEF TypeOK
<1>4. JobsInv'
  <2>1. run' = TRUE
    BY <1>1 DEF JobsInv, NotRunYet, TypeOK
  <2> QED BY <1>1, <2>1, SameJobs
<1>5. \A d \in Caller : pc'[d] = IF d # c THEN pc[d]
                                 ELSE IF firstError = None THEN "returned" ELSE "threw"
  BY <1>1 DEF TypeOK
<1>6. CallerInv'
  <2>1. Errors'
    BY <1>1 DEF CallerInv, Errors
  <2>2. OneExecutes' /\ IdleQueuedNone'
    BY <1>1, <1>5 DEF CallerInv, OneExecutes, Executing, IdleQueuedNone
  <2>3. Queueing'
    BY <1>1, <1>5 DEF CallerInv, Queueing, Task
  <2>4. RunEndsLast'
    <3>1. \A j \in Task : state[j] = "done"
      BY <1>1 DEF AllDone
    <3>2. (firstError # None) = (thrown # {}) /\ firstError \in thrown \cup {None}
      <4>1. firstError \in thrown \cup {None} /\ (firstError = None => thrown = {})
        BY DEF CallerInv, Errors
      <4> QED BY <4>1
    <3> QED BY <1>1, <1>5, <3>1, <3>2 DEF CallerInv, RunEndsLast, Task
  <2> QED BY <2>1, <2>2, <2>3, <2>4 DEF CallerInv
<1> QED BY <1>2, <1>3, <1>4, <1>6

-----------------------------------------------------------------------------
(* The tasks *)

\* While a task's job is not done, no call that executes the graph has ended, and
\* Run was called.
LEMMA Unfinished ==
    ASSUME GraphRunInv, NEW i \in Id, state[i] \notin {"none", "done"}
    PROVE  /\ run /\ i \in Task
           /\ \A c \in Caller : ~(pc[c] \in {"returned", "threw"} /\ idx[c] > 0)
<1>1. run
  BY DEF GraphRunInv, JobsInv, NotRunYet
<1>2. i \in Task
  BY DEF GraphRunInv, JobsInv, AllOrNone
<1> QED BY <1>1, <1>2 DEF GraphRunInv, CallerInv, RunEndsLast

\* What a step of a task that has begun, or begins, keeps when it releases no one.
LEMMA AdvanceKeeps ==
    ASSUME GraphRunInv, NEW i \in Id, NEW s \in {"body", "release", "done"},
           state[i] \in {"queued", "body", "release"},
           s = "body" => state[i] = "queued",
           state' = [state EXCEPT ![i] = s],
           UNCHANGED <<deps, dependents, run, cycle, pending, released, pc, idx>>,
           thrown' \subseteq Id, firstError' \in Id \cup {None}, Errors'
    PROVE  GraphRunInv'
<1> USE DEF GraphRunInv
<1>1. /\ run /\ i \in Task
      /\ \A c \in Caller : ~(pc[c] \in {"returned", "threw"} /\ idx[c] > 0)
  BY Unfinished
<1>2. \A j \in Id : state'[j] = IF j = i THEN s ELSE state[j]
  BY DEF TypeOK
<1>3. GraphInv'
  BY SameGraph DEF graphVars
<1>4. TypeOK'
  BY DEF TypeOK, State
<1>5. JobsInv'
  <2>1. NotRunYet'
    BY <1>1 DEF NotRunYet
  <2>2. AllOrNone'
    <3>1. \A j \in Id : state'[j] # "none" <=> state[j] # "none"
      BY <1>2
    <3>2. Task' = Task
      BY DEF Task
    <3> QED BY <3>1, <3>2 DEF JobsInv, AllOrNone
  <2>3. \A j : Unreleased(j)' = Unreleased(j)
    BY DEF Unreleased, EdgesInto
  <2>4. Counts'
    BY <1>2, <2>3 DEF JobsInv, Counts
  <2>5. ReleasedByDone'
    BY <1>2 DEF JobsInv, ReleasedByDone, Completed
  <2> QED BY <2>1, <2>2, <2>4, <2>5 DEF JobsInv
<1>6. CallerInv'
  <2>1. OneExecutes' /\ IdleQueuedNone'
    BY DEF CallerInv, OneExecutes, Executing, IdleQueuedNone
  <2>2. Queueing'
    <3>1. Task \subseteq Id
      BY NoneDangles
    <3> QED BY <1>2, <3>1 DEF CallerInv, Queueing, Task
  <2>3. RunEndsLast'
    BY <1>1 DEF RunEndsLast
  <2> QED BY <2>1, <2>2, <2>3 DEF CallerInv
<1> QED BY <1>3, <1>4, <1>5, <1>6

\* The steps of a task but for the release of a dependent.
LEMMA TaskKeeps ==
    ASSUME GraphRunInv, NEW i \in Id,
           StartTask(i) \/ TaskReturns(i) \/ TaskThrows(i) \/ FinishTask(i)
    PROVE  GraphRunInv'
<1>1. Errors /\ thrown \subseteq Id /\ firstError \in Id \cup {None}
  BY DEF GraphRunInv, CallerInv, TypeOK
<1>2. CASE StartTask(i)
  <2>1. Errors'
    BY <1>1, <1>2 DEF StartTask, Errors
  <2> QED BY <1>1, <1>2, <2>1, AdvanceKeeps DEF StartTask, graphVars
<1>3. CASE TaskReturns(i)
  <2>1. Errors'
    BY <1>1, <1>3 DEF TaskReturns, Errors
  <2> QED BY <1>1, <1>3, <2>1, AdvanceKeeps DEF TaskReturns, graphVars
<1>4. CASE TaskThrows(i)
  <2>1. /\ thrown' = thrown \cup {i}
        /\ firstError' = IF firstError = None THEN i ELSE firstError
    BY <1>4 DEF TaskThrows
  <2>2. None # i
    BY TeardownConstants
  <2>3. Errors'
    BY <1>1, <2>1, <2>2 DEF Errors
  <2>4. thrown' \subseteq Id /\ firstError' \in Id \cup {None}
    BY <1>1, <2>1
  <2> QED BY <1>4, <2>3, <2>4, AdvanceKeeps DEF TaskThrows, AfterThrow, graphVars
<1>5. CASE FinishTask(i)
  <2>1. Errors'
    BY <1>1, <1>5 DEF FinishTask, Errors
  <2> QED BY <1>1, <1>5, <2>1, AdvanceKeeps DEF FinishTask, graphVars
<1> QED BY <1>2, <1>3, <1>4, <1>5

\* A count that is not 0 does not wrap.
LEMMA Decrement ==
    ASSUME NEW m \in Nat, NEW p \in 1..m-1
    PROVE  (p + m - 1) % m = p - 1
OBVIOUS

\* The release of a dependent takes one edge from those counted.
LEMMA ReleaseNextKeeps ==
    ASSUME GraphRunInv, NEW i \in Id, ReleaseNext(i)
    PROVE  GraphRunInv'
<1> USE DEF GraphRunInv
<1> DEFINE k == released[i] + 1
           d == dependents[i][k]
           e == <<i, k>>
<1>1. /\ state[i] = "release" /\ released[i] < Len(dependents[i])
      /\ released' = [released EXCEPT ![i] = k]
      /\ pending' = [pending EXCEPT ![d] = (@ + Modulus - 1) % Modulus]
      /\ state' = [state EXCEPT ![d] =
                      IF pending[d] = 1 /\ @ = "asked" THEN "queued" ELSE @]
      /\ UNCHANGED <<deps, dependents, run, cycle, firstError, thrown, pc, idx>>
  BY DEF ReleaseNext, Releasing, graphVars
<1>2. /\ run /\ i \in Task
      /\ \A c \in Caller : ~(pc[c] \in {"returned", "threw"} /\ idx[c] > 0)
  BY <1>1, Unfinished
<1>3. /\ released[i] \in Nat /\ k \in Nat /\ k \in 1..Len(dependents[i])
      /\ Len(dependents[i]) \in Nat
  BY <1>1 DEF TypeOK
<1>4. d \in Task /\ Task \subseteq Id
  BY <1>3, NoneDangles DEF GraphInv, EdgesInside
<1>5. state[d] # "none"
  BY <1>1, <1>4 DEF JobsInv, AllOrNone
<1>6. e \in Unreleased(d)
  <2>1. e[1] = i /\ e[2] = k /\ e \in Id \X Nat
    BY <1>3
  <2> QED BY <1>3, <2>1 DEF Unreleased, EdgesInto
<1> HIDE DEF k, d, e
<1>7. /\ IsFiniteSet(Unreleased(d)) /\ Cardinality(Unreleased(d)) <= pending[d]
      /\ pending[d] \in 0..Modulus-1 /\ Modulus \in Nat
  BY <1>4, <1>5, TeardownConstants DEF JobsInv, Counts, TypeOK
<1>8. /\ Cardinality(Unreleased(d)) \in Nat
      /\ IsFiniteSet(Unreleased(d) \ {e})
      /\ Cardinality(Unreleased(d) \ {e}) = Cardinality(Unreleased(d)) - 1
      /\ Cardinality(Unreleased(d) \ {e}) \in Nat
  BY <1>6, <1>7, FS_CardinalityType, FS_RemoveElement
<1>9. pending[d] >= 1 /\ (pending[d] + Modulus - 1) % Modulus = pending[d] - 1
  BY <1>7, <1>8, Decrement
<1>10. /\ \A j \in Id : pending'[j] = IF j = d THEN pending[d] - 1 ELSE pending[j]
       /\ \A j \in Id : released'[j] = IF j = i THEN k ELSE released[j]
       /\ \A j \in Id : state'[j] =
            IF j = d /\ pending[d] = 1 /\ state[d] = "asked" THEN "queued" ELSE state[j]
  <2>1. d \in Id
    BY <1>4
  <2>2. pending' = [pending EXCEPT ![d] = pending[d] - 1]
    BY <1>1, <1>9
  <2>3. DOMAIN pending = Id /\ DOMAIN state = Id
    BY DEF TypeOK
  <2>4. \A j \in Id : released'[j] = IF j = i THEN k ELSE released[j]
    BY <1>1 DEF TypeOK
  <2> QED BY <1>1, <2>1, <2>2, <2>3, <2>4
<1>11. state[d] \in {"created", "asked"}
  <2>1. d \in Id /\ state[d] \in State
    BY <1>4 DEF TypeOK
  <2>2. state[d] \in {"queued", "body", "release", "done"} => pending[d] = 0
    BY <1>5, <2>1 DEF JobsInv, Counts
  <2>3. pending[d] # 0
    BY <1>7, <1>9
  <2> QED BY <1>5, <2>1, <2>2, <2>3 DEF State
<1>12. GraphInv'
  BY <1>1, SameGraph DEF graphVars
<1>13. TypeOK'
  <2>1. pending' \in [Id -> 0..Modulus-1]
    <3>1. pending' = [pending EXCEPT ![d] = pending[d] - 1] /\ pending \in [Id -> 0..Modulus-1]
      BY <1>1, <1>9 DEF TypeOK
    <3>2. pending[d] - 1 \in 0..Modulus-1
      BY <1>7, <1>9
    <3> QED BY <3>1, <3>2
  <2>2. state' \in [Id -> State]
    BY <1>1 DEF TypeOK, State
  <2>3. \A j \in Id : released'[j] <= Len(dependents[j])
    <3>1. \A j \in Id : released[j] <= Len(dependents[j])
      BY DEF TypeOK
    <3> QED BY <1>3, <1>10, <3>1
  <2>4. released' \in [Id -> Nat]
    BY <1>1, <1>3 DEF TypeOK
  <2> QED BY <1>1, <2>1, <2>2, <2>3, <2>4 DEF TypeOK
<1>14. JobsInv'
  <2>1. NotRunYet'
    BY <1>1, <1>2 DEF NotRunYet
  <2>2. AllOrNone'
    <3>1. \A j \in Id : state'[j] # "none" <=> state[j] # "none"
      BY <1>5, <1>10
    <3>2. Task' = Task
      BY <1>1 DEF Task
    <3> QED BY <3>1, <3>2 DEF JobsInv, AllOrNone
  <2>3. ASSUME NEW j \in Id
        PROVE  /\ j # d => Unreleased(j)' = Unreleased(j)
               /\ j = d => Unreleased(j)' = Unreleased(d) \ {e}
    <3>1. EdgesInto(j)' = EdgesInto(j)
      BY <1>1 DEF EdgesInto
    <3>2. ASSUME NEW f \in EdgesInto(j)
          PROVE  f[2] > released'[f[1]] <=> (f[2] > released[f[1]] /\ f # e)
      <4>1. f \in Id \X Nat /\ f = <<f[1], f[2]>> /\ f[1] \in Id /\ f[2] \in Nat
        BY DEF EdgesInto
      <4>2. f = e <=> (f[1] = i /\ f[2] = k)
        BY <4>1 DEF e
      <4>3. k = released[i] + 1
        BY DEF k
      <4> QED BY <1>3, <1>10, <4>1, <4>2, <4>3
    <3>3. Unreleased(j)' = {f \in EdgesInto(j) : f[2] > released[f[1]] /\ f # e}
      BY <3>1, <3>2 DEF Unreleased
    <3>4. Unreleased(j)' = Unreleased(j) \ {e}
      BY <3>3 DEF Unreleased
    <3>5. j # d => e \notin Unreleased(j)
      BY DEF Unreleased, EdgesInto, e, d
    <3> QED BY <3>4, <3>5
  <2>4. Counts'
    <3> SUFFICES ASSUME NEW j \in Id, state'[j] # "none"
                 PROVE  /\ IsFiniteSet(Unreleased(j)')
                        /\ Cardinality(Unreleased(j)') <= pending'[j]
                        /\ state'[j] \in {"queued", "body", "release", "done"} =>
                               pending'[j] = 0
      BY DEF Counts
    <3>1. CASE j = d
      <4>1. Unreleased(j)' = Unreleased(d) \ {e} /\ pending'[j] = pending[d] - 1
        BY <1>10, <2>3, <3>1
      <4>2. state'[j] \in {"queued", "body", "release", "done"} => pending[d] = 1
        BY <1>10, <1>11, <3>1
      <4> QED BY <1>7, <1>8, <4>1, <4>2
    <3>2. CASE j # d
      BY <1>10, <2>3, <3>2 DEF JobsInv, Counts
    <3> QED BY <3>1, <3>2
  <2>5. ReleasedByDone'
    <3> SUFFICES ASSUME NEW j \in Id, released'[j] > 0 PROVE Completed(j)'
      BY DEF ReleasedByDone
    <3>1. Completed(j)
      BY <1>1, <1>10 DEF JobsInv, ReleasedByDone, Completed
    <3> QED BY <1>10, <1>11, <3>1 DEF Completed
  <2> QED BY <2>1, <2>2, <2>4, <2>5 DEF JobsInv
<1>15. CallerInv'
  <2>1. OneExecutes' /\ IdleQueuedNone'
    BY <1>1 DEF CallerInv, OneExecutes, Executing, IdleQueuedNone
  <2>2. Queueing'
    BY <1>1, <1>4, <1>10 DEF CallerInv, Queueing, Task
  <2>3. RunEndsLast'
    BY <1>1, <1>2 DEF RunEndsLast
  <2>4. Errors'
    BY <1>1 DEF CallerInv, Errors
  <2> QED BY <2>1, <2>2, <2>3, <2>4 DEF CallerInv
<1> QED BY <1>12, <1>13, <1>14, <1>15

-----------------------------------------------------------------------------
(* What the graph's invariant gives *)

\* The initial states.
LEMMA InitGraph ==
    ASSUME Init
    PROVE  GraphRunInv
<1> USE DEF Init
<1>1. MaxTasks \in Nat /\ Modulus \in Nat /\ Modulus > MaxTasks
  BY TeardownConstants
<1>2. Len(deps) = 0 /\ Task = {} /\ deps \in Seq(Seq(Nat \ {0}))
  BY DEF Task
<1>3. \A p \in Id : dependents[p] = <<>> /\ Len(dependents[p]) = 0 /\ released[p] = 0
  OBVIOUS
<1>4. TypeOK
  <2>1. dependents \in [Id -> Seq(Id)]
    BY <1>3
  <2>2. released \in [Id -> Nat] /\ \A p \in Id : released[p] <= Len(dependents[p])
    BY <1>3
  <2>3. pending \in [Id -> 0..Modulus-1] /\ idx \in [Caller -> 0..MaxTasks]
    BY <1>1
  <2>4. state \in [Id -> State]
    BY DEF State
  <2>5. run \in BOOLEAN /\ cycle \in BOOLEAN
    OBVIOUS
  <2>6. /\ firstError \in Id \cup {None} /\ thrown \subseteq Id
        /\ pc \in [Caller -> {"idle", "queue", "wait", "returned", "threw", "undefined"}]
    OBVIOUS
  <2>7. Len(deps) <= MaxTasks
    BY <1>1, <1>2
  <2> HIDE DEF Init
  <2> QED BY <1>2, <2>1, <2>2, <2>3, <2>4, <2>5, <2>6, <2>7 DEF TypeOK
<1>5. GraphInv
  BY <1>2, <1>3 DEF GraphInv, EdgesCounted, EdgesInside, EdgesComplete, CountsFit
<1>6. JobsInv
  BY DEF JobsInv, NotRunYet, AllOrNone, Counts, ReleasedByDone
<1>7. CallerInv
  BY DEF CallerInv, OneExecutes, Executing, IdleQueuedNone, Queueing, Errors, RunEndsLast
<1> QED BY <1>4, <1>5, <1>6, <1>7 DEF GraphRunInv

\* A step that changes nothing of the graph and its execution.
LEMMA StutterKeeps ==
    ASSUME GraphRunInv, UNCHANGED vars
    PROVE  GraphRunInv'
<1> USE DEF GraphRunInv, vars
<1>1. GraphInv'
  BY SameGraph DEF graphVars
<1>2. TypeOK'
  BY DEF TypeOK
<1>3. \A j : Unreleased(j)' = Unreleased(j)
  BY DEF Unreleased, EdgesInto
<1>4. JobsInv'
  <2>1. Counts'
    BY <1>3 DEF JobsInv, Counts
  <2>2. NotRunYet' /\ AllOrNone' /\ ReleasedByDone'
    BY DEF JobsInv, NotRunYet, AllOrNone, ReleasedByDone, Completed, Task
  <2> QED BY <2>1, <2>2 DEF JobsInv
<1>5. CallerInv'
  <2>1. OneExecutes' /\ IdleQueuedNone' /\ Errors'
    BY DEF CallerInv, OneExecutes, Executing, IdleQueuedNone, Errors
  <2>2. Queueing' /\ RunEndsLast'
    BY DEF CallerInv, Queueing, RunEndsLast, Task
  <2> QED BY <2>1, <2>2 DEF CallerInv
<1> QED BY <1>1, <1>2, <1>4, <1>5

\* A step of the execution.
LEMMA RunKeeps ==
    ASSUME GraphRunInv,
           \/ \E c \in Caller : RunStarts(c) \/ RunAgain(c) \/ RunStep(c)
           \/ \E i \in Id : TaskStep(i)
    PROVE  GraphRunInv'
<1>1. ASSUME NEW c \in Caller, RunStarts(c) PROVE GraphRunInv'
  BY <1>1, RunStartsKeeps
<1>2. ASSUME NEW c \in Caller, RunAgain(c) PROVE GraphRunInv'
  BY <1>2, RunAgainKeeps
<1>3. ASSUME NEW c \in Caller, QueueNext(c) PROVE GraphRunInv'
  BY <1>3, QueueNextKeeps
<1>4. ASSUME NEW c \in Caller, RunEnds(c) PROVE GraphRunInv'
  BY <1>4, RunEndsKeeps
<1>5. ASSUME NEW i \in Id, ReleaseNext(i) PROVE GraphRunInv'
  BY <1>5, ReleaseNextKeeps
<1>6. ASSUME NEW i \in Id, StartTask(i) \/ TaskReturns(i) \/ TaskThrows(i) \/ FinishTask(i)
      PROVE  GraphRunInv'
  BY <1>6, TaskKeeps
<1> QED BY <1>1, <1>2, <1>3, <1>4, <1>5, <1>6 DEF RunStep, TaskStep

\* A task that has started has no dependency left.
LEMMA StartsAfter ==
    ASSUME GraphRunInv
    PROVE  StartsAfterDependencies
<1> USE DEF GraphRunInv
<1> SUFFICES ASSUME NEW i \in Task, Started(i), NEW k \in DOMAIN deps[i]
             PROVE  Completed(deps[i][k])
  BY DEF StartsAfterDependencies
<1> DEFINE p == deps[i][k]
<1>1. i \in Id
  BY NoneDangles
<1>2. IsFiniteSet(Unreleased(i)) /\ Cardinality(Unreleased(i)) <= pending[i] /\ pending[i] = 0
  BY <1>1 DEF JobsInv, Counts, Started
<1>3. Unreleased(i) = {}
  <2>1. Cardinality(Unreleased(i)) \in Nat
    BY <1>2, FS_CardinalityType
  <2>2. Cardinality(Unreleased(i)) = 0
    BY <1>2, <2>1
  <2> QED BY <1>2, <2>2, FS_EmptySet
<1>4. p \in Id /\ \E m \in 1..Len(dependents[p]) : dependents[p][m] = i
  BY DEF GraphInv, EdgesComplete
<1> HIDE DEF p
<1>5. PICK m \in 1..Len(dependents[p]) : dependents[p][m] = i
  BY <1>4
<1>6. m \in Nat /\ released[p] \in Nat
  BY <1>4, <1>5 DEF TypeOK
<1>7. <<p, m>> \in EdgesInto(i)
  <2> DEFINE e == <<p, m>>
  <2>1. e[1] = p /\ e[2] = m /\ e \in Id \X Nat
    BY <1>4, <1>6
  <2> HIDE DEF e
  <2>2. e \in EdgesInto(i)
    BY <1>5, <2>1 DEF EdgesInto
  <2> QED BY <2>2 DEF e
<1>8. ~(m > released[p])
  BY <1>3, <1>7 DEF Unreleased
<1>9. released[p] > 0
  BY <1>5, <1>6, <1>8
<1> QED BY <1>4, <1>9 DEF JobsInv, ReleasedByDone, p

-----------------------------------------------------------------------------
(* The engine *)

\* The ranks of those that are reached into or reach into others.
LEMMA Ranks ==
    /\ Rank("imgui_system") = 5 /\ Rank("imgui_backend") = 6
    /\ Rank("physical_camera") = 8 /\ Rank("texture_uploader") = 9
    /\ Rank("text_system") = 15 /\ Rank("bindless_manager") = 22
    /\ Rank("image_heap") = 23
<1>1. DOMAIN Order = 1..26
  BY DEF Order
<1>2. \A k \in 1..26 : Order[k] = "imgui_system" <=> k = 5
  BY DEF Order
<1>3. \A k \in 1..26 : Order[k] = "imgui_backend" <=> k = 6
  BY DEF Order
<1>4. \A k \in 1..26 : Order[k] = "physical_camera" <=> k = 8
  BY DEF Order
<1>5. \A k \in 1..26 : Order[k] = "texture_uploader" <=> k = 9
  BY DEF Order
<1>6. \A k \in 1..26 : Order[k] = "text_system" <=> k = 15
  BY DEF Order
<1>7. \A k \in 1..26 : Order[k] = "bindless_manager" <=> k = 22
  BY DEF Order
<1>8. \A k \in 1..26 : Order[k] = "image_heap" <=> k = 23
  BY DEF Order
<1> QED BY <1>1, <1>2, <1>3, <1>4, <1>5, <1>6, <1>7, <1>8 DEF Rank

\* Ranks are integers.
LEMMA RankInt ==
    ASSUME NEW s \in Subsystem
    PROVE  Rank(s) \in Int
<1>1. DOMAIN Order = 1..26
  BY DEF Order
<1>2. \E k \in DOMAIN Order : Order[k] = s
  BY DEF Subsystem
<1> QED BY <1>1, <1>2 DEF Rank

\* A subsystem that reaches into another is added before it, and the other needs it.
LEMMA UsersNeeded ==
    ASSUME NEW s, NEW u, u \in Uses(s)
    PROVE  Rank(s) < Rank(u) /\ s \in Needs(u)
<1>1. \/ s \in {"physical_camera", "text_system"} /\ u \in {"bindless_manager", "image_heap"}
      \/ s \in {"texture_uploader", "bindless_manager"} /\ u = "image_heap"
      \/ s = "imgui_system" /\ u = "imgui_backend"
  BY DEF Uses
<1>2. Rank(s) < Rank(u)
  BY <1>1, Ranks
<1>3. s \in AfterUsers(u) \cup TextureOwners(u)
  <2>1. CASE u = "image_heap"
    <3>1. TextureOwners(u) = {"bindless_manager", "texture_uploader", "scene_renderer",
                              "text_system", "physical_camera"}
      BY <2>1 DEF TextureOwners
    <3> QED BY <1>1, <2>1, <3>1
  <2>2. CASE u = "bindless_manager"
    <3>1. TextureOwners(u) = {"scene_renderer", "physical_camera", "text_system"}
      BY <2>2 DEF TextureOwners
    <3> QED BY <1>1, <2>2, <3>1
  <2>3. CASE u = "imgui_backend"
    <3>1. AfterUsers(u) = {"imgui_system"}
      BY <2>3 DEF AfterUsers
    <3> QED BY <1>1, <2>3, <3>1
  <2> QED BY <1>1, <2>1, <2>2, <2>3
<1> QED BY <1>2, <1>3 DEF Needs

\* The list made of a finite set has its members as entries.
LEMMA ListOfSet ==
    ASSUME NEW S, IsFiniteSet(S)
    PROVE  /\ Cardinality(S) \in Nat /\ ListOf(S) \in [1..Cardinality(S) -> S]
           /\ \A x \in S : \E k \in DOMAIN ListOf(S) : ListOf(S)[k] = x
<1>1. Cardinality(S) \in Nat /\ ExistsBijection(1..Cardinality(S), S)
  BY FS_CardinalityType
<1>2. PICK f \in Bijection(1..Cardinality(S), S) : TRUE
  BY <1>1 DEF ExistsBijection
<1>3. f \in [1..Cardinality(S) -> S] /\ \A x \in S : \E k \in DOMAIN f : f[k] = x
  BY <1>2 DEF Bijection, Surjection
<1>4. \E g \in [1..Cardinality(S) -> S] : \A x \in S : \E k \in DOMAIN g : g[k] = x
  BY <1>3
<1> QED BY <1>1, <1>4 DEF ListOf

\* The dependencies of a subsystem are those of its needs that were added, a list
\* short enough for a count.
LEMMA DependenciesList ==
    ASSUME TypeOK, EngineTypeOK, Ordered, Len(names) = Len(deps), NEW s
    PROVE  /\ Dependencies(s) \in Seq(Nat \ {0}) /\ Len(Dependencies(s)) < Modulus
           /\ \A i \in DOMAIN names : names[i] \in Needs(s) =>
                  \E k \in DOMAIN Dependencies(s) : Dependencies(s)[k] = i
<1> DEFINE S == {TaskOf(n) : n \in {m \in Needs(s) : Added(m)}}
<1>1. /\ MaxTasks \in Nat /\ Modulus \in Nat /\ Modulus > MaxTasks
      /\ Len(names) \in Nat /\ Len(names) <= MaxTasks /\ DOMAIN names = 1..Len(names)
      /\ \A i \in DOMAIN names : names[i] \in Subsystem
  BY TeardownConstants DEF TypeOK, EngineTypeOK
<1>2. \A n : Added(n) => TaskOf(n) \in DOMAIN names /\ names[TaskOf(n)] = n
  BY DEF Added, TaskOf
<1>3. \A i, j \in DOMAIN names : names[i] = names[j] => i = j
  <2> SUFFICES ASSUME NEW i \in DOMAIN names, NEW j \in DOMAIN names, names[i] = names[j], i # j
               PROVE  FALSE
    OBVIOUS
  <2>1. Rank(names[i]) \in Int
    BY <1>1, RankInt
  <2>2. i < j \/ j < i
    BY <1>1
  <2> QED BY <2>1, <2>2 DEF Ordered
<1>4. S \in SUBSET (1..Len(names))
  BY <1>1, <1>2
<1>5. \A i \in DOMAIN names : names[i] \in Needs(s) => i \in S
  <2> SUFFICES ASSUME NEW i \in DOMAIN names, names[i] \in Needs(s) PROVE i \in S
    OBVIOUS
  <2>1. Added(names[i])
    BY DEF Added
  <2>2. TaskOf(names[i]) = i
    BY <1>2, <1>3, <2>1
  <2> QED BY <2>1, <2>2
<1> HIDE DEF S
<1>6. IsFiniteSet(1..Len(names)) /\ Cardinality(1..Len(names)) = Len(names)
  <2>1. /\ IsFiniteSet(1..Len(names))
        /\ Cardinality(1..Len(names)) = IF 1 > Len(names) THEN 0 ELSE Len(names) - 1 + 1
    <3>1. 1 \in Int /\ Len(names) \in Int
      BY <1>1
    <3> QED BY <3>1, FS_Interval
  <2> QED BY <1>1, <2>1
<1>7. IsFiniteSet(S) /\ Cardinality(S) <= Len(names)
  BY <1>4, <1>6, FS_Subset
<1>8. /\ Cardinality(S) \in Nat /\ ListOf(S) \in [1..Cardinality(S) -> S]
      /\ \A x \in S : \E k \in DOMAIN ListOf(S) : ListOf(S)[k] = x
  BY <1>7, ListOfSet
<1>9. S \subseteq Nat \ {0}
  BY <1>1, <1>4
<1> DEFINE L == ListOf(S)
<1>10. L \in [1..Cardinality(S) -> S] /\ Cardinality(S) \in Nat
  BY <1>8
<1> HIDE DEF L
<1>11. L \in Seq(Nat \ {0}) /\ Len(L) = Cardinality(S)
  <2>1. ASSUME NEW n \in Nat, NEW f \in [1..n -> Nat \ {0}]
        PROVE  f \in Seq(Nat \ {0}) /\ Len(f) = n
    OBVIOUS
  <2>2. L \in [1..Cardinality(S) -> Nat \ {0}]
    BY <1>9, <1>10
  <2> QED BY <1>10, <2>1, <2>2
<1>12. Dependencies(s) = L
  BY DEF Dependencies, S, L
<1> QED BY <1>1, <1>5, <1>7, <1>8, <1>11, <1>12 DEF L

\* The engine's part where a step leaves the names and the graph's lists alone.
LEMMA SameNames ==
    ASSUME EngineInv, UNCHANGED <<client, names>>, Len(deps') = Len(deps),
           names # <<>> => deps' = deps, NamesMatch', NoReloadLeft'
    PROVE  EngineInv'
<1>1. Ordered'
  BY DEF EngineInv, Ordered
<1>2. UsersAreDependencies'
  <2>1. CASE names = <<>>
    BY <2>1 DEF UsersAreDependencies
  <2>2. CASE names # <<>>
    BY <2>2 DEF EngineInv, UsersAreDependencies
  <2> QED BY <2>1, <2>2
<1> QED BY <1>1, <1>2 DEF EngineInv

\* A task's registration.
LEMMA RegisterKeeps ==
    ASSUME IInv, NEW s \in Followed, Register(s)
    PROVE  IInv'
<1>1. /\ phase = "device" /\ \A n \in DOMAIN names : Rank(names[n]) < Rank(s)
      /\ Add(Dependencies(s)) /\ names' = Append(names, s)
      /\ UNCHANGED <<client, phase, physics, debounce, reload>>
  BY DEF Register
<1>2. /\ GraphRunInv /\ TypeOK /\ EngineTypeOK /\ Ordered /\ NamesMatch /\ NoReloadLeft
      /\ UsersAreDependencies
  BY DEF IInv, GraphRunInv, EngineInv
<1>3. client = "engine" /\ Len(names) = Len(deps)
  BY <1>1, <1>2 DEF NamesMatch, EngineTypeOK
<1>4. s \in Subsystem
  BY ShutdownConstants
<1> DEFINE L == Dependencies(s)
<1>5. /\ L \in Seq(Nat \ {0}) /\ Len(L) < Modulus
      /\ \A i \in DOMAIN names : names[i] \in Needs(s) => \E k \in DOMAIN L : L[k] = i
  BY <1>2, <1>3, DependenciesList
<1>6. Add(L)
  BY <1>1
<1> HIDE DEF L
<1>7. GraphRunInv'
  BY <1>2, <1>5, <1>6, AddKeeps
<1>8. deps' = Append(deps, L) /\ deps \in Seq(Seq(Nat \ {0})) /\ names \in Seq(Subsystem)
  BY <1>2, <1>6 DEF Add, TypeOK, EngineTypeOK
<1> DEFINE new == Len(names) + 1
<1>9. /\ Len(names) \in Nat /\ Len(names') = new /\ Len(deps') = new
      /\ DOMAIN names = 1..Len(names) /\ DOMAIN names' = 1..new
      /\ names'[new] = s /\ deps'[new] = L /\ names' \in Seq(Subsystem)
      /\ \A i \in DOMAIN names : names'[i] = names[i] /\ deps'[i] = deps[i]
  BY <1>1, <1>3, <1>4, <1>5, <1>8
<1>10. DOMAIN names' = DOMAIN names \cup {new} /\ \A i \in DOMAIN names : i < new
  BY <1>9
<1>11. EngineTypeOK'
  BY <1>1, <1>2, <1>9 DEF EngineTypeOK
<1>12. NamesMatch' /\ NoReloadLeft'
  BY <1>1, <1>2, <1>3, <1>9 DEF NamesMatch, NoReloadLeft
<1> HIDE DEF new
<1>13. Ordered'
  <2> SUFFICES ASSUME NEW i \in DOMAIN names', NEW j \in DOMAIN names', i < j
               PROVE  Rank(names'[i]) < Rank(names'[j])
    BY DEF Ordered
  <2>1. i \in DOMAIN names
    <3>1. i # new
      BY <1>9, <1>10
    <3> QED BY <1>10, <3>1
  <2>2. CASE j = new
    BY <1>1, <1>9, <2>1, <2>2
  <2>3. CASE j \in DOMAIN names
    BY <1>2, <1>9, <2>1, <2>3 DEF Ordered
  <2> QED BY <1>10, <2>2, <2>3
<1>14. UsersAreDependencies'
  <2> SUFFICES ASSUME NEW i \in DOMAIN names', NEW j \in DOMAIN names',
                      names'[j] \in Uses(names'[i])
               PROVE  \E k \in DOMAIN deps'[j] : deps'[j][k] = i
    BY DEF UsersAreDependencies
  <2>1. /\ Rank(names'[i]) < Rank(names'[j]) /\ names'[i] \in Needs(names'[j])
    BY UsersNeeded
  <2>2. Rank(s) \in Int /\ \A n \in DOMAIN names : Rank(names[n]) \in Int
    BY <1>4, <1>8, <1>9, RankInt
  <2>3. i \in DOMAIN names
    <3>1. CASE i = new /\ j = new
      BY <1>9, <2>1, <2>2, <3>1
    <3>2. CASE i = new /\ j \in DOMAIN names
      <4>1. Rank(names[j]) < Rank(s) /\ Rank(s) < Rank(names[j])
        BY <1>1, <1>9, <2>1, <3>2
      <4> QED BY <2>2, <3>2, <4>1
    <3> QED BY <1>10, <3>1, <3>2
  <2>4. CASE j = new
    BY <1>5, <1>9, <2>1, <2>3, <2>4
  <2>5. CASE j \in DOMAIN names
    BY <1>2, <1>9, <2>3, <2>5 DEF UsersAreDependencies
  <2> QED BY <1>10, <2>4, <2>5
<1> QED BY <1>7, <1>11, <1>12, <1>13, <1>14 DEF IInv, EngineInv

\* The watcher, the reloads and the modules that stop before the device.
LEMMA WatchKeeps ==
    ASSUME IInv, FileDue \/ ReloadPath \/ ReloadStarts \/ ReloadEnds
                 \/ StopWatch \/ WatchJoined \/ PhysicsStops
    PROVE  IInv'
<1>1. UNCHANGED vars /\ UNCHANGED <<client, names, physics>>
  BY DEF FileDue, ReloadPath, ReloadStarts, ReloadEnds, StopWatch, WatchJoined, PhysicsStops
<1>2. UNCHANGED deps
  BY <1>1 DEF vars
<1>3. GraphRunInv'
  BY <1>1, StutterKeeps DEF IInv
<1>4. EngineTypeOK'
  BY <1>1, <1>2 DEF IInv, EngineTypeOK, FileDue, ReloadPath, ReloadStarts, ReloadEnds,
                    StopWatch, WatchJoined, PhysicsStops
<1>5. NamesMatch'
  BY <1>1, <1>2 DEF IInv, EngineInv, NamesMatch, FileDue, ReloadPath, ReloadStarts,
                    ReloadEnds, StopWatch, WatchJoined, PhysicsStops
<1>6. NoReloadLeft'
  <2>1. NoReloadLeft
    BY DEF IInv, EngineInv
  <2>2. CASE FileDue
    BY <2>1, <2>2 DEF NoReloadLeft, FileDue
  <2>3. CASE ReloadPath
    BY <2>1, <2>3 DEF NoReloadLeft, ReloadPath
  <2>4. CASE ReloadStarts
    BY <2>1, <2>4 DEF NoReloadLeft, ReloadStarts
  <2>5. CASE ReloadEnds
    BY <2>1, <2>5 DEF NoReloadLeft, ReloadEnds
  <2>6. CASE StopWatch
    BY <2>1, <2>6 DEF NoReloadLeft, StopWatch
  <2>7. CASE WatchJoined
    BY <2>1, <2>7 DEF NoReloadLeft, WatchJoined
  <2>8. CASE PhysicsStops
    BY <2>1, <2>8 DEF NoReloadLeft, PhysicsStops, PoolDrained
  <2> QED BY <2>2, <2>3, <2>4, <2>5, <2>6, <2>7, <2>8
<1>7. EngineInv'
  BY <1>1, <1>2, <1>5, <1>6, SameNames DEF IInv
<1> QED BY <1>3, <1>4, <1>7 DEF IInv

\* The graph's execution in the engine, and whatever another client does.
LEMMA ExecutionKeeps ==
    ASSUME PartialAdds = FALSE, IInv, EngineRuns \/ OtherClient
    PROVE  IInv'
<1>1. /\ UNCHANGED engineVars /\ EngineTypeOK /\ NamesMatch /\ NoReloadLeft /\ GraphRunInv
      /\ TypeOK
  BY DEF EngineRuns, OtherClient, IInv, EngineInv, GraphRunInv
<1>2. GraphRunInv' /\ (names # <<>> => deps' = deps)
  <2>1. CASE EngineRuns
    <3>1. RunStarts(Main) \/ RunStep(Main) \/ \E i \in Id : TaskStep(i)
      BY <2>1 DEF EngineRuns
    <3>2. deps' = deps
      BY <3>1 DEF RunStarts, RunStep, QueueNext, RunEnds, TaskStep, StartTask, TaskReturns,
                  TaskThrows, ReleaseNext, FinishTask, graphVars
    <3> QED BY <1>1, <3>1, <3>2, RunKeeps, ShutdownConstants
  <2>2. CASE OtherClient
    <3>1. Next /\ names = <<>>
      BY <1>1, <2>2 DEF OtherClient, NamesMatch
    <3>2. \A list \in DepLists : list \in Seq(Nat \ {0}) /\ Len(list) < Modulus
      BY TeardownConstants
    <3>3. ASSUME NEW list \in DepLists, Add(list) PROVE GraphRunInv'
      BY <1>1, <3>2, <3>3, AddKeeps
    <3>4. ASSUME NEW list \in DepLists, AddThrows(list) PROVE GraphRunInv'
      BY <1>1, <3>2, <3>4, AddThrowsKeeps, StutterKeeps
    <3> QED BY <1>1, <3>1, <3>3, <3>4, RunKeeps DEF Next
  <2> QED BY <2>1, <2>2
<1>3. client = "engine" \/ client = "other"
  BY <1>1 DEF EngineTypeOK
<1>4. client = "engine" => Len(deps') = Len(deps)
  <2>1. ASSUME client = "engine" PROVE deps' = deps
    <3>1. RunStarts(Main) \/ RunStep(Main) \/ \E i \in Id : TaskStep(i)
      BY <2>1 DEF EngineRuns, OtherClient
    <3> QED BY <3>1 DEF RunStarts, RunStep, QueueNext, RunEnds, TaskStep, StartTask,
                        TaskReturns, TaskThrows, ReleaseNext, FinishTask, graphVars
  <2> QED BY <2>1
<1>5. EngineTypeOK'
  BY <1>1, <1>2 DEF EngineTypeOK, engineVars
<1>6. NamesMatch' /\ NoReloadLeft'
  BY <1>1, <1>4 DEF NamesMatch, NoReloadLeft, engineVars
<1>7. Ordered' /\ UsersAreDependencies'
  <2>1. names' = names
    BY <1>1 DEF engineVars
  <2>2. CASE names = <<>>
    BY <2>1, <2>2 DEF Ordered, UsersAreDependencies
  <2>3. CASE names # <<>>
    BY <1>2, <2>1, <2>3 DEF IInv, EngineInv, Ordered, UsersAreDependencies
  <2> QED BY <2>2, <2>3
<1> QED BY <1>2, <1>5, <1>6, <1>7 DEF IInv, EngineInv

-----------------------------------------------------------------------------
(* Theorems *)

\* IInv holds in every state of every engine and of every other client whose refused
\* dependency lists are refused at their first entry.
THEOREM Invariance ==
    ASSUME PartialAdds = FALSE
    PROVE  EngineSpec => []IInv
<1>1. EngineInit => IInv
  <2> SUFFICES ASSUME EngineInit PROVE IInv
    OBVIOUS
  <2>1. GraphRunInv /\ Len(deps) = 0
    BY InitGraph DEF EngineInit, Init
  <2>2. names = <<>> /\ Len(names) = 0
    BY DEF EngineInit
  <2>3. EngineTypeOK
    <3>1. physics \in BOOLEAN
      BY Zenon DEF EngineInit
    <3>2. names \in Seq(Subsystem)
      BY <2>2
    <3> QED BY <2>2, <3>1, <3>2 DEF EngineInit, EngineTypeOK
  <2>4. EngineInv
    BY <2>1, <2>2 DEF EngineInit, EngineInv, NamesMatch, Ordered, UsersAreDependencies,
                      NoReloadLeft
  <2> QED BY <2>1, <2>3, <2>4 DEF IInv
<1>2. IInv /\ [EngineNext]_allVars => IInv'
  <2> SUFFICES ASSUME IInv, [EngineNext]_allVars PROVE IInv'
    OBVIOUS
  <2>1. CASE UNCHANGED allVars
    <3>1. GraphRunInv'
      BY <2>1, StutterKeeps DEF IInv, allVars
    <3>2. UNCHANGED <<vars, client, names, phase, physics, debounce, reload>>
      BY <2>1 DEF allVars, engineVars
    <3>3. UNCHANGED deps
      BY <3>2 DEF vars
    <3>4. EngineTypeOK' /\ NamesMatch' /\ NoReloadLeft'
      BY <3>2, <3>3 DEF IInv, EngineInv, EngineTypeOK, NamesMatch, NoReloadLeft
    <3>5. EngineInv'
      BY <3>2, <3>3, <3>4, SameNames DEF IInv
    <3> QED BY <3>1, <3>4, <3>5 DEF IInv
  <2>2. CASE FileDue \/ ReloadPath \/ ReloadStarts \/ ReloadEnds
             \/ StopWatch \/ WatchJoined \/ PhysicsStops
    BY <2>2, WatchKeeps
  <2>3. ASSUME NEW s \in Followed, Register(s) PROVE IInv'
    BY <2>3, RegisterKeeps
  <2>4. CASE EngineRuns \/ OtherClient
    BY <2>4, ExecutionKeeps
  <2> QED BY <2>1, <2>2, <2>3, <2>4 DEF EngineNext
<1> QED BY <1>1, <1>2, PTL DEF EngineSpec

\* "A task starts only after every task in its dependencies list has completed", for
\* every graph (Teardown.cppm:18).
THEOREM TasksStartAfterDependencies ==
    ASSUME PartialAdds = FALSE
    PROVE  EngineSpec => []StartsAfterDependencies
<1>1. IInv => StartsAfterDependencies
  BY StartsAfter DEF IInv
<1> QED BY <1>1, Invariance, PTL

\* The call of Run that executes the graph ends when every task is done, and throws
\* exactly if one threw (Run in Teardown.cppm).
THEOREM RunIsLast ==
    ASSUME PartialAdds = FALSE
    PROVE  EngineSpec => []RunEndsLast
<1>1. IInv => RunEndsLast
  BY DEF IInv, GraphRunInv, CallerInv
<1> QED BY <1>1, Invariance, PTL

\* No subsystem is destroyed while one that reaches into it is left, for every set of
\* subsystems (EngineBootstrap::Shutdown).
THEOREM SubsystemsOutliveUsers ==
    ASSUME PartialAdds = FALSE
    PROVE  EngineSpec => []OwnersOutlive
<1>1. IInv => OwnersOutlive
  <2> SUFFICES ASSUME IInv, NEW i \in DOMAIN names, NEW j \in DOMAIN names,
                      names[j] \in Uses(names[i]), Started(j)
               PROVE  Completed(i)
    BY DEF OwnersOutlive
  <2>1. PICK k \in DOMAIN deps[j] : deps[j][k] = i
    BY DEF IInv, EngineInv, UsersAreDependencies
  <2>2. j \in Task
    <3>1. names # <<>> => Len(names) = Len(deps)
      BY DEF IInv, EngineTypeOK
    <3>2. names \in Seq(Subsystem)
      BY DEF IInv, EngineTypeOK
    <3> QED BY <3>1, <3>2 DEF Task
  <2>3. StartsAfterDependencies
    BY StartsAfter DEF IInv
  <2> QED BY <2>1, <2>2, <2>3 DEF StartsAfterDependencies
<1> QED BY <1>1, Invariance, PTL

\* In an engine with physics no shader reload is queued or runs when the shader manager
\* is destroyed (GameEngine::Shutdown).
THEOREM ReloadsEndFirst ==
    ASSUME PartialAdds = FALSE
    PROVE  EngineSpec => []ReloadsAlive
<1>1. IInv => ReloadsAlive
  BY DEF IInv, EngineInv, NamesMatch, NoReloadLeft, ReloadsAlive
<1> QED BY <1>1, Invariance, PTL

=============================================================================
