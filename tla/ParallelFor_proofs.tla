------------------------- MODULE ParallelFor_proofs -------------------------
(***************************************************************************)
(* What ParallelFor promises, for any number of threads, loops and nested  *)
(* calls.                                                                  *)
(*                                                                         *)
(* The argument is about the frames on the threads' stacks.  A frame keeps *)
(* its place, counted from the bottom of its stack, while others are put   *)
(* on top of it; the participants of a loop are the frames that have not   *)
(* left yet, and `remaining` counts them together with the copies in the   *)
(* pool and those still to be submitted.                                   *)
(***************************************************************************)
EXTENDS ParallelFor, FiniteSetTheorems, TLAPS

\* A place on a stack and the frame there, in any state; the innermost place of t.
Places == {p \in Thread \X Nat : p[2] \in 1 .. Len(stack[p[1]])}
Fr(p) == stack[p[1]][Len(stack[p[1]]) + 1 - p[2]]
Innermost(t) == <<t, Len(stack[t])>>

Inside(p, l) == p \in Places /\ Fr(p).loop = l
Present(l) == {p \in Places : /\ Fr(p).loop = l /\ Fr(p).role \in {"caller", "copy"}
                              /\ Fr(p).at # "help"}
Submits(p, l) == Inside(p, l) /\ Fr(p).at = "submit"

\* TypeOK, and that the loops' records are functions.
Typed ==
    /\ TypeOK
    /\ firstError = [l \in Loop |-> firstError[l]]
    /\ attempts = [l \in Loop |-> attempts[l]]
    /\ thrown = [l \in Loop |-> thrown[l]]

\* A frame belongs to a call that lasts, and its position fits its role.
FrameInv ==
    \A p \in Places : LET f == Fr(p) IN
       /\ result[f.loop] = "open"
       /\ f.role = "serial" <=> Serial(f.loop)
       /\ f.role = "serial" => f.at \in {"body", "inner"}
       /\ f.at \in {"submit", "help"} => f.role = "caller"
       /\ f.at \in {"body", "inner", "record"} => f.idx \in Indices(f.loop)
       /\ f.at = "submit" => f.idx < Spawned(f.loop)
       /\ f.at \in {"leave", "help"} => next[f.loop] >= Count[f.loop]

\* The frame of the call itself is the only one that is not a copy.
CallerInv ==
    \A p, q \in Places :
       Fr(p).loop = Fr(q).loop /\ Fr(p).role # "copy" /\ Fr(q).role # "copy" => p = q

\* Before its call a loop is untouched, and only a parallel call that lasts
\* has copies in the pool.
PoolInv ==
    \A l \in Loop :
       /\ inPool[l] > 0 => result[l] = "open" /\ ~ Serial(l)
       /\ result[l] = "none" => /\ next[l] = 0 /\ thrown[l] = {} /\ firstError[l] = None
                                /\ \A i \in Indices(l) : attempts[l][i] = 0

\* An index below the counter was claimed by one participant, which has called
\* the body or is about to.
OnceInv ==
    \A l \in Loop : \A i \in Indices(l) :
       /\ attempts[l][i] <= 1
       /\ ~ Serial(l) /\ i >= next[l] => attempts[l][i] = 0
       /\ ~ Serial(l) /\ i < next[l] /\ attempts[l][i] = 0 =>
             \E p \in Places : Inside(p, l) /\ Fr(p).at = "body" /\ Fr(p).idx = i

\* Who is about to call the body is the only one, and the first, for its index.
BodyInv ==
    /\ \A p \in Places : Fr(p).at = "body" =>
          /\ attempts[Fr(p).loop][Fr(p).idx] = 0
          /\ ~ Serial(Fr(p).loop) => Fr(p).idx < next[Fr(p).loop]
    /\ \A p, q \in Places :
          (/\ Fr(p).at = "body" /\ Fr(q).at = "body"
           /\ Fr(p).loop = Fr(q).loop /\ Fr(p).idx = Fr(q).idx) => p = q

\* A serial loop goes upwards; a parallel one ends complete.
AheadInv ==
    \A p \in Places : Fr(p).role = "serial" =>
       \A i \in Indices(Fr(p).loop) : i > Fr(p).idx => attempts[Fr(p).loop][i] = 0
CompleteInv ==
    \A l \in Loop : Closed(l) /\ ~ Serial(l) => \A i \in Indices(l) : attempts[l][i] = 1

ClaimInv == OnceInv /\ BodyInv /\ AheadInv /\ CompleteInv

\* An exception that was thrown is recorded, or its participant is about to; the
\* serial loop ends with its first.
RecordInv ==
    /\ \A p \in Places : Fr(p).at = "record" => Fr(p).idx \in thrown[Fr(p).loop]
    /\ \A l \in Loop : ~ Serial(l) /\ thrown[l] # {} /\ firstError[l] = None =>
          \E p \in Places : Inside(p, l) /\ Fr(p).at = "record"
OwnErrorInv ==
    \A l \in Loop :
       /\ firstError[l] \in thrown[l] \cup {None}
       /\ Serial(l) => firstError[l] = None
       /\ Serial(l) /\ result[l] = "open" => thrown[l] = {}

ErrorInv == RecordInv /\ OwnErrorInv /\ ErrorReported

\* `remaining` is exact.
CountOf(l) ==
    /\ IsFiniteSet(Present(l))
    /\ result[l] = "open" /\ ~ Serial(l) =>
          /\ \A p \in Places : Submits(p, l) =>
                remaining[l] = inPool[l] + Cardinality(Present(l)) + Spawned(l) - Fr(p).idx
          /\ (\A p \in Places : ~ Submits(p, l)) =>
                remaining[l] = inPool[l] + Cardinality(Present(l))
CountInv == \A l \in Loop : CountOf(l)

IInv == /\ Typed /\ FrameInv /\ CallerInv /\ PoolInv
        /\ ClaimInv /\ ErrorInv /\ CountInv

-----------------------------------------------------------------------------
(* Stacks, by place *)

\* A loop that is not serial spawns at least one copy and at most one per index.
LEMMA SpawnedType ==
    ASSUME NEW l \in Loop
    PROVE  /\ Spawned(l) \in Nat /\ Count[l] \in Nat /\ Spawned(l) <= Count[l]
           /\ ~ Serial(l) /\ Count[l] # 0 => Spawned(l) > 0
<1>1. Cardinality(Worker) \in Nat /\ (Cardinality(Worker) = 0 <=> Worker = {})
  BY ParallelForConstants, FS_CardinalityType, FS_EmptySet
<1>. QED  BY <1>1, ParallelForConstants DEF Spawned, Serial

\* The innermost frame is replaced: every other keeps its place from the bottom.
LEMMA Replaced ==
    ASSUME NEW s \in Seq(Frame), s # <<>>, NEW f \in Frame,
           NEW r, r = <<f>> \o Tail(s)
    PROVE  /\ r \in Seq(Frame) /\ Len(r) = Len(s) /\ Len(s) \in Nat \ {0}
           /\ s[1] = Head(s) /\ r[1] = f
           /\ \A d \in 1 .. Len(s) : d # Len(s) => r[Len(r) + 1 - d] = s[Len(s) + 1 - d]
<1>1. Len(s) \in Nat \ {0} /\ Tail(s) \in Seq(Frame) /\ Len(Tail(s)) = Len(s) - 1
  OBVIOUS
<1>2. r \in Seq(Frame) /\ Len(r) = Len(s)
  BY <1>1
<1>3. s[1] = Head(s) /\ r[1] = f
  BY <1>1, <1>2
<1>4. ASSUME NEW d \in 1 .. Len(s), d # Len(s)
      PROVE  r[Len(r) + 1 - d] = s[Len(s) + 1 - d]
  <2>1. Len(s) + 1 - d \in 2 .. Len(s)
    <3>1. PICK n \in Nat \ {0} : n = Len(s)
      BY <1>1
    <3>2. d \in 1 .. n /\ d # n
      BY <1>4, <3>1
    <3>3. n + 1 - d \in 2 .. n
      BY <3>1, <3>2
    <3>. QED  BY <3>1, <3>3
  <2>2. r[Len(s) + 1 - d] = Tail(s)[Len(s) - d]
    BY <1>1, <2>1
  <2>3. Tail(s)[Len(s) - d] = s[Len(s) + 1 - d]
    BY <1>1, <2>1
  <2>. QED  BY <1>2, <2>2, <2>3
<1>. QED  BY <1>1, <1>2, <1>3, <1>4

\* A frame is put on top: every other keeps its place from the bottom.
LEMMA Pushed ==
    ASSUME NEW s \in Seq(Frame), NEW f \in Frame, NEW r, r = <<f>> \o s
    PROVE  /\ r \in Seq(Frame) /\ Len(r) = Len(s) + 1 /\ Len(s) \in Nat
           /\ r[1] = f
           /\ \A d \in 1 .. Len(s) : r[Len(r) + 1 - d] = s[Len(s) + 1 - d]
<1>1. Len(s) \in Nat /\ r \in Seq(Frame) /\ Len(r) = Len(s) + 1
  OBVIOUS
<1>2. r[1] = f
  BY <1>1
<1>3. ASSUME NEW d \in 1 .. Len(s)
      PROVE  r[Len(r) + 1 - d] = s[Len(s) + 1 - d]
  <2>1. Len(s) + 2 - d \in 2 .. Len(s) + 1
    BY <1>1
  <2>2. r[Len(s) + 2 - d] = s[Len(s) + 1 - d]
    BY <1>1, <2>1
  <2>. QED  BY <1>1, <2>2
<1>. QED  BY <1>1, <1>2, <1>3

\* The innermost frame goes: every other keeps its place from the bottom.
LEMMA Popped ==
    ASSUME NEW s \in Seq(Frame), s # <<>>, NEW r, r = Tail(s)
    PROVE  /\ r \in Seq(Frame) /\ Len(r) = Len(s) - 1 /\ Len(s) \in Nat \ {0}
           /\ s[1] = Head(s)
           /\ \A d \in 1 .. Len(s) - 1 : r[Len(r) + 1 - d] = s[Len(s) + 1 - d]
<1>1. Len(s) \in Nat \ {0} /\ r \in Seq(Frame) /\ Len(r) = Len(s) - 1
  OBVIOUS
<1>2. s[1] = Head(s)
  BY <1>1
<1>3. ASSUME NEW d \in 1 .. Len(s) - 1
      PROVE  r[Len(r) + 1 - d] = s[Len(s) + 1 - d]
  <2>1. Len(s) - d \in 1 .. Len(s) - 1
    BY <1>1
  <2>2. r[Len(s) - d] = s[Len(s) + 1 - d]
    BY <1>1, <2>1
  <2>. QED  BY <1>1, <2>2
<1>. QED  BY <1>1, <1>2, <1>3

\* What a step does to the frames: one changes, one is added, one goes.
StacksTyped == stack \in [Thread -> Seq(Frame)]
Untouched(P) == /\ StacksTyped'
                /\ \A q \in P : Fr(q)' = Fr(q)
Moves(p, f) == /\ p \in Places /\ Places' = Places
               /\ Fr(p)' = f /\ Untouched(Places \ {p})
Adds(p, f) == /\ p \notin Places /\ Places' = Places \cup {p}
              /\ Fr(p)' = f /\ Untouched(Places)
MovesAdds(p, f, q, g) ==
    /\ p \in Places /\ q \notin Places /\ Places' = Places \cup {q}
    /\ Fr(p)' = f /\ Fr(q)' = g /\ Untouched(Places \ {p})
Drops(p) == /\ p \in Places /\ Places' = Places \ {p}
            /\ Untouched(Places \ {p})

\* What the model calls the frame of a thread is the one at its innermost place.
LEMMA InnermostPlace ==
    ASSUME Typed, NEW t \in Thread, Running(t)
    PROVE  Innermost(t) \in Places /\ Fr(Innermost(t)) = Frm(t)
<1>1. stack[t] \in Seq(Frame) /\ stack[t] # <<>> /\ Len(stack[t]) \in Nat \ {0}
  BY DEF Typed, TypeOK, Running
<1>. QED  BY <1>1 DEF Innermost, Places, Fr, Frm

\* In terms of places, replacing the innermost frame moves one frame.
LEMMA ReplaceMoves ==
    ASSUME Typed, NEW t \in Thread, Running(t), NEW f \in Frame,
           stack' = [stack EXCEPT ![t] = <<f>> \o Tail(@)]
    PROVE  \E p : p = Innermost(t) /\ Moves(p, f)
<1>1. stack \in [Thread -> Seq(Frame)] /\ stack[t] # <<>>
  BY DEF Typed, TypeOK, Running
<1>2. PICK s : s = stack[t]
  OBVIOUS
<1>3. PICK r : r = <<f>> \o Tail(s)
  OBVIOUS
<1>4. /\ Len(r) = Len(s) /\ Len(s) \in Nat \ {0} /\ r[1] = f
      /\ \A d \in 1 .. Len(s) : d # Len(s) => r[Len(r) + 1 - d] = s[Len(s) + 1 - d]
  BY <1>1, <1>2, <1>3, Replaced
<1>5. stack'[t] = r /\ \A u \in Thread : u # t => stack'[u] = stack[u]
  BY <1>1, <1>2, <1>3
<1>6. \A p \in Thread \X Nat : p \in Places' <=> p \in Places
  BY <1>2, <1>4, <1>5 DEF Places
<1>7. Places' = Places
  BY <1>6 DEF Places
<1>8. <<t, Len(s)>> \in Places /\ Fr(<<t, Len(s)>>)' = f
  BY <1>2, <1>4, <1>5 DEF Places, Fr
<1>9. ASSUME NEW p \in Places, p # <<t, Len(s)>>
      PROVE  Fr(p)' = Fr(p)
  <2>1. p[1] \in Thread /\ p[2] \in 1 .. Len(stack[p[1]]) /\ p = <<p[1], p[2]>>
    BY DEF Places
  <2>2. CASE p[1] = t
    BY <1>2, <1>4, <1>5, <1>9, <2>1, <2>2 DEF Fr
  <2>3. CASE p[1] # t
    BY <1>5, <2>1, <2>3 DEF Fr
  <2>. QED  BY <2>2, <2>3
<1>10. StacksTyped'
  <2>1. r \in Seq(Frame)
    BY <1>1, <1>2, <1>3, Replaced
  <2>. QED  BY <1>1, <1>2, <1>3, <2>1 DEF StacksTyped
<1>. QED  BY <1>10, <1>2, <1>7, <1>8, <1>9 DEF Moves, Untouched, Innermost

\* Pushing a frame adds one place.
LEMMA PushAdds ==
    ASSUME Typed, NEW t \in Thread, NEW f \in Frame,
           stack' = [stack EXCEPT ![t] = <<f>> \o stack[t]]
    PROVE  \E q : Adds(q, f)
<1>1. stack \in [Thread -> Seq(Frame)]
  BY DEF Typed, TypeOK
<1>2. PICK s : s = stack[t]
  OBVIOUS
<1>3. PICK r : r = <<f>> \o s
  OBVIOUS
<1>4. /\ Len(r) = Len(s) + 1 /\ Len(s) \in Nat /\ r[1] = f
      /\ \A d \in 1 .. Len(s) : r[Len(r) + 1 - d] = s[Len(s) + 1 - d]
  BY <1>1, <1>2, <1>3, Pushed
<1>5. stack'[t] = r /\ \A u \in Thread : u # t => stack'[u] = stack[u]
  BY <1>1, <1>2, <1>3
<1>6. PICK q : q = <<t, Len(r)>>
  OBVIOUS
<1>7. q \in Thread \X Nat /\ q \notin Places /\ Fr(q)' = f
  BY <1>2, <1>4, <1>5, <1>6 DEF Places, Fr
<1>8. \A p \in Thread \X Nat : p \in Places' <=> p \in Places \/ p = q
  <2>. TAKE p \in Thread \X Nat
  <2>1. p = <<p[1], p[2]>> /\ p[1] \in Thread /\ p[2] \in Nat
    OBVIOUS
  <2>2. CASE p[1] = t
    BY <1>2, <1>4, <1>5, <1>6, <2>1, <2>2 DEF Places
  <2>3. CASE p[1] # t
    BY <1>5, <1>6, <2>1, <2>3 DEF Places
  <2>. QED  BY <2>2, <2>3
<1>9. Places' = Places \cup {q}
  BY <1>7, <1>8 DEF Places
<1>10. ASSUME NEW p \in Places
       PROVE  Fr(p)' = Fr(p)
  <2>1. p[1] \in Thread /\ p[2] \in 1 .. Len(stack[p[1]])
    BY DEF Places
  <2>2. CASE p[1] = t
    <3>1. p[2] \in 1 .. Len(s)
      BY <1>2, <2>1, <2>2
    <3>2. r[Len(r) + 1 - p[2]] = s[Len(s) + 1 - p[2]]
      BY <1>4, <3>1
    <3>. QED  BY <1>2, <1>5, <2>2, <3>2 DEF Fr
  <2>3. CASE p[1] # t
    BY <1>5, <2>1, <2>3 DEF Fr
  <2>. QED  BY <2>2, <2>3
<1>11. StacksTyped'
  <2>1. r \in Seq(Frame)
    BY <1>1, <1>2, <1>3, Pushed
  <2>. QED  BY <1>1, <1>2, <1>3, <2>1 DEF StacksTyped
<1>. QED  BY <1>11, <1>7, <1>9, <1>10 DEF Adds, Untouched

\* Popping a frame drops one place.
LEMMA PopDrops ==
    ASSUME Typed, NEW t \in Thread, Running(t),
           stack' = [stack EXCEPT ![t] = Tail(@)]
    PROVE  \E p : p = Innermost(t) /\ Drops(p)
<1>1. stack \in [Thread -> Seq(Frame)] /\ stack[t] # <<>>
  BY DEF Typed, TypeOK, Running
<1>2. PICK s : s = stack[t]
  OBVIOUS
<1>3. PICK r : r = Tail(s)
  OBVIOUS
<1>4. /\ Len(r) = Len(s) - 1 /\ Len(s) \in Nat \ {0}
      /\ \A d \in 1 .. Len(s) - 1 : r[Len(r) + 1 - d] = s[Len(s) + 1 - d]
  BY <1>1, <1>2, <1>3, Popped
<1>5. stack'[t] = r /\ \A u \in Thread : u # t => stack'[u] = stack[u]
  BY <1>1, <1>2, <1>3
<1>6. PICK p : p = <<t, Len(s)>>
  OBVIOUS
<1>7. p = Innermost(t) /\ p \in Places
  BY <1>2, <1>4, <1>6 DEF Places, Innermost
<1>8. \A q \in Thread \X Nat : q \in Places' <=> q \in Places /\ q # p
  <2>. TAKE q \in Thread \X Nat
  <2>1. q = <<q[1], q[2]>> /\ q[1] \in Thread /\ q[2] \in Nat
    OBVIOUS
  <2>2. CASE q[1] = t
    BY <1>2, <1>4, <1>5, <1>6, <2>1, <2>2 DEF Places
  <2>3. CASE q[1] # t
    BY <1>5, <1>6, <2>1, <2>3 DEF Places
  <2>. QED  BY <2>2, <2>3
<1>9. Places' = Places \ {p}
  BY <1>7, <1>8 DEF Places
<1>10. ASSUME NEW q \in Places, q # p
       PROVE  Fr(q)' = Fr(q)
  <2>1. /\ q[1] \in Thread /\ q[2] \in Nat /\ q[2] \in 1 .. Len(stack[q[1]])
        /\ q = <<q[1], q[2]>>
    BY DEF Places
  <2>2. CASE q[1] = t
    <3>1. q[2] \in 1 .. Len(s) - 1
      BY <1>2, <1>4, <1>6, <1>10, <2>1, <2>2
    <3>. QED  BY <1>2, <1>4, <1>5, <2>2, <3>1 DEF Fr
  <2>3. CASE q[1] # t
    BY <1>5, <2>1, <2>3 DEF Fr
  <2>. QED  BY <2>2, <2>3
<1>11. StacksTyped'
  <2>1. r \in Seq(Frame)
    BY <1>1, <1>2, <1>3, Popped
  <2>. QED  BY <1>1, <1>2, <1>3, <2>1 DEF StacksTyped
<1>. QED  BY <1>11, <1>7, <1>9, <1>10 DEF Drops, Untouched

\* A body that calls a loop moves its frame and adds that of the call.
LEMMA ReplacePushMovesAdds ==
    ASSUME Typed, NEW t \in Thread, Running(t), NEW f \in Frame, NEW g \in Frame,
           stack' = [stack EXCEPT ![t] = <<g>> \o (<<f>> \o Tail(@))]
    PROVE  \E p, q : p = Innermost(t) /\ MovesAdds(p, f, q, g)
<1>1. stack \in [Thread -> Seq(Frame)] /\ stack[t] # <<>>
  BY DEF Typed, TypeOK, Running
<1>2. PICK s : s = stack[t]
  OBVIOUS
<1>3. PICK r : r = <<f>> \o Tail(s)
  OBVIOUS
<1>4. PICK z : z = <<g>> \o r
  OBVIOUS
<1>5. /\ Len(r) = Len(s) /\ Len(s) \in Nat \ {0} /\ r[1] = f /\ r \in Seq(Frame)
      /\ \A d \in 1 .. Len(s) : d # Len(s) => r[Len(r) + 1 - d] = s[Len(s) + 1 - d]
  BY <1>1, <1>2, <1>3, Replaced
<1>6. /\ Len(z) = Len(r) + 1 /\ z[1] = g
      /\ \A d \in 1 .. Len(r) : z[Len(z) + 1 - d] = r[Len(r) + 1 - d]
  BY <1>4, <1>5, Pushed
<1>7. stack'[t] = z /\ \A u \in Thread : u # t => stack'[u] = stack[u]
  BY <1>1, <1>2, <1>3, <1>4
<1>8. PICK p, q : p = <<t, Len(s)>> /\ q = <<t, Len(z)>>
  OBVIOUS
<1>9. p = Innermost(t) /\ p \in Places /\ q \in Thread \X Nat /\ q \notin Places
  BY <1>2, <1>5, <1>6, <1>8 DEF Places, Innermost
<1>10. Fr(q)' = g
  <2>1. Len(z) + 1 - Len(z) = 1
    BY <1>5, <1>6
  <2>2. q[1] = t /\ q[2] = Len(z)
    BY <1>8
  <2>3. Fr(q)' = z[Len(z) + 1 - Len(z)]
    BY <1>7, <2>2 DEF Fr
  <2>. QED  BY <1>6, <2>1, <2>3
<1>11. Fr(p)' = f
  <2>1. z[Len(z) + 1 - Len(s)] = r[Len(r) + 1 - Len(s)]
    <3>1. Len(s) \in 1 .. Len(r)
      BY <1>5
    <3>. QED  BY <1>6, <3>1
  <2>2. r[Len(r) + 1 - Len(s)] = r[1]
    BY <1>5
  <2>. QED  BY <1>5, <1>7, <1>8, <2>1, <2>2 DEF Fr
<1>12. \A x \in Thread \X Nat : x \in Places' <=> x \in Places \/ x = q
  <2>. TAKE x \in Thread \X Nat
  <2>1. x = <<x[1], x[2]>> /\ x[1] \in Thread /\ x[2] \in Nat
    OBVIOUS
  <2>2. CASE x[1] = t
    BY <1>2, <1>5, <1>6, <1>7, <1>8, <2>1, <2>2 DEF Places
  <2>3. CASE x[1] # t
    BY <1>7, <1>8, <2>1, <2>3 DEF Places
  <2>. QED  BY <2>2, <2>3
<1>13. Places' = Places \cup {q}
  BY <1>9, <1>12 DEF Places
<1>14. ASSUME NEW x \in Places, x # p
       PROVE  Fr(x)' = Fr(x)
  <2>1. /\ x[1] \in Thread /\ x[2] \in Nat /\ x[2] \in 1 .. Len(stack[x[1]])
        /\ x = <<x[1], x[2]>>
    BY DEF Places
  <2>2. CASE x[1] = t
    <3>1. x[2] \in 1 .. Len(s) /\ x[2] # Len(s)
      BY <1>2, <1>8, <1>14, <2>1, <2>2
    <3>2. r[Len(r) + 1 - x[2]] = s[Len(s) + 1 - x[2]]
      BY <1>5, <3>1
    <3>3. z[Len(z) + 1 - x[2]] = r[Len(r) + 1 - x[2]]
      BY <1>5, <1>6, <3>1
    <3>. QED  BY <1>2, <1>7, <2>2, <3>2, <3>3 DEF Fr
  <2>3. CASE x[1] # t
    BY <1>7, <2>1, <2>3 DEF Fr
  <2>. QED  BY <2>2, <2>3
<1>15. StacksTyped'
  <2>1. z \in Seq(Frame)
    BY <1>4, <1>5, Pushed
  <2>. QED  BY <1>1, <1>2, <1>3, <1>4, <2>1 DEF StacksTyped
<1>. QED  BY <1>15, <1>9, <1>10, <1>11, <1>13, <1>14 DEF MovesAdds, Untouched

-----------------------------------------------------------------------------
(* The steps, by place *)

Same(p, at) == [Fr(p) EXCEPT !.at = at]
FrLoop(p) == Fr(p).loop

Opens(l) ==
    /\ result[l] = "none" /\ Count[l] # 0
    /\ result' = [result EXCEPT ![l] = "open"]
    /\ remaining' = [remaining EXCEPT ![l] = IF Serial(l) THEN 0 ELSE Participants(l)]
IsEmpty(l) ==
    /\ result[l] = "none" /\ Count[l] = 0
    /\ result' = [result EXCEPT ![l] = "returned"]
    /\ UNCHANGED remaining

EmptyCall(l) ==
    /\ IsEmpty(l) /\ Places' = Places /\ Untouched(Places)
    /\ UNCHANGED <<next, firstError, inPool, attempts, thrown>>
FirstCall(q, l) ==
    /\ Opens(l) /\ Adds(q, FirstFrame(l))
    /\ UNCHANGED <<next, firstError, inPool, attempts, thrown>>

SubmitAt(p) ==
    /\ Fr(p).at = "submit"
    /\ inPool' = [inPool EXCEPT ![FrLoop(p)] = @ + 1]
    /\ Moves(p, IF Fr(p).idx + 1 = Spawned(FrLoop(p)) THEN Same(p, "fetch")
                ELSE [Fr(p) EXCEPT !.idx = @ + 1])
    /\ UNCHANGED <<next, remaining, firstError, attempts, thrown, result>>

FetchAt(p) ==
    /\ Fr(p).at = "fetch"
    /\ next' = [next EXCEPT ![FrLoop(p)] = @ + 1]
    /\ Moves(p, [Fr(p) EXCEPT !.at = IF next[FrLoop(p)] >= Count[FrLoop(p)]
                                     THEN "leave" ELSE "body",
                              !.idx = next[FrLoop(p)]])
    /\ UNCHANGED <<remaining, firstError, inPool, attempts, thrown, result>>

BodyAt(p) ==
    /\ Fr(p).at = "body"
    /\ attempts' = [attempts EXCEPT ![FrLoop(p)][Fr(p).idx] = @ + 1]
    /\ UNCHANGED <<next, firstError, inPool, thrown>>
PlainBody(p) ==
    /\ BodyAt(p) /\ Moves(p, Same(p, "inner"))
    /\ UNCHANGED <<remaining, result>>
EmptyBody(p, l) == BodyAt(p) /\ Moves(p, Same(p, "inner")) /\ IsEmpty(l)
NestedBody(p, q, l) ==
    BodyAt(p) /\ MovesAdds(p, Same(p, "inner"), q, FirstFrame(l)) /\ Opens(l)

ThrownBy(p, threw) ==
    /\ Fr(p).at = "inner"
    /\ thrown' = [thrown EXCEPT ![FrLoop(p)] = IF threw THEN @ \cup {Fr(p).idx} ELSE @]
    /\ UNCHANGED <<next, remaining, firstError, inPool, attempts>>
EndAt(p, threw) ==
    /\ ThrownBy(p, threw) /\ Fr(p).role # "serial"
    /\ Moves(p, Same(p, IF threw THEN "record" ELSE "fetch"))
    /\ UNCHANGED result
SerialNext(p) ==
    /\ ThrownBy(p, FALSE) /\ Fr(p).role = "serial"
    /\ Fr(p).idx + 1 # Count[FrLoop(p)]
    /\ Moves(p, [Fr(p) EXCEPT !.at = "body", !.idx = @ + 1])
    /\ UNCHANGED result
SerialEnd(p, threw) ==
    /\ ThrownBy(p, threw) /\ Fr(p).role = "serial"
    /\ result' = [result EXCEPT ![FrLoop(p)] = IF threw THEN "threw" ELSE "returned"]
    /\ Drops(p)

RecordAt(p) ==
    /\ Fr(p).at = "record"
    /\ firstError' = [firstError EXCEPT
          ![FrLoop(p)] = IF @ = None THEN Fr(p).idx ELSE @]
    /\ Moves(p, Same(p, "fetch"))
    /\ UNCHANGED <<next, remaining, inPool, attempts, thrown, result>>

LeaveAt(p) ==
    /\ Fr(p).at = "leave"
    /\ remaining' = [remaining EXCEPT ![FrLoop(p)] = @ - 1]
    /\ IF Fr(p).role = "copy" THEN Drops(p) ELSE Moves(p, Same(p, "help"))
    /\ UNCHANGED <<next, firstError, inPool, attempts, thrown, result>>

ReturnAt(p) ==
    /\ Fr(p).at = "help" /\ remaining[FrLoop(p)] = 0
    /\ result' = [result EXCEPT ![FrLoop(p)] =
                      IF firstError[FrLoop(p)] = None THEN "returned" ELSE "threw"]
    /\ Drops(p)
    /\ UNCHANGED <<next, remaining, firstError, inPool, attempts, thrown>>

TakeAt(q, l) ==
    /\ inPool[l] > 0
    /\ inPool' = [inPool EXCEPT ![l] = @ - 1]
    /\ Adds(q, CopyOf(l))
    /\ UNCHANGED <<next, remaining, firstError, attempts, thrown, result>>

PlaceStep ==
    \/ \E l \in Loop : EmptyCall(l) \/ \E q : FirstCall(q, l) \/ TakeAt(q, l)
    \/ \E p : SubmitAt(p) \/ FetchAt(p) \/ PlainBody(p)
    \/ \E p, l : l \in Loop /\ (EmptyBody(p, l) \/ \E q : NestedBody(p, q, l))
    \/ \E p : \E threw \in BOOLEAN : EndAt(p, threw) \/ SerialEnd(p, threw)
    \/ \E p : SerialNext(p) \/ RecordAt(p) \/ LeaveAt(p) \/ ReturnAt(p)

\* The frames that actions build are frames.
LEMMA FrameFields ==
    ASSUME NEW f \in Frame, NEW a \in At, NEW n \in Nat, NEW l \in Loop
    PROVE  /\ [f EXCEPT !.at = a] \in Frame /\ [f EXCEPT !.idx = n] \in Frame
           /\ [f EXCEPT !.at = a, !.idx = n] \in Frame
           /\ CopyOf(l) \in Frame /\ FirstFrame(l) \in Frame
           /\ f.loop \in Loop /\ f.role \in Role /\ f.at \in At /\ f.idx \in Nat
BY DEF Frame, At, Role, CopyOf, FirstFrame

\* The types of the fields of the innermost frame.
LEMMA FrmType ==
    ASSUME Typed, NEW t \in Thread, Running(t)
    PROVE  /\ Frm(t) \in Frame /\ stack \in [Thread -> Seq(Frame)]
           /\ Frm(t).loop \in Loop /\ Frm(t).at \in At /\ Frm(t).idx \in Nat
<1>1. stack \in [Thread -> Seq(Frame)] /\ stack[t] # <<>>
  BY DEF Typed, TypeOK, Running
<1>2. Frm(t) \in Frame
  BY <1>1 DEF Frm
<1>. QED  BY <1>1, <1>2 DEF Frame

\* The types of the fields of a frame named by its place.
LEMMA PlaceType ==
    ASSUME Typed, NEW p \in Places
    PROVE  /\ Fr(p) \in Frame /\ Fr(p).loop \in Loop /\ Fr(p).role \in Role
           /\ Fr(p).at \in At /\ Fr(p).idx \in Nat
<1>1. stack \in [Thread -> Seq(Frame)]
  BY DEF Typed, TypeOK
<1>2. p[1] \in Thread /\ p[2] \in 1 .. Len(stack[p[1]])
  BY DEF Places
<1>3. PICK s : s = stack[p[1]]
  OBVIOUS
<1>4. s \in Seq(Frame) /\ p[2] \in 1 .. Len(s)
  BY <1>1, <1>2, <1>3
<1>5. PICK n \in Nat : n = Len(s)
  BY <1>4
<1>6. n + 1 - p[2] \in 1 .. n
  BY <1>4, <1>5
<1>7. s[n + 1 - p[2]] \in Frame
  BY <1>4, <1>5, <1>6
<1>8. Fr(p) \in Frame
  BY <1>3, <1>5, <1>7 DEF Fr
<1>. QED  BY <1>8 DEF Frame

\* A client calls: the loop is empty, or a first frame appears.
LEMMA CallByPlace ==
    ASSUME Typed, NEW t \in Client, NEW l \in Loop, Call(t, l)
    PROVE  EmptyCall(l) \/ \E q : FirstCall(q, l)
<1>1. t \in Thread /\ stack \in [Thread -> Seq(Frame)] /\ stack[t] = <<>>
  BY DEF Thread, Typed, TypeOK, Call
<1>2. CASE Count[l] = 0
  <2>1. stack' = stack
    BY <1>1, <1>2 DEF Call, Enter
  <2>2. Places' = Places /\ Untouched(Places)
    BY <1>1, <2>1 DEF Places, Untouched, Fr, StacksTyped
  <2>. QED  BY <1>2, <2>2 DEF Call, Enter, EmptyCall, IsEmpty
<1>3. CASE Count[l] # 0
  <2>1. stack' = [stack EXCEPT ![t] = <<FirstFrame(l)>> \o stack[t]]
    BY <1>1, <1>3 DEF Call, Enter
  <2>2. FirstFrame(l) \in Frame
    BY DEF FirstFrame, Frame, Role, At
  <2>3. PICK q : Adds(q, FirstFrame(l))
    BY <1>1, <2>1, <2>2, PushAdds
  <2>. QED  BY <1>3, <2>3 DEF Call, Enter, FirstCall, Opens
<1>. QED  BY <1>2, <1>3

\* The caller submits a copy: its frame moves.
LEMMA SubmitByPlace ==
    ASSUME Typed, NEW t \in Thread, SubmitCopy(t)
    PROVE  \E p : SubmitAt(p)
<1>1. Running(t) /\ Frm(t).at = "submit"
  BY DEF SubmitCopy, IsAt
<1>2. PICK f : f = IF Frm(t).idx + 1 = Spawned(Frm(t).loop) THEN [Frm(t) EXCEPT !.at = "fetch"]
                   ELSE [Frm(t) EXCEPT !.idx = @ + 1]
  OBVIOUS
<1>3. f \in Frame
  <2>1. /\ [Frm(t) EXCEPT !.at = "fetch"] \in Frame
        /\ [Frm(t) EXCEPT !.idx = Frm(t).idx + 1] \in Frame
    BY <1>1, FrmType DEF Frame, At
  <2>. QED  BY <1>2, <2>1
<1>4. stack' = [stack EXCEPT ![t] = <<f>> \o Tail(@)]
  BY <1>1, <1>2, FrmType DEF SubmitCopy, Moved
<1>5. PICK p : p = Innermost(t) /\ Moves(p, f)
  BY <1>1, <1>3, <1>4, ReplaceMoves
<1>6. Fr(p) = Frm(t)
  BY <1>1, <1>5, InnermostPlace
<1>. QED  BY <1>1, <1>2, <1>5, <1>6 DEF SubmitCopy, SubmitAt, Same, FrLoop

\* A participant claims an index: its frame moves.
LEMMA FetchByPlace ==
    ASSUME Typed, NEW t \in Thread, Fetch(t)
    PROVE  \E p : FetchAt(p)
<1>1. Running(t) /\ Frm(t).at = "fetch"
  BY DEF Fetch, IsAt
<1>2. PICK f : f = [Frm(t) EXCEPT !.at = IF next[Frm(t).loop] >= Count[Frm(t).loop]
                                          THEN "leave" ELSE "body",
                                  !.idx = next[Frm(t).loop]]
  OBVIOUS
<1>3. next[Frm(t).loop] \in Nat
  BY <1>1, FrmType DEF Typed, TypeOK
<1>4. f \in Frame
  BY <1>1, <1>2, <1>3, FrmType DEF Frame, At
<1>5. stack' = [stack EXCEPT ![t] = <<f>> \o Tail(@)]
  BY <1>1, <1>2, FrmType DEF Fetch
<1>6. PICK p : p = Innermost(t) /\ Moves(p, f)
  BY <1>1, <1>4, <1>5, ReplaceMoves
<1>7. Fr(p) = Frm(t)
  BY <1>1, <1>6, InnermostPlace
<1>. QED  BY <1>1, <1>2, <1>6, <1>7 DEF Fetch, Advanced, FetchAt, FrLoop

\* A body is called: it is plain, or it calls an empty loop or another one.
LEMMA BodyByPlace ==
    ASSUME Typed, FrameInv, NEW t \in Thread, StartBody(t)
    PROVE  \E p : \/ PlainBody(p)
                  \/ \E l \in Loop : EmptyBody(p, l) \/ \E q : NestedBody(p, q, l)
<1>1. Running(t) /\ Frm(t).at = "body"
  BY DEF StartBody, IsAt
<1>2. PICK f : f = [Frm(t) EXCEPT !.at = "inner"]
  OBVIOUS
<1>3. f \in Frame
  BY <1>1, <1>2, FrmType DEF Frame, At
<1>4. PICK p : p = Innermost(t)
  OBVIOUS
<1>5. p \in Places /\ Fr(p) = Frm(t)
  BY <1>1, <1>4, InnermostPlace
<1>6. BodyAt(p)
  BY <1>1, <1>5 DEF StartBody, BodyAt, FrLoop
<1>7. f = Same(p, "inner")
  BY <1>2, <1>5 DEF Same
<1>8. Moved(t, "inner") = <<f>> \o Tail(stack[t])
  BY <1>2 DEF Moved
<1>9. ASSUME stack' = [stack EXCEPT ![t] = Moved(t, "inner")]
      PROVE  Moves(p, f)
  <2>1. stack' = [stack EXCEPT ![t] = <<f>> \o Tail(@)]
    BY <1>1, <1>8, <1>9, FrmType
  <2>. QED  BY <1>1, <1>3, <1>4, <2>1, ReplaceMoves
<1>10. CASE Callee(t) = None
  BY <1>6, <1>7, <1>9, <1>10 DEF StartBody, Goto, PlainBody
<1>11. CASE Callee(t) # None
  <2>1. Callee(t) \in Loop
    <3>1. Frm(t).idx \in Indices(Frm(t).loop) /\ Frm(t).loop \in Loop
      BY <1>1, <1>5, FrmType DEF FrameInv
    <3>. QED  BY <1>11, <3>1, ParallelForConstants DEF Callee
  <2>2. PICK l \in Loop : l = Callee(t)
    BY <2>1
  <2>3. Enter(t, l, Moved(t, "inner"))
    BY <1>11, <2>2 DEF StartBody
  <2>4. CASE Count[l] = 0
    BY <1>6, <1>7, <1>9, <2>3, <2>4 DEF Enter, EmptyBody, IsEmpty
  <2>5. CASE Count[l] # 0
    <3>1. Opens(l) /\ stack' = [stack EXCEPT ![t] = <<FirstFrame(l)>> \o Moved(t, "inner")]
      BY <2>3, <2>5 DEF Enter, Opens
    <3>2. stack' = [stack EXCEPT ![t] = <<FirstFrame(l)>> \o (<<f>> \o Tail(@))]
      BY <1>1, <1>8, <3>1, FrmType
    <3>3. FirstFrame(l) \in Frame
      BY DEF FirstFrame, Frame, Role, At
    <3>4. PICK q : MovesAdds(p, f, q, FirstFrame(l))
      BY <1>1, <1>3, <1>4, <3>2, <3>3, ReplacePushMovesAdds
    <3>. QED  BY <1>6, <1>7, <3>1, <3>4 DEF NestedBody
  <2>. QED  BY <2>4, <2>5
<1>. QED  BY <1>10, <1>11

\* A body ends, in a loop on the pool or on the serial path.
LEMMA EndByPlace ==
    ASSUME Typed, NEW t \in Thread, EndBody(t)
    PROVE  \E p : \/ \E threw \in BOOLEAN : EndAt(p, threw) \/ SerialEnd(p, threw)
                  \/ SerialNext(p)
<1>1. Running(t) /\ Frm(t).at = "inner"
  BY DEF EndBody, IsAt
<1>2. PICK threw \in Throws(t) :
          /\ thrown' = [thrown EXCEPT ![Frm(t).loop] =
                            IF threw THEN @ \cup {Frm(t).idx} ELSE @]
          /\ IF Frm(t).role # "serial"
             THEN /\ Goto(t, IF threw THEN "record" ELSE "fetch")
                  /\ UNCHANGED result
             ELSE IF threw THEN Leaves(t, "threw")
             ELSE IF Frm(t).idx + 1 = Count[Frm(t).loop]
                  THEN Leaves(t, "returned")
             ELSE /\ stack' = [stack EXCEPT ![t] =
                        <<[Frm(t) EXCEPT !.at = "body", !.idx = @ + 1]>> \o Tail(@)]
                  /\ UNCHANGED result
  BY DEF EndBody
<1>3. threw \in BOOLEAN
  BY DEF Throws
<1>4. PICK p : p = Innermost(t)
  OBVIOUS
<1>5. p \in Places /\ Fr(p) = Frm(t)
  BY <1>1, <1>4, InnermostPlace
<1>6. ThrownBy(p, threw)
  BY <1>1, <1>2, <1>5 DEF EndBody, ThrownBy, FrLoop
<1>7. CASE Frm(t).role # "serial"
  <2>1. PICK f : f = [Frm(t) EXCEPT !.at = IF threw THEN "record" ELSE "fetch"]
    OBVIOUS
  <2>2. f \in Frame
    BY <1>1, <2>1, FrmType DEF Frame, At
  <2>3. stack' = [stack EXCEPT ![t] = <<f>> \o Tail(@)]
    BY <1>1, <1>2, <1>7, <2>1, FrmType DEF Goto, Moved
  <2>4. Moves(p, f)
    BY <1>1, <1>4, <2>2, <2>3, ReplaceMoves
  <2>. QED  BY <1>2, <1>3, <1>5, <1>6, <1>7, <2>1, <2>4 DEF EndAt, Same
<1>8. ASSUME stack' = [stack EXCEPT ![t] = Tail(@)]
      PROVE  Drops(p)
  BY <1>1, <1>4, <1>8, PopDrops
<1>9. CASE Frm(t).role = "serial" /\ threw
  BY <1>2, <1>3, <1>5, <1>6, <1>8, <1>9 DEF Leaves, SerialEnd, FrLoop
<1>10. CASE Frm(t).role = "serial" /\ ~ threw /\ Frm(t).idx + 1 = Count[Frm(t).loop]
  BY <1>2, <1>3, <1>5, <1>6, <1>8, <1>10 DEF Leaves, SerialEnd, FrLoop
<1>11. CASE Frm(t).role = "serial" /\ ~ threw /\ Frm(t).idx + 1 # Count[Frm(t).loop]
  <2>1. PICK f : f = [Frm(t) EXCEPT !.at = "body", !.idx = @ + 1]
    OBVIOUS
  <2>2. f \in Frame
    <3>1. Frm(t).idx + 1 \in Nat
      BY <1>1, FrmType
    <3>. QED  BY <1>1, <2>1, <3>1, FrmType DEF Frame, At
  <2>3. stack' = [stack EXCEPT ![t] = <<f>> \o Tail(@)] /\ UNCHANGED result
    BY <1>2, <1>11, <2>1
  <2>4. Moves(p, f)
    BY <1>1, <1>4, <2>2, <2>3, ReplaceMoves
  <2>5. ThrownBy(p, FALSE)
    BY <1>3, <1>6, <1>11
  <2>. QED  BY <1>5, <1>11, <2>1, <2>3, <2>4, <2>5 DEF SerialNext, FrLoop
<1>. QED  BY <1>7, <1>9, <1>10, <1>11

\* An error is recorded: the frame of the participant moves.
LEMMA RecordByPlace ==
    ASSUME Typed, NEW t \in Thread, RecordError(t)
    PROVE  \E p : RecordAt(p)
<1>1. Running(t) /\ Frm(t).at = "record"
  BY DEF RecordError, IsAt
<1>2. PICK f : f = [Frm(t) EXCEPT !.at = "fetch"]
  OBVIOUS
<1>3. f \in Frame
  BY <1>1, <1>2, FrmType DEF Frame, At
<1>4. stack' = [stack EXCEPT ![t] = <<f>> \o Tail(@)]
  BY <1>1, <1>2, FrmType DEF RecordError, Goto, Moved
<1>5. PICK p : p = Innermost(t) /\ Moves(p, f)
  BY <1>1, <1>3, <1>4, ReplaceMoves
<1>6. Fr(p) = Frm(t)
  BY <1>1, <1>5, InnermostPlace
<1>7. firstError' = [firstError EXCEPT
          ![Frm(t).loop] = IF @ = None THEN Frm(t).idx ELSE @]
  BY DEF RecordError, Kept
<1>. QED  BY <1>1, <1>2, <1>5, <1>6, <1>7 DEF RecordError, RecordAt, Same, FrLoop

\* A participant leaves: a copy drops, the caller goes on to help.
LEMMA LeaveByPlace ==
    ASSUME Typed, NEW t \in Thread, Leave(t)
    PROVE  \E p : LeaveAt(p)
<1>1. Running(t) /\ Frm(t).at = "leave"
  BY DEF Leave, IsAt
<1>2. PICK p : p = Innermost(t)
  OBVIOUS
<1>3. p \in Places /\ Fr(p) = Frm(t)
  BY <1>1, <1>2, InnermostPlace
<1>4. CASE Frm(t).role = "copy"
  <2>1. Drops(p)
    BY <1>1, <1>2, <1>4, PopDrops DEF Leave
  <2>. QED  BY <1>1, <1>3, <1>4, <2>1 DEF Leave, LeaveAt, FrLoop
<1>5. CASE Frm(t).role # "copy"
  <2>1. PICK f : f = [Frm(t) EXCEPT !.at = "help"]
    OBVIOUS
  <2>2. f \in Frame
    BY <1>1, <2>1, FrmType DEF Frame, At
  <2>3. stack' = [stack EXCEPT ![t] = <<f>> \o Tail(@)]
    BY <1>1, <1>5, <2>1, FrmType DEF Leave, Goto, Moved
  <2>4. Moves(p, f)
    BY <1>1, <1>2, <2>2, <2>3, ReplaceMoves
  <2>. QED  BY <1>1, <1>3, <1>5, <2>1, <2>4 DEF Leave, LeaveAt, Same, FrLoop
<1>. QED  BY <1>4, <1>5

\* The caller returns: its frame drops.
LEMMA ReturnByPlace ==
    ASSUME Typed, NEW t \in Thread, Return(t)
    PROVE  \E p : ReturnAt(p)
<1>1. Running(t) /\ Frm(t).at = "help" /\ remaining[Frm(t).loop] = 0
  BY DEF Return, Finished, IsAt
<1>2. PICK p : p = Innermost(t) /\ Drops(p)
  BY <1>1, PopDrops DEF Return, Leaves
<1>3. Fr(p) = Frm(t)
  BY <1>1, <1>2, InnermostPlace
<1>. QED  BY <1>1, <1>2, <1>3 DEF Return, Leaves, ReturnAt, FrLoop

\* A thread takes a copy off the pool: a frame appears.
LEMMA TakeByPlace ==
    ASSUME Typed, NEW t \in Thread, TakeCopy(t)
    PROVE  \E q : \E l \in Loop : TakeAt(q, l)
<1>1. PICK l \in Loop : /\ inPool[l] > 0
                        /\ inPool' = [inPool EXCEPT ![l] = @ - 1]
                        /\ stack' = [stack EXCEPT ![t] = <<CopyOf(l)>> \o @]
  BY DEF TakeCopy
<1>2. stack \in [Thread -> Seq(Frame)]
  BY DEF Typed, TypeOK
<1>3. stack' = [stack EXCEPT ![t] = <<CopyOf(l)>> \o stack[t]]
  BY <1>1, <1>2
<1>4. CopyOf(l) \in Frame
  BY DEF CopyOf, Frame, Role, At
<1>5. PICK q : Adds(q, CopyOf(l))
  BY <1>3, <1>4, PushAdds
<1>. QED  BY <1>1, <1>5 DEF TakeCopy, TakeAt

\* Every action of the model is one of these steps of places.
LEMMA StepsByPlace ==
    ASSUME Typed, FrameInv, Next
    PROVE  PlaceStep
<1>1. ASSUME NEW t \in Client, NEW l \in Loop, Call(t, l)
      PROVE  PlaceStep
  BY <1>1, CallByPlace DEF PlaceStep
<1>2. ASSUME NEW t \in Thread, SubmitCopy(t)
      PROVE  PlaceStep
  BY <1>2, SubmitByPlace DEF PlaceStep
<1>3. ASSUME NEW t \in Thread, Fetch(t)
      PROVE  PlaceStep
  BY <1>3, FetchByPlace DEF PlaceStep
<1>4. ASSUME NEW t \in Thread, StartBody(t)
      PROVE  PlaceStep
  BY <1>4, BodyByPlace DEF PlaceStep
<1>5. ASSUME NEW t \in Thread, EndBody(t)
      PROVE  PlaceStep
  BY <1>5, EndByPlace DEF PlaceStep
<1>6. ASSUME NEW t \in Thread, RecordError(t)
      PROVE  PlaceStep
  BY <1>6, RecordByPlace DEF PlaceStep
<1>7. ASSUME NEW t \in Thread, Leave(t)
      PROVE  PlaceStep
  BY <1>7, LeaveByPlace DEF PlaceStep
<1>8. ASSUME NEW t \in Thread, Return(t)
      PROVE  PlaceStep
  BY <1>8, ReturnByPlace DEF PlaceStep
<1>9. ASSUME NEW t \in Thread, TakeCopy(t)
      PROVE  PlaceStep
  BY <1>9, TakeByPlace DEF PlaceStep
<1>. QED  BY <1>1, <1>2, <1>3, <1>4, <1>5, <1>6, <1>7, <1>8, <1>9
          DEF Next, Step, Help, WorkerTake

-----------------------------------------------------------------------------
(* Each part of the invariant is preserved *)

\* When the caller reads 0, no copy waits and no participant is left:
\* what IInv counts leaves room for neither.
LEMMA NooneLeft ==
    ASSUME Typed, FrameInv, CallerInv, CountInv, NEW p \in Places,
           Fr(p).at = "help", remaining[Fr(p).loop] = 0
    PROVE  /\ inPool[Fr(p).loop] = 0 /\ ~ Serial(Fr(p).loop)
           /\ next[Fr(p).loop] >= Count[Fr(p).loop]
           /\ \A x \in Places : x # p => Fr(x).loop # Fr(p).loop
<1>1. PICK l \in Loop : l = Fr(p).loop
  BY PlaceType
<1>2. Fr(p).role = "caller" /\ result[l] = "open" /\ ~ Serial(l)
  BY <1>1 DEF FrameInv
<1>3. \A x \in Places : ~ Submits(x, l)
  BY <1>1, <1>2 DEF CallerInv, Submits, Inside, FrameInv
<1>4. PICK n : n = Cardinality(Present(l))
  OBVIOUS
<1>5. n \in Nat /\ IsFiniteSet(Present(l)) /\ (n = 0 <=> Present(l) = {})
  BY <1>4, FS_CardinalityType, FS_EmptySet DEF CountInv, CountOf
<1>6. remaining[l] = inPool[l] + n
  BY <1>2, <1>3, <1>4 DEF CountInv, CountOf
<1>7. inPool[l] = 0 /\ n = 0
  BY <1>1, <1>5, <1>6 DEF Typed, TypeOK
<1>8. ASSUME NEW x \in Places, x # p, Fr(x).loop = l
      PROVE  FALSE
  <2>1. Fr(x).role = "copy"
    BY <1>1, <1>2, <1>8 DEF CallerInv
  <2>2. Fr(x).at # "help"
    BY <2>1 DEF FrameInv
  <2>3. x \in Present(l)
    BY <1>8, <2>1, <2>2 DEF Present
  <2>. QED  BY <1>5, <1>7, <2>3
<1>9. next[l] >= Count[l]
  BY <1>1 DEF FrameInv
<1>. QED  BY <1>1, <1>2, <1>7, <1>8, <1>9

\* No step lets a frame refer to a call that has returned.
LEMMA FrameStep ==
    ASSUME Typed, FrameInv, CallerInv, PoolInv, CountInv, PlaceStep
    PROVE  FrameInv'
<1>1. \A x \in Places : /\ Fr(x) \in Frame /\ Fr(x).loop \in Loop /\ Fr(x).role \in Role
                           /\ Fr(x).at \in At /\ Fr(x).idx \in Nat
  BY PlaceType
<1>2. \A k \in Loop : Spawned(k) \in Nat /\ Count[k] \in Nat /\ next[k] \in Nat
  BY SpawnedType DEF Typed, TypeOK
<1>3. \A k \in Loop : /\ ~ Serial(k) /\ Count[k] # 0 => Spawned(k) > 0
                     /\ Spawned(k) <= Count[k]
  BY SpawnedType
<1>4. result \in [Loop -> {"none", "open", "returned", "threw"}] /\ next \in [Loop -> Nat]
  BY DEF Typed, TypeOK
<1>5. ASSUME NEW l \in Loop, EmptyCall(l)
      PROVE  FrameInv'
  BY <1>1, <1>2, <1>3, <1>4, <1>5 DEF FrameInv, Frame, Role, At, Indices, EmptyCall,
        IsEmpty, Untouched
<1>6. ASSUME NEW l \in Loop, NEW q, FirstCall(q, l)
      PROVE  FrameInv'
  BY <1>1, <1>2, <1>3, <1>4, <1>6 DEF FrameInv, Frame, Role, At, Indices, FirstCall,
        Opens, Adds, Untouched, FirstFrame
<1>7. ASSUME NEW l \in Loop, NEW q, TakeAt(q, l)
      PROVE  FrameInv'
  BY <1>1, <1>2, <1>3, <1>4, <1>7 DEF FrameInv, PoolInv, Role, At, Indices, TakeAt, Adds,
        Untouched, CopyOf
<1>8. ASSUME NEW p, SubmitAt(p)
      PROVE  FrameInv'
  BY <1>1, <1>2, <1>3, <1>4, <1>8 DEF FrameInv, Frame, Role, At, Indices, SubmitAt,
        Moves, Untouched, Same, FrLoop
<1>9. ASSUME NEW p, FetchAt(p)
      PROVE  FrameInv'
  <2>1. PICK k \in Loop : k = Fr(p).loop
    BY <1>1, <1>9 DEF FetchAt, Moves
  <2>2. /\ p \in Places /\ Places' = Places /\ Fr(p).role # "serial" /\ Fr(p).at = "fetch"
        /\ \A x \in Places : x # p => Fr(x)' = Fr(x)
        /\ UNCHANGED result /\ next' = [next EXCEPT ![k] = @ + 1]
    BY <1>9, <2>1 DEF FetchAt, Moves, Untouched, FrameInv, FrLoop
  <2>3. \A m \in Loop : next'[m] >= next[m] /\ next'[m] \in Nat
    BY <1>2, <1>4, <2>1, <2>2
  <2>4. /\ Fr(p)'.loop = k /\ Fr(p)'.role = Fr(p).role /\ Fr(p)'.idx = next[k]
        /\ Fr(p)'.at = IF next[k] >= Count[k] THEN "leave" ELSE "body"
    BY <1>1, <1>9, <2>1 DEF FetchAt, Moves, FrLoop, Frame
  <2>5. ASSUME NEW x \in Places, x # p, Fr(x).at \in {"leave", "help"}
        PROVE  next'[Fr(x).loop] >= Count[Fr(x).loop]
    <3>1. next[Fr(x).loop] >= Count[Fr(x).loop] /\ Fr(x).loop \in Loop
      BY <1>1, <2>5 DEF FrameInv
    <3>. QED  BY <1>2, <2>3, <3>1
  <2>6. Fr(p)'.at = "leave" => next'[k] >= Count[k]
    BY <1>2, <2>1, <2>3, <2>4
  <2>7. Fr(p)'.at = "body" => Fr(p)'.idx \in Indices(k)
    BY <1>2, <2>1, <2>4 DEF Indices
  <2>8. result[k] = "open" /\ ~ Serial(k)
    BY <1>1, <2>1, <2>2 DEF FrameInv, Role
  <2>. QED  BY <2>1, <2>2, <2>4, <2>5, <2>6, <2>7, <2>8 DEF FrameInv
<1>10. ASSUME NEW p, PlainBody(p)
      PROVE  FrameInv'
  BY <1>1, <1>2, <1>3, <1>4, <1>10 DEF FrameInv, Frame, Role, At, Indices, PlainBody,
        BodyAt, Moves, Untouched, Same, FrLoop
<1>11. ASSUME NEW p, NEW l \in Loop, EmptyBody(p, l)
      PROVE  FrameInv'
  BY <1>1, <1>2, <1>3, <1>4, <1>11 DEF FrameInv, Frame, Role, At, Indices, EmptyBody,
        IsEmpty, BodyAt, Moves, Untouched, Same, FrLoop
<1>12. ASSUME NEW p, NEW q, NEW l \in Loop, NestedBody(p, q, l)
      PROVE  FrameInv'
  BY <1>1, <1>2, <1>3, <1>4, <1>12 DEF FrameInv, Frame, Role, At, Indices, NestedBody,
        Opens, BodyAt, MovesAdds, Untouched, Same, FrLoop, FirstFrame
<1>13. ASSUME NEW p, NEW threw \in BOOLEAN, EndAt(p, threw)
      PROVE  FrameInv'
  BY <1>1, <1>2, <1>3, <1>4, <1>13 DEF FrameInv, Frame, Role, At, Indices, EndAt,
        ThrownBy, Moves, Untouched, Same, FrLoop
<1>14. ASSUME NEW p, NEW threw \in BOOLEAN, SerialEnd(p, threw)
      PROVE  FrameInv'
  <2>1. PICK k \in Loop : k = Fr(p).loop
    BY <1>1, <1>14 DEF SerialEnd, Drops
  <2>2. /\ p \in Places /\ Places' = Places \ {p} /\ Fr(p).role = "serial" /\ Serial(k)
        /\ \A x \in Places : x # p => Fr(x)' = Fr(x)
    BY <1>14, <2>1 DEF SerialEnd, Drops, Untouched, FrameInv
  <2>3. \A x \in Places : x # p => Fr(x).loop # k
    BY <2>1, <2>2 DEF FrameInv, CallerInv
  <2>4. UNCHANGED next /\ \A m \in Loop : m # k => result'[m] = result[m]
    BY <1>4, <1>14, <2>1 DEF SerialEnd, ThrownBy, FrLoop
  <2>. QED  BY <1>1, <2>2, <2>3, <2>4 DEF FrameInv
<1>15. ASSUME NEW p, SerialNext(p)
      PROVE  FrameInv'
  <2>1. Fr(p).idx + 1 \in Indices(Fr(p).loop)
    BY <1>1, <1>2, <1>15 DEF SerialNext, ThrownBy, Moves, FrameInv, Indices, FrLoop
  <2>2. /\ p \in Places /\ Places' = Places /\ UNCHANGED <<next, result>>
        /\ \A x \in Places : x # p => Fr(x)' = Fr(x)
        /\ Fr(p).role = "serial"
    BY <1>15 DEF SerialNext, ThrownBy, Moves, Untouched
  <2>3. /\ Fr(p)'.loop = Fr(p).loop /\ Fr(p)'.role = Fr(p).role
        /\ Fr(p)'.at = "body" /\ Fr(p)'.idx = Fr(p).idx + 1
    BY <1>1, <1>15, <2>2 DEF SerialNext, Moves, Frame
  <2>4. \A x \in Places' : Fr(x)'.loop = Fr(x).loop /\ Fr(x)'.role = Fr(x).role
    BY <2>2, <2>3
  <2>. QED  BY <2>1, <2>2, <2>3, <2>4 DEF FrameInv
<1>16. ASSUME NEW p, RecordAt(p)
      PROVE  FrameInv'
  BY <1>1, <1>2, <1>3, <1>4, <1>16 DEF FrameInv, Frame, Role, At, Indices, RecordAt,
        Moves, Untouched, Same, FrLoop
<1>17. ASSUME NEW p, LeaveAt(p)
      PROVE  FrameInv'
  BY <1>1, <1>2, <1>3, <1>4, <1>17 DEF FrameInv, Frame, Role, At, Indices, LeaveAt,
        Moves, Drops, Untouched, Same, FrLoop
<1>18. ASSUME NEW p, ReturnAt(p)
      PROVE  FrameInv'
  <2>1. PICK k \in Loop : k = Fr(p).loop
    BY <1>1, <1>18 DEF ReturnAt, Drops
  <2>2. /\ p \in Places /\ Places' = Places \ {p}
        /\ \A x \in Places : x # p => Fr(x)' = Fr(x)
    BY <1>18 DEF ReturnAt, Drops, Untouched
  <2>3. \A x \in Places : x # p => Fr(x).loop # k
    BY <1>18, <2>1, <2>2, NooneLeft DEF ReturnAt, FrLoop
  <2>4. UNCHANGED next /\ \A m \in Loop : m # k => result'[m] = result[m]
    BY <1>4, <1>18, <2>1 DEF ReturnAt, FrLoop
  <2>. QED  BY <1>1, <2>2, <2>3, <2>4 DEF FrameInv
<1>. QED  BY <1>5, <1>6, <1>7, <1>8, <1>9, <1>10, <1>11, <1>12, <1>13, <1>14, <1>15,
        <1>16, <1>17, <1>18 DEF PlaceStep

\* A call has one caller, and a serial call nobody else.
LEMMA CallerStep ==
    ASSUME Typed, FrameInv, CallerInv, PlaceStep
    PROVE  CallerInv'
<1>1. \A x \in Places : /\ Fr(x) \in Frame /\ Fr(x).loop \in Loop /\ Fr(x).role \in Role
                           /\ Fr(x).at \in At /\ Fr(x).idx \in Nat
  BY PlaceType
<1>2. \A x \in Places : result[Fr(x).loop] = "open"
  BY DEF FrameInv
<1>3. ASSUME NEW l \in Loop, EmptyCall(l)
      PROVE  CallerInv'
  BY <1>1, <1>2, <1>3 DEF CallerInv, Frame, Role, At, EmptyCall, IsEmpty, Untouched
<1>4. ASSUME NEW l \in Loop, NEW q, FirstCall(q, l)
      PROVE  CallerInv'
  BY <1>1, <1>2, <1>4 DEF CallerInv, Frame, Role, At, FirstCall, Opens, Adds, Untouched,
        FirstFrame
<1>5. ASSUME NEW l \in Loop, NEW q, TakeAt(q, l)
      PROVE  CallerInv'
  BY <1>1, <1>2, <1>5 DEF CallerInv, Frame, Role, At, TakeAt, Adds, Untouched, CopyOf
<1>6. ASSUME NEW p, SubmitAt(p)
      PROVE  CallerInv'
  BY <1>1, <1>2, <1>6 DEF CallerInv, Frame, Role, At, SubmitAt, Moves, Untouched, Same,
        FrLoop
<1>7. ASSUME NEW p, FetchAt(p)
      PROVE  CallerInv'
  <2>1. p \in Places /\ Places' = Places /\ \A x \in Places : x # p => Fr(x)' = Fr(x)
    BY <1>7 DEF FetchAt, Moves, Untouched
  <2>2. Fr(p)'.loop = Fr(p).loop /\ Fr(p)'.role = Fr(p).role
    BY <1>1, <1>7, <2>1 DEF FetchAt, Moves, Frame
  <2>3. \A x \in Places' : Fr(x)'.loop = Fr(x).loop /\ Fr(x)'.role = Fr(x).role
    BY <2>1, <2>2
  <2>. QED  BY <2>1, <2>3 DEF CallerInv
<1>8. ASSUME NEW p, PlainBody(p)
      PROVE  CallerInv'
  BY <1>1, <1>2, <1>8 DEF CallerInv, Frame, Role, At, PlainBody, BodyAt, Moves,
        Untouched, Same, FrLoop
<1>9. ASSUME NEW p, NEW l \in Loop, EmptyBody(p, l)
      PROVE  CallerInv'
  BY <1>1, <1>2, <1>9 DEF CallerInv, Frame, Role, At, EmptyBody, IsEmpty, BodyAt, Moves,
        Untouched, Same, FrLoop
<1>10. ASSUME NEW p, NEW q, NEW l \in Loop, NestedBody(p, q, l)
      PROVE  CallerInv'
  BY <1>1, <1>2, <1>10 DEF CallerInv, Frame, Role, At, NestedBody, Opens, BodyAt,
        MovesAdds, Untouched, Same, FrLoop, FirstFrame
<1>11. ASSUME NEW p, NEW threw \in BOOLEAN, EndAt(p, threw)
      PROVE  CallerInv'
  BY <1>1, <1>2, <1>11 DEF CallerInv, Frame, Role, At, EndAt, ThrownBy, Moves, Untouched,
        Same, FrLoop
<1>12. ASSUME NEW p, NEW threw \in BOOLEAN, SerialEnd(p, threw)
      PROVE  CallerInv'
  BY <1>1, <1>2, <1>12 DEF CallerInv, Frame, Role, At, SerialEnd, ThrownBy, Drops,
        Untouched, FrLoop
<1>13. ASSUME NEW p, SerialNext(p)
      PROVE  CallerInv'
  <2>1. p \in Places /\ Places' = Places /\ \A x \in Places : x # p => Fr(x)' = Fr(x)
    BY <1>13 DEF SerialNext, Moves, Untouched
  <2>2. Fr(p)'.loop = Fr(p).loop /\ Fr(p)'.role = Fr(p).role
    BY <1>1, <1>13, <2>1 DEF SerialNext, Moves, Frame
  <2>3. \A x \in Places' : Fr(x)'.loop = Fr(x).loop /\ Fr(x)'.role = Fr(x).role
    BY <2>1, <2>2
  <2>. QED  BY <2>1, <2>3 DEF CallerInv
<1>14. ASSUME NEW p, RecordAt(p)
      PROVE  CallerInv'
  BY <1>1, <1>2, <1>14 DEF CallerInv, Frame, Role, At, RecordAt, Moves, Untouched, Same,
        FrLoop
<1>15. ASSUME NEW p, LeaveAt(p)
      PROVE  CallerInv'
  BY <1>1, <1>2, <1>15 DEF CallerInv, Frame, Role, At, LeaveAt, Moves, Drops, Untouched,
        Same, FrLoop
<1>16. ASSUME NEW p, ReturnAt(p)
      PROVE  CallerInv'
  BY <1>1, <1>2, <1>16 DEF CallerInv, Frame, Role, At, ReturnAt, Drops, Untouched, FrLoop
<1>. QED  BY <1>3, <1>4, <1>5, <1>6, <1>7, <1>8, <1>9, <1>10, <1>11, <1>12, <1>13, <1>14,
        <1>15, <1>16 DEF PlaceStep

\* The pool holds copies of open calls only, and a loop is untouched before its call.
LEMMA PoolStep ==
    ASSUME Typed, FrameInv, CallerInv, CountInv, PoolInv, PlaceStep
    PROVE  PoolInv'
<1>1. \A x \in Places : /\ Fr(x) \in Frame /\ Fr(x).loop \in Loop /\ Fr(x).role \in Role
                           /\ Fr(x).at \in At /\ Fr(x).idx \in Nat
  BY PlaceType
<1>2. \A x \in Places : result[Fr(x).loop] = "open"
  BY DEF FrameInv
<1>3. /\ result \in [Loop -> {"none", "open", "returned", "threw"}] /\ next \in [Loop -> Nat]
      /\ inPool \in [Loop -> Nat] /\ attempts = [k \in Loop |-> attempts[k]]
      /\ thrown = [k \in Loop |-> thrown[k]] /\ firstError = [k \in Loop |-> firstError[k]]
      /\ \A k \in Loop : attempts[k] \in [Indices(k) -> Nat]
  BY DEF Typed, TypeOK
<1>4. ASSUME NEW l \in Loop, EmptyCall(l)
      PROVE  PoolInv'
  BY <1>1, <1>2, <1>3, <1>4 DEF PoolInv, EmptyCall, IsEmpty, Untouched
<1>5. ASSUME NEW l \in Loop, NEW q, FirstCall(q, l)
      PROVE  PoolInv'
  BY <1>1, <1>2, <1>3, <1>5 DEF PoolInv, FirstCall, Opens, Adds, Untouched, FirstFrame
<1>6. ASSUME NEW l \in Loop, NEW q, TakeAt(q, l)
      PROVE  PoolInv'
  BY <1>1, <1>2, <1>3, <1>6 DEF PoolInv, TakeAt, Adds, Untouched, CopyOf
<1>7. ASSUME NEW p, SubmitAt(p)
      PROVE  PoolInv'
  <2>1. ~ Serial(FrLoop(p))
    BY <1>1, <1>7 DEF SubmitAt, Moves, FrameInv, FrLoop, Role
  <2>. QED  BY <1>1, <1>2, <1>3, <1>7, <2>1 DEF PoolInv, SubmitAt, Moves, FrLoop
<1>8. ASSUME NEW p, FetchAt(p)
      PROVE  PoolInv'
  BY <1>1, <1>2, <1>3, <1>8 DEF PoolInv, FetchAt, Moves, Untouched, FrLoop
<1>9. ASSUME NEW p, PlainBody(p)
      PROVE  PoolInv'
  BY <1>1, <1>2, <1>3, <1>9 DEF PoolInv, PlainBody, BodyAt, Moves, Untouched, Same, FrLoop
<1>10. ASSUME NEW p, NEW l \in Loop, EmptyBody(p, l)
      PROVE  PoolInv'
  BY <1>1, <1>2, <1>3, <1>10 DEF PoolInv, EmptyBody, IsEmpty, BodyAt, Moves, Untouched,
        Same, FrLoop
<1>11. ASSUME NEW p, NEW q, NEW l \in Loop, NestedBody(p, q, l)
      PROVE  PoolInv'
  BY <1>1, <1>2, <1>3, <1>11 DEF PoolInv, NestedBody, Opens, BodyAt, MovesAdds,
        Untouched, Same, FrLoop, FirstFrame
<1>12. ASSUME NEW p, NEW threw \in BOOLEAN, EndAt(p, threw)
      PROVE  PoolInv'
  BY <1>1, <1>2, <1>3, <1>12 DEF PoolInv, EndAt, ThrownBy, Moves, Untouched, Same, FrLoop
<1>13. ASSUME NEW p, NEW threw \in BOOLEAN, SerialEnd(p, threw)
      PROVE  PoolInv'
  <2>1. Serial(FrLoop(p))
    BY <1>13 DEF SerialEnd, Drops, FrameInv, FrLoop
  <2>. QED  BY <1>1, <1>2, <1>3, <1>13, <2>1 DEF PoolInv, SerialEnd, ThrownBy, Drops, FrLoop
<1>14. ASSUME NEW p, SerialNext(p)
      PROVE  PoolInv'
  BY <1>1, <1>2, <1>3, <1>14 DEF PoolInv, SerialNext, ThrownBy, Moves, Untouched, FrLoop
<1>15. ASSUME NEW p, RecordAt(p)
      PROVE  PoolInv'
  BY <1>1, <1>2, <1>3, <1>15 DEF PoolInv, RecordAt, Moves, Untouched, Same, FrLoop
<1>16. ASSUME NEW p, LeaveAt(p)
      PROVE  PoolInv'
  BY <1>1, <1>2, <1>3, <1>16 DEF PoolInv, LeaveAt, Moves, Drops, Untouched, Same, FrLoop
<1>17. ASSUME NEW p, ReturnAt(p)
      PROVE  PoolInv'
  <2>1. inPool[FrLoop(p)] = 0
    BY <1>17, NooneLeft DEF ReturnAt, Drops, FrLoop
  <2>. QED  BY <1>1, <1>2, <1>3, <1>17, <2>1 DEF PoolInv, ReturnAt, Drops, FrLoop
<1>. QED  BY <1>4, <1>5, <1>6, <1>7, <1>8, <1>9, <1>10, <1>11, <1>12, <1>13, <1>14,
        <1>15, <1>16, <1>17 DEF PlaceStep

\* Who is about to call the body, and what a step does to them: `gone` has called
\* it, `new` has claimed an index.
Bodies == {p \in Places : Fr(p).at = "body"}
Claims(p, l, i) == Fr(p).loop = l /\ Fr(p).idx = i
Fresh(q) ==
    /\ attempts[Fr(q)'.loop][Fr(q)'.idx] = 0
    /\ Fr(q)'.loop \in Loop /\ Fr(q)'.idx \in Indices(Fr(q)'.loop)
    /\ ~ Serial(Fr(q)'.loop) =>
          /\ Fr(q)'.idx = next[Fr(q)'.loop]
          /\ next'[Fr(q)'.loop] = next[Fr(q)'.loop] + 1
    /\ \A x \in Bodies : ~ Claims(x, Fr(q)'.loop, Fr(q)'.idx)
ClaimStep(gone, new) ==
    /\ gone \subseteq Bodies /\ Bodies' = (Bodies \ gone) \cup new
    /\ \A x \in Bodies \ gone : Fr(x)' = Fr(x)
    /\ \A k \in Loop : \A i \in Indices(k) :
          /\ (\E x \in gone : Claims(x, k, i)) => attempts'[k][i] = attempts[k][i] + 1
          /\ (\A x \in gone : ~ Claims(x, k, i)) => attempts'[k][i] = attempts[k][i]
    /\ \A q \in new : Fresh(q)
    /\ \A q, r \in new : q = r
    /\ \A k \in Loop : \/ next'[k] = next[k]
                       \/ next'[k] = next[k] + 1 /\ next[k] >= Count[k]
                       \/ \E q \in new : Fr(q)'.loop = k /\ ~ Serial(k)

\* No frame belongs to a loop that was not called yet.
LEMMA OthersElsewhere ==
    ASSUME FrameInv, NEW l \in Loop, result[l] = "none"
    PROVE  \A x \in Places : Fr(x).loop # l
BY DEF FrameInv

\* A body call counts one attempt, of the index its frame has claimed.
LEMMA CalledOnce ==
    ASSUME Typed, FrameInv, NEW p \in Places, BodyAt(p)
    PROVE  /\ \A k \in Loop : \A i \in Indices(k) :
                /\ Claims(p, k, i) => attempts'[k][i] = attempts[k][i] + 1
                /\ ~ Claims(p, k, i) => attempts'[k][i] = attempts[k][i]
           /\ p \in Bodies /\ UNCHANGED next
<1>1. /\ attempts = [k \in Loop |-> attempts[k]]
      /\ \A k \in Loop : attempts[k] \in [Indices(k) -> Nat]
  BY DEF Typed, TypeOK
<1>2. PICK l \in Loop : l = Fr(p).loop
  BY PlaceType
<1>3. PICK j : j = Fr(p).idx
  OBVIOUS
<1>4. attempts' = [attempts EXCEPT ![l] = [attempts[l] EXCEPT ![j] = attempts[l][j] + 1]]
  BY <1>2, <1>3 DEF BodyAt, FrLoop
<1>5. attempts'[l] = [attempts[l] EXCEPT ![j] = attempts[l][j] + 1]
  BY <1>1, <1>4
<1>6. \A k \in Loop : k # l => attempts'[k] = attempts[k]
  BY <1>1, <1>4
<1>7. j \in Indices(l)
  BY <1>2, <1>3 DEF BodyAt, FrameInv
<1>8. \A i \in Indices(l) : attempts'[l][i] = IF i = j THEN attempts[l][i] + 1 ELSE attempts[l][i]
  BY <1>1, <1>5
<1>. QED  BY <1>2, <1>3, <1>6, <1>7, <1>8 DEF Claims, Bodies, BodyAt

\* The frame of the serial path is the only one of its loop.
LEMMA SerialAlone ==
    ASSUME FrameInv, CallerInv, NEW p \in Places, Fr(p).role = "serial"
    PROVE  Serial(Fr(p).loop) /\ \A x \in Places : x # p => Fr(x).loop # Fr(p).loop
BY DEF FrameInv, CallerInv

\* A step that changes no body frame, attempt or counter changes no claim.
LEMMA QuietClaims ==
    ASSUME Bodies' = Bodies, \A x \in Bodies : Fr(x)' = Fr(x), UNCHANGED <<attempts, next>>
    PROVE  ClaimStep({}, {})
BY DEF ClaimStep


\* Every step gives up some claims and makes some new ones, and calls what it
\* gives up.
LEMMA StepsClaim ==
    ASSUME Typed, FrameInv, CallerInv, PoolInv, ClaimInv, PlaceStep
    PROVE  \E gone, new : ClaimStep(gone, new)
<1>1. \A x \in Places : /\ Fr(x) \in Frame /\ Fr(x).loop \in Loop /\ Fr(x).role \in Role
                           /\ Fr(x).at \in At /\ Fr(x).idx \in Nat
  BY PlaceType
<1>2. \A x \in Places : result[Fr(x).loop] = "open"
  BY DEF FrameInv
<1>3. next \in [Loop -> Nat]
  BY DEF Typed, TypeOK
<1>4. ASSUME NEW l \in Loop, EmptyCall(l)
      PROVE  \E gone, new : ClaimStep(gone, new)
  <2>1. Bodies' = Bodies /\ \A x \in Bodies : Fr(x)' = Fr(x)
    BY <1>1, <1>4 DEF Bodies, Frame, At, Role, EmptyCall, IsEmpty, Untouched
  <2>2. ClaimStep({}, {})
    BY <1>4, <2>1, QuietClaims DEF EmptyCall, IsEmpty, Untouched
  <2>. QED  BY <2>2
<1>5. ASSUME NEW l \in Loop, NEW q, FirstCall(q, l)
      PROVE  \E gone, new : ClaimStep(gone, new)
  <2>1. /\ q \notin Places /\ Places' = Places \cup {q} /\ Fr(q)' = FirstFrame(l)
        /\ \A x \in Places : Fr(x)' = Fr(x)
        /\ UNCHANGED <<attempts, next>> /\ result[l] = "none" /\ Count[l] # 0
    BY <1>5 DEF FirstCall, Opens, Adds, Untouched
  <2>2. CASE ~ Serial(l)
    <3>1. Bodies' = Bodies /\ \A x \in Bodies : Fr(x)' = Fr(x)
      BY <2>1, <2>2 DEF Bodies, FirstFrame
    <3>. QED  BY <2>1, <3>1, QuietClaims
  <2>3. CASE Serial(l)
    <3>1. Bodies' = Bodies \cup {q} /\ Fr(q)'.loop = l /\ Fr(q)'.idx = 0
      BY <2>1, <2>3 DEF Bodies, FirstFrame
    <3>2. 0 \in Indices(l) /\ attempts[l][0] = 0
      BY <2>1, SpawnedType DEF Indices, PoolInv
    <3>3. \A x \in Bodies : Fr(x).loop # l
      BY <2>1, OthersElsewhere DEF Bodies
    <3>4. Fresh(q)
      BY <2>3, <3>1, <3>2, <3>3 DEF Fresh, Claims
    <3>5. ClaimStep({}, {q})
      BY <2>1, <3>1, <3>4 DEF ClaimStep, Bodies
    <3>. QED  BY <3>5
  <2>. QED  BY <2>2, <2>3
<1>6. ASSUME NEW l \in Loop, NEW q, TakeAt(q, l)
      PROVE  \E gone, new : ClaimStep(gone, new)
  <2>1. Bodies' = Bodies /\ \A x \in Bodies : Fr(x)' = Fr(x)
    BY <1>1, <1>6 DEF Bodies, Frame, At, Role, TakeAt, Adds, Untouched, CopyOf
  <2>2. ClaimStep({}, {})
    BY <1>6, <2>1, QuietClaims DEF TakeAt, Adds, Untouched, CopyOf
  <2>. QED  BY <2>2
<1>7. ASSUME NEW p, SubmitAt(p)
      PROVE  \E gone, new : ClaimStep(gone, new)
  <2>1. Bodies' = Bodies /\ \A x \in Bodies : Fr(x)' = Fr(x)
    BY <1>1, <1>7 DEF Bodies, Frame, At, Role, SubmitAt, Moves, Untouched, Same, FrLoop
  <2>2. ClaimStep({}, {})
    BY <1>7, <2>1, QuietClaims DEF SubmitAt, Moves, Untouched, Same, FrLoop
  <2>. QED  BY <2>2
<1>8. ASSUME NEW p, FetchAt(p)
      PROVE  \E gone, new : ClaimStep(gone, new)
  <2>1. PICK k \in Loop : k = Fr(p).loop
    BY <1>1, <1>8 DEF FetchAt, Moves
  <2>2. /\ p \in Places /\ Places' = Places /\ p \notin Bodies
        /\ \A x \in Places : x # p => Fr(x)' = Fr(x)
        /\ UNCHANGED attempts /\ next' = [next EXCEPT ![k] = @ + 1]
    BY <1>8, <2>1 DEF FetchAt, Moves, Untouched, FrLoop, Bodies
  <2>3. /\ Fr(p)'.loop = k /\ Fr(p)'.idx = next[k] /\ ~ Serial(k)
        /\ Fr(p)'.at = IF next[k] >= Count[k] THEN "leave" ELSE "body"
    BY <1>1, <1>8, <2>1, <2>2 DEF FetchAt, Moves, FrLoop, Frame, FrameInv
  <2>4. next'[k] = next[k] + 1 /\ \A m \in Loop : m # k => next'[m] = next[m]
    BY <1>3, <2>2
  <2>5. CASE next[k] >= Count[k]
    <3>1. Bodies' = Bodies /\ \A x \in Bodies : Fr(x)' = Fr(x)
      BY <2>2, <2>3, <2>5 DEF Bodies
    <3>2. ClaimStep({}, {})
      BY <2>2, <2>4, <2>5, <3>1 DEF ClaimStep
    <3>. QED  BY <3>2
  <2>6. CASE ~ (next[k] >= Count[k])
    <3>1. Bodies' = Bodies \cup {p} /\ \A x \in Bodies : Fr(x)' = Fr(x)
      BY <2>2, <2>3, <2>6 DEF Bodies
    <3>2. next[k] \in Indices(k) /\ attempts[k][next[k]] = 0
      <4>1. next[k] \in Indices(k)
        BY <1>3, <2>6, SpawnedType DEF Indices
      <4>. QED  BY <1>3, <2>3, <4>1 DEF ClaimInv, OnceInv
    <3>3. \A x \in Bodies : Fr(x).loop = k => Fr(x).idx < next[k]
      BY <2>3 DEF ClaimInv, BodyInv, Bodies
    <3>4. \A x \in Bodies : ~ Claims(x, k, next[k])
      BY <1>3, <3>3 DEF Claims
    <3>5. Fresh(p)
      BY <2>3, <2>4, <3>2, <3>4 DEF Fresh
    <3>6. ClaimStep({}, {p})
      BY <2>2, <2>3, <2>4, <3>1, <3>5 DEF ClaimStep
    <3>. QED  BY <3>6
  <2>. QED  BY <2>5, <2>6
<1>9. ASSUME NEW p, PlainBody(p)
      PROVE  \E gone, new : ClaimStep(gone, new)
  <2>1. /\ p \in Places /\ Places' = Places /\ BodyAt(p) /\ Fr(p)' = Same(p, "inner")
        /\ \A x \in Places : x # p => Fr(x)' = Fr(x)
    BY <1>9 DEF PlainBody, Moves, Untouched
  <2>2. Fr(p)'.at = "inner"
    BY <1>1, <2>1 DEF Same, Frame
  <2>3. /\ \A k \in Loop : \A i \in Indices(k) :
              /\ Claims(p, k, i) => attempts'[k][i] = attempts[k][i] + 1
              /\ ~ Claims(p, k, i) => attempts'[k][i] = attempts[k][i]
        /\ p \in Bodies /\ UNCHANGED next
    BY <2>1, CalledOnce
  <2>4. Bodies' = Bodies \ {p}
    BY <2>1, <2>2 DEF Bodies
  <2>5. ClaimStep({p}, {})
    BY <2>1, <2>3, <2>4 DEF ClaimStep, Bodies
  <2>. QED  BY <2>5
<1>10. ASSUME NEW p, NEW l \in Loop, EmptyBody(p, l)
      PROVE  \E gone, new : ClaimStep(gone, new)
  <2>1. /\ p \in Places /\ Places' = Places /\ BodyAt(p) /\ Fr(p)' = Same(p, "inner")
        /\ \A x \in Places : x # p => Fr(x)' = Fr(x)
    BY <1>10 DEF EmptyBody, Moves, Untouched
  <2>2. Fr(p)'.at = "inner"
    BY <1>1, <2>1 DEF Same, Frame
  <2>3. /\ \A k \in Loop : \A i \in Indices(k) :
              /\ Claims(p, k, i) => attempts'[k][i] = attempts[k][i] + 1
              /\ ~ Claims(p, k, i) => attempts'[k][i] = attempts[k][i]
        /\ p \in Bodies /\ UNCHANGED next
    BY <2>1, CalledOnce
  <2>4. Bodies' = Bodies \ {p}
    BY <2>1, <2>2 DEF Bodies
  <2>5. ClaimStep({p}, {})
    BY <2>1, <2>3, <2>4 DEF ClaimStep, Bodies
  <2>. QED  BY <2>5
<1>11. ASSUME NEW p, NEW q, NEW l \in Loop, NestedBody(p, q, l)
      PROVE  \E gone, new : ClaimStep(gone, new)
  <2>1. /\ p \in Places /\ q \notin Places /\ Places' = Places \cup {q} /\ BodyAt(p)
        /\ Fr(p)' = Same(p, "inner") /\ Fr(q)' = FirstFrame(l)
        /\ \A x \in Places : x # p => Fr(x)' = Fr(x)
        /\ result[l] = "none" /\ Count[l] # 0
    BY <1>11 DEF NestedBody, MovesAdds, Untouched, Opens
  <2>2. Fr(p)'.at = "inner" /\ p # q
    BY <1>1, <2>1 DEF Same, Frame
  <2>3. /\ \A k \in Loop : \A i \in Indices(k) :
              /\ Claims(p, k, i) => attempts'[k][i] = attempts[k][i] + 1
              /\ ~ Claims(p, k, i) => attempts'[k][i] = attempts[k][i]
        /\ p \in Bodies /\ UNCHANGED next
    BY <2>1, CalledOnce
  <2>4. CASE ~ Serial(l)
    <3>1. Bodies' = Bodies \ {p}
      BY <2>1, <2>2, <2>4 DEF Bodies, FirstFrame
    <3>2. ClaimStep({p}, {})
      BY <2>1, <2>3, <3>1 DEF ClaimStep, Bodies
    <3>. QED  BY <3>2
  <2>5. CASE Serial(l)
    <3>1. Bodies' = (Bodies \ {p}) \cup {q} /\ Fr(q)'.loop = l /\ Fr(q)'.idx = 0
      BY <2>1, <2>2, <2>5 DEF Bodies, FirstFrame
    <3>2. 0 \in Indices(l) /\ attempts[l][0] = 0
      BY <2>1, SpawnedType DEF Indices, PoolInv
    <3>3. \A x \in Bodies : Fr(x).loop # l
      BY <2>1, OthersElsewhere DEF Bodies
    <3>4. Fresh(q)
      BY <2>5, <3>1, <3>2, <3>3 DEF Fresh, Claims
    <3>5. ClaimStep({p}, {q})
      BY <2>1, <2>3, <3>1, <3>4 DEF ClaimStep, Bodies
    <3>. QED  BY <3>5
  <2>. QED  BY <2>4, <2>5
<1>12. ASSUME NEW p, NEW threw \in BOOLEAN, EndAt(p, threw)
      PROVE  \E gone, new : ClaimStep(gone, new)
  <2>1. Bodies' = Bodies /\ \A x \in Bodies : Fr(x)' = Fr(x)
    BY <1>1, <1>12 DEF Bodies, Frame, At, Role, EndAt, ThrownBy, Moves, Untouched, Same, FrLoop
  <2>2. ClaimStep({}, {})
    BY <1>12, <2>1, QuietClaims DEF EndAt, ThrownBy, Moves, Untouched, Same, FrLoop
  <2>. QED  BY <2>2
<1>13. ASSUME NEW p, NEW threw \in BOOLEAN, SerialEnd(p, threw)
      PROVE  \E gone, new : ClaimStep(gone, new)
  <2>1. Bodies' = Bodies /\ \A x \in Bodies : Fr(x)' = Fr(x)
    BY <1>1, <1>13 DEF Bodies, Frame, At, Role, SerialEnd, ThrownBy, Drops, Untouched, FrLoop
  <2>2. ClaimStep({}, {})
    BY <1>13, <2>1, QuietClaims DEF SerialEnd, ThrownBy, Drops, Untouched, FrLoop
  <2>. QED  BY <2>2
<1>14. ASSUME NEW p, SerialNext(p)
      PROVE  \E gone, new : ClaimStep(gone, new)
  <2>1. PICK k \in Loop, j \in Nat : k = Fr(p).loop /\ j = Fr(p).idx
    BY <1>1, <1>14 DEF SerialNext, Moves
  <2>2. /\ p \in Places /\ Places' = Places /\ p \notin Bodies
        /\ \A x \in Places : x # p => Fr(x)' = Fr(x)
        /\ UNCHANGED <<attempts, next>> /\ Fr(p).role = "serial"
    BY <1>14 DEF SerialNext, ThrownBy, Moves, Untouched, Bodies
  <2>3. /\ Fr(p)'.loop = k /\ Fr(p)'.idx = j + 1 /\ Fr(p)'.at = "body"
    BY <1>1, <1>14, <2>1, <2>2 DEF SerialNext, Moves, Frame
  <2>4. Serial(k) /\ \A x \in Places : x # p => Fr(x).loop # k
    BY <2>1, <2>2, SerialAlone
  <2>5. Bodies' = Bodies \cup {p} /\ \A x \in Bodies : Fr(x)' = Fr(x)
    BY <2>2, <2>3 DEF Bodies
  <2>6. j + 1 \in Indices(k)
    BY <2>1, <2>2, <1>14, SpawnedType DEF SerialNext, ThrownBy, FrameInv, Indices, FrLoop
  <2>7. attempts[k][j + 1] = 0
    <3>1. \A i \in Indices(k) : i > j => attempts[k][i] = 0
      BY <2>1, <2>2 DEF ClaimInv, AheadInv
    <3>. QED  BY <2>6, <3>1
  <2>8. \A x \in Bodies : ~ Claims(x, k, j + 1)
    BY <2>2, <2>4 DEF Bodies, Claims
  <2>9. Fresh(p)
    BY <2>3, <2>4, <2>6, <2>7, <2>8 DEF Fresh
  <2>10. ClaimStep({}, {p})
    BY <2>2, <2>5, <2>9 DEF ClaimStep
  <2>. QED  BY <2>10
<1>15. ASSUME NEW p, RecordAt(p)
      PROVE  \E gone, new : ClaimStep(gone, new)
  <2>1. Bodies' = Bodies /\ \A x \in Bodies : Fr(x)' = Fr(x)
    BY <1>1, <1>15 DEF Bodies, Frame, At, Role, RecordAt, Moves, Untouched, Same, FrLoop
  <2>2. ClaimStep({}, {})
    BY <1>15, <2>1, QuietClaims DEF RecordAt, Moves, Untouched, Same, FrLoop
  <2>. QED  BY <2>2
<1>16. ASSUME NEW p, LeaveAt(p)
      PROVE  \E gone, new : ClaimStep(gone, new)
  <2>1. Bodies' = Bodies /\ \A x \in Bodies : Fr(x)' = Fr(x)
    BY <1>1, <1>16 DEF Bodies, Frame, At, Role, LeaveAt, Moves, Drops, Untouched, Same, FrLoop
  <2>2. ClaimStep({}, {})
    BY <1>16, <2>1, QuietClaims DEF LeaveAt, Moves, Drops, Untouched, Same, FrLoop
  <2>. QED  BY <2>2
<1>17. ASSUME NEW p, ReturnAt(p)
      PROVE  \E gone, new : ClaimStep(gone, new)
  <2>1. Bodies' = Bodies /\ \A x \in Bodies : Fr(x)' = Fr(x)
    BY <1>1, <1>17 DEF Bodies, Frame, At, Role, ReturnAt, Drops, Untouched, FrLoop
  <2>2. ClaimStep({}, {})
    BY <1>17, <2>1, QuietClaims DEF ReturnAt, Drops, Untouched, FrLoop
  <2>. QED  BY <2>2
<1>. QED  BY <1>4, <1>5, <1>6, <1>7, <1>8, <1>9, <1>10, <1>11, <1>12, <1>13, <1>14,
        <1>15, <1>16, <1>17 DEF PlaceStep

\* No index is called twice, whatever a step does to the claims.
LEMMA OnceStep ==
    ASSUME Typed, FrameInv, ClaimInv, NEW gone, NEW new, ClaimStep(gone, new)
    PROVE  OnceInv'
<1>1. SUFFICES ASSUME NEW k \in Loop, NEW i \in Indices(k)
               PROVE  /\ attempts'[k][i] <= 1
                      /\ ~ Serial(k) /\ i >= next'[k] => attempts'[k][i] = 0
                      /\ ~ Serial(k) /\ i < next'[k] /\ attempts'[k][i] = 0 =>
                            \E p \in Bodies' : Fr(p)'.loop = k /\ Fr(p)'.idx = i
  BY DEF OnceInv, Inside, Bodies
<1>2. i \in Nat /\ Count[k] \in Nat /\ i < Count[k] /\ next[k] \in Nat /\ attempts[k][i] \in Nat /\ next'[k] \in Nat
  <2>1. Count[k] \in Nat /\ next[k] \in Nat /\ attempts[k] \in [Indices(k) -> Nat]
    BY SpawnedType DEF Typed, TypeOK
  <2>2. next'[k] = next[k] \/ next'[k] = next[k] + 1
    BY DEF ClaimStep, Fresh
  <2>. QED  BY <2>1, <2>2 DEF Indices
<1>3. /\ attempts[k][i] <= 1
      /\ ~ Serial(k) /\ i >= next[k] => attempts[k][i] = 0
      /\ ~ Serial(k) /\ i < next[k] /\ attempts[k][i] = 0 =>
            \E p \in Bodies : Claims(p, k, i)
  BY DEF ClaimInv, OnceInv, Inside, Bodies, Claims
<1>4. next'[k] >= next[k]
  BY <1>2 DEF ClaimStep, Fresh
<1>5. CASE \E x \in gone : Claims(x, k, i)
  <2>1. PICK x \in gone : Claims(x, k, i)
    BY <1>5
  <2>2. x \in Places /\ Fr(x).at = "body"
    BY <2>1 DEF ClaimStep, Bodies
  <2>3. attempts[k][i] = 0 /\ (~ Serial(k) => i < next[k])
    BY <2>1, <2>2 DEF ClaimInv, BodyInv, Claims
  <2>4. attempts'[k][i] = 1
    BY <1>5, <2>3 DEF ClaimStep
  <2>. QED  BY <1>2, <1>4, <2>3, <2>4
<1>6. CASE \A x \in gone : ~ Claims(x, k, i)
  <2>1. attempts'[k][i] = attempts[k][i]
    BY <1>6 DEF ClaimStep
  <2>2. ASSUME ~ Serial(k), i < next'[k], attempts[k][i] = 0
        PROVE  \E p \in Bodies' : Fr(p)'.loop = k /\ Fr(p)'.idx = i
    <3>1. CASE i < next[k]
      <4>1. PICK p \in Bodies : Claims(p, k, i)
        BY <1>3, <2>2, <3>1
      <4>2. p \in Bodies' /\ Fr(p)' = Fr(p)
        BY <1>6, <4>1 DEF ClaimStep
      <4>. QED  BY <4>1, <4>2 DEF Claims
    <3>2. CASE ~ (i < next[k])
      <4>1. PICK q \in new : Fr(q)'.loop = k
        BY <1>2, <2>2, <3>2 DEF ClaimStep
      <4>2. q \in Bodies' /\ Fr(q)'.idx = next[k] /\ next'[k] = next[k] + 1
        BY <2>2, <4>1 DEF ClaimStep, Fresh
      <4>. QED  BY <1>2, <2>2, <3>2, <4>1, <4>2
    <3>. QED  BY <3>1, <3>2
  <2>. QED  BY <1>2, <1>3, <1>4, <2>1, <2>2
<1>. QED  BY <1>5, <1>6

\* Whoever has a body to call has an index that was not called and is its alone.
LEMMA BodyStep ==
    ASSUME Typed, FrameInv, ClaimInv, NEW gone, NEW new, ClaimStep(gone, new)
    PROVE  BodyInv'
<1>1. ASSUME NEW p \in Bodies'
      PROVE  /\ Fr(p)'.loop \in Loop /\ Fr(p)'.idx \in Indices(Fr(p)'.loop)
             /\ p \in Bodies \ gone => Fr(p)' = Fr(p)
             /\ p \notin Bodies \ gone => p \in new
  <2>1. CASE p \in Bodies \ gone
    <3>1. Fr(p)' = Fr(p) /\ p \in Places /\ Fr(p).at = "body"
      BY <2>1 DEF ClaimStep, Bodies
    <3>2. Fr(p).loop \in Loop /\ Fr(p).idx \in Indices(Fr(p).loop)
      BY <3>1, PlaceType DEF FrameInv
    <3>. QED  BY <2>1, <3>1, <3>2
  <2>2. CASE p \notin Bodies \ gone
    BY <1>1, <2>2 DEF ClaimStep, Fresh
  <2>. QED  BY <2>1, <2>2
<1>2. ASSUME NEW p \in Bodies', NEW q \in Bodies',
             Fr(p)'.loop = Fr(q)'.loop, Fr(p)'.idx = Fr(q)'.idx
      PROVE  p = q
  <2>1. CASE p \in Bodies \ gone /\ q \in Bodies \ gone
    <3>1. Fr(p)' = Fr(p) /\ Fr(q)' = Fr(q)
      BY <1>1, <2>1
    <3>. QED  BY <1>2, <2>1, <3>1 DEF ClaimInv, BodyInv, Bodies
  <2>2. CASE p \in Bodies \ gone /\ q \in new
    <3>1. ~ Claims(p, Fr(q)'.loop, Fr(q)'.idx) /\ Fr(p)' = Fr(p)
      BY <2>2 DEF ClaimStep, Fresh
    <3>. QED  BY <1>2, <3>1 DEF Claims
  <2>3. CASE q \in Bodies \ gone /\ p \in new
    <3>1. ~ Claims(q, Fr(p)'.loop, Fr(p)'.idx) /\ Fr(q)' = Fr(q)
      BY <2>3 DEF ClaimStep, Fresh
    <3>. QED  BY <1>2, <3>1 DEF Claims
  <2>4. CASE p \in new /\ q \in new
    BY <2>4 DEF ClaimStep
  <2>. QED  BY <1>1, <2>1, <2>2, <2>3, <2>4
<1>3. ASSUME NEW p \in Bodies'
      PROVE  /\ attempts'[Fr(p)'.loop][Fr(p)'.idx] = 0
             /\ ~ Serial(Fr(p)'.loop) => Fr(p)'.idx < next'[Fr(p)'.loop]
  <2>1. PICK k, i : k = Fr(p)'.loop /\ i = Fr(p)'.idx
    OBVIOUS
  <2>2. k \in Loop /\ i \in Indices(k) /\ i \in Nat
    <3>1. k \in Loop /\ i \in Indices(k)
      BY <1>1, <2>1
    <3>. QED  BY <3>1, SpawnedType DEF Indices
  <2>3. next[k] \in Nat
    BY <2>2 DEF Typed, TypeOK
  <2>4. next'[k] >= next[k] /\ next'[k] \in Nat
    BY <2>2, <2>3 DEF ClaimStep, Fresh
  <2>5. CASE p \in Bodies \ gone
    <3>1. Fr(p)' = Fr(p) /\ p \in Places /\ Fr(p).at = "body" /\ Claims(p, k, i)
      BY <1>1, <2>1, <2>5 DEF Bodies, Claims
    <3>2. attempts[k][i] = 0 /\ (~ Serial(k) => i < next[k])
      BY <3>1 DEF ClaimInv, BodyInv, Claims
    <3>3. \A x \in gone : ~ Claims(x, k, i)
      BY <2>5, <3>1 DEF ClaimStep, ClaimInv, BodyInv, Bodies, Claims
    <3>4. attempts'[k][i] = attempts[k][i]
      BY <2>2, <3>3 DEF ClaimStep
    <3>. QED  BY <2>1, <2>2, <2>3, <2>4, <3>2, <3>4
  <2>6. CASE p \in new
    <3>1. attempts[k][i] = 0 /\ (~ Serial(k) => i = next[k] /\ next'[k] = next[k] + 1)
      BY <2>1, <2>6 DEF ClaimStep, Fresh
    <3>2. \A x \in gone : ~ Claims(x, k, i)
      BY <2>1, <2>6 DEF ClaimStep, Fresh
    <3>3. attempts'[k][i] = attempts[k][i]
      BY <2>2, <3>2 DEF ClaimStep
    <3>. QED  BY <2>1, <2>2, <2>3, <3>1, <3>3
  <2>. QED  BY <1>1, <2>5, <2>6
<1>. QED  BY <1>2, <1>3 DEF BodyInv, Bodies

\* Why a call may end: its indices were all claimed and called, or it was serial.
Settled(k) == \/ Closed(k) \/ Count[k] = 0 \/ Serial(k)
              \/ next[k] >= Count[k] /\ \A x \in Bodies : Fr(x).loop # k


\* A loop closes only when every index is claimed and nobody is inside.
LEMMA StepsClose ==
    ASSUME Typed, FrameInv, CallerInv, CountInv, PlaceStep
    PROVE  \A k \in Loop : Closed(k)' => Settled(k)
<1>1. \A x \in Places : /\ Fr(x) \in Frame /\ Fr(x).loop \in Loop /\ Fr(x).role \in Role
                           /\ Fr(x).at \in At /\ Fr(x).idx \in Nat
  BY PlaceType
<1>2. result \in [Loop -> {"none", "open", "returned", "threw"}]
  BY DEF Typed, TypeOK
<1>3. ASSUME NEW l \in Loop, EmptyCall(l)
      PROVE  \A k \in Loop : Closed(k)' => Settled(k)
  BY <1>1, <1>2, <1>3 DEF Closed, Settled, EmptyCall, IsEmpty, Untouched
<1>4. ASSUME NEW l \in Loop, NEW q, FirstCall(q, l)
      PROVE  \A k \in Loop : Closed(k)' => Settled(k)
  BY <1>1, <1>2, <1>4 DEF Closed, Settled, FirstCall, Opens, Adds, Untouched, FirstFrame
<1>5. ASSUME NEW l \in Loop, NEW q, TakeAt(q, l)
      PROVE  \A k \in Loop : Closed(k)' => Settled(k)
  BY <1>1, <1>2, <1>5 DEF Closed, Settled, TakeAt, Adds, Untouched, CopyOf
<1>6. ASSUME NEW p, SubmitAt(p)
      PROVE  \A k \in Loop : Closed(k)' => Settled(k)
  BY <1>1, <1>2, <1>6 DEF Closed, Settled, SubmitAt, Moves, Untouched, Same, FrLoop
<1>7. ASSUME NEW p, FetchAt(p)
      PROVE  \A k \in Loop : Closed(k)' => Settled(k)
  BY <1>1, <1>2, <1>7 DEF Closed, Settled, FetchAt, Moves, Untouched, FrLoop
<1>8. ASSUME NEW p, PlainBody(p)
      PROVE  \A k \in Loop : Closed(k)' => Settled(k)
  BY <1>1, <1>2, <1>8 DEF Closed, Settled, PlainBody, BodyAt, Moves, Untouched, Same, FrLoop
<1>9. ASSUME NEW p, NEW l \in Loop, EmptyBody(p, l)
      PROVE  \A k \in Loop : Closed(k)' => Settled(k)
  BY <1>1, <1>2, <1>9 DEF Closed, Settled, EmptyBody, IsEmpty, BodyAt, Moves, Untouched,
        Same, FrLoop
<1>10. ASSUME NEW p, NEW q, NEW l \in Loop, NestedBody(p, q, l)
      PROVE  \A k \in Loop : Closed(k)' => Settled(k)
  BY <1>1, <1>2, <1>10 DEF Closed, Settled, NestedBody, Opens, BodyAt, MovesAdds,
        Untouched, Same, FrLoop, FirstFrame
<1>11. ASSUME NEW p, NEW threw \in BOOLEAN, EndAt(p, threw)
      PROVE  \A k \in Loop : Closed(k)' => Settled(k)
  BY <1>1, <1>2, <1>11 DEF Closed, Settled, EndAt, ThrownBy, Moves, Untouched, Same, FrLoop
<1>12. ASSUME NEW p, NEW threw \in BOOLEAN, SerialEnd(p, threw)
      PROVE  \A k \in Loop : Closed(k)' => Settled(k)
  <2>1. Serial(Fr(p).loop)
    BY <1>12 DEF SerialEnd, Drops, FrameInv
  <2>. QED  BY <1>1, <1>2, <2>1, <1>12 DEF Closed, Settled, SerialEnd, Drops, FrLoop
<1>13. ASSUME NEW p, SerialNext(p)
      PROVE  \A k \in Loop : Closed(k)' => Settled(k)
  BY <1>1, <1>2, <1>13 DEF Closed, Settled, SerialNext, ThrownBy, Moves, Untouched, FrLoop
<1>14. ASSUME NEW p, RecordAt(p)
      PROVE  \A k \in Loop : Closed(k)' => Settled(k)
  BY <1>1, <1>2, <1>14 DEF Closed, Settled, RecordAt, Moves, Untouched, Same, FrLoop
<1>15. ASSUME NEW p, LeaveAt(p)
      PROVE  \A k \in Loop : Closed(k)' => Settled(k)
  BY <1>1, <1>2, <1>15 DEF Closed, Settled, LeaveAt, Moves, Drops, Untouched, Same, FrLoop
<1>16. ASSUME NEW p, ReturnAt(p)
      PROVE  \A k \in Loop : Closed(k)' => Settled(k)
  <2>1. /\ next[Fr(p).loop] >= Count[Fr(p).loop] /\ p \in Places
        /\ \A x \in Places : x # p => Fr(x).loop # Fr(p).loop
        /\ Fr(p).at # "body"
    BY <1>16, NooneLeft DEF ReturnAt, Drops, FrLoop
  <2>2. \A x \in Bodies : Fr(x).loop # Fr(p).loop
    BY <2>1 DEF Bodies
  <2>. QED  BY <1>1, <1>2, <2>1, <2>2, <1>16 DEF Closed, Settled, ReturnAt, FrLoop
<1>. QED  BY <1>3, <1>4, <1>5, <1>6, <1>7, <1>8, <1>9, <1>10, <1>11, <1>12, <1>13, <1>14,
        <1>15, <1>16 DEF PlaceStep

\* A parallel loop that has closed has called every index once.
LEMMA CompleteStep ==
    ASSUME Typed, FrameInv, CallerInv, CountInv, ClaimInv, PlaceStep,
           NEW gone, NEW new, ClaimStep(gone, new)
    PROVE  CompleteInv'
<1>1. SUFFICES ASSUME NEW k \in Loop, Closed(k)', ~ Serial(k), NEW i \in Indices(k)
               PROVE  attempts'[k][i] = 1
  BY DEF CompleteInv
<1>2. Settled(k) /\ Count[k] # 0
  BY <1>1, StepsClose DEF Indices
<1>3. \A x \in gone : ~ Claims(x, k, i)
  <2>1. \A x \in Bodies : Fr(x).loop # k
    <3>1. CASE Closed(k)
      BY <3>1 DEF Closed, Bodies, FrameInv
    <3>. QED  BY <1>1, <1>2, <3>1 DEF Settled
  <2>. QED  BY <2>1 DEF ClaimStep, Claims
<1>4. attempts'[k][i] = attempts[k][i]
  BY <1>3 DEF ClaimStep
<1>5. CASE Closed(k)
  BY <1>1, <1>4, <1>5 DEF ClaimInv, CompleteInv
<1>6. CASE ~ Closed(k)
  <2>1. next[k] >= Count[k] /\ \A x \in Bodies : Fr(x).loop # k
    BY <1>1, <1>2, <1>6 DEF Settled
  <2>2. /\ i \in Nat /\ i < next[k]
    BY <2>1, SpawnedType DEF Indices, Typed, TypeOK
  <2>3. attempts[k][i] # 0
    BY <1>1, <2>1, <2>2 DEF ClaimInv, OnceInv, Inside, Bodies
  <2>4. attempts[k][i] \in Nat /\ attempts[k][i] <= 1
    BY DEF Typed, TypeOK, ClaimInv, OnceInv
  <2>. QED  BY <1>4, <2>3, <2>4
<1>. QED  BY <1>5, <1>6

\* A step that calls no body leaves alone what lies ahead on a serial path.
LEMMA AheadKept ==
    ASSUME Typed, AheadInv, UNCHANGED attempts,
           \A x \in Places' : Fr(x)'.role = "serial" =>
              /\ x \in Places /\ Fr(x).role = "serial"
              /\ Fr(x)'.loop = Fr(x).loop /\ Fr(x)'.idx \in Nat /\ Fr(x)'.idx >= Fr(x).idx
    PROVE  AheadInv'
<1>1. SUFFICES ASSUME NEW x \in Places', Fr(x)'.role = "serial",
                      NEW i \in Indices(Fr(x)'.loop), i > Fr(x)'.idx
               PROVE  attempts'[Fr(x)'.loop][i] = 0
  BY DEF AheadInv
<1>2. /\ x \in Places /\ Fr(x).role = "serial" /\ Fr(x)'.loop = Fr(x).loop
      /\ Fr(x)'.idx \in Nat /\ Fr(x)'.idx >= Fr(x).idx /\ Fr(x).idx \in Nat
  BY <1>1, PlaceType
<1>3. i \in Int
  BY <1>2, PlaceType, SpawnedType DEF Indices
<1>4. i > Fr(x).idx
  BY <1>1, <1>2, <1>3
<1>. QED  BY <1>2, <1>4 DEF AheadInv


\* A body call is of no index that lies ahead on a serial path.
LEMMA CalledAhead ==
    ASSUME Typed, FrameInv, CallerInv, ClaimInv, NEW p \in Places, BodyAt(p)
    PROVE  \A x \in Places : Fr(x).role = "serial" =>
              \A i \in Indices(Fr(x).loop) : i > Fr(x).idx => attempts'[Fr(x).loop][i] = 0
<1>. SUFFICES ASSUME NEW x \in Places, Fr(x).role = "serial",
                     NEW i \in Indices(Fr(x).loop), i > Fr(x).idx
              PROVE  attempts'[Fr(x).loop][i] = 0
  OBVIOUS
<1>1. attempts[Fr(x).loop][i] = 0
  BY DEF ClaimInv, AheadInv
<1>2. Fr(x).loop \in Loop /\ Fr(x).idx \in Nat /\ i \in Int
  BY PlaceType, SpawnedType DEF Indices
<1>3. ~ Claims(p, Fr(x).loop, i)
  BY <1>2, SerialAlone DEF Claims
<1>. QED  BY <1>1, <1>2, <1>3, CalledOnce


\* On the serial path nothing ahead of the index was called.
LEMMA AheadStep ==
    ASSUME Typed, FrameInv, CallerInv, PoolInv, ClaimInv, PlaceStep
    PROVE  AheadInv'
<1>1. \A x \in Places : /\ Fr(x) \in Frame /\ Fr(x).loop \in Loop /\ Fr(x).role \in Role
                           /\ Fr(x).at \in At /\ Fr(x).idx \in Nat
  BY PlaceType
<1>2. AheadInv
  BY DEF ClaimInv
<1>3. ASSUME NEW l \in Loop, EmptyCall(l)
      PROVE  AheadInv'
  <2>1. \A x \in Places' : Fr(x)'.role = "serial" =>
           /\ x \in Places /\ Fr(x).role = "serial"
           /\ Fr(x)'.loop = Fr(x).loop /\ Fr(x)'.idx \in Nat /\ Fr(x)'.idx >= Fr(x).idx
    BY <1>1, <1>3 DEF Frame, Role, At, EmptyCall, IsEmpty, Untouched
  <2>. QED  BY <1>2, <1>3, <2>1, AheadKept DEF EmptyCall, IsEmpty, Untouched
<1>4. ASSUME NEW l \in Loop, NEW q, FirstCall(q, l)
      PROVE  AheadInv'
  <2>1. /\ Places' = Places \cup {q} /\ \A x \in Places : Fr(x)' = Fr(x)
        /\ UNCHANGED attempts /\ Fr(q)'.loop = l /\ result[l] = "none"
    BY <1>4 DEF FirstCall, Opens, Adds, Untouched, FirstFrame
  <2>2. \A i \in Indices(l) : attempts[l][i] = 0
    BY <2>1 DEF PoolInv
  <2>. QED  BY <1>2, <2>1, <2>2 DEF AheadInv
<1>5. ASSUME NEW l \in Loop, NEW q, TakeAt(q, l)
      PROVE  AheadInv'
  <2>1. \A x \in Places' : Fr(x)'.role = "serial" =>
           /\ x \in Places /\ Fr(x).role = "serial"
           /\ Fr(x)'.loop = Fr(x).loop /\ Fr(x)'.idx \in Nat /\ Fr(x)'.idx >= Fr(x).idx
    BY <1>1, <1>5 DEF Frame, Role, At, TakeAt, Adds, Untouched, CopyOf
  <2>. QED  BY <1>2, <1>5, <2>1, AheadKept DEF TakeAt, Adds, Untouched, CopyOf
<1>6. ASSUME NEW p, SubmitAt(p)
      PROVE  AheadInv'
  <2>1. \A x \in Places' : Fr(x)'.role = "serial" =>
           /\ x \in Places /\ Fr(x).role = "serial"
           /\ Fr(x)'.loop = Fr(x).loop /\ Fr(x)'.idx \in Nat /\ Fr(x)'.idx >= Fr(x).idx
    BY <1>1, <1>6 DEF Frame, Role, At, SubmitAt, Moves, Untouched, Same, FrLoop
  <2>. QED  BY <1>2, <1>6, <2>1, AheadKept DEF SubmitAt, Moves, Untouched, Same, FrLoop
<1>7. ASSUME NEW p, FetchAt(p)
      PROVE  AheadInv'
  <2>1. /\ p \in Places /\ Places' = Places /\ \A x \in Places : x # p => Fr(x)' = Fr(x)
        /\ UNCHANGED attempts
    BY <1>7 DEF FetchAt, Moves, Untouched
  <2>2. Fr(p)'.role # "serial"
    BY <1>1, <1>7, <2>1 DEF FetchAt, Moves, Frame, FrameInv
  <2>3. \A x \in Places' : Fr(x)'.role = "serial" =>
           /\ x \in Places /\ Fr(x).role = "serial"
           /\ Fr(x)'.loop = Fr(x).loop /\ Fr(x)'.idx \in Nat /\ Fr(x)'.idx >= Fr(x).idx
    BY <1>1, <2>1, <2>2
  <2>. QED  BY <1>2, <2>1, <2>3, AheadKept
<1>8. ASSUME NEW p, PlainBody(p)
      PROVE  AheadInv'
  <2>1. p \in Places /\ Places' = Places /\ BodyAt(p)
    BY <1>8 DEF PlainBody, EmptyBody, Moves
  <2>2. \A x \in Places : /\ Fr(x)'.role = Fr(x).role /\ Fr(x)'.loop = Fr(x).loop
                           /\ Fr(x)'.idx = Fr(x).idx
    BY <1>1, <1>8 DEF PlainBody, EmptyBody, Moves, Untouched, Same, Frame
  <2>3. \A x \in Places : Fr(x).role = "serial" =>
           \A i \in Indices(Fr(x).loop) : i > Fr(x).idx => attempts'[Fr(x).loop][i] = 0
    BY <2>1, CalledAhead
  <2>. QED  BY <2>1, <2>2, <2>3 DEF AheadInv
<1>9. ASSUME NEW p, NEW l \in Loop, EmptyBody(p, l)
      PROVE  AheadInv'
  <2>1. p \in Places /\ Places' = Places /\ BodyAt(p)
    BY <1>9 DEF PlainBody, EmptyBody, Moves
  <2>2. \A x \in Places : /\ Fr(x)'.role = Fr(x).role /\ Fr(x)'.loop = Fr(x).loop
                           /\ Fr(x)'.idx = Fr(x).idx
    BY <1>1, <1>9 DEF PlainBody, EmptyBody, Moves, Untouched, Same, Frame
  <2>3. \A x \in Places : Fr(x).role = "serial" =>
           \A i \in Indices(Fr(x).loop) : i > Fr(x).idx => attempts'[Fr(x).loop][i] = 0
    BY <2>1, CalledAhead
  <2>. QED  BY <2>1, <2>2, <2>3 DEF AheadInv
<1>10. ASSUME NEW p, NEW q, NEW l \in Loop, NestedBody(p, q, l)
      PROVE  AheadInv'
  <2>1. /\ p \in Places /\ Places' = Places \cup {q} /\ BodyAt(p) /\ q \notin Places
        /\ Fr(q)'.loop = l /\ result[l] = "none"
    BY <1>10 DEF NestedBody, MovesAdds, FirstFrame, Opens
  <2>2. \A x \in Places : /\ Fr(x)'.role = Fr(x).role /\ Fr(x)'.loop = Fr(x).loop
                           /\ Fr(x)'.idx = Fr(x).idx
    BY <1>1, <1>10 DEF NestedBody, MovesAdds, Untouched, Same, Frame
  <2>3. \A x \in Places : Fr(x).role = "serial" =>
           \A i \in Indices(Fr(x).loop) : i > Fr(x).idx => attempts'[Fr(x).loop][i] = 0
    BY <2>1, CalledAhead
  <2>4. \A i \in Indices(l) : attempts'[l][i] = 0
    <3>1. \A i \in Indices(l) : attempts[l][i] = 0 /\ ~ Claims(p, l, i)
      BY <2>1, OthersElsewhere DEF PoolInv, Claims
    <3>. QED  BY <2>1, <3>1, CalledOnce
  <2>. QED  BY <2>1, <2>2, <2>3, <2>4 DEF AheadInv
<1>11. ASSUME NEW p, NEW threw \in BOOLEAN, EndAt(p, threw)
      PROVE  AheadInv'
  <2>1. \A x \in Places' : Fr(x)'.role = "serial" =>
           /\ x \in Places /\ Fr(x).role = "serial"
           /\ Fr(x)'.loop = Fr(x).loop /\ Fr(x)'.idx \in Nat /\ Fr(x)'.idx >= Fr(x).idx
    BY <1>1, <1>11 DEF Frame, Role, At, EndAt, ThrownBy, Moves, Untouched, Same, FrLoop
  <2>. QED  BY <1>2, <1>11, <2>1, AheadKept DEF EndAt, ThrownBy, Moves, Untouched, Same, FrLoop
<1>12. ASSUME NEW p, NEW threw \in BOOLEAN, SerialEnd(p, threw)
      PROVE  AheadInv'
  <2>1. \A x \in Places' : Fr(x)'.role = "serial" =>
           /\ x \in Places /\ Fr(x).role = "serial"
           /\ Fr(x)'.loop = Fr(x).loop /\ Fr(x)'.idx \in Nat /\ Fr(x)'.idx >= Fr(x).idx
    BY <1>1, <1>12 DEF Frame, Role, At, SerialEnd, ThrownBy, Drops, Untouched, FrLoop
  <2>. QED  BY <1>2, <1>12, <2>1, AheadKept DEF SerialEnd, ThrownBy, Drops, Untouched, FrLoop
<1>13. ASSUME NEW p, SerialNext(p)
      PROVE  AheadInv'
  <2>1. /\ p \in Places /\ Places' = Places /\ \A x \in Places : x # p => Fr(x)' = Fr(x)
        /\ UNCHANGED attempts
    BY <1>13 DEF SerialNext, ThrownBy, Moves, Untouched
  <2>2. /\ Fr(p)'.role = Fr(p).role /\ Fr(p)'.loop = Fr(p).loop
        /\ Fr(p)'.idx = Fr(p).idx + 1
    BY <1>1, <1>13, <2>1 DEF SerialNext, Moves, Frame
  <2>3. \A x \in Places' : Fr(x)'.role = "serial" =>
           /\ x \in Places /\ Fr(x).role = "serial"
           /\ Fr(x)'.loop = Fr(x).loop /\ Fr(x)'.idx \in Nat /\ Fr(x)'.idx >= Fr(x).idx
    BY <1>1, <2>1, <2>2
  <2>. QED  BY <1>2, <2>1, <2>3, AheadKept
<1>14. ASSUME NEW p, RecordAt(p)
      PROVE  AheadInv'
  <2>1. \A x \in Places' : Fr(x)'.role = "serial" =>
           /\ x \in Places /\ Fr(x).role = "serial"
           /\ Fr(x)'.loop = Fr(x).loop /\ Fr(x)'.idx \in Nat /\ Fr(x)'.idx >= Fr(x).idx
    BY <1>1, <1>14 DEF Frame, Role, At, RecordAt, Moves, Untouched, Same, FrLoop
  <2>. QED  BY <1>2, <1>14, <2>1, AheadKept DEF RecordAt, Moves, Untouched, Same, FrLoop
<1>15. ASSUME NEW p, LeaveAt(p)
      PROVE  AheadInv'
  <2>1. \A x \in Places' : Fr(x)'.role = "serial" =>
           /\ x \in Places /\ Fr(x).role = "serial"
           /\ Fr(x)'.loop = Fr(x).loop /\ Fr(x)'.idx \in Nat /\ Fr(x)'.idx >= Fr(x).idx
    BY <1>1, <1>15 DEF Frame, Role, At, LeaveAt, Moves, Drops, Untouched, Same, FrLoop
  <2>. QED  BY <1>2, <1>15, <2>1, AheadKept DEF LeaveAt, Moves, Drops, Untouched, Same, FrLoop
<1>16. ASSUME NEW p, ReturnAt(p)
      PROVE  AheadInv'
  <2>1. \A x \in Places' : Fr(x)'.role = "serial" =>
           /\ x \in Places /\ Fr(x).role = "serial"
           /\ Fr(x)'.loop = Fr(x).loop /\ Fr(x)'.idx \in Nat /\ Fr(x)'.idx >= Fr(x).idx
    BY <1>1, <1>16 DEF Frame, Role, At, ReturnAt, Drops, Untouched, FrLoop
  <2>. QED  BY <1>2, <1>16, <2>1, AheadKept DEF ReturnAt, Drops, Untouched, FrLoop
<1>. QED  BY <1>3, <1>4, <1>5, <1>6, <1>7, <1>8, <1>9, <1>10, <1>11, <1>12, <1>13, <1>14,
        <1>15, <1>16 DEF PlaceStep

\* The error of a call is one that a participant of this call threw.
LEMMA OwnErrorStep ==
    ASSUME Typed, FrameInv, CallerInv, CountInv, PoolInv, ErrorInv, PlaceStep
    PROVE  OwnErrorInv'
<1>1. \A x \in Places : /\ Fr(x) \in Frame /\ Fr(x).loop \in Loop /\ Fr(x).role \in Role
                           /\ Fr(x).at \in At /\ Fr(x).idx \in Nat
  BY PlaceType
<1>2. /\ result \in [Loop -> {"none", "open", "returned", "threw"}]
      /\ thrown = [k \in Loop |-> thrown[k]] /\ firstError = [k \in Loop |-> firstError[k]]
      /\ \A k \in Loop : None \notin thrown[k]
  BY ParallelForConstants DEF Typed, TypeOK, Indices
<1>3. RecordInv /\ OwnErrorInv /\ ErrorReported
  BY DEF ErrorInv
<1>4. ASSUME NEW l \in Loop, EmptyCall(l)
      PROVE  OwnErrorInv'
  BY <1>1, <1>2, <1>3, <1>4 DEF OwnErrorInv, FrameInv, RecordInv, PoolInv, EmptyCall,
        IsEmpty, Untouched
<1>5. ASSUME NEW l \in Loop, NEW q, FirstCall(q, l)
      PROVE  OwnErrorInv'
  BY <1>1, <1>2, <1>3, <1>5 DEF OwnErrorInv, FrameInv, RecordInv, PoolInv, FirstCall,
        Opens, Adds, Untouched, FirstFrame
<1>6. ASSUME NEW l \in Loop, NEW q, TakeAt(q, l)
      PROVE  OwnErrorInv'
  BY <1>1, <1>2, <1>3, <1>6 DEF OwnErrorInv, FrameInv, RecordInv, PoolInv, TakeAt, Adds,
        Untouched, CopyOf
<1>7. ASSUME NEW p, SubmitAt(p)
      PROVE  OwnErrorInv'
  BY <1>1, <1>2, <1>3, <1>7 DEF OwnErrorInv, FrameInv, RecordInv, PoolInv, SubmitAt,
        Moves, Untouched, Same, FrLoop
<1>8. ASSUME NEW p, FetchAt(p)
      PROVE  OwnErrorInv'
  BY <1>1, <1>2, <1>3, <1>8 DEF OwnErrorInv, FrameInv, RecordInv, PoolInv, FetchAt,
        Moves, Untouched, FrLoop
<1>9. ASSUME NEW p, PlainBody(p)
      PROVE  OwnErrorInv'
  BY <1>1, <1>2, <1>3, <1>9 DEF OwnErrorInv, FrameInv, RecordInv, PoolInv, PlainBody,
        BodyAt, Moves, Untouched, Same, FrLoop
<1>10. ASSUME NEW p, NEW l \in Loop, EmptyBody(p, l)
      PROVE  OwnErrorInv'
  BY <1>1, <1>2, <1>3, <1>10 DEF OwnErrorInv, FrameInv, RecordInv, PoolInv, EmptyBody,
        IsEmpty, BodyAt, Moves, Untouched, Same, FrLoop
<1>11. ASSUME NEW p, NEW q, NEW l \in Loop, NestedBody(p, q, l)
      PROVE  OwnErrorInv'
  BY <1>1, <1>2, <1>3, <1>11 DEF OwnErrorInv, FrameInv, RecordInv, PoolInv, NestedBody,
        Opens, BodyAt, MovesAdds, Untouched, Same, FrLoop, FirstFrame
<1>12. ASSUME NEW p, NEW threw \in BOOLEAN, EndAt(p, threw)
      PROVE  OwnErrorInv'
  BY <1>1, <1>2, <1>3, <1>12 DEF OwnErrorInv, FrameInv, RecordInv, PoolInv, EndAt,
        ThrownBy, Moves, Untouched, Same, FrLoop
<1>13. ASSUME NEW p, NEW threw \in BOOLEAN, SerialEnd(p, threw)
      PROVE  OwnErrorInv'
  BY <1>1, <1>2, <1>3, <1>13 DEF OwnErrorInv, FrameInv, RecordInv, PoolInv, SerialEnd,
        ThrownBy, Drops, Untouched, FrLoop
<1>14. ASSUME NEW p, SerialNext(p)
      PROVE  OwnErrorInv'
  BY <1>1, <1>2, <1>3, <1>14 DEF OwnErrorInv, FrameInv, RecordInv, PoolInv, SerialNext,
        ThrownBy, Moves, Untouched, FrLoop
<1>15. ASSUME NEW p, RecordAt(p)
      PROVE  OwnErrorInv'
  BY <1>1, <1>2, <1>3, <1>15 DEF OwnErrorInv, FrameInv, RecordInv, PoolInv, RecordAt,
        Moves, Untouched, Same, FrLoop
<1>16. ASSUME NEW p, LeaveAt(p)
      PROVE  OwnErrorInv'
  BY <1>1, <1>2, <1>3, <1>16 DEF OwnErrorInv, FrameInv, RecordInv, PoolInv, LeaveAt,
        Moves, Drops, Untouched, Same, FrLoop
<1>17. ASSUME NEW p, ReturnAt(p)
      PROVE  OwnErrorInv'
  BY <1>1, <1>2, <1>3, <1>17 DEF OwnErrorInv, FrameInv, RecordInv, PoolInv, ReturnAt,
        Drops, Untouched, FrLoop
<1>. QED  BY <1>4, <1>5, <1>6, <1>7, <1>8, <1>9, <1>10, <1>11, <1>12, <1>13, <1>14,
        <1>15, <1>16, <1>17 DEF PlaceStep

\* A call that ends reports an error if and only if one was thrown.
LEMMA ReportedStep ==
    ASSUME Typed, FrameInv, CallerInv, CountInv, PoolInv, ErrorInv, PlaceStep
    PROVE  ErrorReported'
<1>1. \A x \in Places : /\ Fr(x) \in Frame /\ Fr(x).loop \in Loop /\ Fr(x).role \in Role
                           /\ Fr(x).at \in At /\ Fr(x).idx \in Nat
  BY PlaceType
<1>2. /\ result \in [Loop -> {"none", "open", "returned", "threw"}]
      /\ thrown = [k \in Loop |-> thrown[k]] /\ firstError = [k \in Loop |-> firstError[k]]
      /\ \A k \in Loop : None \notin thrown[k]
  BY ParallelForConstants DEF Typed, TypeOK, Indices
<1>3. RecordInv /\ OwnErrorInv /\ ErrorReported
  BY DEF ErrorInv
<1>4. ASSUME NEW l \in Loop, EmptyCall(l)
      PROVE  ErrorReported'
  BY <1>1, <1>2, <1>3, <1>4 DEF ErrorReported, Closed, OwnErrorInv, FrameInv, PoolInv,
        EmptyCall, IsEmpty, Untouched
<1>5. ASSUME NEW l \in Loop, NEW q, FirstCall(q, l)
      PROVE  ErrorReported'
  BY <1>1, <1>2, <1>3, <1>5 DEF ErrorReported, Closed, OwnErrorInv, FrameInv, PoolInv,
        FirstCall, Opens, Adds, Untouched, FirstFrame
<1>6. ASSUME NEW l \in Loop, NEW q, TakeAt(q, l)
      PROVE  ErrorReported'
  BY <1>1, <1>2, <1>3, <1>6 DEF ErrorReported, Closed, OwnErrorInv, FrameInv, PoolInv,
        TakeAt, Adds, Untouched, CopyOf
<1>7. ASSUME NEW p, SubmitAt(p)
      PROVE  ErrorReported'
  BY <1>1, <1>2, <1>3, <1>7 DEF ErrorReported, Closed, OwnErrorInv, FrameInv, PoolInv,
        SubmitAt, Moves, Untouched, Same, FrLoop
<1>8. ASSUME NEW p, FetchAt(p)
      PROVE  ErrorReported'
  BY <1>1, <1>2, <1>3, <1>8 DEF ErrorReported, Closed, OwnErrorInv, FrameInv, PoolInv,
        FetchAt, Moves, Untouched, FrLoop
<1>9. ASSUME NEW p, PlainBody(p)
      PROVE  ErrorReported'
  BY <1>1, <1>2, <1>3, <1>9 DEF ErrorReported, Closed, OwnErrorInv, FrameInv, PoolInv,
        PlainBody, BodyAt, Moves, Untouched, Same, FrLoop
<1>10. ASSUME NEW p, NEW l \in Loop, EmptyBody(p, l)
      PROVE  ErrorReported'
  BY <1>1, <1>2, <1>3, <1>10 DEF ErrorReported, Closed, OwnErrorInv, FrameInv, PoolInv,
        EmptyBody, IsEmpty, BodyAt, Moves, Untouched, Same, FrLoop
<1>11. ASSUME NEW p, NEW q, NEW l \in Loop, NestedBody(p, q, l)
      PROVE  ErrorReported'
  BY <1>1, <1>2, <1>3, <1>11 DEF ErrorReported, Closed, OwnErrorInv, FrameInv, PoolInv,
        NestedBody, Opens, BodyAt, MovesAdds, Untouched, Same, FrLoop, FirstFrame
<1>12. ASSUME NEW p, NEW threw \in BOOLEAN, EndAt(p, threw)
      PROVE  ErrorReported'
  BY <1>1, <1>2, <1>3, <1>12 DEF ErrorReported, Closed, OwnErrorInv, FrameInv, PoolInv,
        EndAt, ThrownBy, Moves, Untouched, Same, FrLoop
<1>13. ASSUME NEW p, NEW threw \in BOOLEAN, SerialEnd(p, threw)
      PROVE  ErrorReported'
  BY <1>1, <1>2, <1>3, <1>13 DEF ErrorReported, Closed, OwnErrorInv, FrameInv, PoolInv,
        SerialEnd, ThrownBy, Drops, Untouched, FrLoop
<1>14. ASSUME NEW p, SerialNext(p)
      PROVE  ErrorReported'
  BY <1>1, <1>2, <1>3, <1>14 DEF ErrorReported, Closed, OwnErrorInv, FrameInv, PoolInv,
        SerialNext, ThrownBy, Moves, Untouched, FrLoop
<1>15. ASSUME NEW p, RecordAt(p)
      PROVE  ErrorReported'
  BY <1>1, <1>2, <1>3, <1>15 DEF ErrorReported, Closed, OwnErrorInv, FrameInv, PoolInv,
        RecordAt, Moves, Untouched, Same, FrLoop
<1>16. ASSUME NEW p, LeaveAt(p)
      PROVE  ErrorReported'
  BY <1>1, <1>2, <1>3, <1>16 DEF ErrorReported, Closed, OwnErrorInv, FrameInv, PoolInv,
        LeaveAt, Moves, Drops, Untouched, Same, FrLoop
<1>17. ASSUME NEW p, ReturnAt(p)
      PROVE  ErrorReported'
  <2>1. PICK k \in Loop : k = Fr(p).loop
    BY <1>1, <1>17 DEF ReturnAt, Drops
  <2>2. ~ Serial(k) /\ p \in Places /\ Fr(p).at = "help"
        /\ \A x \in Places : x # p => Fr(x).loop # k
    BY <1>17, <2>1, NooneLeft DEF ReturnAt, Drops, FrLoop
  <2>3. thrown[k] # {} => firstError[k] # None
    BY <1>3, <2>1, <2>2 DEF RecordInv, Inside
  <2>4. firstError[k] \in thrown[k] \cup {None}
    BY <1>3 DEF OwnErrorInv
  <2>5. /\ result'[k] = IF firstError[k] = None THEN "returned" ELSE "threw"
        /\ \A m \in Loop : m # k => result'[m] = result[m]
        /\ UNCHANGED <<thrown, firstError>>
    BY <1>2, <1>17, <2>1 DEF ReturnAt, FrLoop
  <2>. QED  BY <1>3, <2>3, <2>4, <2>5 DEF ErrorReported, Closed
<1>. QED  BY <1>4, <1>5, <1>6, <1>7, <1>8, <1>9, <1>10, <1>11, <1>12, <1>13, <1>14,
        <1>15, <1>16, <1>17 DEF PlaceStep

\* Whoever threw is about to record it, or an error is recorded.
LEMMA RecordStep ==
    ASSUME Typed, FrameInv, CallerInv, CountInv, PoolInv, ErrorInv, PlaceStep
    PROVE  RecordInv'
<1>1. \A x \in Places : /\ Fr(x) \in Frame /\ Fr(x).loop \in Loop /\ Fr(x).role \in Role
                           /\ Fr(x).at \in At /\ Fr(x).idx \in Nat
  BY PlaceType
<1>2. /\ result \in [Loop -> {"none", "open", "returned", "threw"}]
      /\ thrown = [k \in Loop |-> thrown[k]] /\ firstError = [k \in Loop |-> firstError[k]]
      /\ \A k \in Loop : None \notin thrown[k]
  BY ParallelForConstants DEF Typed, TypeOK, Indices
<1>3. RecordInv /\ OwnErrorInv /\ ErrorReported
  BY DEF ErrorInv
<1>4. ASSUME NEW l \in Loop, EmptyCall(l)
      PROVE  RecordInv'
  BY <1>1, <1>2, <1>3, <1>4 DEF RecordInv, Inside, FrameInv, PoolInv, Role, At, Frame,
        EmptyCall, IsEmpty, Untouched
<1>5. ASSUME NEW l \in Loop, NEW q, FirstCall(q, l)
      PROVE  RecordInv'
  BY <1>1, <1>2, <1>3, <1>5 DEF RecordInv, Inside, FrameInv, PoolInv, Role, At, Frame,
        FirstCall, Opens, Adds, Untouched, FirstFrame
<1>6. ASSUME NEW l \in Loop, NEW q, TakeAt(q, l)
      PROVE  RecordInv'
  BY <1>1, <1>2, <1>3, <1>6 DEF RecordInv, Inside, FrameInv, PoolInv, Role, At, Frame,
        TakeAt, Adds, Untouched, CopyOf
<1>7. ASSUME NEW p, SubmitAt(p)
      PROVE  RecordInv'
  BY <1>1, <1>2, <1>3, <1>7 DEF RecordInv, Inside, FrameInv, PoolInv, Role, At, Frame,
        SubmitAt, Moves, Untouched, Same, FrLoop
<1>8. ASSUME NEW p, FetchAt(p)
      PROVE  RecordInv'
  <2>1. /\ p \in Places /\ Places' = Places /\ \A x \in Places : x # p => Fr(x)' = Fr(x)
        /\ UNCHANGED <<thrown, firstError>> /\ Fr(p).at # "record"
    BY <1>2, <1>8 DEF FetchAt, ThrownBy, Moves, Untouched, FrLoop
  <2>2. Fr(p)'.at # "record"
    BY <1>1, <1>8, <2>1 DEF FetchAt, Moves, Frame
  <2>. QED  BY <1>3, <2>1, <2>2 DEF RecordInv, Inside
<1>9. ASSUME NEW p, PlainBody(p)
      PROVE  RecordInv'
  BY <1>1, <1>2, <1>3, <1>9 DEF RecordInv, Inside, FrameInv, PoolInv, Role, At, Frame,
        PlainBody, BodyAt, Moves, Untouched, Same, FrLoop
<1>10. ASSUME NEW p, NEW l \in Loop, EmptyBody(p, l)
      PROVE  RecordInv'
  BY <1>1, <1>2, <1>3, <1>10 DEF RecordInv, Inside, FrameInv, PoolInv, Role, At, Frame,
        EmptyBody, IsEmpty, BodyAt, Moves, Untouched, Same, FrLoop
<1>11. ASSUME NEW p, NEW q, NEW l \in Loop, NestedBody(p, q, l)
      PROVE  RecordInv'
  BY <1>1, <1>2, <1>3, <1>11 DEF RecordInv, Inside, FrameInv, PoolInv, Role, At, Frame,
        NestedBody, Opens, BodyAt, MovesAdds, Untouched, Same, FrLoop, FirstFrame
<1>12. ASSUME NEW p, NEW threw \in BOOLEAN, EndAt(p, threw)
      PROVE  RecordInv'
  BY <1>1, <1>2, <1>3, <1>12 DEF RecordInv, Inside, FrameInv, PoolInv, Role, At, Frame,
        EndAt, ThrownBy, Moves, Untouched, Same, FrLoop
<1>13. ASSUME NEW p, NEW threw \in BOOLEAN, SerialEnd(p, threw)
      PROVE  RecordInv'
  BY <1>1, <1>2, <1>3, <1>13 DEF RecordInv, Inside, FrameInv, PoolInv, Role, At, Frame,
        SerialEnd, ThrownBy, Drops, Untouched, FrLoop
<1>14. ASSUME NEW p, SerialNext(p)
      PROVE  RecordInv'
  <2>1. /\ p \in Places /\ Places' = Places /\ \A x \in Places : x # p => Fr(x)' = Fr(x)
        /\ UNCHANGED <<thrown, firstError>> /\ Fr(p).at # "record"
    BY <1>2, <1>14 DEF SerialNext, ThrownBy, Moves, Untouched, FrLoop
  <2>2. Fr(p)'.at # "record"
    BY <1>1, <1>14, <2>1 DEF SerialNext, Moves, Frame
  <2>. QED  BY <1>3, <2>1, <2>2 DEF RecordInv, Inside
<1>15. ASSUME NEW p, RecordAt(p)
      PROVE  RecordInv'
  BY <1>1, <1>2, <1>3, <1>15 DEF RecordInv, Inside, FrameInv, PoolInv, Role, At, Frame,
        RecordAt, Moves, Untouched, Same, FrLoop
<1>16. ASSUME NEW p, LeaveAt(p)
      PROVE  RecordInv'
  BY <1>1, <1>2, <1>3, <1>16 DEF RecordInv, Inside, FrameInv, PoolInv, Role, At, Frame,
        LeaveAt, Moves, Drops, Untouched, Same, FrLoop
<1>17. ASSUME NEW p, ReturnAt(p)
      PROVE  RecordInv'
  BY <1>1, <1>2, <1>3, <1>17 DEF RecordInv, Inside, FrameInv, PoolInv, Role, At, Frame,
        ReturnAt, Drops, Untouched, FrLoop
<1>. QED  BY <1>4, <1>5, <1>6, <1>7, <1>8, <1>9, <1>10, <1>11, <1>12, <1>13, <1>14,
        <1>15, <1>16, <1>17 DEF PlaceStep

\* A step that leaves alone what the count of loop k is made of.
CountStays(k) ==
    /\ Present(k)' = Present(k) /\ (result'[k] = "open" => result[k] = "open")
    /\ remaining'[k] = remaining[k] /\ inPool'[k] = inPool[k]
    /\ \A x : Submits(x, k)' <=> Submits(x, k)
    /\ \A x : Submits(x, k) => Fr(x)'.idx = Fr(x).idx

\* A step that keeps the numbers and the set of those present keeps the count.
LEMMA CountKept ==
    ASSUME NEW k \in Loop, CountOf(k), CountStays(k)
    PROVE  CountOf(k)'
<1>1. \A x \in Places' : Submits(x, k)' => x \in Places /\ Submits(x, k)
  BY DEF CountStays, Submits, Inside
<1>2. \A x \in Places : Submits(x, k) => x \in Places' /\ Submits(x, k)'
  BY DEF CountStays, Submits, Inside
<1>. QED  BY <1>1, <1>2 DEF CountOf, CountStays

\* Nobody takes part in a loop that was not called yet.
LEMMA NobodyThere ==
    ASSUME Typed, FrameInv, PoolInv, NEW l \in Loop, result[l] = "none"
    PROVE  Present(l) = {} /\ inPool[l] = 0 /\ \A x : ~ Submits(x, l)
<1>1. \A x \in Places : Fr(x).loop # l
  BY OthersElsewhere
<1>2. inPool[l] = 0
  <2>1. inPool[l] \in Nat /\ ~ (inPool[l] > 0)
    BY DEF PoolInv, Typed, TypeOK
  <2>. QED  BY <2>1
<1>. QED  BY <1>1, <1>2 DEF Present, Submits, Inside


\* `remaining` goes on counting what it counts.
LEMMA CountStep ==
    ASSUME Typed, FrameInv, CallerInv, PoolInv, CountInv, PlaceStep
    PROVE  CountInv'
<1>1. \A x \in Places : /\ Fr(x) \in Frame /\ Fr(x).loop \in Loop /\ Fr(x).role \in Role
                           /\ Fr(x).at \in At /\ Fr(x).idx \in Nat
  BY PlaceType
<1>2. /\ result \in [Loop -> {"none", "open", "returned", "threw"}]
      /\ inPool \in [Loop -> Nat] /\ remaining \in [Loop -> Nat]
      /\ \A k \in Loop : Spawned(k) \in Nat /\ CountOf(k)
  BY SpawnedType DEF Typed, TypeOK, CountInv
<1>3. ASSUME NEW l \in Loop, EmptyCall(l)
      PROVE  CountInv'
  <2>1. \A k \in Loop : CountStays(k)
    BY <1>1, <1>2, <1>3 DEF CountStays, Present, Submits, Inside, FrameInv, Role, At,
          Frame, EmptyCall, IsEmpty, Untouched
  <2>. QED  BY <1>2, <2>1, CountKept DEF CountInv
<1>4. ASSUME NEW l \in Loop, NEW q, FirstCall(q, l)
      PROVE  CountInv'
  <2>1. /\ Places' = Places \cup {q} /\ \A x \in Places : Fr(x)' = Fr(x)
        /\ q \notin Places /\ Fr(q)' = FirstFrame(l)
        /\ result[l] = "none" /\ Count[l] # 0 /\ UNCHANGED inPool
        /\ \A k \in Loop : k # l => result'[k] = result[k] /\ remaining'[k] = remaining[k]
        /\ remaining'[l] = IF Serial(l) THEN 0 ELSE Spawned(l) + 1
    BY <1>2, <1>4 DEF FirstCall, Adds, Opens, Untouched, Participants
  <2>2. /\ Fr(q)'.loop = l /\ Fr(q)'.idx = 0
        /\ Fr(q)'.role = IF Serial(l) THEN "serial" ELSE "caller"
        /\ Fr(q)'.at = IF Serial(l) THEN "body" ELSE "submit"
    BY <2>1 DEF FirstFrame
  <2>3. \A x \in Places : /\ Fr(x)'.loop = Fr(x).loop /\ Fr(x)'.role = Fr(x).role
                            /\ Fr(x)'.idx = Fr(x).idx
                            /\ \/ Fr(x)'.at = Fr(x).at
                               \/ Fr(x)'.at \notin {"submit", "help"} /\ Fr(x).at \notin {"submit", "help"}
    BY <2>1
  <2>4. ASSUME NEW k \in Loop, k # l
        PROVE  CountOf(k)'
    <3>1. CountStays(k)
      BY <1>1, <2>1, <2>2, <2>3, <2>4 DEF CountStays, Present, Submits, Inside
    <3>. QED  BY <1>2, <3>1, CountKept
  <2>5. Present(l) = {} /\ inPool[l] = 0 /\ \A x : ~ Submits(x, l)
    BY <2>1, NobodyThere
  <2>6. \A x \in Places : Fr(x)'.loop # l
    BY <2>1, <2>3, OthersElsewhere
  <2>7. CountOf(l)'
    <3>1. CASE Serial(l)
      <4>1. Present(l)' = {}
        BY <2>1, <2>2, <2>6, <3>1 DEF Present
      <4>2. IsFiniteSet(Present(l))'
        BY <4>1, FS_EmptySet
      <4>. QED  BY <3>1, <4>2 DEF CountOf
    <3>2. CASE ~ Serial(l)
      <4>1. Present(l)' = {q}
        BY <2>1, <2>2, <2>6, <3>2 DEF Present
      <4>2. IsFiniteSet(Present(l)') /\ Cardinality(Present(l)') = 1
        BY <4>1, FS_Singleton
      <4>3. \A x : Submits(x, l)' <=> x = q
        BY <2>1, <2>2, <2>6, <3>2 DEF Submits, Inside
      <4>4. q \in Places' /\ Spawned(l) \in Nat
        BY <1>2, <2>1
      <4>5. remaining'[l] = inPool'[l] + 1 + Spawned(l) - 0
        BY <2>1, <2>5, <3>2, <4>4
      <4>. QED  BY <2>2, <4>2, <4>3, <4>4, <4>5 DEF CountOf
    <3>. QED  BY <3>1, <3>2
  <2>. QED  BY <2>4, <2>7 DEF CountInv
<1>5. ASSUME NEW l \in Loop, NEW q, TakeAt(q, l)
      PROVE  CountInv'
  <2>1. /\ Places' = Places \cup {q} /\ \A x \in Places : Fr(x)' = Fr(x)
        /\ q \notin Places /\ Fr(q)'.loop = l /\ Fr(q)'.role = "copy" /\ Fr(q)'.at = "fetch"
        /\ UNCHANGED <<remaining, result>> /\ inPool[l] > 0 /\ inPool'[l] = inPool[l] - 1
        /\ \A k \in Loop : k # l => inPool'[k] = inPool[k]
    BY <1>2, <1>5 DEF TakeAt, Adds, Untouched, CopyOf
  <2>2. ASSUME NEW k \in Loop, k # l
        PROVE  CountOf(k)'
    <3>1. CountStays(k)
      BY <1>1, <2>1, <2>2 DEF CountStays, Present, Submits, Inside
    <3>. QED  BY <1>2, <3>1, CountKept
  <2>3. Present(l)' = Present(l) \cup {q} /\ q \notin Present(l)
    BY <2>1 DEF Present
  <2>4. /\ IsFiniteSet(Present(l)) /\ IsFiniteSet(Present(l)')
        /\ Cardinality(Present(l)') = Cardinality(Present(l)) + 1
        /\ Cardinality(Present(l)) \in Nat
    BY <1>2, <2>3, FS_AddElement, FS_CardinalityType DEF CountOf
  <2>5. \A x : (Submits(x, l)' <=> Submits(x, l)) /\ (Submits(x, l) => Fr(x)'.idx = Fr(x).idx)
    BY <2>1 DEF Submits, Inside
  <2>6. CountOf(l)'
    <3>1. inPool'[l] + Cardinality(Present(l)') = inPool[l] + Cardinality(Present(l))
      BY <1>2, <2>1, <2>4
    <3>2. SUFFICES ASSUME result'[l] = "open", ~ Serial(l)
                   PROVE  /\ \A x \in Places' : Submits(x, l)' =>
                                remaining'[l] = inPool'[l] + Cardinality(Present(l)')
                                                + Spawned(l) - Fr(x)'.idx
                          /\ (\A x \in Places' : ~ Submits(x, l)') =>
                                remaining'[l] = inPool'[l] + Cardinality(Present(l)')
      BY <2>4 DEF CountOf
    <3>. QED  BY <1>2, <2>1, <2>5, <3>1, <3>2 DEF CountOf, Submits, Inside
  <2>. QED  BY <2>2, <2>6 DEF CountInv
<1>6. ASSUME NEW p, SubmitAt(p)
      PROVE  CountInv'
  <2>1. PICK l \in Loop, i \in Nat : l = Fr(p).loop /\ i = Fr(p).idx
    BY <1>1, <1>6 DEF SubmitAt, Moves
  <2>2. /\ p \in Places /\ Places' = Places /\ \A x \in Places : x # p => Fr(x)' = Fr(x)
        /\ UNCHANGED <<remaining, result>> /\ inPool'[l] = inPool[l] + 1
        /\ \A k \in Loop : k # l => inPool'[k] = inPool[k]
        /\ Fr(p).at = "submit" /\ Fr(p).role = "caller"
    BY <1>2, <2>1, <1>6 DEF SubmitAt, Moves, Untouched, FrLoop, FrameInv
  <2>3. /\ Fr(p)'.loop = l /\ Fr(p)'.role = "caller"
        /\ i + 1 = Spawned(l) => Fr(p)'.at = "fetch"
        /\ i + 1 # Spawned(l) => Fr(p)'.at = "submit" /\ Fr(p)'.idx = i + 1
    BY <1>1, <2>1, <2>2, <1>6 DEF SubmitAt, Moves, Same, Frame, FrLoop
  <2>4. ASSUME NEW k \in Loop, k # l
        PROVE  CountOf(k)'
    <3>1. CountStays(k)
      BY <1>1, <2>1, <2>2, <2>3, <2>4 DEF CountStays, Present, Submits, Inside
    <3>. QED  BY <1>2, <3>1, CountKept
  <2>5. Present(l)' = Present(l)
    BY <2>1, <2>2, <2>3 DEF Present
  <2>6. \A x : Submits(x, l) => x = p
    BY <2>1, <2>2 DEF Submits, Inside, CallerInv, FrameInv
  <2>7. Submits(p, l)
    BY <2>1, <2>2 DEF Submits, Inside
  <2>8. /\ result[l] = "open" /\ ~ Serial(l) =>
              remaining[l] = inPool[l] + Cardinality(Present(l)) + Spawned(l) - i
        /\ IsFiniteSet(Present(l)) /\ Cardinality(Present(l)) \in Nat
    BY <1>2, <2>1, <2>2, <2>7, FS_CardinalityType DEF CountOf
  <2>9. \A x : Submits(x, l)' => x = p /\ i + 1 # Spawned(l) /\ Fr(x)'.idx = i + 1
    BY <2>2, <2>3, <2>6 DEF Submits, Inside
  <2>10. i + 1 # Spawned(l) => Submits(p, l)'
    BY <2>2, <2>3 DEF Submits, Inside
  <2>11. ASSUME result'[l] = "open", ~ Serial(l)
         PROVE  /\ i + 1 # Spawned(l) =>
                     remaining'[l] = inPool'[l] + Cardinality(Present(l)') + Spawned(l) - (i + 1)
                /\ i + 1 = Spawned(l) => remaining'[l] = inPool'[l] + Cardinality(Present(l)')
    BY <1>2, <2>2, <2>5, <2>8, <2>11
  <2>12. CountOf(l)'
    BY <2>2, <2>5, <2>8, <2>9, <2>10, <2>11 DEF CountOf
  <2>. QED  BY <2>4, <2>12 DEF CountInv
<1>7. ASSUME NEW p, FetchAt(p)
      PROVE  CountInv'
  <2>1. /\ p \in Places /\ Places' = Places /\ \A x \in Places : x # p => Fr(x)' = Fr(x)
        /\ UNCHANGED <<remaining, inPool, result>> /\ Fr(p).at \in {"fetch", "inner"}
    BY <1>7 DEF FetchAt, ThrownBy, Moves, Untouched
  <2>2. /\ Fr(p)'.loop = Fr(p).loop /\ Fr(p)'.role = Fr(p).role
        /\ Fr(p)'.at \in {"leave", "body"}
    BY <1>1, <1>7, <2>1 DEF FetchAt, Moves, Frame
  <2>3. \A k \in Loop : CountStays(k)
    BY <2>1, <2>2 DEF CountStays, Present, Submits, Inside
  <2>. QED  BY <1>2, <2>3, CountKept DEF CountInv
<1>8. ASSUME NEW p, PlainBody(p)
      PROVE  CountInv'
  <2>1. \A k \in Loop : CountStays(k)
    BY <1>1, <1>2, <1>8 DEF CountStays, Present, Submits, Inside, FrameInv, Role, At,
          Frame, PlainBody, BodyAt, Moves, Untouched, Same, FrLoop
  <2>. QED  BY <1>2, <2>1, CountKept DEF CountInv
<1>9. ASSUME NEW p, NEW l \in Loop, EmptyBody(p, l)
      PROVE  CountInv'
  <2>1. \A k \in Loop : CountStays(k)
    BY <1>1, <1>2, <1>9 DEF CountStays, Present, Submits, Inside, FrameInv, Role, At,
          Frame, EmptyBody, IsEmpty, BodyAt, Moves, Untouched, Same, FrLoop
  <2>. QED  BY <1>2, <2>1, CountKept DEF CountInv
<1>10. ASSUME NEW p, NEW q, NEW l \in Loop, NestedBody(p, q, l)
      PROVE  CountInv'
  <2>1. /\ Places' = Places \cup {q} /\ \A x \in Places : x # p => Fr(x)' = Fr(x)
        /\ q \notin Places /\ Fr(q)' = FirstFrame(l)
        /\ result[l] = "none" /\ Count[l] # 0 /\ UNCHANGED inPool
        /\ \A k \in Loop : k # l => result'[k] = result[k] /\ remaining'[k] = remaining[k]
        /\ remaining'[l] = IF Serial(l) THEN 0 ELSE Spawned(l) + 1
    BY <1>2, <1>10 DEF NestedBody, BodyAt, MovesAdds, Opens, Untouched, Participants
  <2>2. /\ Fr(q)'.loop = l /\ Fr(q)'.idx = 0
        /\ Fr(q)'.role = IF Serial(l) THEN "serial" ELSE "caller"
        /\ Fr(q)'.at = IF Serial(l) THEN "body" ELSE "submit"
    BY <2>1 DEF FirstFrame
  <2>3. \A x \in Places : /\ Fr(x)'.loop = Fr(x).loop /\ Fr(x)'.role = Fr(x).role
                            /\ Fr(x)'.idx = Fr(x).idx
                            /\ \/ Fr(x)'.at = Fr(x).at
                               \/ Fr(x)'.at \notin {"submit", "help"} /\ Fr(x).at \notin {"submit", "help"}
    BY <1>1, <2>1, <1>10 DEF NestedBody, BodyAt, MovesAdds, Same, Frame
  <2>4. ASSUME NEW k \in Loop, k # l
        PROVE  CountOf(k)'
    <3>1. CountStays(k)
      BY <1>1, <2>1, <2>2, <2>3, <2>4 DEF CountStays, Present, Submits, Inside
    <3>. QED  BY <1>2, <3>1, CountKept
  <2>5. Present(l) = {} /\ inPool[l] = 0 /\ \A x : ~ Submits(x, l)
    BY <2>1, NobodyThere
  <2>6. \A x \in Places : Fr(x)'.loop # l
    BY <2>1, <2>3, OthersElsewhere
  <2>7. CountOf(l)'
    <3>1. CASE Serial(l)
      <4>1. Present(l)' = {}
        BY <2>1, <2>2, <2>6, <3>1 DEF Present
      <4>2. IsFiniteSet(Present(l))'
        BY <4>1, FS_EmptySet
      <4>. QED  BY <3>1, <4>2 DEF CountOf
    <3>2. CASE ~ Serial(l)
      <4>1. Present(l)' = {q}
        BY <2>1, <2>2, <2>6, <3>2 DEF Present
      <4>2. IsFiniteSet(Present(l)') /\ Cardinality(Present(l)') = 1
        BY <4>1, FS_Singleton
      <4>3. \A x : Submits(x, l)' <=> x = q
        BY <2>1, <2>2, <2>6, <3>2 DEF Submits, Inside
      <4>4. q \in Places' /\ Spawned(l) \in Nat
        BY <1>2, <2>1
      <4>5. remaining'[l] = inPool'[l] + 1 + Spawned(l) - 0
        BY <2>1, <2>5, <3>2, <4>4
      <4>. QED  BY <2>2, <4>2, <4>3, <4>4, <4>5 DEF CountOf
    <3>. QED  BY <3>1, <3>2
  <2>. QED  BY <2>4, <2>7 DEF CountInv
<1>11. ASSUME NEW p, NEW threw \in BOOLEAN, EndAt(p, threw)
      PROVE  CountInv'
  <2>1. \A k \in Loop : CountStays(k)
    BY <1>1, <1>2, <1>11 DEF CountStays, Present, Submits, Inside, FrameInv, Role, At,
          Frame, EndAt, ThrownBy, Moves, Untouched, Same, FrLoop
  <2>. QED  BY <1>2, <2>1, CountKept DEF CountInv
<1>12. ASSUME NEW p, NEW threw \in BOOLEAN, SerialEnd(p, threw)
      PROVE  CountInv'
  <2>1. \A k \in Loop : CountStays(k)
    BY <1>1, <1>2, <1>12 DEF CountStays, Present, Submits, Inside, FrameInv, Role, At,
          Frame, SerialEnd, ThrownBy, Drops, Untouched, FrLoop
  <2>. QED  BY <1>2, <2>1, CountKept DEF CountInv
<1>13. ASSUME NEW p, SerialNext(p)
      PROVE  CountInv'
  <2>1. /\ p \in Places /\ Places' = Places /\ \A x \in Places : x # p => Fr(x)' = Fr(x)
        /\ UNCHANGED <<remaining, inPool, result>> /\ Fr(p).at \in {"fetch", "inner"}
    BY <1>13 DEF SerialNext, ThrownBy, Moves, Untouched
  <2>2. /\ Fr(p)'.loop = Fr(p).loop /\ Fr(p)'.role = Fr(p).role
        /\ Fr(p)'.at \in {"leave", "body"}
    BY <1>1, <1>13, <2>1 DEF SerialNext, Moves, Frame
  <2>3. \A k \in Loop : CountStays(k)
    BY <2>1, <2>2 DEF CountStays, Present, Submits, Inside
  <2>. QED  BY <1>2, <2>3, CountKept DEF CountInv
<1>14. ASSUME NEW p, RecordAt(p)
      PROVE  CountInv'
  <2>1. \A k \in Loop : CountStays(k)
    BY <1>1, <1>2, <1>14 DEF CountStays, Present, Submits, Inside, FrameInv, Role, At,
          Frame, RecordAt, Moves, Untouched, Same, FrLoop
  <2>. QED  BY <1>2, <2>1, CountKept DEF CountInv
<1>15. ASSUME NEW p, LeaveAt(p)
      PROVE  CountInv'
  <2>1. PICK l \in Loop : l = Fr(p).loop
    BY <1>1, <1>15 DEF LeaveAt, Moves, Drops
  <2>2. /\ p \in Places /\ \A x \in Places : x # p => Fr(x)' = Fr(x)
        /\ UNCHANGED <<inPool, result>> /\ remaining'[l] = remaining[l] - 1
        /\ \A k \in Loop : k # l => remaining'[k] = remaining[k]
        /\ Fr(p).at = "leave" /\ Fr(p).role \in {"caller", "copy"}
    BY <1>1, <1>2, <2>1, <1>15 DEF LeaveAt, Moves, Drops, Untouched, FrLoop, FrameInv, Role
  <2>3. \/ Places' = Places \ {p}
        \/ Places' = Places /\ Fr(p)'.loop = l /\ Fr(p)'.at = "help"
    BY <1>1, <2>1, <2>2, <1>15 DEF LeaveAt, Moves, Drops, Same, Frame
  <2>4. ASSUME NEW k \in Loop, k # l
        PROVE  CountOf(k)'
    <3>1. CountStays(k)
      BY <1>1, <2>1, <2>2, <2>3, <2>4 DEF CountStays, Present, Submits, Inside
    <3>. QED  BY <1>2, <3>1, CountKept
  <2>5. Present(l)' = Present(l) \ {p} /\ p \in Present(l)
    BY <2>1, <2>2, <2>3 DEF Present
  <2>6. /\ IsFiniteSet(Present(l)) /\ IsFiniteSet(Present(l)')
        /\ Cardinality(Present(l)') = Cardinality(Present(l)) - 1
        /\ Cardinality(Present(l)) \in Nat
    BY <1>2, <2>5, FS_RemoveElement, FS_CardinalityType DEF CountOf
  <2>7. \A x : (Submits(x, l)' <=> Submits(x, l)) /\ (Submits(x, l) => Fr(x)'.idx = Fr(x).idx)
    BY <2>1, <2>2, <2>3 DEF Submits, Inside
  <2>8. ASSUME NEW x, Submits(x, l)
        PROVE  x \in Places /\ x \in Places' /\ Fr(x).idx \in Nat
    BY <1>1, <2>2, <2>3, <2>8 DEF Submits, Inside
  <2>9. SUFFICES ASSUME result'[l] = "open", ~ Serial(l)
                 PROVE  /\ \A x \in Places' : Submits(x, l)' =>
                              remaining'[l] = inPool'[l] + Cardinality(Present(l)')
                                              + Spawned(l) - Fr(x)'.idx
                        /\ (\A x \in Places' : ~ Submits(x, l)') =>
                              remaining'[l] = inPool'[l] + Cardinality(Present(l)')
    BY <2>4, <2>6 DEF CountInv, CountOf
  <2>10. ASSUME NEW x \in Places', Submits(x, l)'
         PROVE  remaining'[l] = inPool'[l] + Cardinality(Present(l)') + Spawned(l) - Fr(x)'.idx
    <3>1. Submits(x, l) /\ x \in Places /\ Fr(x)'.idx = Fr(x).idx /\ Fr(x).idx \in Nat
      BY <2>7, <2>8, <2>10
    <3>2. remaining[l] = inPool[l] + Cardinality(Present(l)) + Spawned(l) - Fr(x).idx
      BY <1>2, <2>2, <2>9, <3>1 DEF CountOf
    <3>. QED  BY <1>2, <2>2, <2>6, <3>1, <3>2
  <2>11. ASSUME \A x \in Places' : ~ Submits(x, l)'
         PROVE  remaining'[l] = inPool'[l] + Cardinality(Present(l)')
    <3>1. \A x \in Places : ~ Submits(x, l)
      BY <2>7, <2>8, <2>11
    <3>2. remaining[l] = inPool[l] + Cardinality(Present(l))
      BY <1>2, <2>2, <2>9, <3>1 DEF CountOf
    <3>. QED  BY <1>2, <2>2, <2>6, <3>2
  <2>. QED  BY <2>10, <2>11
<1>16. ASSUME NEW p, ReturnAt(p)
      PROVE  CountInv'
  <2>1. \A k \in Loop : CountStays(k)
    BY <1>1, <1>2, <1>16 DEF CountStays, Present, Submits, Inside, FrameInv, Role, At,
          Frame, ReturnAt, Drops, Untouched, FrLoop
  <2>. QED  BY <1>2, <2>1, CountKept DEF CountInv
<1>. QED  BY <1>3, <1>4, <1>5, <1>6, <1>7, <1>8, <1>9, <1>10, <1>11, <1>12, <1>13, <1>14,
        <1>15, <1>16 DEF PlaceStep

\* TypeOK, as functions.
ErrorTyped == /\ firstError = [l \in Loop |-> firstError[l]]
              /\ \A l \in Loop : firstError[l] \in Indices(l) \cup {None}
AttemptsTyped == /\ attempts = [l \in Loop |-> attempts[l]]
                 /\ \A l \in Loop : attempts[l] \in [Indices(l) -> Nat]
ThrownTyped == /\ thrown = [l \in Loop |-> thrown[l]]
               /\ \A l \in Loop : thrown[l] \subseteq Indices(l)
NumbersTyped == /\ next \in [Loop -> Nat] /\ remaining \in [Loop -> Nat]
                /\ inPool \in [Loop -> Nat]
                /\ result \in [Loop -> {"none", "open", "returned", "threw"}]

\* The types by variable.
LEMMA TypedParts ==
    Typed <=> /\ NumbersTyped /\ ErrorTyped /\ AttemptsTyped /\ ThrownTyped
              /\ StacksTyped
BY DEF StacksTyped, Typed, TypeOK, NumbersTyped, ErrorTyped, AttemptsTyped, ThrownTyped

\* Whoever is about to leave is counted, so `remaining` does not wrap.
LEMMA LastOneCounted ==
    ASSUME Typed, FrameInv, CountInv, NEW p \in Places, Fr(p).at = "leave"
    PROVE  remaining[Fr(p).loop] - 1 \in Nat
<1>1. PICK l \in Loop : l = Fr(p).loop
  BY PlaceType
<1>2. result[l] = "open" /\ ~ Serial(l) /\ Fr(p).role \in {"caller", "copy"}
  BY <1>1, PlaceType DEF FrameInv, Role
<1>3. p \in Present(l)
  BY <1>1, <1>2 DEF Present
<1>4. PICK n : n = Cardinality(Present(l))
  OBVIOUS
<1>5. n \in Nat /\ n # 0 /\ CountOf(l)
  BY <1>3, <1>4, FS_CardinalityType, FS_EmptySet DEF CountInv, CountOf
<1>6. inPool[l] \in Nat /\ remaining[l] \in Nat /\ Spawned(l) \in Nat
  BY SpawnedType DEF Typed, TypeOK
<1>7. CASE \A x \in Places : ~ Submits(x, l)
  <2>1. remaining[l] = inPool[l] + n
    BY <1>2, <1>4, <1>5, <1>7 DEF CountOf
  <2>. QED  BY <1>1, <1>5, <1>6, <2>1
<1>8. CASE \E x \in Places : Submits(x, l)
  <2>1. PICK x \in Places : Submits(x, l)
    BY <1>8
  <2>2. remaining[l] = inPool[l] + n + Spawned(l) - Fr(x).idx
    BY <1>2, <1>4, <1>5, <2>1 DEF CountOf
  <2>3. Fr(x).idx \in Nat /\ Fr(x).idx < Spawned(l)
    BY <2>1, PlaceType DEF FrameInv, Submits, Inside
  <2>. QED  BY <1>1, <1>5, <1>6, <2>2, <2>3
<1>. QED  BY <1>7, <1>8


\* Each variable keeps its type.
LEMMA NumbersStep ==
    ASSUME Typed, FrameInv, CountInv, PlaceStep
    PROVE  NumbersTyped'
<1>1. \A x \in Places : /\ Fr(x) \in Frame /\ Fr(x).loop \in Loop /\ Fr(x).role \in Role
                           /\ Fr(x).at \in At /\ Fr(x).idx \in Nat
  BY PlaceType
<1>2. NumbersTyped /\ \A k \in Loop : Spawned(k) \in Nat
  BY SpawnedType, TypedParts
<1>3. ASSUME NEW l \in Loop, EmptyCall(l)
      PROVE  NumbersTyped'
  BY <1>1, <1>2, <1>3 DEF NumbersTyped, Participants, EmptyCall, IsEmpty, Untouched
<1>4. ASSUME NEW l \in Loop, NEW q, FirstCall(q, l)
      PROVE  NumbersTyped'
  BY <1>1, <1>2, <1>4 DEF NumbersTyped, Participants, FirstCall, Opens, Adds, Untouched,
        FirstFrame
<1>5. ASSUME NEW l \in Loop, NEW q, TakeAt(q, l)
      PROVE  NumbersTyped'
  BY <1>1, <1>2, <1>5 DEF NumbersTyped, Participants, TakeAt, Adds, Untouched, CopyOf
<1>6. ASSUME NEW p, SubmitAt(p)
      PROVE  NumbersTyped'
  BY <1>1, <1>2, <1>6 DEF NumbersTyped, Participants, SubmitAt, Moves, Untouched, Same,
        FrLoop
<1>7. ASSUME NEW p, FetchAt(p)
      PROVE  NumbersTyped'
  BY <1>1, <1>2, <1>7 DEF NumbersTyped, Participants, FetchAt, Moves, Untouched, FrLoop
<1>8. ASSUME NEW p, PlainBody(p)
      PROVE  NumbersTyped'
  BY <1>1, <1>2, <1>8 DEF NumbersTyped, Participants, PlainBody, BodyAt, Moves,
        Untouched, Same, FrLoop
<1>9. ASSUME NEW p, NEW l \in Loop, EmptyBody(p, l)
      PROVE  NumbersTyped'
  BY <1>1, <1>2, <1>9 DEF NumbersTyped, Participants, EmptyBody, IsEmpty, BodyAt, Moves,
        Untouched, Same, FrLoop
<1>10. ASSUME NEW p, NEW q, NEW l \in Loop, NestedBody(p, q, l)
      PROVE  NumbersTyped'
  BY <1>1, <1>2, <1>10 DEF NumbersTyped, Participants, NestedBody, Opens, BodyAt,
        MovesAdds, Untouched, Same, FrLoop, FirstFrame
<1>11. ASSUME NEW p, NEW threw \in BOOLEAN, EndAt(p, threw)
      PROVE  NumbersTyped'
  BY <1>1, <1>2, <1>11 DEF NumbersTyped, Participants, EndAt, ThrownBy, Moves, Untouched,
        Same, FrLoop
<1>12. ASSUME NEW p, NEW threw \in BOOLEAN, SerialEnd(p, threw)
      PROVE  NumbersTyped'
  BY <1>1, <1>2, <1>12 DEF NumbersTyped, Participants, SerialEnd, ThrownBy, Drops,
        Untouched, FrLoop
<1>13. ASSUME NEW p, SerialNext(p)
      PROVE  NumbersTyped'
  BY <1>1, <1>2, <1>13 DEF NumbersTyped, Participants, SerialNext, ThrownBy, Moves,
        Untouched, FrLoop
<1>14. ASSUME NEW p, RecordAt(p)
      PROVE  NumbersTyped'
  BY <1>1, <1>2, <1>14 DEF NumbersTyped, Participants, RecordAt, Moves, Untouched, Same,
        FrLoop
<1>15. ASSUME NEW p, LeaveAt(p)
      PROVE  NumbersTyped'
  <2>1. PICK l \in Loop, n \in Nat : l = Fr(p).loop /\ n = remaining[l] - 1
    BY <1>1, <1>15, LastOneCounted DEF LeaveAt, Moves, Drops
  <2>2. remaining' = [remaining EXCEPT ![l] = n]
    BY <1>15, <2>1 DEF LeaveAt, FrLoop
  <2>. QED  BY <1>2, <1>15, <2>1, <2>2 DEF NumbersTyped, LeaveAt
<1>16. ASSUME NEW p, ReturnAt(p)
      PROVE  NumbersTyped'
  BY <1>1, <1>2, <1>16 DEF NumbersTyped, Participants, ReturnAt, Drops, Untouched, FrLoop
<1>. QED  BY <1>3, <1>4, <1>5, <1>6, <1>7, <1>8, <1>9, <1>10, <1>11, <1>12, <1>13, <1>14,
        <1>15, <1>16 DEF PlaceStep

\* Errors keep their type.
LEMMA ErrorTypedStep ==
    ASSUME Typed, FrameInv, PlaceStep
    PROVE  ErrorTyped'
<1>1. \A x \in Places : /\ Fr(x) \in Frame /\ Fr(x).loop \in Loop /\ Fr(x).role \in Role
                           /\ Fr(x).at \in At /\ Fr(x).idx \in Nat
  BY PlaceType
<1>2. ErrorTyped
  BY TypedParts
<1>3. ASSUME NEW l \in Loop, EmptyCall(l)
      PROVE  ErrorTyped'
  BY <1>1, <1>2, <1>3 DEF ErrorTyped, EmptyCall, IsEmpty, Untouched
<1>4. ASSUME NEW l \in Loop, NEW q, FirstCall(q, l)
      PROVE  ErrorTyped'
  BY <1>1, <1>2, <1>4 DEF ErrorTyped, FirstCall, Opens, Adds, Untouched, FirstFrame
<1>5. ASSUME NEW l \in Loop, NEW q, TakeAt(q, l)
      PROVE  ErrorTyped'
  BY <1>1, <1>2, <1>5 DEF ErrorTyped, TakeAt, Adds, Untouched, CopyOf
<1>6. ASSUME NEW p, SubmitAt(p)
      PROVE  ErrorTyped'
  BY <1>1, <1>2, <1>6 DEF ErrorTyped, SubmitAt, Moves, Untouched, Same, FrLoop
<1>7. ASSUME NEW p, FetchAt(p)
      PROVE  ErrorTyped'
  BY <1>1, <1>2, <1>7 DEF ErrorTyped, FetchAt, Moves, Untouched, FrLoop
<1>8. ASSUME NEW p, PlainBody(p)
      PROVE  ErrorTyped'
  BY <1>1, <1>2, <1>8 DEF ErrorTyped, PlainBody, BodyAt, Moves, Untouched, Same, FrLoop
<1>9. ASSUME NEW p, NEW l \in Loop, EmptyBody(p, l)
      PROVE  ErrorTyped'
  BY <1>1, <1>2, <1>9 DEF ErrorTyped, EmptyBody, IsEmpty, BodyAt, Moves, Untouched, Same,
        FrLoop
<1>10. ASSUME NEW p, NEW q, NEW l \in Loop, NestedBody(p, q, l)
      PROVE  ErrorTyped'
  BY <1>1, <1>2, <1>10 DEF ErrorTyped, NestedBody, Opens, BodyAt, MovesAdds, Untouched,
        Same, FrLoop, FirstFrame
<1>11. ASSUME NEW p, NEW threw \in BOOLEAN, EndAt(p, threw)
      PROVE  ErrorTyped'
  BY <1>1, <1>2, <1>11 DEF ErrorTyped, EndAt, ThrownBy, Moves, Untouched, Same, FrLoop
<1>12. ASSUME NEW p, NEW threw \in BOOLEAN, SerialEnd(p, threw)
      PROVE  ErrorTyped'
  BY <1>1, <1>2, <1>12 DEF ErrorTyped, SerialEnd, ThrownBy, Drops, Untouched, FrLoop
<1>13. ASSUME NEW p, SerialNext(p)
      PROVE  ErrorTyped'
  BY <1>1, <1>2, <1>13 DEF ErrorTyped, SerialNext, ThrownBy, Moves, Untouched, FrLoop
<1>14. ASSUME NEW p, RecordAt(p)
      PROVE  ErrorTyped'
  <2>1. Fr(p).loop \in Loop /\ Fr(p).idx \in Indices(Fr(p).loop)
    BY <1>1, <1>14 DEF RecordAt, Moves, FrameInv
  <2>. QED  BY <1>2, <1>14, <2>1 DEF ErrorTyped, RecordAt, FrLoop
<1>15. ASSUME NEW p, LeaveAt(p)
      PROVE  ErrorTyped'
  BY <1>1, <1>2, <1>15 DEF ErrorTyped, LeaveAt, Moves, Drops, Untouched, Same, FrLoop
<1>16. ASSUME NEW p, ReturnAt(p)
      PROVE  ErrorTyped'
  BY <1>1, <1>2, <1>16 DEF ErrorTyped, ReturnAt, Drops, Untouched, FrLoop
<1>. QED  BY <1>3, <1>4, <1>5, <1>6, <1>7, <1>8, <1>9, <1>10, <1>11, <1>12, <1>13, <1>14,
        <1>15, <1>16 DEF PlaceStep

\* The history of throws keeps its type.
LEMMA ThrownTypedStep ==
    ASSUME Typed, FrameInv, PlaceStep
    PROVE  ThrownTyped'
<1>1. \A x \in Places : /\ Fr(x) \in Frame /\ Fr(x).loop \in Loop /\ Fr(x).role \in Role
                           /\ Fr(x).at \in At /\ Fr(x).idx \in Nat
  BY PlaceType
<1>2. ThrownTyped
  BY TypedParts
<1>3. ASSUME NEW l \in Loop, EmptyCall(l)
      PROVE  ThrownTyped'
  BY <1>1, <1>2, <1>3 DEF ThrownTyped, FrameInv, EmptyCall, IsEmpty, Untouched
<1>4. ASSUME NEW l \in Loop, NEW q, FirstCall(q, l)
      PROVE  ThrownTyped'
  BY <1>1, <1>2, <1>4 DEF ThrownTyped, FrameInv, FirstCall, Opens, Adds, Untouched,
        FirstFrame
<1>5. ASSUME NEW l \in Loop, NEW q, TakeAt(q, l)
      PROVE  ThrownTyped'
  BY <1>1, <1>2, <1>5 DEF ThrownTyped, FrameInv, TakeAt, Adds, Untouched, CopyOf
<1>6. ASSUME NEW p, SubmitAt(p)
      PROVE  ThrownTyped'
  BY <1>1, <1>2, <1>6 DEF ThrownTyped, FrameInv, SubmitAt, Moves, Untouched, Same, FrLoop
<1>7. ASSUME NEW p, FetchAt(p)
      PROVE  ThrownTyped'
  BY <1>1, <1>2, <1>7 DEF ThrownTyped, FrameInv, FetchAt, Moves, Untouched, FrLoop
<1>8. ASSUME NEW p, PlainBody(p)
      PROVE  ThrownTyped'
  BY <1>1, <1>2, <1>8 DEF ThrownTyped, FrameInv, PlainBody, BodyAt, Moves, Untouched,
        Same, FrLoop
<1>9. ASSUME NEW p, NEW l \in Loop, EmptyBody(p, l)
      PROVE  ThrownTyped'
  BY <1>1, <1>2, <1>9 DEF ThrownTyped, FrameInv, EmptyBody, IsEmpty, BodyAt, Moves,
        Untouched, Same, FrLoop
<1>10. ASSUME NEW p, NEW q, NEW l \in Loop, NestedBody(p, q, l)
      PROVE  ThrownTyped'
  BY <1>1, <1>2, <1>10 DEF ThrownTyped, FrameInv, NestedBody, Opens, BodyAt, MovesAdds,
        Untouched, Same, FrLoop, FirstFrame
<1>11. ASSUME NEW p, NEW threw \in BOOLEAN, EndAt(p, threw)
      PROVE  ThrownTyped'
  BY <1>1, <1>2, <1>11 DEF ThrownTyped, FrameInv, EndAt, ThrownBy, Moves, Untouched,
        Same, FrLoop
<1>12. ASSUME NEW p, NEW threw \in BOOLEAN, SerialEnd(p, threw)
      PROVE  ThrownTyped'
  BY <1>1, <1>2, <1>12 DEF ThrownTyped, FrameInv, SerialEnd, ThrownBy, Drops, Untouched,
        FrLoop
<1>13. ASSUME NEW p, SerialNext(p)
      PROVE  ThrownTyped'
  BY <1>1, <1>2, <1>13 DEF ThrownTyped, FrameInv, SerialNext, ThrownBy, Moves, Untouched,
        FrLoop
<1>14. ASSUME NEW p, RecordAt(p)
      PROVE  ThrownTyped'
  BY <1>1, <1>2, <1>14 DEF ThrownTyped, FrameInv, RecordAt, Moves, Untouched, Same, FrLoop
<1>15. ASSUME NEW p, LeaveAt(p)
      PROVE  ThrownTyped'
  BY <1>1, <1>2, <1>15 DEF ThrownTyped, FrameInv, LeaveAt, Moves, Drops, Untouched, Same,
        FrLoop
<1>16. ASSUME NEW p, ReturnAt(p)
      PROVE  ThrownTyped'
  BY <1>1, <1>2, <1>16 DEF ThrownTyped, FrameInv, ReturnAt, Drops, Untouched, FrLoop
<1>. QED  BY <1>3, <1>4, <1>5, <1>6, <1>7, <1>8, <1>9, <1>10, <1>11, <1>12, <1>13, <1>14,
        <1>15, <1>16 DEF PlaceStep

\* The history of body calls keeps its type.
LEMMA AttemptsTypedStep ==
    ASSUME Typed, FrameInv, PlaceStep
    PROVE  AttemptsTyped'
<1>1. \A x \in Places : /\ Fr(x) \in Frame /\ Fr(x).loop \in Loop /\ Fr(x).role \in Role
                           /\ Fr(x).at \in At /\ Fr(x).idx \in Nat
  BY PlaceType
<1>2. AttemptsTyped
  BY TypedParts
<1>3. ASSUME NEW l \in Loop, EmptyCall(l)
      PROVE  AttemptsTyped'
  BY <1>1, <1>2, <1>3 DEF AttemptsTyped, EmptyCall, IsEmpty, Untouched
<1>4. ASSUME NEW l \in Loop, NEW q, FirstCall(q, l)
      PROVE  AttemptsTyped'
  BY <1>1, <1>2, <1>4 DEF AttemptsTyped, FirstCall, Opens, Adds, Untouched, FirstFrame
<1>5. ASSUME NEW l \in Loop, NEW q, TakeAt(q, l)
      PROVE  AttemptsTyped'
  BY <1>1, <1>2, <1>5 DEF AttemptsTyped, TakeAt, Adds, Untouched, CopyOf
<1>6. ASSUME NEW p, SubmitAt(p)
      PROVE  AttemptsTyped'
  BY <1>1, <1>2, <1>6 DEF AttemptsTyped, SubmitAt, Moves, Untouched, Same, FrLoop
<1>7. ASSUME NEW p, FetchAt(p)
      PROVE  AttemptsTyped'
  BY <1>1, <1>2, <1>7 DEF AttemptsTyped, FetchAt, Moves, Untouched, FrLoop
<1>8. ASSUME NEW p, PlainBody(p)
      PROVE  AttemptsTyped'
  <2>1. Fr(p).loop \in Loop /\ Fr(p).idx \in Indices(Fr(p).loop)
    BY <1>1, <1>8 DEF PlainBody, BodyAt, Moves, MovesAdds, FrameInv
  <2>2. attempts[Fr(p).loop][Fr(p).idx] + 1 \in Nat
    BY <1>2, <2>1 DEF AttemptsTyped
  <2>. QED  BY <1>2, <1>8, <2>1, <2>2 DEF AttemptsTyped, PlainBody, BodyAt, FrLoop
<1>9. ASSUME NEW p, NEW l \in Loop, EmptyBody(p, l)
      PROVE  AttemptsTyped'
  <2>1. Fr(p).loop \in Loop /\ Fr(p).idx \in Indices(Fr(p).loop)
    BY <1>1, <1>9 DEF EmptyBody, BodyAt, Moves, MovesAdds, FrameInv
  <2>2. attempts[Fr(p).loop][Fr(p).idx] + 1 \in Nat
    BY <1>2, <2>1 DEF AttemptsTyped
  <2>. QED  BY <1>2, <1>9, <2>1, <2>2 DEF AttemptsTyped, EmptyBody, BodyAt, FrLoop
<1>10. ASSUME NEW p, NEW q, NEW l \in Loop, NestedBody(p, q, l)
      PROVE  AttemptsTyped'
  <2>1. Fr(p).loop \in Loop /\ Fr(p).idx \in Indices(Fr(p).loop)
    BY <1>1, <1>10 DEF NestedBody, BodyAt, Moves, MovesAdds, FrameInv
  <2>2. attempts[Fr(p).loop][Fr(p).idx] + 1 \in Nat
    BY <1>2, <2>1 DEF AttemptsTyped
  <2>. QED  BY <1>2, <1>10, <2>1, <2>2 DEF AttemptsTyped, NestedBody, BodyAt, FrLoop
<1>11. ASSUME NEW p, NEW threw \in BOOLEAN, EndAt(p, threw)
      PROVE  AttemptsTyped'
  BY <1>1, <1>2, <1>11 DEF AttemptsTyped, EndAt, ThrownBy, Moves, Untouched, Same, FrLoop
<1>12. ASSUME NEW p, NEW threw \in BOOLEAN, SerialEnd(p, threw)
      PROVE  AttemptsTyped'
  BY <1>1, <1>2, <1>12 DEF AttemptsTyped, SerialEnd, ThrownBy, Drops, Untouched, FrLoop
<1>13. ASSUME NEW p, SerialNext(p)
      PROVE  AttemptsTyped'
  BY <1>1, <1>2, <1>13 DEF AttemptsTyped, SerialNext, ThrownBy, Moves, Untouched, FrLoop
<1>14. ASSUME NEW p, RecordAt(p)
      PROVE  AttemptsTyped'
  BY <1>1, <1>2, <1>14 DEF AttemptsTyped, RecordAt, Moves, Untouched, Same, FrLoop
<1>15. ASSUME NEW p, LeaveAt(p)
      PROVE  AttemptsTyped'
  BY <1>1, <1>2, <1>15 DEF AttemptsTyped, LeaveAt, Moves, Drops, Untouched, Same, FrLoop
<1>16. ASSUME NEW p, ReturnAt(p)
      PROVE  AttemptsTyped'
  BY <1>1, <1>2, <1>16 DEF AttemptsTyped, ReturnAt, Drops, Untouched, FrLoop
<1>. QED  BY <1>3, <1>4, <1>5, <1>6, <1>7, <1>8, <1>9, <1>10, <1>11, <1>12, <1>13, <1>14,
        <1>15, <1>16 DEF PlaceStep

\* The stacks keep their type.
LEMMA StackStep ==
    ASSUME Typed, PlaceStep
    PROVE  StacksTyped'
<1>1. ASSUME NEW l \in Loop, EmptyCall(l)
      PROVE  StacksTyped'
  BY <1>1 DEF ThrownBy, EmptyCall, IsEmpty, Untouched
<1>2. ASSUME NEW l \in Loop, NEW q, FirstCall(q, l)
      PROVE  StacksTyped'
  BY <1>2 DEF ThrownBy, FirstCall, Opens, Adds, Untouched, FirstFrame
<1>3. ASSUME NEW l \in Loop, NEW q, TakeAt(q, l)
      PROVE  StacksTyped'
  BY <1>3 DEF ThrownBy, TakeAt, Adds, Untouched, CopyOf
<1>4. ASSUME NEW p, SubmitAt(p)
      PROVE  StacksTyped'
  BY <1>4 DEF ThrownBy, SubmitAt, Moves, Untouched, Same, FrLoop
<1>5. ASSUME NEW p, FetchAt(p)
      PROVE  StacksTyped'
  BY <1>5 DEF ThrownBy, FetchAt, Moves, Untouched, FrLoop
<1>6. ASSUME NEW p, PlainBody(p)
      PROVE  StacksTyped'
  BY <1>6 DEF ThrownBy, PlainBody, BodyAt, Moves, Untouched, Same, FrLoop
<1>7. ASSUME NEW p, NEW l \in Loop, EmptyBody(p, l)
      PROVE  StacksTyped'
  BY <1>7 DEF ThrownBy, EmptyBody, IsEmpty, BodyAt, Moves, Untouched, Same, FrLoop
<1>8. ASSUME NEW p, NEW q, NEW l \in Loop, NestedBody(p, q, l)
      PROVE  StacksTyped'
  BY <1>8 DEF ThrownBy, NestedBody, Opens, BodyAt, MovesAdds, Untouched, Same, FrLoop,
        FirstFrame
<1>9. ASSUME NEW p, NEW threw \in BOOLEAN, EndAt(p, threw)
      PROVE  StacksTyped'
  BY <1>9 DEF ThrownBy, EndAt, ThrownBy, Moves, Untouched, Same, FrLoop
<1>10. ASSUME NEW p, NEW threw \in BOOLEAN, SerialEnd(p, threw)
      PROVE  StacksTyped'
  BY <1>10 DEF ThrownBy, SerialEnd, ThrownBy, Drops, Untouched, FrLoop
<1>11. ASSUME NEW p, SerialNext(p)
      PROVE  StacksTyped'
  BY <1>11 DEF ThrownBy, SerialNext, ThrownBy, Moves, Untouched, FrLoop
<1>12. ASSUME NEW p, RecordAt(p)
      PROVE  StacksTyped'
  BY <1>12 DEF ThrownBy, RecordAt, Moves, Untouched, Same, FrLoop
<1>13. ASSUME NEW p, LeaveAt(p)
      PROVE  StacksTyped'
  BY <1>13 DEF ThrownBy, LeaveAt, Moves, Drops, Untouched, Same, FrLoop
<1>14. ASSUME NEW p, ReturnAt(p)
      PROVE  StacksTyped'
  BY <1>14 DEF ThrownBy, ReturnAt, Drops, Untouched, FrLoop
<1>. QED  BY <1>1, <1>2, <1>3, <1>4, <1>5, <1>6, <1>7, <1>8, <1>9, <1>10, <1>11, <1>12,
        <1>13, <1>14 DEF PlaceStep

-----------------------------------------------------------------------------
(* The theorems *)

\* Stuttering keeps the invariant.
LEMMA Unmoved ==
    ASSUME IInv, UNCHANGED vars
    PROVE  IInv'
<1>1. Places' = Places /\ \A x : Fr(x)' = Fr(x)
  BY DEF vars, Places, Fr
<1>2. /\ \A l : Present(l)' = Present(l)
      /\ \A l, x : (Submits(x, l)' <=> Submits(x, l)) /\ (Inside(x, l)' <=> Inside(x, l))
  BY <1>1 DEF Present, Submits, Inside
<1>3. /\ UNCHANGED <<next, remaining, firstError, inPool, attempts, thrown, result>>
      /\ UNCHANGED stack
  BY DEF vars
<1>4. Typed' /\ PoolInv'
  BY <1>3 DEF IInv, Typed, TypeOK, PoolInv
<1>5. FrameInv' /\ CallerInv'
  BY <1>1, <1>3 DEF IInv, FrameInv, CallerInv
<1>6. ClaimInv'
  BY <1>1, <1>2, <1>3 DEF IInv, ClaimInv, OnceInv, BodyInv, AheadInv, CompleteInv, Closed
<1>7. ErrorInv'
  BY <1>1, <1>2, <1>3 DEF IInv, ErrorInv, RecordInv, OwnErrorInv, ErrorReported, Closed
<1>8. ASSUME NEW l \in Loop
      PROVE  CountOf(l)'
  <2>1. CountOf(l) /\ CountStays(l)
    BY <1>1, <1>2, <1>3 DEF CountStays, IInv, CountInv
  <2>. QED  BY <2>1, CountKept
<1>. QED  BY <1>4, <1>5, <1>6, <1>7, <1>8 DEF IInv, CountInv

\* The invariant holds at the start.
LEMMA InductiveInit == Init => IInv
<1>. SUFFICES ASSUME Init PROVE IInv
  OBVIOUS
<1>1. Places = {}
  <2>1. \A p \in Thread \X Nat : stack[p[1]] = <<>>
    BY DEF Init
  <2>. QED  BY <2>1 DEF Places
<1>2. Typed
  <2>1. \A l \in Loop : Count[l] \in Nat
    BY SpawnedType
  <2>. QED  BY <2>1 DEF Init, Typed, TypeOK
<1>3. FrameInv /\ CallerInv
  BY <1>1 DEF FrameInv, CallerInv
<1>4. PoolInv
  BY DEF Init, PoolInv
<1>5. ClaimInv
  <2>1. \A l \in Loop : \A i \in Indices(l) : attempts[l][i] = 0 /\ next[l] = 0 /\ i >= 0
    BY SpawnedType DEF Init, Indices
  <2>2. OnceInv
    BY <2>1, SpawnedType DEF OnceInv, Indices
  <2>3. CompleteInv
    BY DEF Init, CompleteInv, Closed
  <2>. QED  BY <1>1, <2>2, <2>3 DEF ClaimInv, BodyInv, AheadInv
<1>6. ErrorInv
  BY <1>1 DEF Init, ErrorInv, RecordInv, OwnErrorInv, ErrorReported, Closed
<1>7. ASSUME NEW l \in Loop
      PROVE  CountOf(l)
  <2>1. Present(l) = {}
    BY <1>1 DEF Present
  <2>. QED  BY <2>1, FS_EmptySet DEF Init, CountOf
<1>. QED  BY <1>2, <1>3, <1>4, <1>5, <1>6, <1>7 DEF IInv, CountInv

\* Every step keeps it.
LEMMA InductiveStep == IInv /\ [Next]_vars => IInv'
<1>. SUFFICES ASSUME IInv, [Next]_vars
              PROVE  IInv'
  OBVIOUS
<1>1. CASE UNCHANGED vars
  BY <1>1, Unmoved
<1>2. CASE Next
  <2>1. Typed /\ FrameInv /\ CallerInv /\ PoolInv /\ ClaimInv /\ ErrorInv /\ CountInv
    BY DEF IInv
  <2>2. PlaceStep
    BY <1>2, <2>1, StepsByPlace
  <2>3. Typed'
    <3>1. NumbersTyped' /\ ErrorTyped'
      BY <2>1, <2>2, NumbersStep, ErrorTypedStep
    <3>2. AttemptsTyped' /\ ThrownTyped' /\ StacksTyped'
      BY <2>1, <2>2, AttemptsTypedStep, ThrownTypedStep, StackStep
    <3>. QED  BY <3>1, <3>2 DEF StacksTyped, Typed, TypeOK, NumbersTyped, ErrorTyped,
                                AttemptsTyped, ThrownTyped
  <2>4. FrameInv' /\ CallerInv' /\ PoolInv' /\ CountInv'
    BY <2>1, <2>2, FrameStep, CallerStep, PoolStep, CountStep
  <2>5. ClaimInv'
    <3>1. PICK gone, new : ClaimStep(gone, new)
      BY <2>1, <2>2, StepsClaim
    <3>2. OnceInv' /\ BodyInv'
      BY <2>1, <3>1, OnceStep, BodyStep
    <3>3. AheadInv' /\ CompleteInv'
      BY <2>1, <2>2, <3>1, AheadStep, CompleteStep
    <3>. QED  BY <3>2, <3>3 DEF ClaimInv
  <2>6. ErrorInv'
    BY <2>1, <2>2, OwnErrorStep, ReportedStep, RecordStep DEF ErrorInv
  <2>. QED  BY <2>3, <2>4, <2>5, <2>6 DEF IInv
<1>. QED  BY <1>1, <1>2

\* So it holds throughout.
LEMMA Inductive == Spec => []IInv
BY InductiveInit, InductiveStep, PTL DEF Spec

\* The counters of every call keep their types whatever the number of threads and
\* however the loops are nested: *remaining is never decremented below 0.
THEOREM TypeCorrect == Spec => []TypeOK
<1>1. IInv => TypeOK
  BY DEF IInv, Typed
<1>. QED  BY <1>1, Inductive, PTL

\* Once ParallelFor has returned or thrown, neither the pool nor a stack holds a
\* copy of the lambda, which refers to the body in the caller's frame.
THEOREM CopiesAreGone == Spec => []NoCopyOutlivesCall
<1>1. ASSUME IInv
      PROVE  NoCopyOutlivesCall
  <2>. SUFFICES ASSUME NEW l \in Loop, Closed(l)
                PROVE  inPool[l] = 0 /\ FramesOf(l, Role) = {}
    BY DEF NoCopyOutlivesCall
  <2>1. inPool[l] = 0
    <3>1. inPool[l] \in Nat /\ ~ (inPool[l] > 0)
      BY <1>1 DEF IInv, Typed, TypeOK, PoolInv, Closed
    <3>. QED  BY <3>1
  <2>2. ASSUME NEW t \in Thread, NEW k \in DOMAIN stack[t], stack[t][k].loop = l
        PROVE  FALSE
    <3>1. PICK s : s = stack[t]
      OBVIOUS
    <3>2. s \in Seq(Frame)
      BY <1>1, <3>1 DEF IInv, Typed, TypeOK
    <3>3. PICK n \in Nat : n = Len(s)
      BY <3>2
    <3>4. k \in 1 .. n
      BY <2>2, <3>1, <3>2, <3>3
    <3>5. PICK d \in 1 .. n : n + 1 - d = k
      <4>1. n + 1 - k \in 1 .. n /\ n + 1 - (n + 1 - k) = k
        BY <3>4
      <4>. QED  BY <4>1
    <3>6. <<t, d>> \in Places /\ Fr(<<t, d>>) = stack[t][k]
      BY <3>1, <3>3, <3>5 DEF Places, Fr
    <3>7. result[l] = "open"
      BY <1>1, <2>2, <3>6 DEF IInv, FrameInv
    <3>. QED  BY <3>7 DEF Closed
  <2>3. FramesOf(l, Role) = {}
    BY <2>2 DEF FramesOf, FrameAt
  <2>. QED  BY <2>1, <2>3
<1>. QED  BY <1>1, Inductive, PTL

\* fetch_add gives every index to one participant: the body is called at most once
\* for each, and for every one by the time a parallel call ends.
THEOREM IndicesCovered == Spec => []EachIndexOnce
<1>1. IInv => EachIndexOnce
  BY DEF IInv, ClaimInv, OnceInv, CompleteInv, EachIndexOnce
<1>. QED  BY <1>1, Inductive, PTL

\* ParallelFor throws exactly if a body threw, and what it rethrows is the
\* exception of one of its own indices.
THEOREM ErrorsReachTheCaller == Spec => []ErrorReported
<1>1. IInv => ErrorReported
  BY DEF IInv, ErrorInv
<1>. QED  BY <1>1, Inductive, PTL

\* The stack counts from the top what a place counts from the bottom.
LEMMA PresentFromTheTop ==
    ASSUME Typed, NEW l \in Loop, NEW T,
           T = {x \in FramesOf(l, {"caller", "copy"}) : FrameAt(x).at # "help"}
    PROVE  /\ ExistsBijection(Present(l), T)
           /\ \A x \in T : \E p \in Present(l) : FrameAt(x) = Fr(p)
           /\ \A p \in Present(l) : \E x \in T : FrameAt(x) = Fr(p)
<1>. DEFINE Turn(p) == <<p[1], Len(stack[p[1]]) + 1 - p[2]>>
            g == [p \in Present(l) |-> Turn(p)]
<1>1. \A t \in Thread : Len(stack[t]) \in Nat /\ DOMAIN stack[t] = 1 .. Len(stack[t])
  <2>1. \A t \in Thread : stack[t] \in Seq(Frame)
    BY DEF Typed, TypeOK
  <2>. QED  BY <2>1
<1>2. ASSUME NEW p \in Places
      PROVE  /\ Turn(p)[1] = p[1] /\ p[1] \in Thread /\ p = <<p[1], p[2]>>
             /\ Turn(p)[2] \in DOMAIN stack[p[1]] /\ FrameAt(Turn(p)) = Fr(p)
  <2>1. p[1] \in Thread /\ p[2] \in Nat /\ p[2] \in 1 .. Len(stack[p[1]]) /\ p = <<p[1], p[2]>>
    BY DEF Places
  <2>2. PICK n \in Nat : n = Len(stack[p[1]])
    BY <1>1, <2>1
  <2>3. n + 1 - p[2] \in 1 .. n
    BY <2>1, <2>2
  <2>4. Turn(p) = <<p[1], n + 1 - p[2]>>
    BY <2>2
  <2>. QED  BY <1>1, <2>1, <2>2, <2>3, <2>4 DEF FrameAt, Fr
<1>3. \A p \in Present(l) : p \in Places /\ Turn(p) \in T
  <2>1. SUFFICES ASSUME NEW p \in Present(l)
                 PROVE  p \in Places /\ Turn(p) \in T
    OBVIOUS
  <2>2. /\ p \in Places /\ Fr(p).loop = l /\ Fr(p).role \in {"caller", "copy"}
        /\ Fr(p).at # "help"
    BY DEF Present
  <2>3. Turn(p) \in {p[1]} \X DOMAIN stack[p[1]]
    BY <1>2, <2>2
  <2>4. Turn(p) \in FramesOf(l, {"caller", "copy"})
    BY <1>2, <2>2, <2>3 DEF FramesOf
  <2>. QED  BY <1>2, <2>2, <2>4
<1>4. ASSUME NEW x \in T
      PROVE  \E p \in Present(l) : Turn(p) = x
  <2>0. PICK t \in Thread : \E j \in DOMAIN stack[t] : x = <<t, j>>
    BY DEF FramesOf
  <2>1. PICK k \in DOMAIN stack[t] : x = <<t, k>>
    BY <2>0
  <2>2. PICK n \in Nat : n = Len(stack[t])
    BY <1>1
  <2>3. k \in 1 .. n
    BY <1>1, <2>1, <2>2
  <2>4. PICK d \in 1 .. n : n + 1 - d = k
    <3>1. n + 1 - k \in 1 .. n /\ n + 1 - (n + 1 - k) = k
      BY <2>3
    <3>. QED  BY <3>1
  <2>5. <<t, d>> \in Places /\ Turn(<<t, d>>) = x
    BY <2>1, <2>2, <2>4 DEF Places
  <2>6. Fr(<<t, d>>) = FrameAt(x)
    BY <1>2, <2>5
  <2>7. FrameAt(x).loop = l /\ FrameAt(x).role \in {"caller", "copy"} /\ FrameAt(x).at # "help"
    BY DEF FramesOf
  <2>. QED  BY <2>5, <2>6, <2>7 DEF Present
<1>5. \A p, q \in Present(l) : Turn(p) = Turn(q) => p = q
  <2>1. SUFFICES ASSUME NEW p \in Present(l), NEW q \in Present(l), Turn(p) = Turn(q)
                 PROVE  p = q
    OBVIOUS
  <2>2. /\ p \in Places /\ q \in Places /\ p[1] = q[1] /\ p[2] \in Nat /\ q[2] \in Nat
        /\ p[1] \in Thread /\ p = <<p[1], p[2]>> /\ q = <<q[1], q[2]>>
    BY <1>2, <1>3, <2>1 DEF Places
  <2>3. PICK n \in Nat : n = Len(stack[p[1]])
    BY <1>1, <2>2
  <2>4. n + 1 - p[2] = n + 1 - q[2]
    BY <2>1, <2>2, <2>3
  <2>5. p[2] = q[2]
    BY <2>2, <2>3, <2>4
  <2>. QED  BY <2>2, <2>5
<1>. HIDE DEF Turn
<1>6. g \in Injection(Present(l), T)
  BY <1>3, <1>5 DEF Injection, IsInjective
<1>7. g \in Surjection(Present(l), T)
  BY <1>3, <1>4 DEF Surjection
<1>8. ExistsBijection(Present(l), T)
  BY <1>6, <1>7 DEF ExistsBijection, Bijection
<1>. QED  BY <1>2, <1>3, <1>4, <1>8

\* *remaining counts the copies still to be submitted, those in the pool and the
\* participants that have not left, so it reaches 0 when the last has left.
THEOREM RemainingIsExact == Spec => []RemainingExact
<1>1. ASSUME IInv
      PROVE  RemainingExact
  <2>. SUFFICES ASSUME NEW l \in Loop, result[l] = "open", ~ Serial(l),
                       NEW T, T = {x \in FramesOf(l, {"caller", "copy"}) : FrameAt(x).at # "help"}
                PROVE  IF \E x \in T : FrameAt(x).at = "submit"
                       THEN \E x \in T : /\ FrameAt(x).at = "submit"
                                         /\ remaining[l] = (inPool[l] + Cardinality(T)) + Spawned(l)
                                                              - FrameAt(x).idx
                       ELSE remaining[l] = inPool[l] + Cardinality(T)
    BY DEF RemainingExact
  <2>1. Typed /\ FrameInv /\ CountOf(l)
    BY <1>1 DEF IInv, CountInv
  <2>2. /\ ExistsBijection(Present(l), T)
        /\ \A x \in T : \E p \in Present(l) : FrameAt(x) = Fr(p)
        /\ \A p \in Present(l) : \E x \in T : FrameAt(x) = Fr(p)
    BY <2>1, PresentFromTheTop
  <2>3. Cardinality(T) = Cardinality(Present(l))
    BY <2>1, <2>2, FS_Bijection DEF CountOf
  <2>4. \A p \in Present(l) : Fr(p).at = "submit" => Submits(p, l)
    BY DEF Present, Submits, Inside
  <2>5. \A p : Submits(p, l) => p \in Present(l)
    BY <2>1 DEF Present, Submits, Inside, FrameInv
  <2>6. CASE \E x \in T : FrameAt(x).at = "submit"
    <3>1. PICK x \in T : FrameAt(x).at = "submit"
      BY <2>6
    <3>2. PICK p \in Present(l) : FrameAt(x) = Fr(p)
      BY <2>2
    <3>3. Submits(p, l) /\ p \in Places
      BY <2>4, <3>1, <3>2 DEF Present
    <3>4. remaining[l] = inPool[l] + Cardinality(Present(l)) + Spawned(l) - Fr(p).idx
      BY <2>1, <3>3 DEF CountOf
    <3>. QED  BY <2>3, <2>6, <3>1, <3>2, <3>4
  <2>7. CASE ~ \E x \in T : FrameAt(x).at = "submit"
    <3>1. \A p \in Places : ~ Submits(p, l)
      BY <2>2, <2>5, <2>7 DEF Submits
    <3>2. remaining[l] = inPool[l] + Cardinality(Present(l))
      BY <2>1, <3>1 DEF CountOf
    <3>. QED  BY <2>3, <2>7, <3>2
  <2>. QED  BY <2>6, <2>7
<1>. QED  BY <1>1, Inductive, PTL
=============================================================================
