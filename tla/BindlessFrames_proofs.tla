------------------------ MODULE BindlessFrames_proofs ------------------------
(***************************************************************************)
(* What the bindless array shows, for any number of frames in flight, of   *)
(* slots and of textures: no image is destroyed while a running frame may  *)
(* sample it, a slot shows only a texture meant for its holder, and one    *)
(* that was uploaded.                                                      *)
(*                                                                         *)
(* A texture is in one place at a time: not made yet, in a queued          *)
(* operation, shown by a slot, or destroyed.  One that waits to be         *)
(* destroyed in the ring of a slot was last sampled by a frame so old that *)
(* it has finished when the slot's turn comes.                             *)
(***************************************************************************)
EXTENDS BindlessFrames, TLAPS

-----------------------------------------------------------------------------
(* The frame gate: slots modulo FIF, and what a submission, its end and an *)
(* idle device do to the fences. *)

\* Quotient and remainder of a natural number: the lemmas below work with these.
LEMMA DivMod ==
    ASSUME NEW n \in Nat \ {0}, NEW a \in Nat
    PROVE  a \div n \in Int /\ a % n \in 0 .. n - 1 /\ a = n * (a \div n) + (a % n)
  BY SMT

\* A positive multiple of n is at least n.
LEMMA Times ==
    ASSUME NEW n \in Nat \ {0}, NEW k \in Int, k >= 1
    PROVE  n * k >= n
  BY SMT

\* The only multiple of n between -n and n is 0.
LEMMA Small ==
    ASSUME NEW n \in Nat \ {0}, NEW k \in Int, n * k < n, n * k > -n
    PROVE  k = 0
<1>1. k < 1
  BY Times
<1>2. -k < 1
  <2>1. n * (-k) = -(n * k)
    BY SMT
  <2>. QED BY <2>1, Times
<1>. QED BY <1>1, <1>2

\* Multiplication distributes over a difference: the solver is told so once.
LEMMA Dist ==
    ASSUME NEW n \in Int, NEW q \in Int, NEW p \in Int
    PROVE  n * (q - p) = n * q - n * p
  BY SMT

\* Two frames less than FIF apart have different slots.
LEMMA ModClose ==
    ASSUME NEW n \in Nat \ {0}, NEW a \in Nat, NEW b \in Nat, a < b, b - a < n
    PROVE  a % n # b % n
<1> SUFFICES ASSUME a % n = b % n PROVE FALSE
  OBVIOUS
<1>1. PICK q \in Int, p \in Int, r \in 0 .. n - 1 : b = n * q + r /\ a = n * p + r
  BY DivMod
<1>2. n * (q - p) = b - a
  BY <1>1, Dist
<1>3. q - p = 0
  BY <1>2, Small
<1>. QED BY <1>1, <1>3

\* A frame has the slot of the one FIF before it.
LEMMA ModPlus ==
    ASSUME NEW n \in Nat \ {0}, NEW a \in Nat
    PROVE  (a + n) % n = a % n
<1>1. PICK q \in Int, p \in Int, r \in 0 .. n - 1, s \in 0 .. n - 1 :
          a + n = n * q + r /\ a = n * p + s /\ r = (a + n) % n /\ s = a % n
  <2>1. a + n \in Nat
    OBVIOUS
  <2>. QED BY <2>1, DivMod
<1>2. n * ((q - p) - 1) = s - r
  <2>1. n * ((q - p) - 1) = n * (q - p) - n * 1
    BY Dist
  <2>2. n * (q - p) = n * q - n * p
    BY Dist
  <2>3. n * q \in Int /\ n * p \in Int
    OBVIOUS
  <2>. QED BY <2>1, <2>2, <1>1, <2>3
<1>3. (q - p) - 1 = 0
  BY <1>2, Small
<1>4. n * ((q - p) - 1) = 0
  BY <1>3
<1>. QED BY <1>1, <1>2, <1>4

\* The slot of a frame is an index of the fences and of the record.
LEMMA SlotRange ==
    ASSUME FIF \in Nat \ {0}, NEW f \in Nat
    PROVE  Slot(f) \in 0 .. FIF - 1
  BY DivMod DEF Slot

\* Frames that may run at one time have different slots.
LEMMA SlotsDiffer ==
    ASSUME FIF \in Nat \ {0}, NEW f \in Nat, NEW g \in Nat, f # g,
           f - g < FIF, g - f < FIF
    PROVE  Slot(f) # Slot(g)
<1>1. CASE f < g
  <2>1. f % FIF # g % FIF
    BY <1>1, ModClose
  <2>. QED BY <2>1 DEF Slot
<1>2. CASE g < f
  <2>1. g % FIF # f % FIF
    BY <1>2, ModClose
  <2>. QED BY <2>1 DEF Slot
<1>. QED BY <1>1, <1>2

\* AcquireNextImage: once the fence of the frame's slot is signaled, the frame
\* that used the slot before it has finished.
LEMMA AfterWait ==
    ASSUME FIF \in Nat \ {0}, GateTypeOK, FencesExact, FenceWaited,
           NEW g \in running, g >= frame - FIF
    PROVE  g > frame - FIF
<1>1. frame \in Nat /\ g \in Nat
  BY DEF GateTypeOK
<1> SUFFICES ASSUME g + FIF = frame PROVE FALSE
  BY <1>1
<1>2. Slot(frame) = Slot(g)
  BY <1>1, ModPlus DEF Slot
<1>3. fence[Slot(frame)] /\ Slot(frame) \in 0 .. FIF - 1
  BY <1>1, SlotRange DEF FenceWaited, Signaled
<1>. QED BY <1>2, <1>3 DEF FencesExact

\* SubmitFrame: the fence it resets is that of the slot whose frame runs now.
LEMMA SubmitKeeps ==
    ASSUME FIF \in Nat \ {0}, GateTypeOK, FencesExact,
           NEW success \in BOOLEAN, Submit(success), frame' \in Nat, frame' >= frame
    PROVE  GateTypeOK' /\ FencesExact'
<1>1. frame \in Nat /\ Slot(frame) \in 0 .. FIF - 1
  BY SlotRange DEF GateTypeOK
<1>2. GateTypeOK'
  BY <1>1 DEF GateTypeOK, Submit
<1>3. ASSUME NEW s \in 0 .. FIF - 1
      PROVE  fence'[s] <=> \A g \in running' : Slot(g) # s
  <2>1. CASE s = Slot(frame)
    BY <1>1, <2>1 DEF Submit, GateTypeOK
  <2>2. CASE s # Slot(frame)
    <3>1. fence'[s] = fence[s]
      BY <2>2 DEF Submit, GateTypeOK
    <3>2. (\A g \in running' : Slot(g) # s) <=> (\A g \in running : Slot(g) # s)
      BY <2>2 DEF Submit
    <3>. QED BY <3>1, <3>2 DEF FencesExact
  <2>. QED BY <2>1, <2>2
<1>. QED BY <1>2, <1>3 DEF FencesExact, Slot

\* The fence that the end of a submission signals is not that of another one:
\* the frames that run are less than FIF apart.
LEMMA FinishKeeps ==
    ASSUME FIF \in Nat \ {0}, GateTypeOK, FencesExact, NEW f, Finish(f),
           \A g \in running : f - g < FIF /\ g - f < FIF
    PROVE  GateTypeOK' /\ FencesExact'
<1>1. f \in Nat /\ f \in running /\ running \subseteq Nat /\ Slot(f) \in 0 .. FIF - 1
  BY SlotRange DEF GateTypeOK, Finish
<1>2. GateTypeOK'
  BY <1>1 DEF GateTypeOK, Finish
<1>3. ASSUME NEW s \in 0 .. FIF - 1
      PROVE  fence'[s] <=> \A g \in running' : Slot(g) # s
  <2>1. CASE s = Slot(f)
    <3>1. fence'[s] = TRUE
      BY <2>1 DEF Finish, GateTypeOK
    <3>2. ASSUME NEW g \in running' PROVE Slot(g) # s
      <4>1. g \in Nat /\ g # f /\ f - g < FIF /\ g - f < FIF
        BY <1>1 DEF Finish
      <4>. QED BY <4>1, <1>1, <2>1, SlotsDiffer
    <3>. QED BY <3>1, <3>2
  <2>2. CASE s # Slot(f)
    <3>1. fence'[s] = fence[s]
      BY <2>2 DEF Finish, GateTypeOK
    <3>2. (\A g \in running' : Slot(g) # s) <=> (\A g \in running : Slot(g) # s)
      BY <2>2 DEF Finish
    <3>. QED BY <3>1, <3>2 DEF FencesExact
  <2>. QED BY <2>1, <2>2
<1>. QED BY <1>2, <1>3 DEF FencesExact, Slot


\* Nothing but submissions, their ends and an idle device touches a fence.
LEMMA SameKeeps ==
    ASSUME GateTypeOK, FencesExact, UNCHANGED gpuVars, frame' \in Nat, frame' >= frame
    PROVE  GateTypeOK' /\ FencesExact'
  BY DEF GateTypeOK, FencesExact, gpuVars, Slot

-----------------------------------------------------------------------------
\* The stages after the wait for the frame's fence.
Building == BuildStages \cup {"drain"}

\* The queued operations, by place: the ring of each slot from its first entry,
\* and the operations being drained, which leave from the front, from the last.
Queue(b, s) == IF s = FIF THEN b.due ELSE b.ring[s]
PlacesIn(b) == {p \in (0 .. FIF) \X Nat : p[2] \in 1 .. Len(Queue(b, p[1]))}
OpIn(b, p) == IF p[1] = FIF THEN b.due[Len(b.due) + 1 - p[2]] ELSE b.ring[p[1]][p[2]]
QueuedIn(b) == {OpIn(b, p).binding : p \in PlacesIn(b)} \ {None}
UniqueIn(b) ==
    \A p, q \in PlacesIn(b) :
       OpIn(b, p).binding = OpIn(b, q).binding /\ OpIn(b, p).binding # None => p = q

\* A texture that is not made yet has no copies and belongs to nothing.
Unmade(t) == target[t] = None \/ upload[t] \in {"submitted", "waiting", "staged", "failed"}

\* The next frame that may drain a ring, and the frames that sampled t.
NextTurn == IF stage \in {"idle", "update"} THEN frame ELSE frame + 1
Fresh(t) == \A x \in samples : x[2] # t
Past(s, t) == \A n \in Nat, x \in samples :
                 Slot(n) = s /\ n >= NextTurn /\ x[2] = t => x[1] <= n - FIF

GateInv == GateTypeOK /\ FencesExact /\ RunningRecent(Building, {})

\* An operation is in the ring of its frame.  What it carries is for the slot it
\* names and was not shown yet, or is no longer sampled when its turn comes.
OpOK(s, op) ==
    /\ Slot(op.frame) = IF s = FIF THEN Slot(frame) ELSE s
    /\ op.kind = "Publish" => /\ op.binding \in Texture /\ Fresh(op.binding)
                              /\ target[op.binding] = [slot |-> op.slot, gen |-> op.gen]
    /\ op.kind = "Decommit" => op.binding = None
    /\ op.kind = "Destroy" => /\ op.binding \in Texture
                              /\ IF s = FIF THEN Fresh(op.binding) ELSE Past(s, op.binding)
OpInv == \A p \in PlacesIn(bm) : OpOK(p[1], OpIn(bm, p))

\* A texture is in one place.
PlaceInv ==
    /\ bm.destroyed \cap Bound(bm) = {} /\ bm.destroyed \cap QueuedIn(bm) = {}
    /\ Bound(bm) \cap QueuedIn(bm) = {}
    /\ \A t \in Texture : Unmade(t) =>
          /\ t \notin bm.destroyed \cup Bound(bm) \cup QueuedIn(bm)
          /\ Fresh(t) /\ copied[t] = None
    /\ \A t \in Texture : upload[t] # "none" => target[t] # None
    /\ stage # "drain" => bm.due = <<>>

IInv == /\ TypeOK /\ GateInv /\ OpInv /\ UniqueIn(bm) /\ PlaceInv
        /\ SampledAlive /\ ShowsOwnTexture

-----------------------------------------------------------------------------
(* The manager's operations *)

LEMMA FifPositive == FIF \in Nat \ {0} /\ FIF \notin 0 .. FIF - 1
  BY GateConstants

\* Fields of a manager.
LEMMA ManagerFields ==
    ASSUME NEW b \in Manager
    PROVE  /\ b.slots \in [Slots -> SlotRecord] /\ b.free \in Seq(Slots) /\ b.nextGen \in Nat
           /\ b.ring \in [0 .. FIF - 1 -> Seq(SlotOp)] /\ b.due \in Seq(SlotOp)
           /\ b.destroyed \subseteq Texture
  BY DEF Manager

\* Enqueue touches the ring of the operation's frame only.
LEMMA EnqueueFacts ==
    ASSUME NEW b \in Manager, NEW op \in SlotOp
    PROVE  /\ Enqueue(b, op) \in Manager /\ Slot(op.frame) \in 0 .. FIF - 1
           /\ Enqueue(b, op).slots = b.slots /\ Enqueue(b, op).due = b.due
           /\ Enqueue(b, op).free = b.free /\ Enqueue(b, op).nextGen = b.nextGen
           /\ Enqueue(b, op).destroyed = b.destroyed
           /\ Enqueue(b, op).ring =
                 [b.ring EXCEPT ![Slot(op.frame)] = Append(b.ring[Slot(op.frame)], op)]
<1>1. op.frame \in Nat /\ Slot(op.frame) \in 0 .. FIF - 1
  BY FifPositive, SlotRange DEF SlotOp
<1>2. b.ring[Slot(op.frame)] \in Seq(SlotOp)
  BY <1>1, ManagerFields
<1>3. Append(b.ring[Slot(op.frame)], op) \in Seq(SlotOp)
  BY <1>2
<1>4. Enqueue(b, op) = [b EXCEPT !.ring = [b.ring EXCEPT ![Slot(op.frame)] =
                                              Append(b.ring[Slot(op.frame)], op)]]
  BY <1>1 DEF Enqueue, Manager
<1>. QED BY <1>1, <1>3, <1>4 DEF Manager

\* Destroyed touches the destroyed textures only.
LEMMA DestroyedFacts ==
    ASSUME NEW b \in Manager, NEW t \in Texture \cup {None}
    PROVE  /\ Destroyed(b, t) \in Manager
           /\ Destroyed(b, t).slots = b.slots /\ Destroyed(b, t).due = b.due
           /\ Destroyed(b, t).free = b.free /\ Destroyed(b, t).nextGen = b.nextGen
           /\ Destroyed(b, t).ring = b.ring
           /\ Destroyed(b, t).destroyed = b.destroyed \cup ({t} \ {None})
  BY DEF Destroyed, Manager

-----------------------------------------------------------------------------
(* Queues, by place *)

\* What two managers with the same queues have in common.
LEMMA SameQueues ==
    ASSUME NEW b, NEW c, c.ring = b.ring, c.due = b.due
    PROVE  /\ PlacesIn(c) = PlacesIn(b) /\ QueuedIn(c) = QueuedIn(b)
           /\ \A p : OpIn(c, p) = OpIn(b, p)
           /\ UniqueIn(c) <=> UniqueIn(b)
<1>1. PlacesIn(c) = PlacesIn(b) /\ \A p : OpIn(c, p) = OpIn(b, p)
  BY DEF PlacesIn, OpIn, Queue
<1>. QED BY <1>1 DEF QueuedIn, UniqueIn

\* An operation is queued at the end of a ring.
Adds(b, c, q, op) ==
    /\ q \notin PlacesIn(b) /\ PlacesIn(c) = PlacesIn(b) \cup {q}
    /\ OpIn(c, q) = op /\ \A p \in PlacesIn(b) : OpIn(c, p) = OpIn(b, p)

LEMMA RingAdds ==
    ASSUME NEW b \in Manager, NEW c, NEW op, NEW s \in 0 .. FIF - 1,
           c.ring = [b.ring EXCEPT ![s] = Append(b.ring[s], op)], c.due = b.due
    PROVE  \E q : q[1] = s /\ Adds(b, c, q, op)
<1>0. b.ring[s] \in Seq(SlotOp)
  BY ManagerFields
<1>1. PICK n \in Nat : n = Len(b.ring[s])
  BY <1>0
<1>2. /\ b.ring[s] \in Seq(SlotOp) /\ s # FIF
      /\ Len(c.ring[s]) = n + 1 /\ c.ring[s][n + 1] = op
      /\ \A k \in 1 .. n : c.ring[s][k] = b.ring[s][k]
      /\ \A r \in 0 .. FIF - 1 : r # s => c.ring[r] = b.ring[r]
  BY <1>1, ManagerFields, FifPositive
<1>3. \A r \in 0 .. FIF : r # s => Queue(c, r) = Queue(b, r)
  BY <1>2 DEF Queue
<1>4. Queue(c, s) = c.ring[s] /\ Queue(b, s) = b.ring[s]
  BY <1>2 DEF Queue
<1>5. PICK q : q = <<s, n + 1>>
  OBVIOUS
<1>6. q \in (0 .. FIF) \X Nat /\ q[1] = s /\ q[2] = n + 1
  BY <1>1, <1>5, FifPositive
<1>7. PlacesIn(c) = PlacesIn(b) \cup {q}
  <2>1. ASSUME NEW p \in (0 .. FIF) \X Nat
        PROVE  p[2] \in 1 .. Len(Queue(c, p[1]))
                 <=> p[2] \in 1 .. Len(Queue(b, p[1])) \/ p = q
    <3>1. CASE p[1] = s
      BY <1>1, <1>2, <1>4, <1>5, <3>1
    <3>2. CASE p[1] # s
      BY <1>3, <1>6, <3>2
    <3>. QED BY <3>1, <3>2
  <2>. QED BY <1>6, <2>1 DEF PlacesIn
<1>8. q \notin PlacesIn(b)
  BY <1>1, <1>4, <1>6 DEF PlacesIn
<1>9. ASSUME NEW p \in PlacesIn(b) PROVE OpIn(c, p) = OpIn(b, p)
  <2>1. p[1] \in 0 .. FIF /\ p[2] \in 1 .. Len(Queue(b, p[1]))
    BY DEF PlacesIn
  <2>2. CASE p[1] = s
    BY <1>1, <1>2, <1>4, <2>1, <2>2 DEF OpIn
  <2>3. CASE p[1] # s
    BY <1>2, <2>1, <2>3 DEF OpIn
  <2>. QED BY <2>2, <2>3
<1>10. OpIn(c, q) = op
  BY <1>2, <1>6 DEF OpIn
<1>. QED BY <1>6, <1>7, <1>8, <1>9, <1>10 DEF Adds

\* The first operation being drained is taken.
Takes(b, c, q) ==
    /\ q \in PlacesIn(b) /\ PlacesIn(c) = PlacesIn(b) \ {q}
    /\ \A p \in PlacesIn(c) : OpIn(c, p) = OpIn(b, p)

LEMMA DueTakes ==
    ASSUME NEW b \in Manager, NEW c, b.due # <<>>, c.due = Tail(b.due), c.ring = b.ring
    PROVE  \E q : q[1] = FIF /\ OpIn(b, q) = Head(b.due) /\ Takes(b, c, q)
<1>1. PICK n \in Nat : n = Len(b.due)
  BY ManagerFields
<1>2. /\ n > 0 /\ Head(b.due) = b.due[1] /\ Len(c.due) = n - 1
      /\ \A k \in 1 .. n - 1 : c.due[k] = b.due[k + 1]
  BY <1>1, ManagerFields
<1>3. PICK q : q = <<FIF, n>>
  OBVIOUS
<1>4. q \in (0 .. FIF) \X Nat /\ q[1] = FIF /\ q[2] = n
  BY <1>1, <1>3, FifPositive
<1>5. /\ Queue(b, FIF) = b.due /\ Queue(c, FIF) = c.due
      /\ \A r : r # FIF => Queue(c, r) = Queue(b, r)
  BY DEF Queue
<1>6. PlacesIn(c) = PlacesIn(b) \ {q} /\ q \in PlacesIn(b)
  <2>1. ASSUME NEW p \in (0 .. FIF) \X Nat
        PROVE  p[2] \in 1 .. Len(Queue(c, p[1]))
                 <=> p[2] \in 1 .. Len(Queue(b, p[1])) /\ p # q
    <3>1. CASE p[1] = FIF
      BY <1>1, <1>2, <1>3, <1>5, <3>1
    <3>2. CASE p[1] # FIF
      BY <1>4, <1>5, <3>2
    <3>. QED BY <3>1, <3>2
  <2>2. q[2] \in 1 .. Len(Queue(b, q[1]))
    BY <1>1, <1>2, <1>4, <1>5
  <2>. QED BY <1>4, <2>1, <2>2 DEF PlacesIn
<1>7. ASSUME NEW p \in PlacesIn(c) PROVE OpIn(c, p) = OpIn(b, p)
  <2>1. CASE p[1] = FIF
    <3>1. p[2] \in 1 .. n - 1
      BY <1>2, <1>5, <2>1 DEF PlacesIn
    <3>2. PICK k \in 1 .. n - 1 : k = (n - 1) + 1 - p[2]
      BY <1>1, <3>1
    <3>3. k + 1 = n + 1 - p[2] /\ c.due[k] = b.due[k + 1]
      BY <1>1, <1>2, <3>1, <3>2
    <3>. QED BY <1>1, <1>2, <2>1, <3>2, <3>3 DEF OpIn
  <2>2. CASE p[1] # FIF
    BY <2>2 DEF OpIn
  <2>. QED BY <2>1, <2>2
<1>8. OpIn(b, q) = Head(b.due)
  <2>1. n + 1 - n = 1
    BY <1>1
  <2>. QED BY <1>1, <1>2, <1>4, <2>1 DEF OpIn
<1>. QED BY <1>4, <1>6, <1>7, <1>8 DEF Takes

\* A ring is swapped out: its operations are now those being drained.
LEMMA RingSwaps ==
    ASSUME NEW b \in Manager, NEW c, NEW s \in 0 .. FIF - 1, b.due = <<>>,
           c.due = b.ring[s], c.ring = [b.ring EXCEPT ![s] = <<>>],
           NEW p \in PlacesIn(c)
    PROVE  \E q \in PlacesIn(b) :
              /\ OpIn(c, p) = OpIn(b, q)
              /\ p[1] = FIF => q[1] = s /\ q[2] = Len(b.ring[s]) + 1 - p[2]
              /\ p[1] # FIF => q = p /\ p[1] # s
<1>0. b.ring[s] \in Seq(SlotOp)
  BY ManagerFields
<1>1. PICK n \in Nat : n = Len(b.ring[s])
  BY <1>0
<1>2. p \in (0 .. FIF) \X Nat /\ p[1] \in 0 .. FIF /\ p[2] \in 1 .. Len(Queue(c, p[1]))
  BY DEF PlacesIn
<1>3. CASE p[1] = FIF
  <2>1. p[2] \in 1 .. n
    BY <1>1, <1>2, <1>3 DEF Queue
  <2>2. PICK q : q = <<s, n + 1 - p[2]>>
    OBVIOUS
  <2>3. q \in (0 .. FIF) \X Nat /\ q[1] = s /\ q[2] = n + 1 - p[2] /\ q[2] \in 1 .. n /\ s # FIF
    <3>1. PICK k \in 1 .. n : k = n + 1 - p[2]
      BY <1>1, <2>1
    <3>. QED  BY <2>2, <3>1, FifPositive
  <2>4. q \in PlacesIn(b)
    BY <1>1, <2>3 DEF PlacesIn, Queue
  <2>5. OpIn(c, p) = OpIn(b, q)
    BY <1>1, <1>3, <2>3 DEF OpIn
  <2>. QED BY <1>1, <1>3, <2>3, <2>4, <2>5
<1>4. CASE p[1] # FIF
  <2>1. p[1] \in 0 .. FIF - 1
    BY <1>2, <1>4, FifPositive
  <2>2. p[1] # s
    <3>1. ASSUME p[1] = s PROVE FALSE
      <4>1. c.ring[s] = <<>>
        BY ManagerFields
      <4>. QED BY <1>2, <1>4, <3>1, <4>1 DEF Queue
    <3>. QED BY <3>1
  <2>3. c.ring[p[1]] = b.ring[p[1]]
    BY <2>1, <2>2, ManagerFields
  <2>. QED BY <1>2, <1>4, <2>2, <2>3 DEF PlacesIn, OpIn, Queue
<1>. QED BY <1>3, <1>4

\* What an addition, a removal and a swap do to the textures that are queued.
LEMMA AddsQueued ==
    ASSUME NEW b, NEW c, NEW q, NEW op, Adds(b, c, q, op), UniqueIn(b),
           op.binding = None \/ op.binding \notin QueuedIn(b)
    PROVE  UniqueIn(c) /\ QueuedIn(c) = QueuedIn(b) \cup ({op.binding} \ {None})
  BY DEF Adds, UniqueIn, QueuedIn

LEMMA TakesQueued ==
    ASSUME NEW b, NEW c, NEW q, Takes(b, c, q), UniqueIn(b)
    PROVE  UniqueIn(c) /\ QueuedIn(c) = QueuedIn(b) \ {OpIn(b, q).binding}
  BY DEF Takes, UniqueIn, QueuedIn

LEMMA SwapsQueued ==
    ASSUME NEW b \in Manager, NEW c, NEW s \in 0 .. FIF - 1, b.due = <<>>,
           c.due = b.ring[s], c.ring = [b.ring EXCEPT ![s] = <<>>], UniqueIn(b)
    PROVE  UniqueIn(c) /\ QueuedIn(c) \subseteq QueuedIn(b)
<1>1. \A p \in PlacesIn(c) : \E q \in PlacesIn(b) :
         /\ OpIn(c, p) = OpIn(b, q)
         /\ p[1] = FIF => q[1] = s /\ q[2] = Len(b.ring[s]) + 1 - p[2]
         /\ p[1] # FIF => q = p /\ p[1] # s
  BY RingSwaps
<1>2. QueuedIn(c) \subseteq QueuedIn(b)
  BY <1>1 DEF QueuedIn
<1>3. ASSUME NEW p1 \in PlacesIn(c), NEW p2 \in PlacesIn(c),
             OpIn(c, p1).binding = OpIn(c, p2).binding, OpIn(c, p1).binding # None
      PROVE  p1 = p2
  <2>1. PICK q1 \in PlacesIn(b) :
           /\ OpIn(c, p1) = OpIn(b, q1)
           /\ p1[1] = FIF => q1[1] = s /\ q1[2] = Len(b.ring[s]) + 1 - p1[2]
           /\ p1[1] # FIF => q1 = p1 /\ p1[1] # s
    BY <1>1
  <2>2. PICK q2 \in PlacesIn(b) :
           /\ OpIn(c, p2) = OpIn(b, q2)
           /\ p2[1] = FIF => q2[1] = s /\ q2[2] = Len(b.ring[s]) + 1 - p2[2]
           /\ p2[1] # FIF => q2 = p2 /\ p2[1] # s
    BY <1>1
  <2>3. q1 = q2
    BY <1>3, <2>1, <2>2 DEF UniqueIn
  <2>4. CASE p1[1] # FIF
    BY <2>1, <2>2, <2>3, <2>4
  <2>5. CASE p1[1] = FIF
    <3>1. p2[1] = FIF
      BY <2>1, <2>2, <2>3, <2>5
    <3>2. PICK n \in Nat : n = Len(b.ring[s])
      <4>1. b.ring[s] \in Seq(SlotOp)
        BY ManagerFields
      <4>. QED  BY <4>1
    <3>3. p1 \in (0 .. FIF) \X Nat /\ p2 \in (0 .. FIF) \X Nat
      BY DEF PlacesIn
    <3>4. n + 1 - p1[2] = n + 1 - p2[2]
      BY <2>1, <2>2, <2>3, <2>5, <3>1, <3>2
    <3>5. p1[2] = p2[2]
      BY <3>2, <3>3, <3>4
    <3>. QED  BY <2>5, <3>1, <3>3, <3>5
  <2>. QED  BY <2>4, <2>5
<1>. QED  BY <1>2, <1>3 DEF UniqueIn

-----------------------------------------------------------------------------
(* The gate *)

\* The frames that run are the last FIF ones before the current one.
LEMMA RunningBefore ==
    ASSUME GateInv, NEW g \in running
    PROVE  /\ g \in Nat /\ frame \in Nat /\ g < frame /\ g >= frame - FIF
           /\ stage \in Building => g > frame - FIF
  BY DEF GateInv, GateTypeOK, RunningRecent

\* Steps that neither submit nor end a frame, nor begin to build one.
LEMMA SameGate ==
    ASSUME GateInv, UNCHANGED <<frame, gpuVars>>, stage' \in Building => stage \in Building
    PROVE  GateInv'
<1>1. GateTypeOK' /\ FencesExact'
  BY SameKeeps DEF GateInv, GateTypeOK
<1>2. RunningRecent(Building, {})'
  BY DEF GateInv, RunningRecent, gpuVars
<1>. QED  BY <1>1, <1>2 DEF GateInv

\* The fence that Acquire waits for is that of the frame FIF before this one.
LEMMA AcquireGate ==
    ASSUME GateInv, Acquire
    PROVE  GateInv'
<1>1. GateTypeOK' /\ FencesExact'
  BY SameKeeps DEF GateInv, GateTypeOK, Acquire
<1>2. ASSUME NEW g \in running PROVE g > frame - FIF
  BY RunningBefore, AfterWait, FifPositive DEF GateInv, Acquire
<1>3. RunningRecent(Building, {})'
  BY <1>2, RunningBefore DEF RunningRecent, Acquire, gpuVars
<1>. QED  BY <1>1, <1>3 DEF GateInv

\* A submitted frame is the youngest that runs, and the counter is past it.
LEMMA SubmitGate ==
    ASSUME GateInv, NEW success \in BOOLEAN, Finished(success)
    PROVE  GateInv'
<1>1. frame \in Nat /\ stage \in Building /\ stage' \notin Building /\ frame' = frame + 1
  BY DEF GateInv, GateTypeOK, Finished, Building, BuildStages
<1>2. GateTypeOK' /\ FencesExact'
  BY <1>1, SubmitKeeps, FifPositive DEF GateInv, Finished
<1>3. ASSUME NEW g \in running' PROVE g <= frame' /\ g # frame' /\ g >= frame' - FIF
  <2>1. CASE g = frame
    BY <1>1, <2>1, FifPositive
  <2>2. CASE g \in running
    BY <1>1, <2>2, RunningBefore, FifPositive
  <2>. QED  BY <2>1, <2>2 DEF Finished, Submit
<1>. QED  BY <1>1, <1>2, <1>3 DEF GateInv, RunningRecent

\* The frames that run are less than FIF apart.
LEMMA FinishGate ==
    ASSUME GateInv, NEW f \in running, Finish(f)
    PROVE  GateInv'
<1>1. \A g \in running : f - g < FIF /\ g - f < FIF
  <2>1. SUFFICES ASSUME NEW g \in running PROVE f - g < FIF /\ g - f < FIF
    OBVIOUS
  <2>. QED  BY RunningBefore, FifPositive
<1>2. GateTypeOK' /\ FencesExact'
  BY <1>1, FinishKeeps, FifPositive DEF GateInv
<1>3. RunningRecent(Building, {})'
  BY DEF GateInv, RunningRecent, Finish
<1>. QED  BY <1>2, <1>3 DEF GateInv

\* A later turn of a slot is FIF frames away.
LEMMA NextTurnAway ==
    ASSUME NEW f \in Nat, NEW n \in Nat, n > f, Slot(n) = Slot(f)
    PROVE  n >= f + FIF
  BY SlotsDiffer, FifPositive

-----------------------------------------------------------------------------
(* What stays of the queued operations *)

\* What a step does to the samples, to the turn and to the targets.
Steady ==
    /\ \A x \in samples' : x \in samples \/ x[2] \in Bound(bm')
    /\ NextTurn \in Nat /\ NextTurn' \in Nat /\ NextTurn' >= NextTurn
    /\ frame' = frame \/ bm'.due = <<>>
    /\ \A t \in Texture : ~Unmade(t) => target'[t] = target[t]

\* The publishes are those that were queued, where they were.
PublishesStay ==
    \A p \in PlacesIn(bm') : OpIn(bm', p).kind = "Publish" =>
       p \in PlacesIn(bm) /\ OpIn(bm', p) = OpIn(bm, p)

\* A texture that no slot shows is not sampled anew.
LEMMA FreshStays ==
    ASSUME NEW t, Steady, Fresh(t), t \notin Bound(bm')
    PROVE  Fresh(t)'
  BY DEF Fresh, Steady

LEMMA PastStays ==
    ASSUME NEW s, NEW t, Steady, Past(s, t), t \notin Bound(bm')
    PROVE  Past(s, t)'
<1>1. SUFFICES ASSUME NEW n \in Nat, NEW x \in samples', Slot(n) = s, n >= NextTurn', x[2] = t
               PROVE  x[1] <= n - FIF
  BY DEF Past, Slot
<1>2. n >= NextTurn
  BY <1>1 DEF Steady
<1>3. x \in samples
  BY <1>1 DEF Steady
<1>. QED  BY <1>1, <1>2, <1>3 DEF Past

\* An operation that stays queued stays in order, unless a slot shows its texture.
LEMMA OpStays ==
    ASSUME Steady, PlaceInv, NEW p \in PlacesIn(bm), NEW op, op = OpIn(bm, p),
           OpOK(p[1], op), op.binding \notin Bound(bm'),
           bm'.due = <<>> => p[1] # FIF
    PROVE  OpOK(p[1], op)'
<1>1. Slot(op.frame) = IF p[1] = FIF THEN Slot(frame') ELSE p[1]
  BY DEF OpOK, Steady
<1>2. op.kind = "Publish" => /\ op.binding \in Texture /\ Fresh(op.binding)'
                             /\ target'[op.binding] = [slot |-> op.slot, gen |-> op.gen]
  <2>1. SUFFICES ASSUME op.kind = "Publish"
                 PROVE  /\ op.binding \in Texture /\ Fresh(op.binding)'
                        /\ target'[op.binding] = [slot |-> op.slot, gen |-> op.gen]
    OBVIOUS
  <2>2. /\ op.binding \in Texture /\ Fresh(op.binding)
        /\ target[op.binding] = [slot |-> op.slot, gen |-> op.gen]
    BY <2>1 DEF OpOK
  <2>3. op.binding \in QueuedIn(bm)
    BY <2>2, BindlessConstants DEF QueuedIn
  <2>4. ~Unmade(op.binding)
    BY <2>2, <2>3 DEF PlaceInv
  <2>. QED  BY <2>2, <2>4, FreshStays DEF Steady
<1>3. op.kind = "Decommit" => op.binding = None
  BY DEF OpOK
<1>4. op.kind = "Destroy" =>
         /\ op.binding \in Texture
         /\ IF p[1] = FIF THEN Fresh(op.binding)' ELSE Past(p[1], op.binding)'
  BY FreshStays, PastStays DEF OpOK
<1>. QED  BY <1>1, <1>2, <1>3, <1>4 DEF OpOK, Slot, Fresh, Past, NextTurn

\* OpInv of the next state, operation by operation.
LEMMA OpInvNext ==
    ASSUME \A p \in PlacesIn(bm') : \A op : op = OpIn(bm', p) => OpOK(p[1], op)'
    PROVE  OpInv'
<1>1. SUFFICES ASSUME NEW p \in PlacesIn(bm') PROVE OpOK(p[1], OpIn(bm, p))'
  BY DEF OpInv, PlacesIn, OpIn, Queue
<1>2. PICK op : op = OpIn(bm', p)
  OBVIOUS
<1>3. OpOK(p[1], op)'
  BY <1>1, <1>2
<1>. QED  BY <1>2, <1>3 DEF OpOK, OpIn, Slot, Fresh, Past, NextTurn

\* A step, by what becomes of each texture's place: the operations outside S stay
\* where they were, those in S are in order, nothing that was sampled is
\* destroyed, and a texture that is not made yet stays out of it all.
LEMMA PlacesStep ==
    ASSUME OpInv, PlaceInv, SampledAlive, Steady, UniqueIn(bm'),
           bm'.destroyed \cap Bound(bm') = {}, bm'.destroyed \cap QueuedIn(bm') = {},
           Bound(bm') \cap QueuedIn(bm') = {},
           \A t \in bm'.destroyed : t \in bm.destroyed \/ Fresh(t),
           NEW S,
           \A p \in PlacesIn(bm') \ S : p \in PlacesIn(bm) /\ OpIn(bm', p) = OpIn(bm, p),
           \A p \in S : \A op : op = OpIn(bm', p) => OpOK(p[1], op)',
           \A t \in Texture : Unmade(t)' =>
              /\ Unmade(t) /\ copied'[t] = copied[t]
              /\ t \notin bm'.destroyed \cup Bound(bm') \cup QueuedIn(bm'),
           \A t \in Texture : upload'[t] # "none" => target'[t] # None,
           stage' # "drain" => bm'.due = <<>>
    PROVE  OpInv' /\ UniqueIn(bm)' /\ PlaceInv' /\ SampledAlive'
<1>1. ASSUME NEW p \in PlacesIn(bm'), NEW op, op = OpIn(bm', p)
      PROVE  OpOK(p[1], op)'
  <2>1. CASE p \in S
    BY <1>1, <2>1
  <2>2. CASE p \notin S
    <3>1. p \in PlacesIn(bm) /\ op = OpIn(bm, p)
      BY <1>1, <2>2
    <3>2. OpOK(p[1], op)
      BY <3>1 DEF OpInv
    <3>3. op.binding \notin Bound(bm')
      <4>1. op.binding # None => op.binding \in QueuedIn(bm')
        BY <1>1 DEF QueuedIn
      <4>2. None \notin Bound(bm')
        BY DEF Bound
      <4>. QED  BY <4>1, <4>2
    <3>4. bm'.due = <<>> => p[1] # FIF
      BY <1>1 DEF PlacesIn, Queue
    <3>. QED  BY <3>1, <3>2, <3>3, <3>4, OpStays
  <2>. QED  BY <2>1, <2>2
<1>2. OpInv'
  BY <1>1, OpInvNext
<1>3. UniqueIn(bm)'
  BY DEF UniqueIn, PlacesIn, OpIn, Queue
<1>4. ASSUME NEW t \in Texture, Unmade(t)'
      PROVE  /\ t \notin bm'.destroyed \cup Bound(bm') \cup QueuedIn(bm')
             /\ Fresh(t)' /\ copied'[t] = None
  <2>1. Fresh(t) /\ copied[t] = None
    BY <1>4 DEF PlaceInv
  <2>. QED  BY <1>4, <2>1, FreshStays
<1>5. Bound(bm)' = Bound(bm') /\ QueuedIn(bm)' = QueuedIn(bm')
  BY DEF Bound, QueuedIn, PlacesIn, OpIn, Queue
<1>6. PlaceInv'
  BY <1>4, <1>5 DEF PlaceInv
<1>7. SampledAlive'
  <2>1. SUFFICES ASSUME NEW x \in samples' PROVE x[2] \notin bm'.destroyed
    BY DEF SampledAlive
  <2>2. CASE x[2] \in Bound(bm')
    BY <2>2
  <2>3. CASE x \in samples
    BY <2>3 DEF SampledAlive, Fresh
  <2>. QED  BY <2>2, <2>3 DEF Steady
<1>. QED  BY <1>2, <1>3, <1>6, <1>7

\* A step that leaves the queues and the destroyed textures as they are and shows
\* nothing new.
LEMMA CalmStep ==
    ASSUME OpInv, UniqueIn(bm), PlaceInv, SampledAlive, Steady,
           bm'.ring = bm.ring, bm'.due = bm.due, bm'.destroyed = bm.destroyed,
           Bound(bm') \subseteq Bound(bm),
           \A t \in Texture : Unmade(t)' => Unmade(t) /\ copied'[t] = copied[t],
           \A t \in Texture : upload'[t] # "none" => target'[t] # None,
           stage' # "drain" => bm'.due = <<>>
    PROVE  OpInv' /\ UniqueIn(bm)' /\ PlaceInv' /\ SampledAlive'
<1>1. /\ PlacesIn(bm') = PlacesIn(bm) /\ QueuedIn(bm') = QueuedIn(bm)
      /\ \A p : OpIn(bm', p) = OpIn(bm, p)
      /\ UniqueIn(bm')
  BY SameQueues
<1>2. /\ bm'.destroyed \cap Bound(bm') = {} /\ bm'.destroyed \cap QueuedIn(bm') = {}
      /\ Bound(bm') \cap QueuedIn(bm') = {}
  BY <1>1 DEF PlaceInv
<1>3. ASSUME NEW t \in Texture, Unmade(t)'
      PROVE  /\ Unmade(t) /\ copied'[t] = copied[t]
             /\ t \notin bm'.destroyed \cup Bound(bm') \cup QueuedIn(bm')
  BY <1>1, <1>3 DEF PlaceInv
<1>4. PICK S : S = {}
  OBVIOUS
<1>. QED  BY <1>1, <1>2, <1>3, <1>4, PlacesStep

-----------------------------------------------------------------------------
(* The frame's steps *)

\* What the slots show are textures.
LEMMA BoundTyped ==
    ASSUME NEW b \in Manager
    PROVE  Bound(b) \subseteq Texture
<1>1. \A s \in Slots : b.slots[s].binding \in Texture \cup {None}
  BY ManagerFields DEF SlotRecord
<1>. QED  BY <1>1 DEF Bound

\* Observe adds to the samples only what slots show.
LEMMA SamplesAfter ==
    ASSUME TypeOK, Observe, bm' \in Manager
    PROVE  /\ samples' \subseteq running' \X Texture
           /\ \A x \in samples' : x \in samples \/ x[2] \in Bound(bm')
<1>1. Bound(bm') \subseteq Texture
  BY BoundTyped
<1>. QED  BY <1>1 DEF Observe, TypeOK

LEMMA TurnTyped ==
    ASSUME TypeOK
    PROVE  frame \in Nat /\ NextTurn \in Nat
  BY DEF TypeOK, GateTypeOK, NextTurn

\* Acquire and the end of the drain only move the loop on.
LEMMA LoopStep ==
    ASSUME IInv, Acquire \/ Prepared
    PROVE  IInv'
<1>1. UNCHANGED <<bindlessVars, frame, gpuVars>>
  BY DEF Acquire, Prepared
<1>2. stage' \in BuildStages \cup {"idle", "drain"} /\ stage' # "drain"
  BY DEF Acquire, Prepared, BuildStages
<1>3. GateInv'
  <2>1. CASE Acquire
    BY <2>1, AcquireGate DEF IInv
  <2>2. CASE Prepared
    BY <2>2, <1>1, SameGate DEF IInv, Prepared, Building
  <2>. QED  BY <2>1, <2>2
<1>4. TypeOK'
  BY <1>1, <1>2, <1>3 DEF IInv, TypeOK, GateInv, bindlessVars, gpuVars
<1>5. NextTurn \in Nat /\ NextTurn' = NextTurn
  <2>1. NextTurn \in Nat
    BY TurnTyped DEF IInv
  <2>. QED  BY <2>1, <1>1 DEF NextTurn, Acquire, Prepared
<1>6. bm'.due = <<>>
  BY <1>1 DEF Acquire, Prepared, IInv, PlaceInv, bindlessVars
<1>7. Steady
  BY <1>1, <1>5 DEF Steady, bindlessVars
<1>8. OpInv' /\ UniqueIn(bm)' /\ PlaceInv' /\ SampledAlive'
  <2>1. OpInv /\ UniqueIn(bm) /\ PlaceInv /\ SampledAlive
    BY DEF IInv
  <2>2. /\ \A t \in Texture : Unmade(t)' => Unmade(t) /\ copied'[t] = copied[t]
        /\ \A t \in Texture : upload'[t] # "none" => target'[t] # None
    BY <1>1 DEF IInv, PlaceInv, Unmade, bindlessVars
  <2>3. bm' = bm
    BY <1>1 DEF bindlessVars
  <2>. QED  BY <1>6, <1>7, <2>1, <2>2, <2>3, CalmStep
<1>9. ShowsOwnTexture'
  BY <1>1 DEF IInv, ShowsOwnTexture, bindlessVars
<1>. QED  BY <1>3, <1>4, <1>8, <1>9 DEF IInv

\* A submission and its end: what the slots show may be sampled by one frame more.
LEMMA SubmitStep ==
    ASSUME IInv, NEW success \in BOOLEAN, Finished(success)
    PROVE  IInv'
<1>1. UNCHANGED <<bm, target, upload, copied>> /\ Observe
  BY DEF Finished
<1>2. GateInv'
  BY SubmitGate DEF IInv
<1>3. bm' \in Manager /\ bm' = bm
  BY <1>1 DEF IInv, TypeOK
<1>4. /\ samples' \subseteq running' \X Texture
      /\ \A x \in samples' : x \in samples \/ x[2] \in Bound(bm')
  BY <1>1, <1>3, SamplesAfter DEF IInv
<1>5. frame \in Nat /\ NextTurn \in Nat
  BY TurnTyped DEF IInv
<1>6. rendered' \in 0 .. frame'
  <2>1. rendered \in 0 .. frame /\ frame' = frame + 1
    BY DEF IInv, TypeOK, Finished
  <2>. QED  BY <1>5, <2>1 DEF Finished
<1>7. TypeOK'
  BY <1>1, <1>2, <1>3, <1>4, <1>6 DEF IInv, TypeOK, GateInv, Finished
<1>8. bm'.due = <<>>
  BY <1>1 DEF Finished, IInv, PlaceInv, BuildStages
<1>9. Steady
  <2>1. NextTurn' = frame + 1 /\ NextTurn' \in Nat /\ NextTurn' >= NextTurn
    BY <1>5 DEF NextTurn, Finished
  <2>. QED  BY <1>1, <1>4, <1>5, <1>8, <2>1 DEF Steady
<1>10. OpInv' /\ UniqueIn(bm)' /\ PlaceInv' /\ SampledAlive'
  <2>1. OpInv /\ UniqueIn(bm) /\ PlaceInv /\ SampledAlive
    BY DEF IInv
  <2>2. /\ \A t \in Texture : Unmade(t)' => Unmade(t) /\ copied'[t] = copied[t]
        /\ \A t \in Texture : upload'[t] # "none" => target'[t] # None
    BY <1>1 DEF IInv, PlaceInv, Unmade
  <2>. QED  BY <1>3, <1>8, <1>9, <2>1, <2>2, CalmStep
<1>11. ShowsOwnTexture'
  BY <1>1 DEF IInv, ShowsOwnTexture
<1>. QED  BY <1>2, <1>7, <1>10, <1>11 DEF IInv

LEMMA FinishStep ==
    ASSUME IInv, GpuFinishes
    PROVE  IInv'
<1>1. UNCHANGED <<bm, target, upload, copied, rendered, frame, stage>> /\ Observe
  BY DEF GpuFinishes, Finish
<1>2. GateInv'
  BY FinishGate DEF IInv, GpuFinishes
<1>3. bm' \in Manager /\ bm' = bm
  BY <1>1 DEF IInv, TypeOK
<1>4. /\ samples' \subseteq running' \X Texture
      /\ \A x \in samples' : x \in samples \/ x[2] \in Bound(bm')
  BY <1>1, <1>3, SamplesAfter DEF IInv
<1>5. TypeOK'
  BY <1>1, <1>2, <1>3, <1>4 DEF IInv, TypeOK, GateInv
<1>6. Steady
  <2>1. NextTurn \in Nat /\ NextTurn' = NextTurn
    BY <1>1, TurnTyped DEF IInv, NextTurn
  <2>. QED  BY <1>1, <1>4, <2>1 DEF Steady
<1>7. OpInv' /\ UniqueIn(bm)' /\ PlaceInv' /\ SampledAlive'
  <2>1. OpInv /\ UniqueIn(bm) /\ PlaceInv /\ SampledAlive
    BY DEF IInv
  <2>2. /\ \A t \in Texture : Unmade(t)' => Unmade(t) /\ copied'[t] = copied[t]
        /\ \A t \in Texture : upload'[t] # "none" => target'[t] # None
        /\ stage' # "drain" => bm'.due = <<>>
    BY <1>1 DEF IInv, PlaceInv, Unmade
  <2>. QED  BY <1>3, <1>6, <2>1, <2>2, CalmStep
<1>8. ShowsOwnTexture'
  BY <1>1 DEF IInv, ShowsOwnTexture
<1>. QED  BY <1>2, <1>5, <1>7, <1>8 DEF IInv

\* What a pump may do to an upload: nothing that was not submitted moves.
LEMMA PumpFacts ==
    ASSUME TypeOK, NEW finished \in SUBSET Texture, NEW failed \in SUBSET Texture,
           NEW staged \in SUBSET Texture, Pump(finished, failed, staged)
    PROVE  /\ upload' \in [Texture -> {"none", "submitted", "waiting", "staged",
                                       "recorded", "failed"}]
           /\ \A t \in Texture :
                 upload'[t] = upload[t]
                   \/ /\ upload[t] \in {"submitted", "waiting"}
                      /\ upload'[t] \in {"waiting", "staged", "failed"}
<1>1. PICK ready : ready = (finished \cup In({"waiting"})) \ failed
  OBVIOUS
<1>2. /\ finished \subseteq In({"submitted"}) /\ failed \subseteq finished \cup In({"waiting"})
      /\ staged \subseteq ready
      /\ upload' = [t \in Texture |-> CASE t \in staged -> "staged"
                                        [] t \in failed -> "failed"
                                        [] t \in ready \ staged -> "waiting"
                                        [] OTHER -> upload[t]]
  BY <1>1 DEF Pump
<1>3. \A t \in ready \cup failed : upload[t] \in {"submitted", "waiting"}
  BY <1>1, <1>2 DEF In
<1>4. ASSUME NEW t \in Texture
      PROVE  upload'[t] = upload[t]
               \/ /\ upload[t] \in {"submitted", "waiting"}
                  /\ upload'[t] \in {"waiting", "staged", "failed"}
  <2>1. CASE t \in staged
    BY <1>2, <1>3, <2>1
  <2>2. CASE t \in failed \ staged
    BY <1>2, <1>3, <2>2
  <2>3. CASE t \in ready \ (staged \cup failed)
    BY <1>2, <1>3, <2>3
  <2>4. CASE t \notin staged \cup failed \cup ready
    BY <1>2, <2>4
  <2>. QED  BY <2>1, <2>2, <2>3, <2>4
<1>5. \A t \in Texture : upload'[t] \in {"none", "submitted", "waiting", "staged",
                                         "recorded", "failed"}
  BY <1>4 DEF TypeOK
<1>. QED  BY <1>2, <1>4, <1>5

LEMMA SwapFacts ==
    ASSUME NEW b \in Manager, NEW f \in Nat
    PROVE  /\ SwappedOut(b, f) \in Manager /\ Slot(f) \in 0 .. FIF - 1
           /\ SwappedOut(b, f).slots = b.slots
           /\ SwappedOut(b, f).destroyed = b.destroyed
           /\ SwappedOut(b, f).due = b.ring[Slot(f)]
           /\ SwappedOut(b, f).ring = [b.ring EXCEPT ![Slot(f)] = <<>>]
<1>1. Slot(f) \in 0 .. FIF - 1
  BY FifPositive, SlotRange
<1>2. SwappedOut(b, f) = [b EXCEPT !.due = b.ring[Slot(f)],
                                   !.ring = [b.ring EXCEPT ![Slot(f)] = <<>>]]
  BY DEF SwappedOut, Manager
<1>3. b.ring[Slot(f)] \in Seq(SlotOp) /\ <<>> \in Seq(SlotOp)
  <2>1. b.ring[Slot(f)] \in Seq(SlotOp)
    BY <1>1, ManagerFields
  <2>. QED  BY <2>1
<1>4. [b.ring EXCEPT ![Slot(f)] = <<>>] \in [0 .. FIF - 1 -> Seq(SlotOp)]
  BY <1>3, ManagerFields
<1>. QED  BY <1>1, <1>2, <1>3, <1>4 DEF Manager

\* When the turn of its slot comes, no running frame samples a texture that waits
\* to be destroyed in the ring.
LEMMA TurnIsFresh ==
    ASSUME TypeOK, GateInv, stage = "update", NEW t, Past(Slot(frame), t)
    PROVE  Fresh(t)
<1>1. SUFFICES ASSUME NEW x \in samples, x[2] = t PROVE FALSE
  BY DEF Fresh
<1>2. frame \in Nat /\ NextTurn = frame
  BY TurnTyped DEF NextTurn
<1>3. x[1] <= frame - FIF
  BY <1>1, <1>2, FifPositive DEF Past
<1>4. x[1] \in running
  BY DEF TypeOK
<1>5. x[1] \in Nat /\ x[1] > frame - FIF
  BY <1>4, RunningBefore DEF Building, BuildStages
<1>. QED  BY <1>2, <1>3, <1>5, FifPositive

\* FrameRender's pump and the swap of the ring.
LEMMA BeginStep ==
    ASSUME IInv, BeginFrame
    PROVE  /\ IInv' /\ Bound(bm') = Bound(bm)
           /\ \A p \in PlacesIn(bm') : \E q \in PlacesIn(bm) :
                 /\ OpIn(bm', p) = OpIn(bm, q)
                 /\ p[1] = FIF => q[1] = Slot(frame)
                 /\ p[1] # FIF => q = p /\ p[1] # Slot(frame)
<1>1. /\ UNCHANGED <<frame, gpuVars, target, copied, rendered>> /\ Observe
      /\ stage = "update" /\ stage' = "drain" /\ bm' = SwappedOut(bm, frame)
  BY DEF BeginFrame
<1>2. bm \in Manager /\ frame \in Nat /\ NextTurn = frame /\ NextTurn' = frame + 1
  BY <1>1, TurnTyped DEF IInv, TypeOK, NextTurn
<1>3. /\ bm' \in Manager /\ Slot(frame) \in 0 .. FIF - 1
      /\ bm'.slots = bm.slots /\ bm'.destroyed = bm.destroyed
      /\ bm'.due = bm.ring[Slot(frame)] /\ bm'.ring = [bm.ring EXCEPT ![Slot(frame)] = <<>>]
  BY <1>1, <1>2, SwapFacts
<1>4. /\ upload' \in [Texture -> {"none", "submitted", "waiting", "staged",
                                  "recorded", "failed"}]
      /\ \A t \in Texture :
            upload'[t] = upload[t]
              \/ /\ upload[t] \in {"submitted", "waiting"}
                 /\ upload'[t] \in {"waiting", "staged", "failed"}
  <2>1. PICK finished, failed, staged \in SUBSET Texture : Pump(finished, failed, staged)
    BY DEF BeginFrame
  <2>. QED  BY <2>1, PumpFacts DEF IInv
<1>5. GateInv'
  BY <1>1, SameGate DEF IInv, Building, BuildStages
<1>6. /\ samples' \subseteq running' \X Texture
      /\ \A x \in samples' : x \in samples \/ x[2] \in Bound(bm')
  BY <1>1, <1>3, SamplesAfter DEF IInv
<1>7. TypeOK'
  BY <1>1, <1>3, <1>4, <1>5, <1>6 DEF IInv, TypeOK, GateInv
<1>8. Steady
  BY <1>1, <1>2, <1>6 DEF Steady
<1>9. Bound(bm') = Bound(bm) /\ bm.due = <<>>
  BY <1>1, <1>3 DEF Bound, IInv, PlaceInv
<1>10. UniqueIn(bm') /\ QueuedIn(bm') \subseteq QueuedIn(bm)
  BY <1>2, <1>3, <1>9, SwapsQueued DEF IInv
<1>11. \A p \in PlacesIn(bm') : \E q \in PlacesIn(bm) :
          /\ OpIn(bm', p) = OpIn(bm, q)
          /\ p[1] = FIF => q[1] = Slot(frame)
          /\ p[1] # FIF => q = p /\ p[1] # Slot(frame)
  BY <1>2, <1>3, <1>9, RingSwaps
<1>12. PICK S : S = {p \in PlacesIn(bm') : p[1] = FIF}
  OBVIOUS
<1>13. ASSUME NEW p \in S, NEW op, op = OpIn(bm', p)
       PROVE  OpOK(p[1], op)'
  <2>1. PICK q \in PlacesIn(bm) : op = OpIn(bm, q) /\ q[1] = Slot(frame)
    BY <1>11, <1>12, <1>13
  <2>2. OpOK(Slot(frame), op) /\ Slot(frame) # FIF
    BY <1>3, <2>1, FifPositive DEF IInv, OpInv
  <2>3. op.binding \notin Bound(bm')
    <3>1. op.binding # None => op.binding \in QueuedIn(bm)
      BY <2>1 DEF QueuedIn
    <3>2. None \notin Bound(bm')
      BY DEF Bound
    <3>. QED  BY <1>9, <3>1, <3>2 DEF IInv, PlaceInv
  <2>4. Slot(op.frame) = Slot(frame')
    BY <1>1, <2>2 DEF OpOK
  <2>5. ASSUME op.kind = "Publish"
        PROVE  /\ op.binding \in Texture /\ Fresh(op.binding)'
               /\ target'[op.binding] = [slot |-> op.slot, gen |-> op.gen]
    BY <1>1, <1>8, <2>2, <2>3, <2>5, FreshStays DEF OpOK
  <2>6. op.kind = "Decommit" => op.binding = None
    BY <2>2 DEF OpOK
  <2>7. ASSUME op.kind = "Destroy" PROVE op.binding \in Texture /\ Fresh(op.binding)'
    <3>1. op.binding \in Texture /\ Past(Slot(frame), op.binding)
      BY <2>2, <2>7 DEF OpOK
    <3>2. Fresh(op.binding)
      BY <1>1, <3>1, TurnIsFresh DEF IInv
    <3>. QED  BY <1>8, <2>3, <3>1, <3>2, FreshStays
  <2>8. p[1] = FIF
    BY <1>12, <1>13
  <2>. QED  BY <2>4, <2>5, <2>6, <2>7, <2>8 DEF OpOK, Slot, Fresh
<1>14. ASSUME NEW p \in PlacesIn(bm') \ S
       PROVE  p \in PlacesIn(bm) /\ OpIn(bm', p) = OpIn(bm, p)
  BY <1>11, <1>12, <1>14
<1>15. ASSUME NEW t \in Texture, Unmade(t)'
       PROVE  /\ Unmade(t) /\ copied'[t] = copied[t]
              /\ t \notin bm'.destroyed \cup Bound(bm') \cup QueuedIn(bm')
  <2>1. Unmade(t)
    BY <1>1, <1>4, <1>15 DEF Unmade
  <2>. QED  BY <1>1, <1>3, <1>9, <1>10, <2>1 DEF IInv, PlaceInv
<1>16. ASSUME NEW t \in Texture, upload'[t] # "none" PROVE target'[t] # None
  BY <1>1, <1>4, <1>16 DEF IInv, PlaceInv
<1>17. /\ bm'.destroyed \cap Bound(bm') = {} /\ bm'.destroyed \cap QueuedIn(bm') = {}
       /\ Bound(bm') \cap QueuedIn(bm') = {}
  BY <1>3, <1>9, <1>10 DEF IInv, PlaceInv
<1>18. OpInv' /\ UniqueIn(bm)' /\ PlaceInv' /\ SampledAlive'
  <2>1. OpInv /\ PlaceInv /\ SampledAlive
    BY DEF IInv
  <2>. QED  BY <1>1, <1>3, <1>8, <1>10, <1>13, <1>14, <1>15, <1>16, <1>17, <2>1, PlacesStep
<1>19. ShowsOwnTexture'
  BY <1>1, <1>3 DEF IInv, ShowsOwnTexture
<1>20. IInv'
  BY <1>5, <1>7, <1>18, <1>19 DEF IInv
<1>. QED  BY <1>9, <1>11, <1>20

-----------------------------------------------------------------------------
(* The calls on the manager *)

\* A call leaves the loop and the frames alone.
LEMMA CallStep ==
    ASSUME IInv, UNCHANGED gateVars, Observe, bm' \in Manager
    PROVE  /\ GateInv' /\ samples' \subseteq running' \X Texture
           /\ \A x \in samples' : x \in samples \/ x[2] \in Bound(bm')
           /\ NextTurn \in Nat /\ NextTurn' = NextTurn
           /\ frame' = frame /\ stage' = stage /\ running' = running
<1>1. UNCHANGED <<frame, stage, running, gpuVars>>
  BY DEF gateVars, gpuVars
<1>2. GateInv'
  BY <1>1, SameGate DEF IInv
<1>3. NextTurn \in Nat /\ NextTurn' = NextTurn
  BY <1>1, TurnTyped DEF IInv, NextTurn
<1>4. /\ samples' \subseteq running' \X Texture
      /\ \A x \in samples' : x \in samples \/ x[2] \in Bound(bm')
  BY SamplesAfter DEF IInv
<1>. QED  BY <1>1, <1>2, <1>3, <1>4

\* The same with the types of what the call changes.
LEMMA CallTypes ==
    ASSUME IInv, UNCHANGED gateVars, Observe, bm' \in Manager, rendered' = rendered,
           target' \in [Texture -> Handle \cup {None}],
           upload' \in [Texture -> {"none", "submitted", "waiting", "staged",
                                    "recorded", "failed"}],
           copied' \in [Texture -> Nat \cup {None}]
    PROVE  TypeOK'
<1>1. /\ GateInv' /\ samples' \subseteq running' \X Texture
      /\ frame' = frame /\ stage' = stage
  BY CallStep
<1>. QED  BY <1>1 DEF IInv, TypeOK, GateInv

\* A call that leaves the queues and the destroyed textures alone and shows nothing
\* new.
LEMMA CalmCall ==
    ASSUME IInv, UNCHANGED <<gateVars, copied, rendered>>, Observe, bm' \in Manager,
           target' \in [Texture -> Handle \cup {None}],
           upload' \in [Texture -> {"none", "submitted", "waiting", "staged",
                                    "recorded", "failed"}],
           bm'.ring = bm.ring, bm'.due = bm.due, bm'.destroyed = bm.destroyed,
           Bound(bm') \subseteq Bound(bm),
           \A t \in Texture : ~Unmade(t) => target'[t] = target[t],
           \A t \in Texture : Unmade(t)' => Unmade(t),
           \A t \in Texture : upload'[t] # "none" => target'[t] # None,
           ShowsOwnTexture'
    PROVE  IInv'
<1>1. /\ GateInv' /\ frame' = frame /\ stage' = stage
      /\ \A x \in samples' : x \in samples \/ x[2] \in Bound(bm')
      /\ NextTurn \in Nat /\ NextTurn' = NextTurn
  BY CallStep
<1>2. TypeOK'
  <2>1. copied' \in [Texture -> Nat \cup {None}]
    BY DEF IInv, TypeOK
  <2>. QED  BY <2>1, CallTypes
<1>3. Steady
  BY <1>1 DEF Steady
<1>4. OpInv' /\ UniqueIn(bm)' /\ PlaceInv' /\ SampledAlive'
  <2>1. OpInv /\ UniqueIn(bm) /\ PlaceInv /\ SampledAlive
    BY DEF IInv
  <2>2. stage' # "drain" => bm'.due = <<>>
    BY <1>1, <2>1 DEF PlaceInv
  <2>3. \A t \in Texture : Unmade(t)' => Unmade(t) /\ copied'[t] = copied[t]
    OBVIOUS
  <2>. QED  BY <1>3, <2>1, <2>2, <2>3, CalmStep
<1>. QED  BY <1>1, <1>2, <1>4 DEF IInv

\* The slot taken from the free list is the taker's alone, with a generation of
\* its own.
LEMMA TakeFacts ==
    ASSUME TypeOK, NEW users \in {0, 1}, NEW x \in Texture \cup {None}, Take(users, x)
    PROVE  /\ bm' \in Manager /\ Taken \in Slots /\ bm.nextGen \in Nat
           /\ bm'.slots = [bm.slots EXCEPT ![Taken] = [gen |-> bm.nextGen, users |-> users,
                                                       released |-> FALSE, binding |-> x]]
           /\ bm'.ring = bm.ring /\ bm'.due = bm.due /\ bm'.destroyed = bm.destroyed
<1>1. bm \in Manager /\ bm.free # <<>> /\ bm.free \in Seq(Slots) /\ bm.nextGen \in Nat
  BY ManagerFields DEF TypeOK, Take
<1>2. PICK n \in Nat : n = Len(bm.free)
  BY <1>1
<1>3. n > 0 /\ Taken \in Slots
  BY <1>1, <1>2 DEF Taken
<1>4. SubSeq(bm.free, 1, n - 1) \in Seq(Slots)
  BY <1>1, <1>2, <1>3
<1>5. PICK r : r = [gen |-> bm.nextGen, users |-> users, released |-> FALSE, binding |-> x]
  OBVIOUS
<1>6. r \in SlotRecord
  BY <1>1, <1>5 DEF SlotRecord
<1>7. [bm.slots EXCEPT ![Taken] = r] \in [Slots -> SlotRecord]
  BY <1>1, <1>3, <1>6, ManagerFields
<1>8. bm' = [bm EXCEPT !.free = SubSeq(bm.free, 1, n - 1), !.nextGen = bm.nextGen + 1,
                       !.slots = [bm.slots EXCEPT ![Taken] = r]]
  BY <1>1, <1>2, <1>5 DEF Take, Manager
<1>9. bm.nextGen + 1 \in Nat
  BY <1>1
<1>. QED  BY <1>1, <1>3, <1>4, <1>5, <1>7, <1>8, <1>9 DEF Manager

\* No handle is None: the values a handle takes are records.
LEMMA HandleNotNone == None \notin Handle /\ \A h \in Handle : h = [slot |-> h.slot, gen |-> h.gen]
<1>1. Slots \subseteq Nat
  BY BindlessConstants DEF Slots
<1>2. Handle \subseteq [slot : Nat, gen : Nat]
  BY <1>1 DEF Handle
<1>3. \A h \in Handle : h = [slot |-> h.slot, gen |-> h.gen]
  BY DEF Handle
<1>. QED  BY <1>2, <1>3, BindlessConstants

LEMMA HandlesTyped ==
    ASSUME TypeOK, NEW h \in Handles
    PROVE  h \in Handle
<1>1. CASE h \in {target[t] : t \in Texture \ Unused}
  BY <1>1 DEF Unused, TypeOK
<1>2. CASE h \in {[slot |-> s, gen |-> bm.slots[s].gen] :
                     s \in Slots \ {bm.free[k] : k \in 1 .. Len(bm.free)}}
  <2>1. PICK s \in Slots : h = [slot |-> s, gen |-> bm.slots[s].gen]
    BY <1>2
  <2>2. bm.slots[s].gen \in Nat
    BY ManagerFields DEF TypeOK, SlotRecord
  <2>. QED  BY <2>1, <2>2 DEF Handle
<1>. QED  BY <1>1, <1>2 DEF Handles

\* What is shown is shown by one slot.
LEMMA OneSlot ==
    ASSUME ShowsOwnTexture, NEW r \in Slots, NEW s \in Slots,
           bm.slots[r].binding = bm.slots[s].binding, bm.slots[r].binding # None
    PROVE  r = s
<1>1. /\ target[bm.slots[r].binding] = [slot |-> r, gen |-> bm.slots[r].gen]
      /\ target[bm.slots[s].binding] = [slot |-> s, gen |-> bm.slots[s].gen]
  BY DEF ShowsOwnTexture
<1>2. [slot |-> r, gen |-> bm.slots[r].gen].slot = [slot |-> s, gen |-> bm.slots[s].gen].slot
  BY <1>1
<1>. QED  BY <1>2

LEMMA ReserveStep ==
    ASSUME IInv, ReserveSlot
    PROVE  IInv' /\ PublishesStay /\ Bound(bm') \subseteq Bound(bm)
<1>1. /\ Take(0, None) /\ Observe
      /\ UNCHANGED <<gateVars, target, upload, copied, rendered>>
  BY DEF ReserveSlot
<1>2. PICK r : r = [gen |-> bm.nextGen, users |-> 0, released |-> FALSE, binding |-> None]
  OBVIOUS
<1>3. /\ bm' \in Manager /\ Taken \in Slots
      /\ bm'.slots = [bm.slots EXCEPT ![Taken] = r]
      /\ bm'.ring = bm.ring /\ bm'.due = bm.due /\ bm'.destroyed = bm.destroyed
  BY <1>1, <1>2, TakeFacts DEF IInv
<1>4. bm.slots \in [Slots -> SlotRecord] /\ r.binding = None
  BY <1>2, ManagerFields DEF IInv, TypeOK
<1>5. \A s \in Slots : bm'.slots[s] = IF s = Taken THEN r ELSE bm.slots[s]
  BY <1>3, <1>4
<1>6. Bound(bm') \subseteq Bound(bm)
  BY <1>4, <1>5 DEF Bound
<1>7. ShowsOwnTexture'
  BY <1>1, <1>4, <1>5 DEF IInv, ShowsOwnTexture
<1>8. /\ target' \in [Texture -> Handle \cup {None}]
      /\ upload' \in [Texture -> {"none", "submitted", "waiting", "staged",
                                  "recorded", "failed"}]
      /\ \A t \in Texture : ~Unmade(t) => target'[t] = target[t]
      /\ \A t \in Texture : Unmade(t)' => Unmade(t)
      /\ \A t \in Texture : upload'[t] # "none" => target'[t] # None
  BY <1>1 DEF IInv, TypeOK, PlaceInv, Unmade
<1>9. IInv'
  BY <1>1, <1>3, <1>6, <1>7, <1>8, CalmCall
<1>10. PublishesStay
  BY <1>3, SameQueues DEF PublishesStay
<1>. QED  BY <1>6, <1>9, <1>10

LEMMA SubmitUploadStep ==
    ASSUME IInv, NEW h \in Handles, NEW t \in Texture, SubmitUpload(h, t)
    PROVE  IInv'
<1>1. /\ target' = [target EXCEPT ![t] = h] /\ upload' = [upload EXCEPT ![t] = "submitted"]
      /\ UNCHANGED <<gateVars, bm, copied, rendered>> /\ Observe
      /\ target[t] = None
  BY DEF SubmitUpload, Unused
<1>2. h \in Handle /\ h # None
  BY HandlesTyped, HandleNotNone DEF IInv
<1>3. /\ target \in [Texture -> Handle \cup {None}] /\ bm \in Manager
      /\ upload \in [Texture -> {"none", "submitted", "waiting", "staged",
                                 "recorded", "failed"}]
  BY DEF IInv, TypeOK
<1>4. /\ target'[t] = h /\ upload'[t] = "submitted"
      /\ \A u \in Texture : u # t => target'[u] = target[u] /\ upload'[u] = upload[u]
  BY <1>1, <1>3
<1>5. /\ target' \in [Texture -> Handle \cup {None}]
      /\ upload' \in [Texture -> {"none", "submitted", "waiting", "staged",
                                  "recorded", "failed"}]
  BY <1>1, <1>2, <1>3
<1>6. Unmade(t)
  BY <1>1 DEF Unmade
<1>7. ASSUME NEW u \in Texture
      PROVE  /\ ~Unmade(u) => target'[u] = target[u]
             /\ Unmade(u)' => Unmade(u)
             /\ upload'[u] # "none" => target'[u] # None
  BY <1>2, <1>4, <1>6 DEF IInv, PlaceInv, Unmade
<1>8. ShowsOwnTexture'
  <2>1. ASSUME NEW s \in Slots, bm.slots[s].binding # None
        PROVE  target'[bm.slots[s].binding] = [slot |-> s, gen |-> bm.slots[s].gen]
    <3>1. PICK u : u = bm.slots[s].binding
      OBVIOUS
    <3>2. u \in Bound(bm) /\ u \in Texture
      BY <1>3, <2>1, <3>1, BoundTyped DEF Bound
    <3>3. u # t
      BY <1>6, <3>2 DEF IInv, PlaceInv
    <3>. QED  BY <1>4, <2>1, <3>1, <3>2, <3>3 DEF IInv, ShowsOwnTexture
  <2>. QED  BY <1>1, <2>1 DEF ShowsOwnTexture
<1>9. bm' = bm /\ bm' \in Manager
  BY <1>1, <1>3
<1>. QED  BY <1>1, <1>5, <1>7, <1>8, <1>9, CalmCall

LEMMA AllocateStep ==
    ASSUME IInv, NEW t \in Texture, AllocateTextureSlot(t)
    PROVE  /\ IInv' /\ PublishesStay
           /\ Bound(bm') \subseteq Bound(bm) \cup {t} /\ copied[t] = None
<1>1. /\ Take(1, t) /\ Observe
      /\ UNCHANGED <<gateVars, upload, copied, rendered>>
      /\ target' = [target EXCEPT ![t] = [slot |-> Taken, gen |-> bm.nextGen]]
      /\ target[t] = None
  BY DEF AllocateTextureSlot, Unused
<1>2. PICK r : r = [gen |-> bm.nextGen, users |-> 1, released |-> FALSE, binding |-> t]
  OBVIOUS
<1>3. /\ bm' \in Manager /\ Taken \in Slots /\ bm.nextGen \in Nat
      /\ bm'.slots = [bm.slots EXCEPT ![Taken] = r]
      /\ bm'.ring = bm.ring /\ bm'.due = bm.due /\ bm'.destroyed = bm.destroyed
  BY <1>1, <1>2, TakeFacts DEF IInv
<1>4. /\ bm \in Manager /\ bm.slots \in [Slots -> SlotRecord]
      /\ r.binding = t /\ r.gen = bm.nextGen
      /\ target \in [Texture -> Handle \cup {None}]
  BY <1>2, ManagerFields DEF IInv, TypeOK
<1>5. \A s \in Slots : bm'.slots[s] = IF s = Taken THEN r ELSE bm.slots[s]
  BY <1>3, <1>4
<1>6. PICK h : h = [slot |-> Taken, gen |-> bm.nextGen]
  OBVIOUS
<1>7. h \in Handle /\ h # None
  <2>1. h \in Handle
    BY <1>3, <1>6 DEF Handle
  <2>. QED  BY <2>1, HandleNotNone
<1>8. /\ target'[t] = h /\ \A u \in Texture : u # t => target'[u] = target[u]
      /\ target' \in [Texture -> Handle \cup {None}]
  BY <1>1, <1>4, <1>6, <1>7
<1>9. /\ Unmade(t) /\ upload[t] = "none"
      /\ t \notin bm.destroyed \cup Bound(bm) \cup QueuedIn(bm)
  BY <1>1 DEF IInv, PlaceInv, Unmade
<1>10. Bound(bm') \subseteq Bound(bm) \cup {t}
  BY <1>4, <1>5 DEF Bound
<1>11. TypeOK'
  <2>1. /\ copied' \in [Texture -> Nat \cup {None}]
        /\ upload' \in [Texture -> {"none", "submitted", "waiting", "staged",
                                    "recorded", "failed"}]
    BY <1>1 DEF IInv, TypeOK
  <2>. QED  BY <1>1, <1>3, <1>8, <2>1, CallTypes
<1>12. /\ GateInv' /\ frame' = frame /\ stage' = stage
       /\ \A x \in samples' : x \in samples \/ x[2] \in Bound(bm')
       /\ NextTurn \in Nat /\ NextTurn' = NextTurn
  BY <1>1, <1>3, CallStep
<1>13. Steady
  BY <1>8, <1>9, <1>12 DEF Steady
<1>14. /\ PlacesIn(bm') = PlacesIn(bm) /\ QueuedIn(bm') = QueuedIn(bm)
       /\ \A p : OpIn(bm', p) = OpIn(bm, p)
       /\ UniqueIn(bm')
  BY <1>3, SameQueues DEF IInv
<1>15. /\ bm'.destroyed \cap Bound(bm') = {} /\ bm'.destroyed \cap QueuedIn(bm') = {}
       /\ Bound(bm') \cap QueuedIn(bm') = {}
  BY <1>3, <1>9, <1>10, <1>14 DEF IInv, PlaceInv
<1>16. ASSUME NEW u \in Texture, Unmade(u)'
       PROVE  /\ Unmade(u) /\ copied'[u] = copied[u]
              /\ u \notin bm'.destroyed \cup Bound(bm') \cup QueuedIn(bm')
  <2>1. u # t
    BY <1>1, <1>7, <1>8, <1>9, <1>16 DEF Unmade
  <2>2. Unmade(u)
    BY <1>1, <1>8, <1>16, <2>1 DEF Unmade
  <2>. QED  BY <1>1, <1>3, <1>10, <1>14, <2>1, <2>2 DEF IInv, PlaceInv
<1>17. ASSUME NEW u \in Texture, upload'[u] # "none" PROVE target'[u] # None
  BY <1>1, <1>7, <1>8, <1>17 DEF IInv, PlaceInv
<1>18. OpInv' /\ UniqueIn(bm)' /\ PlaceInv' /\ SampledAlive'
  <2>1. OpInv /\ PlaceInv /\ SampledAlive
    BY DEF IInv
  <2>2. stage' # "drain" => bm'.due = <<>>
    BY <1>3, <1>12, <2>1 DEF PlaceInv
  <2>3. PICK S : S = {}
    OBVIOUS
  <2>. QED  BY <1>3, <1>13, <1>14, <1>15, <1>16, <1>17, <2>1, <2>2, <2>3, PlacesStep
<1>19. ShowsOwnTexture'
  <2>1. ASSUME NEW s \in Slots, bm'.slots[s].binding # None
        PROVE  target'[bm'.slots[s].binding] = [slot |-> s, gen |-> bm'.slots[s].gen]
    <3>1. CASE s = Taken
      BY <1>4, <1>5, <1>6, <1>8, <3>1
    <3>2. CASE s # Taken
      <4>1. PICK u : u = bm.slots[s].binding
        OBVIOUS
      <4>2. u \in Bound(bm) /\ u \in Texture
        BY <1>4, <1>5, <2>1, <3>2, <4>1, BoundTyped DEF Bound
      <4>3. u # t
        BY <1>9, <4>2
      <4>. QED  BY <1>5, <1>8, <2>1, <3>2, <4>1, <4>2, <4>3 DEF IInv, ShowsOwnTexture
    <3>. QED  BY <3>1, <3>2
  <2>. QED  BY <2>1 DEF ShowsOwnTexture
<1>20. IInv'
  BY <1>11, <1>12, <1>18, <1>19 DEF IInv
<1>21. PublishesStay
  BY <1>14 DEF PublishesStay
<1>22. copied[t] = None
  BY <1>9 DEF IInv, PlaceInv
<1>. QED  BY <1>10, <1>20, <1>21, <1>22

\* What a manager that differs from b by one queued operation has in common with b.
LEMMA Enqueued ==
    ASSUME NEW b, NEW c \in Manager, c.ring = b.ring, c.due = b.due, UniqueIn(b),
           NEW op \in SlotOp, op.binding = None \/ op.binding \notin QueuedIn(b),
           NEW d, d = Enqueue(c, op)
    PROVE  /\ d \in Manager /\ d.slots = c.slots /\ d.destroyed = c.destroyed
           /\ d.due = b.due /\ d.nextGen = c.nextGen
           /\ UniqueIn(d) /\ QueuedIn(d) = QueuedIn(b) \cup ({op.binding} \ {None})
           /\ \E q \in PlacesIn(d) :
                 /\ q[1] = Slot(op.frame) /\ q[1] # FIF /\ OpIn(d, q) = op
                 /\ \A p \in PlacesIn(d) \ {q} : p \in PlacesIn(b) /\ OpIn(d, p) = OpIn(b, p)
<1>1. /\ d \in Manager /\ Slot(op.frame) \in 0 .. FIF - 1
      /\ d.slots = c.slots /\ d.due = c.due /\ d.nextGen = c.nextGen
      /\ d.destroyed = c.destroyed
      /\ d.ring = [c.ring EXCEPT ![Slot(op.frame)] = Append(c.ring[Slot(op.frame)], op)]
  BY EnqueueFacts
<1>2. /\ PlacesIn(c) = PlacesIn(b) /\ QueuedIn(c) = QueuedIn(b) /\ UniqueIn(c)
      /\ \A p : OpIn(c, p) = OpIn(b, p)
  BY SameQueues
<1>3. PICK q : q[1] = Slot(op.frame) /\ Adds(c, d, q, op)
  BY <1>1, RingAdds
<1>4. UniqueIn(d) /\ QueuedIn(d) = QueuedIn(b) \cup ({op.binding} \ {None})
  BY <1>2, <1>3, AddsQueued
<1>5. q[1] # FIF
  BY <1>1, <1>3, FifPositive
<1>6. q \in PlacesIn(d) /\ OpIn(d, q) = op
  BY <1>3 DEF Adds
<1>7. \A p \in PlacesIn(d) \ {q} : p \in PlacesIn(b) /\ OpIn(d, p) = OpIn(b, p)
  BY <1>2, <1>3 DEF Adds
<1>. QED  BY <1>1, <1>3, <1>4, <1>5, <1>6, <1>7

LEMMA ReleaseStep ==
    ASSUME IInv, NEW h \in Handles, NEW f \in ReleaseFrames, ReleaseSlot(h, f)
    PROVE  IInv' /\ PublishesStay /\ Bound(bm') \subseteq Bound(bm)
<1>1. /\ UNCHANGED <<gateVars, target, upload, copied, rendered>> /\ Observe
      /\ Live(h)
  BY DEF ReleaseSlot
<1>2. h \in Handle /\ h.slot \in Slots /\ h.gen \in Nat /\ f \in Nat
  BY HandlesTyped DEF IInv, Handle, ReleaseFrames
<1>3. /\ bm \in Manager /\ bm.slots \in [Slots -> SlotRecord]
      /\ bm.slots[h.slot] \in SlotRecord
  BY <1>2, ManagerFields DEF IInv, TypeOK
<1>4. PICK r : r = [bm.slots[h.slot] EXCEPT !.released = TRUE, !.users = 0]
  OBVIOUS
<1>5. r \in SlotRecord /\ r.binding = bm.slots[h.slot].binding /\ r.gen = bm.slots[h.slot].gen
  BY <1>3, <1>4 DEF SlotRecord
<1>6. PICK c : c = [bm EXCEPT !.slots = [bm.slots EXCEPT ![h.slot] = r]]
  OBVIOUS
<1>7. /\ c \in Manager /\ c.ring = bm.ring /\ c.due = bm.due /\ c.destroyed = bm.destroyed
      /\ c.slots = [bm.slots EXCEPT ![h.slot] = r]
  <2>1. [bm.slots EXCEPT ![h.slot] = r] \in [Slots -> SlotRecord]
    BY <1>3, <1>5
  <2>. QED  BY <1>3, <1>6, <2>1 DEF Manager
<1>8. PICK op : op = [kind |-> "Decommit", slot |-> h.slot, gen |-> h.gen,
                      frame |-> f, binding |-> None]
  OBVIOUS
<1>9. op \in SlotOp /\ op.binding = None /\ op.kind = "Decommit"
  BY <1>2, <1>8 DEF SlotOp
<1>10. bm' = Enqueue(c, op)
  <2>1. bm.slots[h.slot].users \in {0, 1}
    BY <1>3 DEF SlotRecord
  <2>2. (IF bm.slots[h.slot].users > 0 THEN bm.slots[h.slot].users - 1 ELSE 0) = 0
    BY <2>1
  <2>3. bm' = Enqueue([bm EXCEPT !.slots[h.slot].released = TRUE, !.slots[h.slot].users = 0], op)
    BY <1>8, <2>2 DEF ReleaseSlot
  <2>4. [bm EXCEPT !.slots[h.slot].released = TRUE, !.slots[h.slot].users = 0] = c
    BY <1>2, <1>3, <1>4, <1>6 DEF Manager
  <2>. QED  BY <2>3, <2>4
<1>11. UniqueIn(bm) /\ OpInv /\ PlaceInv /\ SampledAlive
  BY DEF IInv
<1>12. /\ bm' \in Manager /\ bm'.slots = c.slots /\ bm'.destroyed = bm.destroyed
       /\ bm'.due = bm.due
       /\ UniqueIn(bm') /\ QueuedIn(bm') = QueuedIn(bm)
  <2>1. /\ bm' \in Manager /\ bm'.slots = c.slots /\ bm'.destroyed = c.destroyed
        /\ bm'.due = bm.due /\ UniqueIn(bm')
        /\ QueuedIn(bm') = QueuedIn(bm) \cup ({op.binding} \ {None})
    BY <1>7, <1>9, <1>10, <1>11, Enqueued
  <2>2. {op.binding} \ {None} = {}
    BY <1>9
  <2>. QED  BY <1>7, <2>1, <2>2
<1>13. PICK q \in PlacesIn(bm') :
          /\ q[1] = Slot(op.frame) /\ q[1] # FIF /\ OpIn(bm', q) = op
          /\ \A p \in PlacesIn(bm') \ {q} : p \in PlacesIn(bm) /\ OpIn(bm', p) = OpIn(bm, p)
  BY <1>7, <1>9, <1>10, <1>11, Enqueued
<1>14. \A s \in Slots : /\ bm'.slots[s].binding = bm.slots[s].binding
                        /\ bm'.slots[s].gen = bm.slots[s].gen
  BY <1>3, <1>5, <1>7, <1>12
<1>15. Bound(bm') = Bound(bm)
  BY <1>14 DEF Bound
<1>16. TypeOK'
  <2>1. /\ copied' \in [Texture -> Nat \cup {None}]
        /\ target' \in [Texture -> Handle \cup {None}]
        /\ upload' \in [Texture -> {"none", "submitted", "waiting", "staged",
                                    "recorded", "failed"}]
    BY <1>1 DEF IInv, TypeOK
  <2>. QED  BY <1>1, <1>12, <2>1, CallTypes
<1>17. /\ GateInv' /\ frame' = frame /\ stage' = stage
       /\ \A x \in samples' : x \in samples \/ x[2] \in Bound(bm')
       /\ NextTurn \in Nat /\ NextTurn' = NextTurn
  BY <1>1, <1>12, CallStep
<1>18. Steady
  BY <1>1, <1>17 DEF Steady
<1>19. /\ \A t \in Texture : Unmade(t)' =>
             /\ Unmade(t) /\ copied'[t] = copied[t]
             /\ t \notin bm'.destroyed \cup Bound(bm') \cup QueuedIn(bm')
       /\ \A t \in Texture : upload'[t] # "none" => target'[t] # None
       /\ stage' # "drain" => bm'.due = <<>>
  BY <1>1, <1>11, <1>12, <1>15, <1>17 DEF PlaceInv, Unmade
<1>20. /\ bm'.destroyed \cap Bound(bm') = {} /\ bm'.destroyed \cap QueuedIn(bm') = {}
       /\ Bound(bm') \cap QueuedIn(bm') = {}
  BY <1>11, <1>12, <1>15 DEF PlaceInv
<1>21. OpOK(q[1], op)'
  BY <1>9, <1>13 DEF OpOK, Slot
<1>22. OpInv' /\ UniqueIn(bm)' /\ PlaceInv' /\ SampledAlive'
  <2>1. PICK S : S = {q}
    OBVIOUS
  <2>2. \A p \in PlacesIn(bm') \ S : p \in PlacesIn(bm) /\ OpIn(bm', p) = OpIn(bm, p)
    BY <1>13, <2>1
  <2>3. ASSUME NEW p \in S, NEW o, o = OpIn(bm', p) PROVE OpOK(p[1], o)'
    <3>1. p = q /\ o = op
      BY <1>13, <2>1, <2>3
    <3>. QED  BY <1>21, <3>1
  <2>. QED  BY <1>11, <1>12, <1>18, <1>19, <1>20, <2>2, <2>3, PlacesStep
<1>23. ShowsOwnTexture'
  BY <1>1, <1>14 DEF IInv, ShowsOwnTexture
<1>24. IInv'
  BY <1>16, <1>17, <1>22, <1>23 DEF IInv
<1>25. PublishesStay
  BY <1>9, <1>13 DEF PublishesStay
<1>. QED  BY <1>15, <1>24, <1>25

LEMMA ImmediateStep ==
    ASSUME IInv, NEW h \in Handles, ReleaseSlotImmediate(h)
    PROVE  IInv' /\ PublishesStay /\ Bound(bm') \subseteq Bound(bm)
<1>1. /\ UNCHANGED <<gateVars, target, upload, copied, rendered>> /\ Observe
      /\ running = {}
  BY DEF ReleaseSlotImmediate
<1>2. h \in Handle /\ h.slot \in Slots
  BY HandlesTyped DEF IInv, Handle
<1>3. /\ bm \in Manager /\ bm.slots \in [Slots -> SlotRecord] /\ bm.free \in Seq(Slots)
      /\ bm.slots[h.slot] \in SlotRecord /\ bm.nextGen \in Nat
  BY <1>2, ManagerFields DEF IInv, TypeOK
<1>4. PICK old \in Texture \cup {None} : old = bm.slots[h.slot].binding
  BY <1>3 DEF SlotRecord
<1>5. PICK r : r = Freed(bm)
  OBVIOUS
<1>6. r \in SlotRecord /\ r.binding = None
  BY <1>3, <1>5 DEF Freed, SlotRecord
<1>7. PICK c : c = [bm EXCEPT !.slots = [bm.slots EXCEPT ![h.slot] = r],
                              !.nextGen = bm.nextGen + 1, !.free = Append(bm.free, h.slot)]
  OBVIOUS
<1>8. /\ c \in Manager /\ c.ring = bm.ring /\ c.due = bm.due /\ c.destroyed = bm.destroyed
      /\ c.slots = [bm.slots EXCEPT ![h.slot] = r]
  <2>1. [bm.slots EXCEPT ![h.slot] = r] \in [Slots -> SlotRecord]
    BY <1>3, <1>6
  <2>2. Append(bm.free, h.slot) \in Seq(Slots) /\ bm.nextGen + 1 \in Nat
    BY <1>2, <1>3
  <2>. QED  BY <1>3, <1>7, <2>1, <2>2 DEF Manager
<1>9. bm' = Destroyed(c, old)
  <2>1. [bm EXCEPT !.slots[h.slot] = Freed(bm), !.nextGen = @ + 1,
                   !.free = Append(@, h.slot)] = c
    BY <1>3, <1>5, <1>7 DEF Manager
  <2>. QED  BY <1>4, <2>1 DEF ReleaseSlotImmediate
<1>10. /\ bm' \in Manager /\ bm'.slots = [bm.slots EXCEPT ![h.slot] = r]
       /\ bm'.ring = bm.ring /\ bm'.due = bm.due
       /\ bm'.destroyed = bm.destroyed \cup ({old} \ {None})
  BY <1>8, <1>9, DestroyedFacts
<1>11. \A s \in Slots : bm'.slots[s] = IF s = h.slot THEN r ELSE bm.slots[s]
  BY <1>3, <1>10
<1>12. Bound(bm') \subseteq Bound(bm) /\ old \notin Bound(bm')
  <2>1. Bound(bm') \subseteq Bound(bm)
    BY <1>6, <1>11 DEF Bound
  <2>2. ASSUME NEW s \in Slots, bm'.slots[s].binding = old, old # None PROVE FALSE
    <3>1. s # h.slot /\ bm.slots[s].binding = bm.slots[h.slot].binding
      BY <1>4, <1>6, <1>11, <2>2
    <3>2. ShowsOwnTexture
      BY DEF IInv
    <3>. QED  BY <1>2, <1>4, <2>2, <3>1, <3>2, OneSlot
  <2>. QED  BY <2>1, <2>2 DEF Bound
<1>13. old # None => old \in Bound(bm)
  BY <1>2, <1>4 DEF Bound
<1>14. UniqueIn(bm) /\ OpInv /\ PlaceInv /\ SampledAlive
  BY DEF IInv
<1>15. /\ PlacesIn(bm') = PlacesIn(bm) /\ QueuedIn(bm') = QueuedIn(bm)
       /\ \A p : OpIn(bm', p) = OpIn(bm, p)
       /\ UniqueIn(bm')
  BY <1>10, <1>14, SameQueues
<1>16. TypeOK'
  <2>1. /\ copied' \in [Texture -> Nat \cup {None}]
        /\ target' \in [Texture -> Handle \cup {None}]
        /\ upload' \in [Texture -> {"none", "submitted", "waiting", "staged",
                                    "recorded", "failed"}]
    BY <1>1 DEF IInv, TypeOK
  <2>. QED  BY <1>1, <1>10, <2>1, CallTypes
<1>17. /\ GateInv' /\ frame' = frame /\ stage' = stage
       /\ \A x \in samples' : x \in samples \/ x[2] \in Bound(bm')
       /\ NextTurn \in Nat /\ NextTurn' = NextTurn
  BY <1>1, <1>10, CallStep
<1>18. Steady
  BY <1>1, <1>17 DEF Steady
<1>19. \A t \in bm'.destroyed : t \in bm.destroyed \/ Fresh(t)
  <2>1. samples = {}
    BY <1>1 DEF IInv, TypeOK
  <2>. QED  BY <2>1 DEF Fresh
<1>20. /\ bm'.destroyed \cap Bound(bm') = {} /\ bm'.destroyed \cap QueuedIn(bm') = {}
       /\ Bound(bm') \cap QueuedIn(bm') = {}
  BY <1>10, <1>12, <1>13, <1>14, <1>15 DEF PlaceInv
<1>21. /\ \A t \in Texture : Unmade(t)' =>
             /\ Unmade(t) /\ copied'[t] = copied[t]
             /\ t \notin bm'.destroyed \cup Bound(bm') \cup QueuedIn(bm')
       /\ \A t \in Texture : upload'[t] # "none" => target'[t] # None
       /\ stage' # "drain" => bm'.due = <<>>
  BY <1>1, <1>10, <1>12, <1>13, <1>14, <1>15, <1>17 DEF PlaceInv, Unmade
<1>22. OpInv' /\ UniqueIn(bm)' /\ PlaceInv' /\ SampledAlive'
  <2>1. PICK S : S = {}
    OBVIOUS
  <2>. QED  BY <1>14, <1>15, <1>18, <1>19, <1>20, <1>21, <2>1, PlacesStep
<1>23. ShowsOwnTexture'
  BY <1>1, <1>6, <1>11 DEF IInv, ShowsOwnTexture
<1>24. IInv'
  BY <1>16, <1>17, <1>22, <1>23 DEF IInv
<1>25. PublishesStay
  BY <1>15 DEF PublishesStay
<1>. QED  BY <1>12, <1>24, <1>25

\* RecordUploads: the texture's publish is queued, or the texture is destroyed
\* when its handle was released; no slot has shown it.
LEMMA RecordStep ==
    ASSUME IInv, NEW t \in Texture, RecordUpload(t)
    PROVE  /\ IInv' /\ Bound(bm') \subseteq Bound(bm) /\ t \notin Bound(bm) \cup QueuedIn(bm)
           /\ \A p \in PlacesIn(bm') :
                 \/ p \in PlacesIn(bm) /\ OpIn(bm', p) = OpIn(bm, p)
                 \/ /\ p[1] # FIF /\ OpIn(bm', p).binding = t
                    /\ OpIn(bm', p).frame = rendered
<1>1. PICK h : h = target[t]
  OBVIOUS
<1>2. /\ UNCHANGED <<gateVars, target, rendered>> /\ Observe
      /\ upload[t] = "staged" /\ upload' = [upload EXCEPT ![t] = "recorded"]
      /\ copied' = [copied EXCEPT ![t] = frame]
  BY DEF RecordUpload
<1>3. /\ bm \in Manager /\ bm.slots \in [Slots -> SlotRecord]
      /\ target \in [Texture -> Handle \cup {None}]
      /\ upload \in [Texture -> {"none", "submitted", "waiting", "staged",
                                 "recorded", "failed"}]
      /\ copied \in [Texture -> Nat \cup {None}]
      /\ frame \in Nat /\ rendered \in Nat
  BY ManagerFields, TurnTyped DEF IInv, TypeOK
<1>4. h \in Handle /\ h.slot \in Slots /\ h.gen \in Nat /\ h # None
      /\ h = [slot |-> h.slot, gen |-> h.gen]
  <2>1. h # None
    BY <1>1, <1>2 DEF IInv, PlaceInv
  <2>2. h \in Handle
    BY <1>1, <1>3, <2>1
  <2>. QED  BY <2>1, <2>2, HandleNotNone DEF Handle
<1>5. /\ Unmade(t) /\ Fresh(t) /\ t # None
      /\ t \notin bm.destroyed \cup Bound(bm) \cup QueuedIn(bm)
  BY <1>2, BindlessConstants DEF IInv, PlaceInv, Unmade
<1>6. UniqueIn(bm) /\ OpInv /\ PlaceInv /\ SampledAlive
  BY DEF IInv
<1>7. /\ upload'[t] = "recorded" /\ \A u \in Texture : u # t => upload'[u] = upload[u]
      /\ upload' \in [Texture -> {"none", "submitted", "waiting", "staged",
                                  "recorded", "failed"}]
      /\ \A u \in Texture : u # t => copied'[u] = copied[u]
      /\ copied' \in [Texture -> Nat \cup {None}]
  BY <1>2, <1>3
<1>8. ASSUME NEW u \in Texture, Unmade(u)'
      PROVE  u # t /\ Unmade(u) /\ copied'[u] = copied[u]
  <2>1. u # t
    BY <1>1, <1>2, <1>4, <1>7, <1>8 DEF Unmade
  <2>. QED  BY <1>2, <1>7, <1>8, <2>1 DEF Unmade
<1>9. ASSUME NEW u \in Texture, upload'[u] # "none" PROVE target'[u] # None
  BY <1>1, <1>2, <1>4, <1>6, <1>7, <1>9 DEF PlaceInv
<1>10. CASE Live(h)
  <2>1. PICK r : r = [bm.slots[h.slot] EXCEPT !.users = Committed(bm.slots[h.slot].users)]
    OBVIOUS
  <2>2. r \in SlotRecord /\ r.binding = bm.slots[h.slot].binding
        /\ r.gen = bm.slots[h.slot].gen
    BY <1>3, <1>4, <2>1 DEF SlotRecord, Committed
  <2>3. PICK c : c = [bm EXCEPT !.slots = [bm.slots EXCEPT ![h.slot] = r]]
    OBVIOUS
  <2>4. /\ c \in Manager /\ c.ring = bm.ring /\ c.due = bm.due /\ c.destroyed = bm.destroyed
        /\ c.slots = [bm.slots EXCEPT ![h.slot] = r]
    <3>1. [bm.slots EXCEPT ![h.slot] = r] \in [Slots -> SlotRecord]
      BY <1>3, <2>2
    <3>. QED  BY <1>3, <2>3, <3>1 DEF Manager
  <2>5. PICK op : op = [kind |-> "Publish", slot |-> h.slot, gen |-> h.gen,
                        frame |-> rendered, binding |-> t]
    OBVIOUS
  <2>6. /\ op \in SlotOp /\ op.binding = t /\ op.kind = "Publish"
        /\ [slot |-> op.slot, gen |-> op.gen] = h
    BY <1>3, <1>4, <2>5 DEF SlotOp
  <2>7. bm' = Enqueue(c, op)
    <3>1. [bm EXCEPT !.slots[h.slot].users = Committed(@)] = c
      BY <1>3, <1>4, <2>1, <2>3 DEF Manager
    <3>. QED  BY <1>1, <1>10, <2>5, <3>1 DEF RecordUpload
  <2>8. op.binding \notin QueuedIn(bm)
    BY <1>5, <2>6
  <2>9. /\ bm' \in Manager /\ bm'.slots = c.slots /\ bm'.destroyed = bm.destroyed
        /\ bm'.due = bm.due /\ UniqueIn(bm')
        /\ QueuedIn(bm') = QueuedIn(bm) \cup ({op.binding} \ {None})
    BY <1>6, <2>4, <2>6, <2>7, <2>8, Enqueued
  <2>10. PICK q \in PlacesIn(bm') :
            /\ q[1] = Slot(op.frame) /\ q[1] # FIF /\ OpIn(bm', q) = op
            /\ \A p \in PlacesIn(bm') \ {q} : p \in PlacesIn(bm) /\ OpIn(bm', p) = OpIn(bm, p)
    BY <1>6, <2>4, <2>6, <2>7, <2>8, Enqueued
  <2>11. QueuedIn(bm') = QueuedIn(bm) \cup {t}
    BY <1>5, <2>6, <2>9
  <2>12. \A s \in Slots : /\ bm'.slots[s].binding = bm.slots[s].binding
                          /\ bm'.slots[s].gen = bm.slots[s].gen
    BY <1>3, <2>2, <2>4, <2>9
  <2>13. Bound(bm') = Bound(bm)
    BY <2>12 DEF Bound
  <2>14. TypeOK'
    BY <1>2, <1>3, <1>7, <2>9, CallTypes
  <2>15. /\ GateInv' /\ frame' = frame /\ stage' = stage
         /\ \A x \in samples' : x \in samples \/ x[2] \in Bound(bm')
         /\ NextTurn \in Nat /\ NextTurn' = NextTurn
    BY <1>2, <2>9, CallStep
  <2>16. Steady
    BY <1>2, <2>15 DEF Steady
  <2>17. Fresh(t)'
    BY <1>5, <2>13, <2>16, FreshStays
  <2>18. OpOK(q[1], op)'
    BY <1>1, <1>2, <2>6, <2>10, <2>17 DEF OpOK, Slot, Fresh
  <2>19. /\ bm'.destroyed \cap Bound(bm') = {} /\ bm'.destroyed \cap QueuedIn(bm') = {}
         /\ Bound(bm') \cap QueuedIn(bm') = {}
    BY <1>5, <1>6, <2>9, <2>11, <2>13 DEF PlaceInv
  <2>20. ASSUME NEW u \in Texture, Unmade(u)'
         PROVE  /\ Unmade(u) /\ copied'[u] = copied[u]
                /\ u \notin bm'.destroyed \cup Bound(bm') \cup QueuedIn(bm')
    BY <1>6, <1>8, <2>9, <2>11, <2>13, <2>20 DEF PlaceInv
  <2>21. OpInv' /\ UniqueIn(bm)' /\ PlaceInv' /\ SampledAlive'
    <3>1. PICK S : S = {q}
      OBVIOUS
    <3>2. \A p \in PlacesIn(bm') \ S : p \in PlacesIn(bm) /\ OpIn(bm', p) = OpIn(bm, p)
      BY <2>10, <3>1
    <3>3. ASSUME NEW p \in S, NEW o, o = OpIn(bm', p) PROVE OpOK(p[1], o)'
      <4>1. p = q /\ o = op
        BY <2>10, <3>1, <3>3
      <4>. QED  BY <2>18, <4>1
    <3>4. stage' # "drain" => bm'.due = <<>>
      BY <1>6, <2>9, <2>15 DEF PlaceInv
    <3>. QED  BY <1>6, <1>9, <2>9, <2>16, <2>19, <2>20, <3>2, <3>3, <3>4, PlacesStep
  <2>22. ShowsOwnTexture'
    BY <1>2, <2>12 DEF IInv, ShowsOwnTexture
  <2>23. IInv'
    BY <2>14, <2>15, <2>21, <2>22 DEF IInv
  <2>24. op.frame = rendered
    BY <2>5
  <2>. QED  BY <1>5, <2>6, <2>10, <2>13, <2>23, <2>24
<1>11. CASE ~Live(h)
  <2>1. bm' = Destroyed(bm, t)
    BY <1>1, <1>11 DEF RecordUpload
  <2>2. /\ bm' \in Manager /\ bm'.slots = bm.slots /\ bm'.ring = bm.ring /\ bm'.due = bm.due
        /\ bm'.destroyed = bm.destroyed \cup {t}
    BY <1>3, <1>5, <2>1, DestroyedFacts
  <2>3. Bound(bm') = Bound(bm)
    BY <2>2 DEF Bound
  <2>4. /\ PlacesIn(bm') = PlacesIn(bm) /\ QueuedIn(bm') = QueuedIn(bm)
        /\ \A p : OpIn(bm', p) = OpIn(bm, p)
        /\ UniqueIn(bm')
    BY <1>6, <2>2, SameQueues
  <2>5. TypeOK'
    BY <1>2, <1>3, <1>7, <2>2, CallTypes
  <2>6. /\ GateInv' /\ frame' = frame /\ stage' = stage
        /\ \A x \in samples' : x \in samples \/ x[2] \in Bound(bm')
        /\ NextTurn \in Nat /\ NextTurn' = NextTurn
    BY <1>2, <2>2, CallStep
  <2>7. Steady
    BY <1>2, <2>6 DEF Steady
  <2>8. \A u \in bm'.destroyed : u \in bm.destroyed \/ Fresh(u)
    BY <1>5, <2>2
  <2>9. /\ bm'.destroyed \cap Bound(bm') = {} /\ bm'.destroyed \cap QueuedIn(bm') = {}
        /\ Bound(bm') \cap QueuedIn(bm') = {}
    BY <1>5, <1>6, <2>2, <2>3, <2>4 DEF PlaceInv
  <2>10. ASSUME NEW u \in Texture, Unmade(u)'
         PROVE  /\ Unmade(u) /\ copied'[u] = copied[u]
                /\ u \notin bm'.destroyed \cup Bound(bm') \cup QueuedIn(bm')
    BY <1>6, <1>8, <2>2, <2>3, <2>4, <2>10 DEF PlaceInv
  <2>11. OpInv' /\ UniqueIn(bm)' /\ PlaceInv' /\ SampledAlive'
    <3>1. PICK S : S = {}
      OBVIOUS
    <3>2. stage' # "drain" => bm'.due = <<>>
      BY <1>6, <2>2, <2>6 DEF PlaceInv
    <3>. QED  BY <1>6, <1>9, <2>4, <2>7, <2>8, <2>9, <2>10, <3>1, <3>2, PlacesStep
  <2>12. ShowsOwnTexture'
    BY <1>2, <2>2 DEF IInv, ShowsOwnTexture
  <2>13. IInv'
    BY <2>5, <2>6, <2>11, <2>12 DEF IInv
  <2>. QED  BY <1>5, <2>3, <2>4, <2>13
<1>. QED  BY <1>10, <1>11

-----------------------------------------------------------------------------
(* The drain *)

\* The ring of the current frame has its next turn FIF frames from now, when no
\* frame that runs now runs any more.
LEMMA PastNow ==
    ASSUME IInv, stage = "drain", frame' = frame, stage' = stage, running' = running,
           samples' \subseteq running' \X Texture, NEW s, s = Slot(frame), NEW t
    PROVE  Past(s, t)'
<1>1. frame \in Nat /\ NextTurn' = frame + 1
  BY TurnTyped DEF IInv, NextTurn
<1>2. SUFFICES ASSUME NEW n \in Nat, NEW x \in samples', Slot(n) = s, n >= frame + 1
               PROVE  x[1] <= n - FIF
  BY <1>1 DEF Past, Slot
<1>3. n >= frame + FIF
  BY <1>1, <1>2, NextTurnAway
<1>4. x[1] \in running
  OBVIOUS
<1>5. x[1] \in Nat /\ x[1] < frame
  BY <1>4, RunningBefore DEF IInv
<1>. QED  BY <1>1, <1>3, <1>5, FifPositive

\* The manager without the operation that is taken.
LEMMA RestFacts ==
    ASSUME NEW b \in Manager, b.due # <<>>, UniqueIn(b),
           NEW rest, rest = [b EXCEPT !.due = Tail(@)], NEW op, op = Head(b.due)
    PROVE  /\ rest \in Manager /\ op \in SlotOp
           /\ rest.slots = b.slots /\ rest.ring = b.ring /\ rest.free = b.free
           /\ rest.nextGen = b.nextGen /\ rest.destroyed = b.destroyed
           /\ UniqueIn(rest) /\ QueuedIn(rest) = QueuedIn(b) \ {op.binding}
           /\ \A p \in PlacesIn(rest) : p \in PlacesIn(b) /\ OpIn(rest, p) = OpIn(b, p)
           /\ \E q \in PlacesIn(b) : q[1] = FIF /\ OpIn(b, q) = op
<1>1. b.due \in Seq(SlotOp)
  BY ManagerFields
<1>2. op \in SlotOp /\ Tail(b.due) \in Seq(SlotOp)
  BY <1>1
<1>3. /\ rest \in Manager /\ rest.due = Tail(b.due)
      /\ rest.slots = b.slots /\ rest.ring = b.ring /\ rest.free = b.free
      /\ rest.nextGen = b.nextGen /\ rest.destroyed = b.destroyed
  BY <1>2 DEF Manager
<1>4. PICK q : q[1] = FIF /\ OpIn(b, q) = Head(b.due) /\ Takes(b, rest, q)
  BY <1>3, DueTakes
<1>5. UniqueIn(rest) /\ QueuedIn(rest) = QueuedIn(b) \ {op.binding}
  <2>1. OpIn(b, q) = op
    BY <1>4
  <2>2. Takes(b, rest, q)
    BY <1>4
  <2>3. UniqueIn(rest) /\ QueuedIn(rest) = QueuedIn(b) \ {OpIn(b, q).binding}
    BY ONLY UniqueIn(b), <2>2, TakesQueued
  <2>. QED  BY ONLY <2>1, <2>3
<1>. QED  BY <1>2, <1>3, <1>4, <1>5 DEF Takes

\* What DrainOp does, whatever the operation does to the manager.
LEMMA DrainFrame ==
    ASSUME IInv, DrainOp, bm' \in Manager
    PROVE  /\ UNCHANGED <<gateVars, target, upload, copied, rendered>> /\ Observe
           /\ stage = "drain" /\ frame' = frame /\ stage' = stage /\ running' = running
           /\ samples' \subseteq running' \X Texture
           /\ TypeOK' /\ GateInv' /\ Steady
<1>1. /\ UNCHANGED <<gateVars, target, upload, copied, rendered>> /\ Observe
      /\ stage = "drain"
  BY DEF DrainOp
<1>2. /\ GateInv' /\ samples' \subseteq running' \X Texture
      /\ \A x \in samples' : x \in samples \/ x[2] \in Bound(bm')
      /\ NextTurn \in Nat /\ NextTurn' = NextTurn
      /\ frame' = frame /\ stage' = stage /\ running' = running
  BY <1>1, CallStep
<1>3. TypeOK'
  <2>1. /\ copied' \in [Texture -> Nat \cup {None}]
        /\ target' \in [Texture -> Handle \cup {None}]
        /\ upload' \in [Texture -> {"none", "submitted", "waiting", "staged",
                                    "recorded", "failed"}]
    BY <1>1 DEF IInv, TypeOK
  <2>. QED  BY <1>1, <2>1, CallTypes
<1>4. Steady
  BY <1>1, <1>2 DEF Steady
<1>. QED  BY <1>1, <1>2, <1>3, <1>4

\* The invariant after a drained operation, from what becomes of the places.
LEMMA DrainPlaces ==
    ASSUME IInv, DrainOp, bm' \in Manager, UniqueIn(bm'),
           bm'.destroyed \cap Bound(bm') = {}, bm'.destroyed \cap QueuedIn(bm') = {},
           Bound(bm') \cap QueuedIn(bm') = {},
           \A t \in bm'.destroyed : t \in bm.destroyed \/ Fresh(t),
           NEW S,
           \A p \in PlacesIn(bm') \ S : p \in PlacesIn(bm) /\ OpIn(bm', p) = OpIn(bm, p),
           \A p \in S : \A op : op = OpIn(bm', p) => OpOK(p[1], op)',
           bm'.destroyed \cup Bound(bm') \cup QueuedIn(bm')
              \subseteq bm.destroyed \cup Bound(bm) \cup QueuedIn(bm),
           ShowsOwnTexture'
    PROVE  IInv'
<1>1. /\ UNCHANGED <<gateVars, target, upload, copied, rendered>>
      /\ stage = "drain" /\ stage' = stage
      /\ TypeOK' /\ GateInv' /\ Steady
  BY DrainFrame
<1>2. OpInv /\ PlaceInv /\ SampledAlive
  BY DEF IInv
<1>3. /\ \A t \in Texture : Unmade(t)' =>
            /\ Unmade(t) /\ copied'[t] = copied[t]
            /\ t \notin bm'.destroyed \cup Bound(bm') \cup QueuedIn(bm')
      /\ \A t \in Texture : upload'[t] # "none" => target'[t] # None
      /\ stage' # "drain" => bm'.due = <<>>
  BY <1>1, <1>2 DEF PlaceInv, Unmade
<1>4. OpInv' /\ UniqueIn(bm)' /\ PlaceInv' /\ SampledAlive'
  BY <1>1, <1>2, <1>3, PlacesStep
<1>. QED  BY <1>1, <1>4 DEF IInv

\* Outside S the places of d are as in b; in S, t waits to be destroyed in the ring
\* of the operation's frame.
Beside(b, d, S) == \A p \in PlacesIn(d) \ S : p \in PlacesIn(b) /\ OpIn(d, p) = OpIn(b, p)
WaitsIn(d, S, op, t) ==
    \A p \in S : /\ p[1] = Slot(op.frame) /\ p[1] # FIF
                 /\ OpIn(d, p).kind = "Destroy" /\ t # None
                 /\ OpIn(d, p).binding = t /\ OpIn(d, p).frame = op.frame

\* Retired moves what a slot showed into the ring of the operation's frame, to be
\* destroyed at that ring's next turn.
LEMMA RetiredFacts ==
    ASSUME NEW b, NEW c \in Manager, c.ring = b.ring, c.due = b.due, UniqueIn(b),
           NEW op \in SlotOp, NEW t \in Texture \cup {None}, t \notin QueuedIn(b),
           NEW d, d = Retired(c, op, t)
    PROVE  /\ d \in Manager /\ d.slots = c.slots /\ d.destroyed = c.destroyed
           /\ UniqueIn(d) /\ QueuedIn(d) = QueuedIn(b) \cup ({t} \ {None})
           /\ \E S : Beside(b, d, S) /\ WaitsIn(d, S, op, t)
<1>1. CASE t = None
  <2>1. d = c
    BY <1>1 DEF Retired
  <2>2. /\ PlacesIn(c) = PlacesIn(b) /\ QueuedIn(c) = QueuedIn(b) /\ UniqueIn(c)
        /\ \A p : OpIn(c, p) = OpIn(b, p)
    BY SameQueues
  <2>3. PICK S : S = {}
    OBVIOUS
  <2>4. Beside(b, d, S)
    BY <2>1, <2>2 DEF Beside
  <2>5. WaitsIn(d, S, op, t)
    BY <2>3 DEF WaitsIn
  <2>6. QueuedIn(d) = QueuedIn(b) \cup ({t} \ {None})
    BY <1>1, <2>1, <2>2
  <2>7. d \in Manager /\ d.slots = c.slots /\ d.destroyed = c.destroyed /\ UniqueIn(d)
    BY <2>1, <2>2
  <2>. QED  BY <2>4, <2>5, <2>6, <2>7
<1>2. CASE t # None
  <2>1. PICK op2 : op2 = [op EXCEPT !.kind = "Destroy", !.binding = t]
    OBVIOUS
  <2>2. /\ op2 \in SlotOp /\ op2.kind = "Destroy" /\ op2.binding = t
        /\ op2.frame = op.frame
    BY <1>2, <2>1 DEF SlotOp
  <2>3. d = Enqueue(c, op2)
    BY <1>2, <2>1 DEF Retired
  <2>4. op2.binding \notin QueuedIn(b)
    BY <2>2
  <2>5. /\ d \in Manager /\ d.slots = c.slots /\ d.destroyed = c.destroyed
        /\ UniqueIn(d) /\ QueuedIn(d) = QueuedIn(b) \cup ({op2.binding} \ {None})
    BY <2>2, <2>3, <2>4, Enqueued
  <2>6. PICK q \in PlacesIn(d) :
           /\ q[1] = Slot(op2.frame) /\ q[1] # FIF /\ OpIn(d, q) = op2
           /\ \A p \in PlacesIn(d) \ {q} : p \in PlacesIn(b) /\ OpIn(d, p) = OpIn(b, p)
    BY <2>2, <2>3, <2>4, Enqueued
  <2>7. PICK S : S = {q}
    OBVIOUS
  <2>8. Beside(b, d, S)
    BY <2>6, <2>7 DEF Beside
  <2>9. WaitsIn(d, S, op, t)
    BY <1>2, <2>2, <2>6, <2>7 DEF WaitsIn
  <2>. QED  BY <2>2, <2>5, <2>8, <2>9
<1>. QED  BY <1>1, <1>2

\* The operation being drained was in order.
LEMMA HeadInOrder ==
    ASSUME IInv, stage = "drain", NEW op, NEW q \in PlacesIn(bm), q[1] = FIF, OpIn(bm, q) = op
    PROVE  /\ Slot(op.frame) = Slot(frame)
           /\ op.binding # None => op.binding \in QueuedIn(bm)
           /\ op.kind = "Publish" =>
                 /\ op.binding \in Texture
                 /\ target[op.binding] = [slot |-> op.slot, gen |-> op.gen]
           /\ op.kind \in {"Publish", "Decommit", "Destroy"} =>
                 op.binding = None \/ Fresh(op.binding)
<1>1. OpOK(FIF, op)
  BY DEF IInv, OpInv
<1>2. op.binding # None => op.binding \in QueuedIn(bm)
  BY DEF QueuedIn
<1>. QED  BY <1>1, <1>2 DEF OpOK

\* An operation that is dropped takes its texture with it.
LEMMA DrainDrops ==
    ASSUME IInv, DrainOp, NEW op, op = Head(bm.due),
           NEW rest, rest = [bm EXCEPT !.due = Tail(@)],
           bm' = rest \/ bm' = Destroyed(rest, op.binding)
    PROVE  IInv' /\ PublishesStay /\ Bound(bm') \subseteq Bound(bm)
<1>1. bm \in Manager /\ bm.due # <<>> /\ UniqueIn(bm) /\ stage = "drain"
  BY DEF IInv, TypeOK, DrainOp
<1>2. /\ rest \in Manager /\ op \in SlotOp
      /\ rest.slots = bm.slots /\ rest.destroyed = bm.destroyed
      /\ UniqueIn(rest) /\ QueuedIn(rest) = QueuedIn(bm) \ {op.binding}
      /\ \A p \in PlacesIn(rest) : p \in PlacesIn(bm) /\ OpIn(rest, p) = OpIn(bm, p)
  BY <1>1, RestFacts
<1>3. PICK q \in PlacesIn(bm) : q[1] = FIF /\ OpIn(bm, q) = op
  BY <1>1, RestFacts
<1>4. op.binding \in Texture \cup {None} /\ op.kind \in {"Publish", "Decommit", "Destroy"}
  BY <1>2 DEF SlotOp
<1>5. /\ op.binding # None => op.binding \in QueuedIn(bm)
      /\ op.binding = None \/ Fresh(op.binding)
  BY <1>1, <1>3, <1>4, HeadInOrder
<1>6. /\ bm' \in Manager /\ bm'.slots = bm.slots
      /\ bm'.ring = rest.ring /\ bm'.due = rest.due
      /\ bm.destroyed \subseteq bm'.destroyed
      /\ bm'.destroyed \subseteq bm.destroyed \cup ({op.binding} \ {None})
  <2>1. CASE bm' = rest
    BY <1>2, <2>1
  <2>2. CASE bm' = Destroyed(rest, op.binding)
    <3>1. PICK d : d = Destroyed(rest, op.binding)
      OBVIOUS
    <3>2. /\ d \in Manager /\ d.slots = rest.slots /\ d.ring = rest.ring
          /\ d.due = rest.due
          /\ d.destroyed = rest.destroyed \cup ({op.binding} \ {None})
      BY <1>2, <1>4, <3>1, DestroyedFacts
    <3>. QED  BY <1>2, <2>2, <3>1, <3>2
  <2>. QED  BY <2>1, <2>2
<1>7. /\ PlacesIn(bm') = PlacesIn(rest) /\ QueuedIn(bm') = QueuedIn(rest)
      /\ \A p : OpIn(bm', p) = OpIn(rest, p)
      /\ UniqueIn(bm')
  <2>1. PICK d : d = bm'
    OBVIOUS
  <2>2. d.ring = rest.ring /\ d.due = rest.due
    BY <1>6, <2>1
  <2>3. /\ PlacesIn(d) = PlacesIn(rest) /\ QueuedIn(d) = QueuedIn(rest)
        /\ \A p : OpIn(d, p) = OpIn(rest, p)
        /\ UniqueIn(d) <=> UniqueIn(rest)
    BY <2>2, SameQueues
  <2>. QED  BY <1>2, <2>1, <2>3
<1>8. Bound(bm') = Bound(bm)
  BY <1>6 DEF Bound
<1>9. PlaceInv
  BY DEF IInv
<1>10. /\ bm'.destroyed \cap Bound(bm') = {} /\ bm'.destroyed \cap QueuedIn(bm') = {}
       /\ Bound(bm') \cap QueuedIn(bm') = {}
       /\ bm'.destroyed \cup Bound(bm') \cup QueuedIn(bm')
             \subseteq bm.destroyed \cup Bound(bm) \cup QueuedIn(bm)
  BY <1>2, <1>5, <1>6, <1>7, <1>8, <1>9 DEF PlaceInv
<1>11. \A t \in bm'.destroyed : t \in bm.destroyed \/ Fresh(t)
  BY <1>5, <1>6
<1>12. PICK S : S = {}
  OBVIOUS
<1>13. \A p \in PlacesIn(bm') \ S : p \in PlacesIn(bm) /\ OpIn(bm', p) = OpIn(bm, p)
  BY <1>2, <1>7
<1>14. ShowsOwnTexture'
  BY <1>6 DEF IInv, ShowsOwnTexture, DrainOp
<1>15. IInv'
  BY <1>6, <1>7, <1>10, <1>11, <1>12, <1>13, <1>14, DrainPlaces
<1>16. PublishesStay
  BY <1>12, <1>13 DEF PublishesStay
<1>. QED  BY <1>8, <1>15, <1>16

\* The manager c after the first operation op of b was taken, rest, and applied: its
\* slot has a new record r, which shows the operation's texture or nothing.
Applied(b, op, rest, r, c) ==
    /\ op = Head(b.due) /\ rest = [b EXCEPT !.due = Tail(@)]
    /\ r.binding # None => op.kind = "Publish" /\ r.binding = op.binding /\ r.gen = op.gen
    /\ c.ring = rest.ring /\ c.due = rest.due /\ c.destroyed = b.destroyed
    /\ c.slots = [b.slots EXCEPT ![op.slot] = r]

\* What the slot showed before waits to be destroyed.
LEMMA DrainApplies ==
    ASSUME IInv, DrainOp, NEW op, NEW rest, NEW r \in SlotRecord, NEW c \in Manager,
           Applied(bm, op, rest, r, c),
           NEW old, old = bm.slots[op.slot].binding,
           NEW d, d = Retired(c, op, old), bm' = d
    PROVE  /\ IInv' /\ PublishesStay
           /\ Bound(bm') \subseteq Bound(bm) \cup ({r.binding} \ {None})
<1>1. /\ bm \in Manager /\ bm.due # <<>> /\ UniqueIn(bm) /\ stage = "drain"
      /\ PlaceInv /\ ShowsOwnTexture
  BY DEF IInv, TypeOK, DrainOp
<1>2. /\ op \in SlotOp
      /\ UniqueIn(rest) /\ QueuedIn(rest) = QueuedIn(bm) \ {op.binding}
      /\ \A p \in PlacesIn(rest) : p \in PlacesIn(bm) /\ OpIn(rest, p) = OpIn(bm, p)
  BY <1>1, RestFacts DEF Applied
<1>3. PICK q \in PlacesIn(bm) : q[1] = FIF /\ OpIn(bm, q) = op
  BY <1>1, RestFacts DEF Applied
<1>4. /\ Slot(op.frame) = Slot(frame)
      /\ op.binding # None => op.binding \in QueuedIn(bm)
      /\ op.kind = "Publish" =>
            /\ op.binding \in Texture
            /\ target[op.binding] = [slot |-> op.slot, gen |-> op.gen]
  BY <1>1, <1>3, HeadInOrder
<1>5. op.slot \in Slots /\ bm.slots \in [Slots -> SlotRecord]
  BY <1>1, <1>2, ManagerFields DEF SlotOp
<1>6. old \in Texture \cup {None}
  BY <1>5 DEF SlotRecord
<1>7. old # None => old \in Bound(bm)
  BY <1>5 DEF Bound
<1>8. old \notin QueuedIn(rest)
  <2>1. None \notin QueuedIn(bm)
    BY DEF QueuedIn
  <2>. QED  BY <1>1, <1>2, <1>7, <2>1 DEF PlaceInv
<1>9. /\ r.binding # None => op.kind = "Publish" /\ r.binding = op.binding /\ r.gen = op.gen
      /\ c.ring = rest.ring /\ c.due = rest.due /\ c.destroyed = bm.destroyed
      /\ c.slots = [bm.slots EXCEPT ![op.slot] = r]
  BY DEF Applied
<1>10. c.ring = rest.ring /\ c.due = rest.due /\ UniqueIn(rest) /\ op \in SlotOp
  BY <1>2, <1>9
<1>11. /\ bm' \in Manager /\ UniqueIn(bm') /\ bm'.destroyed = bm.destroyed
       /\ bm'.slots = [bm.slots EXCEPT ![op.slot] = r]
       /\ QueuedIn(bm') = (QueuedIn(bm) \ {op.binding}) \cup ({old} \ {None})
  <2>1. /\ d \in Manager /\ d.slots = c.slots /\ d.destroyed = c.destroyed
        /\ UniqueIn(d) /\ QueuedIn(d) = QueuedIn(rest) \cup ({old} \ {None})
    BY <1>6, <1>8, <1>10, RetiredFacts
  <2>. QED  BY <1>2, <1>9, <2>1
<1>12. PICK S : Beside(rest, d, S) /\ WaitsIn(d, S, op, old)
  BY <1>6, <1>8, <1>10, RetiredFacts
<1>13. \A s \in Slots : bm'.slots[s] = IF s = op.slot THEN r ELSE bm.slots[s]
  BY <1>5, <1>11
<1>14. /\ Bound(bm') \subseteq Bound(bm) \cup ({op.binding} \ {None})
       /\ old \notin Bound(bm')
  <2>1. Bound(bm') \subseteq Bound(bm) \cup ({op.binding} \ {None})
    BY <1>9, <1>13 DEF Bound
  <2>2. ASSUME NEW s \in Slots, bm'.slots[s].binding = old, old # None PROVE FALSE
    <3>1. CASE s = op.slot
      <4>1. r.binding = old
        BY <1>13, <2>2, <3>1
      <4>2. old \in QueuedIn(bm)
        BY <1>4, <1>9, <2>2, <4>1
      <4>. QED  BY <1>1, <1>7, <2>2, <4>2 DEF PlaceInv
    <3>2. CASE s # op.slot
      <4>1. bm.slots[s].binding = bm.slots[op.slot].binding
        BY <1>13, <2>2, <3>2
      <4>. QED  BY <1>1, <1>5, <2>2, <3>2, <4>1, OneSlot
    <3>. QED  BY <3>1, <3>2
  <2>. QED  BY <2>1, <2>2 DEF Bound
<1>15. /\ bm'.destroyed \cap Bound(bm') = {} /\ bm'.destroyed \cap QueuedIn(bm') = {}
       /\ Bound(bm') \cap QueuedIn(bm') = {}
       /\ bm'.destroyed \cup Bound(bm') \cup QueuedIn(bm')
             \subseteq bm.destroyed \cup Bound(bm) \cup QueuedIn(bm)
  BY <1>1, <1>4, <1>7, <1>11, <1>14 DEF PlaceInv
<1>16. \A p \in PlacesIn(bm') \ S : p \in PlacesIn(bm) /\ OpIn(bm', p) = OpIn(bm, p)
  BY <1>2, <1>12 DEF Beside
<1>17. ASSUME NEW p \in S, NEW o, o = OpIn(bm', p) PROVE OpOK(p[1], o)'
  <2>1. /\ p[1] = Slot(op.frame) /\ p[1] # FIF /\ o.kind = "Destroy" /\ o.binding = old
        /\ old \in Texture /\ o.frame = op.frame
    BY <1>6, <1>12, <1>17 DEF WaitsIn
  <2>2. /\ frame' = frame /\ stage' = stage /\ running' = running
        /\ samples' \subseteq running' \X Texture
    BY <1>11, DrainFrame
  <2>3. PICK s, t : s = p[1] /\ t = o.binding
    OBVIOUS
  <2>4. s = Slot(frame)
    BY <1>4, <2>1, <2>3
  <2>5. Past(s, t)'
    BY <1>1, <2>2, <2>4, PastNow
  <2>. QED  BY <2>1, <2>3, <2>5 DEF OpOK, Slot, Past, NextTurn
<1>18. \A t \in bm'.destroyed : t \in bm.destroyed \/ Fresh(t)
  BY <1>11
<1>19. ShowsOwnTexture'
  <2>1. target' = target
    BY DEF DrainOp
  <2>2. ASSUME NEW s \in Slots, bm'.slots[s].binding # None
        PROVE  target[bm'.slots[s].binding] = [slot |-> s, gen |-> bm'.slots[s].gen]
    <3>1. CASE s = op.slot
      BY <1>4, <1>9, <1>13, <2>2, <3>1
    <3>2. CASE s # op.slot
      BY <1>1, <1>13, <2>2, <3>2 DEF ShowsOwnTexture
    <3>. QED  BY <3>1, <3>2
  <2>. QED  BY <2>1, <2>2 DEF ShowsOwnTexture
<1>20. IInv'
  BY <1>11, <1>15, <1>16, <1>17, <1>18, <1>19, DrainPlaces
<1>21. PublishesStay
  BY <1>12, <1>16 DEF PublishesStay, WaitsIn
<1>22. Bound(bm') \subseteq Bound(bm) \cup ({r.binding} \ {None})
  BY <1>13 DEF Bound
<1>. QED  BY <1>20, <1>21, <1>22

\* One turn of the drain: the operation is dropped, or published, or frees its slot.
LEMMA DrainStep ==
    ASSUME IInv, DrainOp
    PROVE  /\ IInv' /\ PublishesStay
           /\ \A t \in Bound(bm') \ Bound(bm) : \E q \in PlacesIn(bm) :
                 /\ q[1] = FIF /\ OpIn(bm, q).kind = "Publish"
                 /\ OpIn(bm, q).binding = t /\ IsFrameComplete(OpIn(bm, q).frame)
<1>1. PICK op, rest : op = Head(bm.due) /\ rest = [bm EXCEPT !.due = Tail(@)]
  OBVIOUS
<1>2. /\ bm \in Manager /\ bm.due # <<>> /\ UniqueIn(bm)
      /\ bm' = IF Gate(op) THEN ApplyOp(rest, op) ELSE Destroyed(rest, op.binding)
  BY <1>1 DEF IInv, TypeOK, DrainOp, Walked
<1>3. /\ rest \in Manager /\ op \in SlotOp
      /\ rest.slots = bm.slots /\ rest.free = bm.free
      /\ rest.nextGen = bm.nextGen /\ rest.destroyed = bm.destroyed
  BY <1>1, <1>2, RestFacts
<1>4. /\ op.kind \in {"Publish", "Decommit", "Destroy"} /\ op.slot \in Slots
      /\ op.gen \in Nat /\ op.binding \in Texture \cup {None}
  BY <1>3 DEF SlotOp
<1>5. /\ rest.slots \in [Slots -> SlotRecord] /\ rest.slots[op.slot] \in SlotRecord
      /\ rest.free \in Seq(Slots) /\ rest.nextGen \in Nat
  BY <1>3, <1>4, ManagerFields
<1>6. CASE bm' = rest \/ bm' = Destroyed(rest, op.binding)
  BY <1>1, <1>6, DrainDrops
<1>7. CASE /\ ~Stale(rest, op) /\ op.kind = "Publish"
           /\ Gate(op)
           /\ bm' = Retired([rest EXCEPT !.slots[op.slot].binding = op.binding], op,
                            rest.slots[op.slot].binding)
  <2>1. PICK r : r = [rest.slots[op.slot] EXCEPT !.binding = op.binding]
    OBVIOUS
  <2>2. r \in SlotRecord /\ r.binding = op.binding /\ r.gen = op.gen
    BY <1>4, <1>5, <1>7, <2>1 DEF SlotRecord, Stale
  <2>3. PICK c : c = [rest EXCEPT !.slots = [rest.slots EXCEPT ![op.slot] = r]]
    OBVIOUS
  <2>4. /\ c \in Manager /\ c.ring = rest.ring /\ c.due = rest.due
        /\ c.destroyed = rest.destroyed /\ c.slots = [rest.slots EXCEPT ![op.slot] = r]
    <3>1. [rest.slots EXCEPT ![op.slot] = r] \in [Slots -> SlotRecord]
      BY <1>4, <1>5, <2>2
    <3>. QED  BY <1>3, <2>3, <3>1 DEF Manager
  <2>5. [rest EXCEPT !.slots[op.slot].binding = op.binding] = c
    BY <1>3, <1>4, <1>5, <2>1, <2>3 DEF Manager
  <2>6. bm' = Retired(c, op, bm.slots[op.slot].binding)
    BY <1>3, <1>7, <2>5
  <2>7. Applied(bm, op, rest, r, c)
    BY <1>1, <1>3, <1>7, <2>2, <2>4 DEF Applied
  <2>8. /\ IInv' /\ PublishesStay
        /\ Bound(bm') \subseteq Bound(bm) \cup ({r.binding} \ {None})
    BY <2>2, <2>4, <2>6, <2>7, DrainApplies
  <2>9. PICK q \in PlacesIn(bm) : q[1] = FIF /\ OpIn(bm, q) = op
    BY <1>1, <1>2, RestFacts
  <2>10. IsFrameComplete(op.frame)
    BY <1>7 DEF Gate
  <2>. QED  BY <1>7, <2>2, <2>8, <2>9, <2>10
<1>8. CASE bm' = Retired([rest EXCEPT !.slots[op.slot] = Freed(rest), !.nextGen = @ + 1,
                                      !.free = Append(@, op.slot)], op,
                         rest.slots[op.slot].binding)
  <2>1. PICK r : r = Freed(rest)
    OBVIOUS
  <2>2. r \in SlotRecord /\ r.binding = None
    BY <1>5, <2>1 DEF SlotRecord, Freed
  <2>3. PICK c : c = [rest EXCEPT !.slots = [rest.slots EXCEPT ![op.slot] = r],
                                  !.nextGen = rest.nextGen + 1,
                                  !.free = Append(rest.free, op.slot)]
    OBVIOUS
  <2>4. /\ c \in Manager /\ c.ring = rest.ring /\ c.due = rest.due
        /\ c.destroyed = rest.destroyed /\ c.slots = [rest.slots EXCEPT ![op.slot] = r]
    <3>1. [rest.slots EXCEPT ![op.slot] = r] \in [Slots -> SlotRecord]
      BY <1>4, <1>5, <2>2
    <3>2. Append(rest.free, op.slot) \in Seq(Slots) /\ rest.nextGen + 1 \in Nat
      BY <1>4, <1>5
    <3>. QED  BY <1>3, <2>3, <3>1, <3>2 DEF Manager
  <2>5. [rest EXCEPT !.slots[op.slot] = Freed(rest), !.nextGen = @ + 1,
                     !.free = Append(@, op.slot)] = c
    BY <1>3, <2>1, <2>3 DEF Manager
  <2>6. bm' = Retired(c, op, bm.slots[op.slot].binding)
    BY <1>3, <1>8, <2>5
  <2>7. Applied(bm, op, rest, r, c)
    BY <1>1, <1>3, <2>2, <2>4 DEF Applied
  <2>8. /\ IInv' /\ PublishesStay
        /\ Bound(bm') \subseteq Bound(bm) \cup ({r.binding} \ {None})
    BY <2>2, <2>4, <2>6, <2>7, DrainApplies
  <2>. QED  BY <2>2, <2>8
<1>9. \/ bm' = rest \/ bm' = Destroyed(rest, op.binding)
      \/ /\ ~Stale(rest, op) /\ op.kind = "Publish"
         /\ Gate(op)
         /\ bm' = Retired([rest EXCEPT !.slots[op.slot].binding = op.binding], op,
                          rest.slots[op.slot].binding)
      \/ bm' = Retired([rest EXCEPT !.slots[op.slot] = Freed(rest), !.nextGen = @ + 1,
                                    !.free = Append(@, op.slot)], op,
                       rest.slots[op.slot].binding)
  <2>1. CASE ~Gate(op)
    BY <1>2, <2>1
  <2>2. CASE Gate(op)
    <3>1. bm' = ApplyOp(rest, op)
      BY <1>2, <2>2
    <3>2. CASE Stale(rest, op)
      BY <3>1, <3>2 DEF ApplyOp
    <3>3. CASE ~Stale(rest, op) /\ op.kind = "Publish"
      <4>1. CASE rest.slots[op.slot].released
        BY <3>1, <3>3, <4>1 DEF ApplyOp
      <4>2. CASE ~rest.slots[op.slot].released
        BY <2>2, <3>1, <3>3, <4>2 DEF ApplyOp
      <4>. QED  BY <4>1, <4>2
    <3>4. CASE ~Stale(rest, op) /\ op.kind = "Decommit"
      BY <3>1, <3>4 DEF ApplyOp
    <3>5. CASE ~Stale(rest, op) /\ op.kind = "Destroy"
      BY <3>1, <3>5 DEF ApplyOp
    <3>. QED  BY <1>4, <3>2, <3>3, <3>4, <3>5
  <2>. QED  BY <2>1, <2>2
<1>. QED  BY <1>6, <1>7, <1>8, <1>9

-----------------------------------------------------------------------------
(* What was shown was uploaded *)

\* The record of a slot is a frame of that slot that was submitted with its work.
RecordInv ==
    /\ \A s \in 0 .. FIF - 1 : record[s] # Never =>
          Slot(record[s]) = s /\ record[s] \notin dropped /\ record[s] < frame
    /\ \A f \in dropped : f < frame

\* A publish that is queued is of the frame that recorded the copies, and drained
\* at the next turn of that frame's slot, if every frame was rendered.
InTime(s, f) ==
    /\ f \in Nat /\ f <= frame /\ (f = frame => stage = "record") /\ f >= frame - FIF
    /\ f = frame - FIF => stage \in {"idle", "update", "drain"}
    /\ s = FIF => f = frame - FIF
    /\ stage = "drain" /\ s # FIF => f > frame - FIF
UploadInv ==
    rendered = frame =>
       /\ \A t \in Bound(bm) : copied[t] # None => copied[t] < frame /\ copied[t] \notin dropped
       /\ \A p \in PlacesIn(bm) : OpIn(bm, p).kind = "Publish" =>
             /\ copied[OpIn(bm, p).binding] = OpIn(bm, p).frame
             /\ InTime(p[1], OpIn(bm, p).frame)

\* A record is rewritten by the submission of its slot's frame.
LEMMA SubmitRecord ==
    ASSUME GateTypeOK, RecordInv, NEW success \in BOOLEAN, Submit(success), frame' = frame + 1
    PROVE  RecordInv'
<1>1. frame \in Nat /\ Slot(frame) \in 0 .. FIF - 1
  BY SlotRange, FifPositive DEF GateTypeOK
<1>2. frame \notin dropped
  BY <1>1 DEF RecordInv
<1>3. \A f \in dropped' : f < frame'
  BY <1>1 DEF RecordInv, Submit, GateTypeOK
<1>4. ASSUME NEW s \in 0 .. FIF - 1, record'[s] # Never
      PROVE  Slot(record'[s]) = s /\ record'[s] \notin dropped' /\ record'[s] < frame'
  <2>1. CASE success /\ s = Slot(frame)
    <3>1. record'[s] = frame /\ dropped' = dropped
      BY <1>1, <2>1 DEF Submit, GateTypeOK
    <3>. QED  BY <1>1, <1>2, <2>1, <3>1
  <2>2. CASE ~(success /\ s = Slot(frame))
    <3>1. record'[s] = record[s]
      BY <1>1, <2>2 DEF Submit, GateTypeOK
    <3>2. record[s] \in Nat /\ Slot(record[s]) = s /\ record[s] \notin dropped
          /\ record[s] < frame
      BY <1>4, <3>1 DEF RecordInv, GateTypeOK
    <3>3. dropped' \subseteq dropped \cup {frame}
      BY DEF Submit
    <3>. QED  BY <1>1, <3>1, <3>2, <3>3
  <2>. QED  BY <2>1, <2>2
<1>. QED  BY <1>3, <1>4 DEF RecordInv, Slot

LEMMA SameRecord ==
    ASSUME RecordInv, UNCHANGED <<frame, record, dropped>>
    PROVE  RecordInv'
  BY DEF RecordInv, Slot

\* A frame reported complete, of those that the slot's turn is about, was
\* submitted with its work.
LEMMA CompleteWasSubmitted ==
    ASSUME GateTypeOK, RecordInv, NEW f \in Nat, f = frame - FIF, IsFrameComplete(f)
    PROVE  f \notin dropped
<1>1. frame \in Nat /\ Slot(f) \in 0 .. FIF - 1
  BY SlotRange, FifPositive DEF GateTypeOK
<1>2. PICK r : r = record[Slot(f)]
  OBVIOUS
<1>3. r # Never /\ r \in Nat /\ r >= f
  BY <1>1, <1>2 DEF IsFrameComplete, IsRecorded, GateTypeOK
<1>4. Slot(r) = Slot(f) /\ r \notin dropped /\ r < frame
  BY <1>1, <1>2, <1>3 DEF RecordInv
<1>5. r = f
  <2>1. ASSUME r > f PROVE FALSE
    <3>1. r >= f + FIF
      BY <1>3, <1>4, <2>1, NextTurnAway
    <3>. QED  BY <1>1, <1>3, <1>4, <3>1, FifPositive
  <2>. QED  BY <1>3, <2>1
<1>. QED  BY <1>4, <1>5

\* A step whose publishes stay and that shows nothing new, or what was copied before.
LEMMA UploadStays ==
    ASSUME IInv, UploadInv, PublishesStay, frame' = frame, rendered' = rendered,
           dropped' = dropped, copied' = copied,
           \A t \in Bound(bm') : t \in Bound(bm) \/ copied[t] = None
               \/ (rendered = frame => copied[t] < frame /\ copied[t] \notin dropped),
           \A p \in PlacesIn(bm), f \in Nat : InTime(p[1], f) => InTime(p[1], f)'
    PROVE  UploadInv'
<1>1. SUFFICES ASSUME rendered = frame PROVE UploadInv'
  BY DEF UploadInv
<1>2. \A t \in Bound(bm') : copied'[t] # None => copied'[t] < frame' /\ copied'[t] \notin dropped'
  BY <1>1 DEF UploadInv
<1>3. ASSUME NEW p \in PlacesIn(bm'), NEW op, op = OpIn(bm', p), op.kind = "Publish"
      PROVE  copied'[op.binding] = op.frame /\ InTime(p[1], op.frame)'
  <2>1. p \in PlacesIn(bm) /\ op = OpIn(bm, p)
    BY <1>3 DEF PublishesStay
  <2>2. copied[op.binding] = op.frame /\ InTime(p[1], op.frame)
    BY <1>1, <1>3, <2>1 DEF UploadInv
  <2>3. op.frame \in Nat
    BY <2>2 DEF InTime
  <2>. QED  BY <2>1, <2>2, <2>3
<1>4. /\ Bound(bm)' = Bound(bm') /\ PlacesIn(bm)' = PlacesIn(bm')
      /\ \A p : OpIn(bm, p)' = OpIn(bm', p)
  BY DEF Bound, PlacesIn, OpIn, Queue
<1>. QED  BY <1>2, <1>3, <1>4 DEF UploadInv, InTime

\* While the loop does not move, nothing changes about the time of a publish.
LEMMA SameTime ==
    ASSUME UNCHANGED <<frame, stage>>, NEW s, NEW f, InTime(s, f)
    PROVE  InTime(s, f)'
  BY DEF InTime

\* No operation is being drained when there is none.
LEMMA NoneDrained ==
    ASSUME NEW b, b.due = <<>>, NEW p \in PlacesIn(b)
    PROVE  p[1] # FIF
  BY DEF PlacesIn, Queue

LEMMA UploadLoop ==
    ASSUME IInv, UploadInv, Acquire \/ Prepared
    PROVE  UploadInv'
<1>1. UNCHANGED <<bm, copied, rendered, frame, dropped>>
  BY DEF Acquire, Prepared, bindlessVars, gpuVars
<1>2. bm.due = <<>> /\ frame \in Nat
  BY TurnTyped DEF IInv, PlaceInv, Acquire, Prepared
<1>3. ASSUME NEW p \in PlacesIn(bm), NEW f \in Nat, InTime(p[1], f)
      PROVE  InTime(p[1], f)'
  <2>1. p[1] # FIF
    BY <1>2, NoneDrained
  <2>2. PICK s : s = p[1]
    OBVIOUS
  <2>3. InTime(s, f)'
    <3>1. CASE Acquire
      BY <1>1, <1>2, <1>3, <2>1, <2>2, <3>1 DEF InTime, Acquire
    <3>2. CASE Prepared
      BY <1>1, <1>2, <1>3, <2>1, <2>2, <3>2, FifPositive DEF InTime, Prepared
    <3>. QED  BY <3>1, <3>2
  <2>. QED  BY <2>2, <2>3
<1>4. PublishesStay
  BY <1>1 DEF PublishesStay
<1>5. Bound(bm') \subseteq Bound(bm)
  BY <1>1
<1>. QED  BY <1>1, <1>3, <1>4, <1>5, UploadStays

\* Steps that leave the loop and the copies alone.
LEMMA UploadCall ==
    ASSUME IInv, UploadInv, UNCHANGED <<frame, stage, dropped, copied, rendered>>,
           PublishesStay, \A t \in Bound(bm') : t \in Bound(bm) \/ copied[t] = None
    PROVE  UploadInv'
<1>1. \A p \in PlacesIn(bm), f \in Nat : InTime(p[1], f) => InTime(p[1], f)'
  <2>1. ASSUME NEW p \in PlacesIn(bm), NEW f \in Nat, InTime(p[1], f) PROVE InTime(p[1], f)'
    <3>1. PICK s : s = p[1]
      OBVIOUS
    <3>. QED  BY <2>1, <3>1, SameTime
  <2>. QED  BY <2>1
<1>. QED  BY <1>1, UploadStays

LEMMA UploadSubmit ==
    ASSUME IInv, UploadInv, NEW success \in BOOLEAN, Finished(success)
    PROVE  UploadInv'
<1>1. /\ bm' = bm /\ copied' = copied /\ frame' = frame + 1 /\ stage' = "idle"
      /\ dropped' \subseteq dropped \cup {frame}
  BY DEF Finished, Submit
<1>2. /\ frame \in Nat /\ rendered \in 0 .. frame /\ stage \in BuildStages
      /\ bm.due = <<>>
  BY TurnTyped DEF IInv, TypeOK, PlaceInv, Finished, BuildStages
<1>3. SUFFICES ASSUME rendered' = frame' PROVE UploadInv'
  BY DEF UploadInv
<1>4. stage = "record" /\ rendered = frame
  <2>1. rendered' = IF stage = "record" THEN rendered + 1 ELSE rendered
    BY DEF Finished
  <2>. QED  BY <1>1, <1>2, <1>3, <2>1
<1>5. ASSUME NEW t \in Bound(bm), copied[t] # None
      PROVE  copied[t] < frame' /\ copied[t] \notin dropped'
  <2>1. copied[t] < frame /\ copied[t] \notin dropped
    BY <1>4, <1>5 DEF UploadInv
  <2>2. t \in Texture
    BY BoundTyped DEF IInv, TypeOK
  <2>3. copied[t] \in Nat
    BY <1>5, <2>2 DEF IInv, TypeOK
  <2>. QED  BY <1>1, <1>2, <2>1, <2>3
<1>6. ASSUME NEW p \in PlacesIn(bm), NEW op, op = OpIn(bm, p), op.kind = "Publish"
      PROVE  copied[op.binding] = op.frame /\ InTime(p[1], op.frame)'
  <2>1. PICK s, f : s = p[1] /\ f = op.frame
    OBVIOUS
  <2>2. copied[op.binding] = f /\ InTime(s, f)
    BY <1>4, <1>6, <2>1 DEF UploadInv
  <2>3. s # FIF
    BY <1>2, <2>1, NoneDrained
  <2>4. InTime(s, f)'
    BY <1>1, <1>2, <1>4, <2>2, <2>3, FifPositive DEF InTime
  <2>. QED  BY <2>1, <2>2, <2>4
<1>7. /\ Bound(bm)' = Bound(bm) /\ PlacesIn(bm)' = PlacesIn(bm)
      /\ \A p : OpIn(bm, p)' = OpIn(bm, p)
  BY <1>1 DEF Bound, PlacesIn, OpIn, Queue
<1>. QED  BY <1>1, <1>5, <1>6, <1>7 DEF UploadInv, InTime

\* The operations being drained are of the frame FIF before; those left are later.
LEMMA UploadBegin ==
    ASSUME IInv, UploadInv, BeginFrame
    PROVE  UploadInv'
<1>1. /\ UNCHANGED <<frame, dropped, copied, rendered>>
      /\ stage = "update" /\ stage' = "drain"
  BY DEF BeginFrame, gpuVars
<1>2. frame \in Nat /\ Slot(frame) \in 0 .. FIF - 1
  BY TurnTyped, SlotRange, FifPositive DEF IInv
<1>3. /\ Bound(bm') = Bound(bm)
      /\ \A p \in PlacesIn(bm') : \E q \in PlacesIn(bm) :
            /\ OpIn(bm', p) = OpIn(bm, q)
            /\ p[1] = FIF => q[1] = Slot(frame)
            /\ p[1] # FIF => q = p /\ p[1] # Slot(frame)
  BY BeginStep
<1>4. SUFFICES ASSUME rendered = frame PROVE UploadInv'
  BY <1>1 DEF UploadInv
<1>5. ASSUME NEW p \in PlacesIn(bm'), NEW op, op = OpIn(bm', p), op.kind = "Publish"
      PROVE  copied[op.binding] = op.frame /\ InTime(p[1], op.frame)'
  <2>1. PICK q \in PlacesIn(bm) : /\ op = OpIn(bm, q)
                                  /\ p[1] = FIF => q[1] = Slot(frame)
                                  /\ p[1] # FIF => q = p /\ p[1] # Slot(frame)
    BY <1>3, <1>5
  <2>2. PICK s, f : s = p[1] /\ f = op.frame
    OBVIOUS
  <2>3. /\ copied[op.binding] = f /\ f \in Nat /\ f < frame /\ f >= frame - FIF
    BY <1>1, <1>2, <1>4, <1>5, <2>1, <2>2 DEF UploadInv, InTime
  <2>4. q[1] # FIF
    BY <1>1, NoneDrained DEF IInv, PlaceInv
  <2>5. Slot(f) = q[1]
    BY <2>1, <2>2, <2>4 DEF IInv, OpInv, OpOK
  <2>6. InTime(s, f)'
    <3>1. CASE s = FIF
      <4>1. Slot(frame) = Slot(f)
        BY <2>1, <2>2, <2>5, <3>1
      <4>2. frame >= f + FIF
        BY <1>2, <2>3, <4>1, NextTurnAway
      <4>. QED  BY <1>1, <1>2, <2>3, <3>1, <4>2, FifPositive DEF InTime
    <3>2. CASE s # FIF
      <4>1. Slot(f) # Slot(frame)
        BY <2>1, <2>2, <2>5, <3>2
      <4>2. f + FIF # frame
        BY <2>3, <4>1, ModPlus, FifPositive DEF Slot
      <4>. QED  BY <1>1, <1>2, <2>3, <3>2, <4>2, FifPositive DEF InTime
    <3>. QED  BY <3>1, <3>2
  <2>. QED  BY <2>2, <2>3, <2>6
<1>6. \A t \in Bound(bm') : copied'[t] # None => copied'[t] < frame' /\ copied'[t] \notin dropped'
  BY <1>1, <1>3, <1>4 DEF UploadInv
<1>7. /\ Bound(bm)' = Bound(bm') /\ PlacesIn(bm)' = PlacesIn(bm')
      /\ \A p : OpIn(bm, p)' = OpIn(bm', p)
  BY DEF Bound, PlacesIn, OpIn, Queue
<1>. QED  BY <1>1, <1>5, <1>6, <1>7 DEF UploadInv, InTime

\* What a drained publish shows was copied by a frame that was submitted.
LEMMA UploadDrain ==
    ASSUME IInv, RecordInv, UploadInv, DrainOp
    PROVE  UploadInv'
<1>1. UNCHANGED <<frame, stage, dropped, copied, rendered>> /\ frame \in Nat
  BY TurnTyped DEF DrainOp, gateVars, gpuVars, IInv
<1>2. /\ PublishesStay
      /\ \A t \in Bound(bm') \ Bound(bm) : \E q \in PlacesIn(bm) :
            /\ q[1] = FIF /\ OpIn(bm, q).kind = "Publish"
            /\ OpIn(bm, q).binding = t /\ IsFrameComplete(OpIn(bm, q).frame)
  BY DrainStep
<1>3. ASSUME NEW t \in Bound(bm') \ Bound(bm), rendered = frame
      PROVE  copied[t] < frame /\ copied[t] \notin dropped
  <2>1. PICK q \in PlacesIn(bm) :
           /\ q[1] = FIF /\ OpIn(bm, q).kind = "Publish"
           /\ OpIn(bm, q).binding = t /\ IsFrameComplete(OpIn(bm, q).frame)
    BY <1>2
  <2>2. PICK f : f = OpIn(bm, q).frame
    OBVIOUS
  <2>3. copied[t] = f /\ InTime(FIF, f)
    BY <1>3, <2>1, <2>2 DEF UploadInv
  <2>4. f \in Nat /\ f = frame - FIF
    BY <2>3 DEF InTime
  <2>5. f \notin dropped
    BY <2>1, <2>2, <2>4, CompleteWasSubmitted DEF IInv, GateInv
  <2>. QED  BY <1>1, <2>3, <2>4, <2>5, FifPositive
<1>4. \A p \in PlacesIn(bm), f \in Nat : InTime(p[1], f) => InTime(p[1], f)'
  <2>1. ASSUME NEW p \in PlacesIn(bm), NEW f \in Nat, InTime(p[1], f) PROVE InTime(p[1], f)'
    <3>1. PICK s : s = p[1]
      OBVIOUS
    <3>. QED  BY <1>1, <2>1, <3>1, SameTime
  <2>. QED  BY <2>1
<1>. QED  BY <1>1, <1>2, <1>3, <1>4, UploadStays

\* RecordUploads queues a publish of the frame that copies.
LEMMA UploadRecord ==
    ASSUME IInv, UploadInv, NEW t \in Texture, RecordUpload(t)
    PROVE  UploadInv'
<1>1. /\ UNCHANGED <<frame, stage, dropped, rendered>> /\ stage = "record"
      /\ copied' = [copied EXCEPT ![t] = frame] /\ frame \in Nat
  BY TurnTyped DEF RecordUpload, gateVars, gpuVars, IInv
<1>2. /\ Bound(bm') \subseteq Bound(bm) /\ t \notin Bound(bm) \cup QueuedIn(bm)
      /\ \A p \in PlacesIn(bm') :
            \/ p \in PlacesIn(bm) /\ OpIn(bm', p) = OpIn(bm, p)
            \/ /\ p[1] # FIF /\ OpIn(bm', p).binding = t
               /\ OpIn(bm', p).frame = rendered
  BY RecordStep
<1>3. SUFFICES ASSUME rendered = frame PROVE UploadInv'
  BY <1>1 DEF UploadInv
<1>4. copied \in [Texture -> Nat \cup {None}] /\ t # None
  BY BindlessConstants DEF IInv, TypeOK
<1>5. ASSUME NEW u \in Bound(bm'), copied'[u] # None
      PROVE  copied'[u] < frame' /\ copied'[u] \notin dropped'
  <2>1. u # t /\ u \in Bound(bm) /\ u \in Texture
    BY <1>2, BoundTyped DEF IInv, TypeOK
  <2>2. copied'[u] = copied[u]
    BY <1>1, <1>4, <2>1
  <2>. QED  BY <1>1, <1>3, <1>5, <2>1, <2>2 DEF UploadInv
<1>6. ASSUME NEW p \in PlacesIn(bm'), NEW op, op = OpIn(bm', p), op.kind = "Publish"
      PROVE  copied'[op.binding] = op.frame /\ InTime(p[1], op.frame)'
  <2>1. PICK s, f : s = p[1] /\ f = op.frame
    OBVIOUS
  <2>2. CASE p \in PlacesIn(bm) /\ op = OpIn(bm, p)
    <3>1. copied[op.binding] = f /\ InTime(s, f)
      BY <1>3, <1>6, <2>1, <2>2 DEF UploadInv
    <3>2. op.binding \in Texture /\ op.binding # t
      <4>1. op.binding \in Texture
        BY <1>6, <2>2 DEF IInv, OpInv, OpOK
      <4>2. op.binding \in QueuedIn(bm)
        BY <2>2, <4>1, BindlessConstants DEF QueuedIn
      <4>. QED  BY <1>2, <4>1, <4>2
    <3>3. copied'[op.binding] = f
      BY <1>1, <1>4, <3>1, <3>2
    <3>4. InTime(s, f)'
      BY <1>1, <3>1, SameTime
    <3>. QED  BY <2>1, <3>3, <3>4
  <2>3. CASE p[1] # FIF /\ op.binding = t /\ op.frame = rendered
    <3>1. copied'[t] = frame /\ f = frame /\ s # FIF
      BY <1>1, <1>3, <1>4, <2>1, <2>3
    <3>2. InTime(s, f)'
      BY <1>1, <3>1, FifPositive DEF InTime
    <3>. QED  BY <2>1, <2>3, <3>1, <3>2
  <2>. QED  BY <1>2, <1>6, <2>2, <2>3
<1>7. /\ Bound(bm)' = Bound(bm') /\ PlacesIn(bm)' = PlacesIn(bm')
      /\ \A p : OpIn(bm, p)' = OpIn(bm', p)
  BY DEF Bound, PlacesIn, OpIn, Queue
<1>. QED  BY <1>1, <1>5, <1>6, <1>7 DEF UploadInv, InTime

-----------------------------------------------------------------------------
(* The invariant *)

AllInv == IInv /\ RecordInv /\ UploadInv

LEMMA BindlessInit == Init => AllInv
<1> SUFFICES ASSUME Init PROVE AllInv
  OBVIOUS
<1>1. /\ GateInit /\ stage = "idle" /\ samples = {} /\ rendered = 0 /\ running = {}
      /\ frame = 0 /\ dropped = {}
      /\ target = [t \in Texture |-> None] /\ copied = [t \in Texture |-> None]
      /\ upload = [t \in Texture |-> "none"]
  BY DEF Init, GateInit
<1>2. /\ bm.due = <<>> /\ bm.ring = [s \in 0 .. FIF - 1 |-> <<>>]
      /\ bm.slots = [s \in Slots |-> [gen |-> 0, users |-> 0, released |-> FALSE,
                                      binding |-> None]]
      /\ bm.destroyed = {}
  BY DEF Init
<1>3. bm \in Manager
  <2>1. [s \in Slots |-> [gen |-> 0, users |-> 0, released |-> FALSE, binding |-> None]]
          \in [Slots -> SlotRecord]
    BY DEF SlotRecord
  <2>2. [k \in Slots |-> Capacity - k] \in Seq(Slots)
    <3>1. PICK n \in Nat : n = Capacity - 1
      BY BindlessConstants
    <3>2. \A k \in 1 .. n : Capacity - k \in Slots
      BY <3>1, BindlessConstants DEF Slots
    <3>. QED  BY <3>1, <3>2 DEF Slots
  <2>3. <<>> \in Seq(SlotOp)
    OBVIOUS
  <2>. QED  BY <2>1, <2>2, <2>3 DEF Init, Manager
<1>4. GateInv
  BY <1>1 DEF GateInv, GateInit, GateTypeOK, FencesExact, RunningRecent
<1>5. TypeOK
  BY <1>1, <1>3, <1>4 DEF TypeOK, GateInv
<1>6. PlacesIn(bm) = {} /\ QueuedIn(bm) = {} /\ UniqueIn(bm) /\ OpInv
  <2>1. ASSUME NEW p \in PlacesIn(bm) PROVE FALSE
    <3>1. p \in (0 .. FIF) \X Nat /\ p[2] \in 1 .. Len(Queue(bm, p[1]))
      BY DEF PlacesIn
    <3>2. p[1] # FIF => p[1] \in 0 .. FIF - 1
      BY <3>1, FifPositive
    <3>3. Queue(bm, p[1]) = <<>>
      BY <1>2, <3>2 DEF Queue
    <3>. QED  BY <3>1, <3>3
  <2>2. PlacesIn(bm) = {}
    BY <2>1
  <2>. QED  BY <2>2 DEF QueuedIn, UniqueIn, OpInv
<1>7. Bound(bm) = {}
  BY <1>2 DEF Bound
<1>8. PlaceInv
  BY <1>1, <1>2, <1>6, <1>7 DEF PlaceInv, Fresh
<1>9. SampledAlive /\ ShowsOwnTexture
  BY <1>1, <1>2 DEF SampledAlive, ShowsOwnTexture
<1>10. RecordInv
  BY <1>1 DEF RecordInv, GateInit
<1>11. UploadInv
  BY <1>6, <1>7 DEF UploadInv
<1>. QED  BY <1>4, <1>5, <1>6, <1>8, <1>9, <1>10, <1>11 DEF AllInv, IInv

LEMMA BindlessStep == AllInv /\ [Next]_vars => AllInv'
<1> SUFFICES ASSUME AllInv, [Next]_vars PROVE AllInv'
  OBVIOUS
<1>1. IInv /\ RecordInv /\ UploadInv /\ GateTypeOK
  BY DEF AllInv, IInv, GateInv
<1>2. CASE Acquire \/ Prepared
  <2>1. IInv' /\ UploadInv'
    BY <1>1, <1>2, LoopStep, UploadLoop
  <2>2. UNCHANGED <<frame, record, dropped>>
    BY <1>2 DEF Acquire, Prepared, gpuVars
  <2>. QED  BY <1>1, <2>1, <2>2, SameRecord DEF AllInv
<1>3. CASE BeginFrame
  <2>1. IInv' /\ UploadInv'
    BY <1>1, <1>3, BeginStep, UploadBegin
  <2>2. UNCHANGED <<frame, record, dropped>>
    BY <1>3 DEF BeginFrame, gpuVars
  <2>. QED  BY <1>1, <2>1, <2>2, SameRecord DEF AllInv
<1>4. CASE DrainOp
  <2>1. IInv' /\ UploadInv'
    BY <1>1, <1>4, DrainStep, UploadDrain
  <2>2. UNCHANGED <<frame, record, dropped>>
    BY <1>4 DEF DrainOp, gateVars, gpuVars
  <2>. QED  BY <1>1, <2>1, <2>2, SameRecord DEF AllInv
<1>5. CASE GpuFinishes
  <2>1. /\ UNCHANGED <<bm, copied, rendered, frame, stage, record, dropped>>
    BY <1>5 DEF GpuFinishes, Finish
  <2>2. PublishesStay /\ Bound(bm') \subseteq Bound(bm)
    BY <2>1 DEF PublishesStay
  <2>3. IInv' /\ UploadInv'
    BY <1>1, <1>5, <2>1, <2>2, FinishStep, UploadCall
  <2>. QED  BY <1>1, <2>1, <2>3, SameRecord DEF AllInv
<1>6. ASSUME NEW success \in BOOLEAN, Finished(success) PROVE AllInv'
  <2>1. IInv' /\ UploadInv'
    BY <1>1, <1>6, SubmitStep, UploadSubmit
  <2>2. RecordInv'
    BY <1>1, <1>6, SubmitRecord DEF Finished
  <2>. QED  BY <2>1, <2>2 DEF AllInv
<1>7. CASE ReserveSlot
  <2>1. UNCHANGED <<frame, stage, record, dropped, copied, rendered>>
    BY <1>7 DEF ReserveSlot, gateVars, gpuVars
  <2>2. IInv' /\ UploadInv'
    BY <1>1, <1>7, <2>1, ReserveStep, UploadCall
  <2>. QED  BY <1>1, <2>1, <2>2, SameRecord DEF AllInv
<1>8. ASSUME NEW t \in Texture, AllocateTextureSlot(t) PROVE AllInv'
  <2>1. UNCHANGED <<frame, stage, record, dropped, copied, rendered>>
    BY <1>8 DEF AllocateTextureSlot, gateVars, gpuVars
  <2>2. /\ IInv' /\ PublishesStay
        /\ \A u \in Bound(bm') : u \in Bound(bm) \/ copied[u] = None
    BY <1>1, <1>8, AllocateStep
  <2>3. UploadInv'
    BY <1>1, <2>1, <2>2, UploadCall
  <2>. QED  BY <1>1, <2>1, <2>2, <2>3, SameRecord DEF AllInv
<1>9. ASSUME NEW t \in Texture, RecordUpload(t) PROVE AllInv'
  <2>1. UNCHANGED <<frame, record, dropped>>
    BY <1>9 DEF RecordUpload, gateVars, gpuVars
  <2>2. IInv' /\ UploadInv'
    BY <1>1, <1>9, RecordStep, UploadRecord
  <2>. QED  BY <1>1, <2>1, <2>2, SameRecord DEF AllInv
<1>10. ASSUME NEW h \in Handles, NEW t \in Texture, SubmitUpload(h, t) PROVE AllInv'
  <2>1. UNCHANGED <<bm, frame, stage, record, dropped, copied, rendered>>
    BY <1>10 DEF SubmitUpload, gateVars, gpuVars
  <2>2. PublishesStay /\ Bound(bm') \subseteq Bound(bm)
    BY <2>1 DEF PublishesStay
  <2>3. IInv' /\ UploadInv'
    BY <1>1, <1>10, <2>1, <2>2, SubmitUploadStep, UploadCall
  <2>. QED  BY <1>1, <2>1, <2>3, SameRecord DEF AllInv
<1>11. ASSUME NEW h \in Handles, NEW f \in ReleaseFrames, ReleaseSlot(h, f) PROVE AllInv'
  <2>1. UNCHANGED <<frame, stage, record, dropped, copied, rendered>>
    BY <1>11 DEF ReleaseSlot, gateVars, gpuVars
  <2>2. IInv' /\ UploadInv'
    BY <1>1, <1>11, <2>1, ReleaseStep, UploadCall
  <2>. QED  BY <1>1, <2>1, <2>2, SameRecord DEF AllInv
<1>12. ASSUME NEW h \in Handles, ReleaseSlotImmediate(h) PROVE AllInv'
  <2>1. UNCHANGED <<frame, stage, record, dropped, copied, rendered>>
    BY <1>12 DEF ReleaseSlotImmediate, gateVars, gpuVars
  <2>2. IInv' /\ UploadInv'
    BY <1>1, <1>12, <2>1, ImmediateStep, UploadCall
  <2>. QED  BY <1>1, <2>1, <2>2, SameRecord DEF AllInv
<1>13. CASE UNCHANGED vars
  <2>1. UNCHANGED <<bm, target, upload, copied, rendered, samples,
                    frame, stage, record, fence, running, dropped>>
    BY <1>13 DEF vars, gateVars, gpuVars, bindlessVars
  <2>2. PublishesStay /\ Bound(bm') \subseteq Bound(bm) /\ bm' = bm
    BY <2>1 DEF PublishesStay
  <2>3. Steady
    <3>1. NextTurn \in Nat /\ NextTurn' = NextTurn
      BY <1>1, <2>1, TurnTyped DEF IInv, NextTurn
    <3>. QED  BY <2>1, <3>1 DEF Steady
  <2>4. OpInv' /\ UniqueIn(bm)' /\ PlaceInv' /\ SampledAlive'
    <3>1. OpInv /\ UniqueIn(bm) /\ PlaceInv /\ SampledAlive
      BY <1>1 DEF IInv
    <3>2. /\ \A t \in Texture : Unmade(t)' => Unmade(t) /\ copied'[t] = copied[t]
          /\ \A t \in Texture : upload'[t] # "none" => target'[t] # None
          /\ stage' # "drain" => bm'.due = <<>>
      BY <2>1, <3>1 DEF PlaceInv, Unmade
    <3>. QED  BY <2>2, <2>3, <3>1, <3>2, CalmStep
  <2>5. TypeOK' /\ GateInv' /\ ShowsOwnTexture'
    BY <1>1, <2>1 DEF IInv, TypeOK, GateInv, GateTypeOK, FencesExact, RunningRecent, Slot,
                      ShowsOwnTexture
  <2>6. UploadInv'
    BY <1>1, <2>1, <2>2, UploadCall
  <2>. QED  BY <1>1, <2>1, <2>4, <2>5, <2>6, SameRecord DEF IInv, AllInv
<1>. QED  BY <1>2, <1>3, <1>4, <1>5, <1>6, <1>7, <1>8, <1>9, <1>10, <1>11, <1>12, <1>13 DEF Next

LEMMA BindlessInvariant == Spec => []AllInv
<1>. QED  BY BindlessInit, BindlessStep, PTL DEF Spec

\* Types, with at most one user of a slot, however often a texture was reloaded
\* into it.
THEOREM BindlessTypes == Spec => []TypeOK
<1>1. AllInv => TypeOK
  BY DEF AllInv, IInv
<1>. QED  BY <1>1, BindlessInvariant, PTL

\* BindlessManager's deferred operations: no image is destroyed while a frame the
\* GPU runs may sample it, whatever sequence of releases, publishes and decommits
\* its slot went through.
THEOREM SampledStayAlive == Spec => []SampledAlive
<1>1. AllInv => SampledAlive
  BY DEF AllInv, IInv
<1>. QED  BY <1>1, BindlessInvariant, PTL

\* BindlessManager's generations: a slot shows only what was meant for its current
\* holder, however late a publish is drained.
THEOREM SlotsShowTheirOwn == Spec => []ShowsOwnTexture
<1>1. AllInv => ShowsOwnTexture
  BY DEF AllInv, IInv
<1>. QED  BY <1>1, BindlessInvariant, PTL

\* FrameRing's gate: as long as every frame was rendered, a slot shows a texture
\* only when the frame that recorded its copies was submitted with its work.
THEOREM ShownWasUploaded == Spec => []ShownIsUploaded
<1>1. AllInv => ShownIsUploaded
  <2>1. SUFFICES ASSUME AllInv, rendered = frame, NEW s \in Slots, bm.slots[s].binding # None
                 PROVE  copied[bm.slots[s].binding] \notin dropped
    BY DEF ShownIsUploaded
  <2>2. PICK t : t = bm.slots[s].binding
    OBVIOUS
  <2>3. t \in Bound(bm)
    BY <2>1, <2>2 DEF Bound
  <2>4. CASE copied[t] = None
    <3>1. dropped \subseteq Nat /\ None \notin Nat
      BY <2>1, BindlessConstants DEF AllInv, IInv, GateInv, GateTypeOK
    <3>. QED  BY <2>2, <2>4, <3>1
  <2>5. CASE copied[t] # None
    BY <2>1, <2>2, <2>3, <2>5 DEF AllInv, UploadInv
  <2>. QED  BY <2>4, <2>5
<1>. QED  BY <1>1, BindlessInvariant, PTL
=============================================================================
