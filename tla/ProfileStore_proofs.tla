------------------------- MODULE ProfileStore_proofs -------------------------
(***************************************************************************)
(* What ProfileStore promises, for any number of profiles, runs and faults.*)
(*                                                                         *)
(* The invariant relates the game's memory to the files: every profile the *)
(* disk knows of is in memory, the slot being written belongs to the index *)
(* just published, and the boards of the active profile were loaded from   *)
(* its slot or grew from what was.                                         *)
(***************************************************************************)
EXTENDS ProfileStore, TLAPS

\* What is published was flushed, so that nothing torn is ever behind a name.
NothingTorn ==
    /\ save.at = "publish" => flushed
    /\ \A f \in Path : disk[f] # Torn /\ durable[f] # Torn

\* The handlers act on profiles of the memory; the slot is written after the index.
HandlersInv ==
    /\ active \in profiles \cup {None} /\ profiles \subseteq drawn
    /\ \A c \in {disk[Index], durable[Index]} : c \in {Absent, Torn} \/ c \subseteq drawn
    /\ \A k \in 1 .. Len(todo) : todo[k][2] \in profiles
    /\ ~up => todo = <<>> /\ save.at = "no" /\ waiting = None
    /\ save.at # "no" /\ save.file = "slot" => active # None /\ disk[Index] = profiles

\* While no power was lost: slots belong to profiles, in the index and in memory,
\* but for those that a fault stranded.
SlotsListed ==
    ~powerLost => \A p \in Player \ stranded : disk[p] # Absent =>
                     p \in ListOnDisk /\ (up => p \in profiles)

\* Runs are where they were recorded, in memory, visibly and durably.
RunsInPlace ==
    /\ ScoresStayWithPlayer
    /\ \A p \in Player : durable[p] \notin {Absent, Torn} =>
          \A r \in durable[p] \ {Token} : player[r] = p

\* What was saved is on the disk, and in memory where the memory will be saved.
SavedInv ==
    ~powerLost =>
       \A p \in Player :
          /\ Listed \in kept[p] => p \in ListOnDisk /\ (up => p \in profiles)
          /\ kept[p] \ {Listed} \subseteq ItemsOf(p)
          /\ p = active => kept[p] \ {Listed} \subseteq ActiveItems
          /\ p \notin drawn => kept[p] = {}

IInv == TypeOK /\ NothingTorn /\ HandlersInv /\ SlotsListed /\ RunsInPlace /\ SavedInv

-----------------------------------------------------------------------------
(* Facts about reading and writing *)

\* The constants: contents are told apart from their absence, paths from each other.
LEMMA Apart ==
    /\ None \notin Player /\ Index \notin Player
    /\ Token \notin Run /\ Listed \notin Item /\ Absent # Torn /\ MaxFaults \in Nat
    /\ \A c \in SUBSET (Player \cup Item) : c # Absent /\ c # Torn
  BY StoreConstants DEF Item

\* What is read of a slot is a set of runs and the token; what is read of the
\* index, profiles.
LEMMA ReadTypes ==
    ASSUME TypeOK
    PROVE  /\ \A p \in Player : ItemsOf(p) \subseteq Item /\ ItemsOf(p) \ {Token} \subseteq Run
           /\ ItemsOf(None) = {}
           /\ ListOnDisk \subseteq Player
  BY Apart DEF TypeOK, ItemsOf, ListOnDisk, Whole, IsVersion, Path, Item

\* Loading gives the active profile what its slot holds, if it could be read, and
\* leaves other tokens alone.
LEMMA Loading ==
    ASSUME TypeOK, NEW p \in Player \cup {None}, NEW known \in SUBSET Player, NEW F,
           LoadActiveData(p, known, F)
    PROVE  /\ runs' \subseteq Run /\ token' \subseteq Player
           /\ runs' \subseteq ItemsOf(p) \ {Token}
           /\ p \notin F => runs' = ItemsOf(p) \ {Token}
           /\ p \notin F /\ Token \in ItemsOf(p) => p \in token'
<1>1. CASE p = None \/ ~Whole(p) \/ p \in F
  BY <1>1 DEF LoadActiveData, ItemsOf
<1>2. CASE ~(p = None \/ ~Whole(p) \/ p \in F)
  BY <1>2, ReadTypes DEF LoadActiveData, ItemsOf, TypeOK
<1> QED BY <1>1, <1>2

\* A call that fails is counted.
LEMMA Failing ==
    ASSUME TypeOK, NEW F, NEW tried, Fail(F, tried)
    PROVE  faults' \in 0 .. MaxFaults
  BY Apart DEF Fail, TypeOK

\* It takes from what is promised only what the next Save may overwrite.
LEMMA Promises ==
    ASSUME TypeOK, NEW F
    PROVE  /\ Promised(F) \in [Player -> SUBSET (Item \cup {Listed})]
           /\ \A p \in Player : Promised(F)[p] \subseteq kept[p]
           /\ \A p \in Player : p \in F => Promised(F)[p] \subseteq {Listed}
           /\ Index \in F => \A p \in Player : Listed \notin Promised(F)[p]
<1>1. \A p \in Player : Promised(F)[p] = kept[p] \ ((IF p \in F THEN Item ELSE {}) \cup
                                                  (IF Index \in F THEN {Listed} ELSE {}))
  BY DEF Promised
<1>2. Promised(F) \in [Player -> SUBSET (Item \cup {Listed})]
  BY DEF Promised, TypeOK
<1> QED BY <1>1, <1>2 DEF TypeOK

\* What Save writes is a version of the file it writes to.
LEMMA Writing ==
    ASSUME TypeOK, HandlersInv, save.at # "no"
    PROVE  /\ Target \in Path /\ Written \subseteq Player \cup Item /\ IsVersion(Target, Written)
           /\ ActiveItems \subseteq Item
           /\ save.file = "index" => Target = Index /\ Written = profiles
           /\ save.file = "slot" => Target = active /\ active \in profiles /\ Written = ActiveItems
           /\ save.file \in {"index", "slot"}
<1>1. ActiveItems \subseteq Item
  BY DEF TypeOK, ActiveItems, Item
<1>2. save.file \in {"index", "slot"}
  BY DEF TypeOK
<1>3. CASE save.file = "index"
  BY <1>1, <1>3 DEF TypeOK, Target, Written, IsVersion, Path
<1>4. CASE save.file = "slot"
  <2>1. active \in profiles /\ active \in Player
    BY <1>4 DEF HandlersInv, TypeOK
  <2>2. Target = active /\ Written = ActiveItems
    BY <1>4 DEF Target, Written
  <2> QED BY <2>1, <2>2, <1>1, <1>4, Apart DEF IsVersion, Path
<1> QED BY <1>2, <1>3, <1>4

-----------------------------------------------------------------------------
(* Types *)

\* What SetActive changes keeps its type.
LEMMA SetActiveTypes ==
    ASSUME TypeOK, NEW p \in Player, SetActive(p)
    PROVE  /\ active' = p /\ runs' \subseteq Run /\ token' \subseteq Player
           /\ faults' \in 0 .. MaxFaults /\ kept' \in [Player -> SUBSET (Item \cup {Listed})]
<1>1. PICK F \in SUBSET {p} : /\ active' = p /\ LoadActiveData(p, token, F)
                             /\ Fail(F, {p}) /\ kept' = Promised(F)
  BY DEF SetActive
<1> QED BY <1>1, Loading, Failing, Promises DEF TypeOK

\* Every step keeps the types.
LEMMA TypeStep ==
    ASSUME TypeOK, HandlersInv, Next
    PROVE  TypeOK'
<1> USE DEF history, fileVars, memVars, faultVars, Order
<1>1. CASE Start
  <2>1. PICK F \in SUBSET Path :
           /\ profiles' = IF Index \in F THEN {} ELSE ListOnDisk
           /\ active' \in IF profiles' = {} THEN {None} ELSE profiles'
           /\ LoadActiveData(active', {}, F)
           /\ Fail(F, {Index, active'}) /\ kept' = Promised(F)
           /\ stranded' = IF Index \in F THEN stranded \cup ListOnDisk ELSE stranded
    BY <1>1 DEF Start
  <2>2. active' \in Player \cup {None} /\ profiles' \subseteq Player /\ stranded' \subseteq Player
    BY <2>1, ReadTypes DEF TypeOK
  <2>3. runs' \subseteq Run /\ token' \subseteq Player
    BY <2>1, <2>2, Loading
  <2>4. faults' \in 0 .. MaxFaults /\ kept' \in [Player -> SUBSET (Item \cup {Listed})]
    BY <2>1, Failing, Promises
  <2> QED BY <1>1, <2>2, <2>3, <2>4 DEF Start, TypeOK
<1>2. CASE Stage
  BY <1>2 DEF Stage, SyncToDisk, TypeOK
<1>3. CASE Publish
  <2>1. /\ Target \in Path /\ Written \in Contents /\ IsVersion(Target, Written)
        /\ ActiveItems \subseteq Item
    BY <1>3, Writing DEF Publish, Contents
  <2>2. /\ disk' \in [Path -> Contents] /\ durable' \in [Path -> Contents]
        /\ \A f \in Path : IsVersion(f, disk'[f]) /\ IsVersion(f, durable'[f])
    <3>1. disk' = [disk EXCEPT ![Target] = Written]
      BY <1>3 DEF Publish
    <3>2. durable' \in {durable, [durable EXCEPT ![Target] = Written], [durable EXCEPT ![Target] = Torn]}
      BY <1>3 DEF Publish, Survives, Keeps
    <3>3. Torn \in Contents /\ IsVersion(Target, Torn)
      BY DEF Contents, IsVersion
    <3> QED BY <2>1, <3>1, <3>2, <3>3 DEF TypeOK
  <2>3. kept' \in [Player -> SUBSET (Item \cup {Listed})] /\ save' \in [at : {"no", "stage", "publish"}, file : {"index", "slot"}]
    BY <1>3, <2>1 DEF Publish, TypeOK, NoSave
  <2> QED BY <1>3, <2>2, <2>3 DEF Publish, TypeOK
<1>4. CASE SaveFails
  <2>1. faults' \in 0 .. MaxFaults
    BY <1>4, Apart DEF SaveFails, TypeOK
  <2>2. save' \in [at : {"no", "stage", "publish"}, file : {"index", "slot"}]
    BY <1>4 DEF SaveFails, NoSave
  <2> QED BY <1>4, <2>1, <2>2 DEF SaveFails, TypeOK
<1>5. CASE RegisterLocalProfile
  BY <1>5 DEF RegisterLocalProfile, TypeOK
<1>6. CASE Granted
  <2>1. waiting \in Player
    BY <1>6 DEF Granted, TypeOK
  <2>2. << <<"update", waiting>>, <<"activate", waiting>> >> \in Seq(Ops \X Player)
    BY <2>1 DEF Ops
  <2>3. token' \subseteq Player /\ todo' \in Seq(Ops \X Player) /\ waiting' = None
    BY <1>6, <2>1, <2>2 DEF Granted, TypeOK
  <2>4. save' \in [at : {"no", "stage", "publish"}, file : {"index", "slot"}]
    BY <1>6 DEF Granted, BeginSave, TypeOK
  <2> QED BY <1>6, <2>3, <2>4 DEF Granted, TypeOK
<1>7. CASE Refused
  BY <1>7 DEF Refused, TypeOK
<1>8. CASE Deregister
  BY <1>8 DEF Deregister, BeginSave, TypeOK
<1>9. CASE Update
  BY <1>9 DEF Update, BeginSave, TypeOK
<1>10. CASE Continue
  <2>1. Head(todo) \in Ops \X Player /\ Tail(todo) \in Seq(Ops \X Player)
    BY <1>10 DEF Continue, TypeOK
  <2>2. CASE SetActive(Head(todo)[2]) /\ UNCHANGED <<profiles, waiting, save, stranded>>
    BY <1>10, <2>1, <2>2, SetActiveTypes DEF Continue, TypeOK
  <2>3. CASE UNCHANGED <<memVars, faultVars>>
    BY <1>10, <2>1, <2>3 DEF Continue, BeginSave, TypeOK
  <2> QED BY <1>10, <2>2, <2>3 DEF Continue
<1>11. CASE ProcessEnds /\ (Crash \/ PowerLoss)
  <2>1. faults' \in 0 .. MaxFaults
    BY <1>11, Apart DEF ProcessEnds, TypeOK
  <2>4. powerLost' \in BOOLEAN
    BY <1>11 DEF Crash, PowerLoss, TypeOK
  <2>2. /\ save' \in [at : {"no", "stage", "publish"}, file : {"index", "slot"}]
        /\ todo' \in Seq(Ops \X Player)
    BY <1>11 DEF ProcessEnds, NoSave
  <2>3. /\ disk' \in [Path -> Contents] /\ durable' \in [Path -> Contents]
        /\ \A f \in Path : IsVersion(f, disk'[f]) /\ IsVersion(f, durable'[f])
    BY <1>11 DEF Crash, PowerLoss, TypeOK
  <2> QED BY <1>11, <2>1, <2>2, <2>3, <2>4 DEF ProcessEnds, TypeOK
<1>12. ASSUME NEW p \in Player, StartRegistration(p) PROVE TypeOK'
  <2>1. << <<"register", p>> >> \in Seq(Ops \X Player)
    BY DEF Ops
  <2> QED BY <1>12, <2>1 DEF StartRegistration, FreshBoard, BeginSave, TypeOK
<1>13. ASSUME NEW p \in Player, SelectProfile(p) PROVE TypeOK'
  BY <1>13, SetActiveTypes DEF SelectProfile, TypeOK
<1>14. ASSUME NEW p \in Player, Delete(p) PROVE TypeOK'
  <2>1. PICK F \in SUBSET Player :
           /\ IF p # active
              THEN UNCHANGED <<active, runs, token>> /\ Fail(F, {p})
              ELSE /\ active' \in IF profiles = {p} THEN {None} ELSE profiles \ {p}
                   /\ LoadActiveData(active', token, F) /\ Fail(F, {p, active'})
           /\ Forget(p, F) /\ stranded' = stranded \cup (F \cap {p})
           /\ kept' = [Promised(F) EXCEPT ![p] = {}]
    BY <1>14 DEF Delete
  <2>2. /\ active' \in Player \cup {None} /\ runs' \subseteq Run /\ token' \subseteq Player
        /\ profiles' \subseteq Player /\ stranded' \subseteq Player
    BY <1>14, <2>1, Loading DEF Delete, TypeOK
  <2>3. todo' \in Seq(Ops \X Player)
    <3>1. todo' = IF active' = None THEN <<>> ELSE << <<"activate", active'>> >>
      BY <1>14 DEF Delete
    <3>2. CASE active' = None
      BY <3>1, <3>2
    <3>3. CASE active' # None
      <4>1. <<"activate", active'>> \in Ops \X Player
        BY <2>2, <3>3 DEF Ops
      <4> QED BY <3>1, <3>3, <4>1
    <3> QED BY <3>2, <3>3
  <2>4. /\ disk' \in [Path -> Contents] /\ durable' \in [Path -> Contents]
        /\ \A f \in Path : IsVersion(f, disk'[f]) /\ IsVersion(f, durable'[f])
    BY <2>1 DEF Forget, Survives, Keeps, TypeOK, Contents, IsVersion
  <2>5. faults' \in 0 .. MaxFaults /\ kept' \in [Player -> SUBSET (Item \cup {Listed})]
    BY <2>1, Apart DEF Fail, Promised, TypeOK
  <2> QED BY <1>14, <2>2, <2>3, <2>4, <2>5 DEF Delete, BeginSave, TypeOK
<1>15. ASSUME NEW r \in Run, RecordRun(r) PROVE TypeOK'
  BY <1>15 DEF RecordRun, BeginSave, TypeOK
<1> QED
  BY <1>1, <1>2, <1>3, <1>4, <1>5, <1>6, <1>7, <1>8, <1>9, <1>10, <1>11, <1>12, <1>13, <1>14, <1>15
     DEF Next, Crash, PowerLoss

-----------------------------------------------------------------------------
(* The parts of the invariant *)

\* Only Publish writes contents, and what it publishes was flushed.
LEMMA TornStep ==
    ASSUME TypeOK, HandlersInv, NothingTorn, Next
    PROVE  NothingTorn'
<1> USE DEF history, fileVars, memVars, faultVars, Order, NothingTorn
<1>1. CASE Publish
  <2>1. Target \in Path /\ Written # Torn /\ flushed
    BY <1>1, Writing, Apart DEF Publish
  <2>2. save'.at # "publish"
    BY <1>1 DEF Publish, NoSave
  <2> QED BY <1>1, <2>1, <2>2 DEF Publish, Survives, Keeps, TypeOK
<1>2. CASE Stage
  BY <1>2 DEF Stage, SyncToDisk, TypeOK
<1>3. ASSUME NEW p \in Player, Delete(p) PROVE NothingTorn'
  BY <1>3, Apart DEF Delete, Forget, Survives, Keeps, BeginSave, TypeOK, Path
<1>4. CASE Crash \/ PowerLoss
  BY <1>4 DEF Crash, PowerLoss, ProcessEnds, NoSave
<1>5. CASE Start \/ SaveFails \/ RegisterLocalProfile \/ Granted \/ Refused \/ Deregister \/ Update
           \/ Continue \/ (\E p \in Player : StartRegistration(p) \/ SelectProfile(p))
           \/ (\E r \in Run : RecordRun(r))
  BY <1>5 DEF Start, SaveFails, RegisterLocalProfile, Granted, Refused, Deregister, Update, Continue,
              StartRegistration, SelectProfile, RecordRun, BeginSave, NoSave
<1> QED BY <1>1, <1>2, <1>3, <1>4, <1>5 DEF Next

\* A handler names profiles of the memory, and the slot is written after the index.
LEMMA HandlersStep ==
    ASSUME TypeOK, HandlersInv, Next
    PROVE  HandlersInv'
<1> USE DEF history, fileVars, memVars, faultVars, Order
<1>1. CASE Start
  <2>1. ListOnDisk \subseteq drawn
    BY DEF ListOnDisk, Whole, HandlersInv
  <2> QED BY <1>1, <2>1 DEF Start, HandlersInv
<1>2. CASE Stage
  BY <1>2 DEF Stage, HandlersInv, TypeOK
<1>3. CASE Publish
  <2>1. CASE save.file = "index"
    <3>1. disk' = [disk EXCEPT ![Index] = profiles]
      BY <1>3, <2>1 DEF Publish, Target, Written
    <3>2. durable'[Index] \in {durable[Index], profiles, Torn}
      BY <1>3, <2>1 DEF Publish, Target, Written, Survives, Keeps, TypeOK, Path
    <3>3. disk'[Index] = profiles
      BY <3>1 DEF TypeOK, Path
    <3>4. /\ save'.at # "no" /\ save'.file = "slot" => active' # None
          /\ ~up' => todo' = <<>> /\ save'.at = "no" /\ waiting' = None
      BY <1>3, <2>1 DEF Publish, NoSave, HandlersInv
    <3> QED BY <1>3, <3>2, <3>3, <3>4 DEF Publish, HandlersInv
  <2>2. CASE save.file = "slot"
    <3>1. Target \in Path /\ Target # Index
      BY <1>3, <2>2, Apart DEF Publish, HandlersInv, Target, TypeOK, Path
    <3>2. disk'[Index] = disk[Index] /\ durable'[Index] = durable[Index]
      BY <1>3, <3>1 DEF Publish, Survives, Keeps, TypeOK, Path
    <3>3. save' = NoSave
      BY <1>3, <2>2 DEF Publish
    <3> QED BY <1>3, <3>2, <3>3 DEF Publish, HandlersInv, NoSave
  <2> QED BY <2>1, <2>2 DEF TypeOK
<1>4. CASE SaveFails
  BY <1>4 DEF SaveFails, HandlersInv, NoSave
<1>5. CASE Granted
  <2>1. \/ todo' = todo
        \/ todo' = << <<"update", waiting>>, <<"activate", waiting>> >> /\ waiting \in profiles
    BY <1>5 DEF Granted
  <2>2. \A k \in 1 .. Len(todo') : todo'[k][2] \in profiles
    BY <2>1 DEF HandlersInv
  <2>3. save' = save \/ save' = [at |-> "stage", file |-> "index"]
    BY <1>5 DEF Granted, BeginSave
  <2> QED BY <1>5, <2>2, <2>3 DEF Granted, HandlersInv, Idle
<1>6. CASE RegisterLocalProfile \/ Refused \/ Deregister \/ Update
  BY <1>6 DEF RegisterLocalProfile, Refused, Deregister, Update, BeginSave, HandlersInv, Idle
<1>7. CASE Continue
  <2>1. todo # <<>> /\ todo' = Tail(todo) /\ todo \in Seq(Ops \X Player)
    BY <1>7 DEF Continue, TypeOK
  <2>2. Head(todo)[2] \in profiles
    BY <2>1 DEF HandlersInv
  <2>3. \A k \in 1 .. Len(todo') : todo'[k][2] \in profiles
    BY <2>1 DEF HandlersInv
  <2>4. active' \in profiles \cup {None} /\ profiles' = profiles
    BY <1>7, <2>2 DEF Continue, SetActive, HandlersInv
  <2>5. save' = save \/ save' = [at |-> "stage", file |-> "index"]
    BY <1>7 DEF Continue, BeginSave
  <2> QED BY <1>7, <2>3, <2>4, <2>5 DEF Continue, HandlersInv
<1>8. CASE ProcessEnds /\ (Crash \/ PowerLoss)
  BY <1>8 DEF ProcessEnds, Crash, PowerLoss, HandlersInv, NoSave
<1>9. ASSUME NEW p \in Player, StartRegistration(p) PROVE HandlersInv'
  BY <1>9 DEF StartRegistration, BeginSave, HandlersInv, Idle
<1>10. ASSUME NEW p \in Player, SelectProfile(p) PROVE HandlersInv'
  BY <1>10 DEF SelectProfile, SetActive, HandlersInv, Idle
<1>11. ASSUME NEW p \in Player, Delete(p) PROVE HandlersInv'
  <2>1. disk'[Index] = disk[Index] /\ durable'[Index] = durable[Index]
    BY <1>11, Apart DEF Delete, Forget, Survives, Keeps, TypeOK, Path
  <2>2. active' \in profiles' \cup {None} /\ profiles' \subseteq drawn
    BY <1>11 DEF Delete, HandlersInv
  <2>3. \A k \in 1 .. Len(todo') : todo'[k][2] \in profiles'
    BY <1>11, <2>2 DEF Delete
  <2> QED BY <1>11, <2>1, <2>2, <2>3 DEF Delete, BeginSave, HandlersInv, Idle
<1>12. ASSUME NEW r \in Run, RecordRun(r) PROVE HandlersInv'
  BY <1>12 DEF RecordRun, BeginSave, HandlersInv, Idle
<1> QED
  BY <1>1, <1>2, <1>3, <1>4, <1>5, <1>6, <1>7, <1>8, <1>9, <1>10, <1>11, <1>12
     DEF Next, Crash, PowerLoss

\* The paths of profiles under a publish: the target's contents are written, the
\* others stay; the index lists the profiles of the memory from then on.
LEMMA Published ==
    ASSUME TypeOK, HandlersInv, Publish
    PROVE  /\ \A p \in Player :
                 IF save.file = "slot" /\ p = active
                 THEN ItemsOf(p)' = ActiveItems /\ disk'[p] # Absent
                 ELSE ItemsOf(p)' = ItemsOf(p) /\ disk'[p] = disk[p]
           /\ ListOnDisk' = profiles
<1>1. disk' = [disk EXCEPT ![Target] = Written]
  BY DEF Publish
<1>2. save.at # "no" /\ save.file \in {"index", "slot"}
  BY DEF Publish, TypeOK
<1>3. CASE save.file = "index"
  <2>1. disk' = [disk EXCEPT ![Index] = profiles]
    BY <1>1, <1>2, <1>3, Writing
  <2>2. disk'[Index] = profiles /\ \A p \in Player : disk'[p] = disk[p]
    BY <2>1, Apart DEF TypeOK, Path
  <2>3. profiles # Absent /\ profiles # Torn
    BY Apart DEF TypeOK
  <2> QED BY <2>2, <2>3, <1>3 DEF ItemsOf, ListOnDisk, Whole
<1>4. CASE save.file = "slot"
  <2>1. disk' = [disk EXCEPT ![active] = ActiveItems] /\ active \in Player
    BY <1>1, <1>2, <1>4, Writing DEF TypeOK
  <2>2. /\ disk'[active] = ActiveItems /\ disk'[Index] = disk[Index]
        /\ \A p \in Player \ {active} : disk'[p] = disk[p]
    BY <2>1, Apart DEF TypeOK, Path
  <2>3. ActiveItems # Absent /\ ActiveItems # Torn /\ disk[Index] = profiles
    BY Writing, Apart, <1>2, <1>4 DEF HandlersInv
  <2>4. profiles # Absent /\ profiles # Torn
    BY Apart DEF TypeOK
  <2> QED BY <2>1, <2>2, <2>3, <2>4, <1>4, Apart DEF ItemsOf, ListOnDisk, Whole
<1> QED BY <1>2, <1>3, <1>4

\* Removing a profile's slot, or failing to, leaves the other slots and the index.
LEMMA Forgotten ==
    ASSUME TypeOK, NEW p \in Player, NEW F, Forget(p, F)
    PROVE  /\ p \notin F => disk'[p] = Absent
           /\ p \in F => disk'[p] = disk[p]
           /\ ItemsOf(p)' \subseteq ItemsOf(p)
           /\ \A q \in Player \ {p} : disk'[q] = disk[q] /\ ItemsOf(q)' = ItemsOf(q)
           /\ ListOnDisk' = ListOnDisk
<1>1. CASE p \in F
  BY <1>1 DEF Forget, fileVars, ItemsOf, ListOnDisk, Whole
<1>2. CASE p \notin F
  <2>1. disk'[p] = Absent /\ \A f \in Path \ {p} : disk'[f] = disk[f]
    BY <1>2 DEF Forget, TypeOK, Path
  <2> QED BY <1>2, <2>1, Apart DEF ItemsOf, ListOnDisk, Whole, Path
<1> QED BY <1>1, <1>2

\* Slots are of profiles in the index and in memory.
LEMMA SlotsStep ==
    ASSUME TypeOK, HandlersInv, SlotsListed, Next
    PROVE  SlotsListed'
<1> USE DEF history, fileVars, memVars, faultVars, Order
<1>1. CASE Start
  <2>1. /\ ListOnDisk' = ListOnDisk /\ UNCHANGED <<disk, powerLost>>
        /\ \/ profiles' = ListOnDisk /\ stranded' = stranded
           \/ stranded' = stranded \cup ListOnDisk
    BY <1>1 DEF Start, ListOnDisk, Whole
  <2> QED BY <2>1 DEF SlotsListed
<1>2. CASE Publish
  <2>1. powerLost' = powerLost /\ up' = up /\ profiles' = profiles /\ stranded' = stranded
    BY <1>2 DEF Publish
  <2>2. up
    BY <1>2 DEF Publish, HandlersInv
  <2>3. save.file = "slot" => active \in profiles
    BY <1>2, Writing DEF Publish
  <2> QED BY <1>2, <2>1, <2>2, <2>3, Published DEF SlotsListed
<1>3. ASSUME NEW p \in Player, Delete(p) PROVE SlotsListed'
  <2>1. PICK F : Forget(p, F) /\ stranded' = stranded \cup (F \cap {p})
    BY <1>3 DEF Delete
  <2>2. up' = up /\ powerLost' = powerLost /\ profiles' = profiles \ {p}
    BY <1>3 DEF Delete
  <2> QED BY <2>1, <2>2, Forgotten DEF SlotsListed
<1>4. CASE Crash
  BY <1>4 DEF Crash, ProcessEnds, SlotsListed, ListOnDisk, Whole
<1>5. CASE PowerLoss
  BY <1>5 DEF PowerLoss, SlotsListed
<1>6. ASSUME UNCHANGED <<up, powerLost, disk, stranded>>, profiles \subseteq profiles' PROVE SlotsListed'
  BY <1>6 DEF SlotsListed, ListOnDisk, Whole
<1>7. CASE Stage \/ SaveFails \/ RegisterLocalProfile \/ Granted \/ Refused \/ Deregister \/ Update
           \/ Continue
  BY <1>6, <1>7 DEF Stage, SaveFails, RegisterLocalProfile, Granted, Refused, Deregister, Update, Continue
<1>8. CASE (\E p \in Player : StartRegistration(p) \/ SelectProfile(p)) \/ (\E r \in Run : RecordRun(r))
  BY <1>6, <1>8 DEF StartRegistration, SelectProfile, RecordRun
<1> QED BY <1>1, <1>2, <1>3, <1>4, <1>5, <1>7, <1>8 DEF Next

\* Boards change by loading, by recording and by the write of the active profile's.
LEMMA RunsStep ==
    ASSUME TypeOK, HandlersInv, RunsInPlace, Next
    PROVE  RunsInPlace'
<1> USE DEF history, fileVars, memVars, faultVars, Order
<1>1. ASSUME NEW p \in Player \cup {None}, active' = p, UNCHANGED player,
             \E F : LoadActiveData(p, {}, F) \/ LoadActiveData(p, token, F)
      PROVE  \A r \in runs' : player'[r] = active'
  <2>1. runs' \subseteq ItemsOf(p) \ {Token}
    BY <1>1, Loading DEF TypeOK
  <2> QED BY <1>1, <2>1, ReadTypes DEF RunsInPlace, ScoresStayWithPlayer
<1>2. ASSUME UNCHANGED <<disk, durable, player>>, \A r \in runs' : player'[r] = active' PROVE RunsInPlace'
  BY <1>2 DEF RunsInPlace, ScoresStayWithPlayer, ItemsOf, Whole
<1>3. CASE Start
  <2>1. active' \in Player \cup {None} /\ \E F : LoadActiveData(active', {}, F)
    BY <1>3, ReadTypes DEF Start
  <2> QED BY <1>1, <1>2, <1>3, <2>1 DEF Start
<1>4. CASE Publish
  <2>1. UNCHANGED <<runs, active, player>>
    BY <1>4 DEF Publish
  <2>2. ActiveItems \ {Token} \subseteq runs
    BY DEF ActiveItems
  <2>3. \A p \in Player : \A r \in ItemsOf(p)' \ {Token} : player[r] = p
    BY <1>4, <2>2, Published DEF RunsInPlace, ScoresStayWithPlayer
  <2>4. \A p \in Player : \/ durable'[p] \in {durable[p], Torn}
                          \/ p = active /\ durable'[p] = ActiveItems
    <3>1. durable' \in {durable, [durable EXCEPT ![Target] = Written], [durable EXCEPT ![Target] = Torn]}
      BY <1>4 DEF Publish, Survives, Keeps
    <3>2. Target = Index \/ (Target = active /\ Written = ActiveItems)
      BY <1>4, Writing DEF Publish
    <3> QED BY <3>1, <3>2, Apart DEF TypeOK, Path
  <2>5. \A p \in Player : durable'[p] \notin {Absent, Torn} => \A r \in durable'[p] \ {Token} : player[r] = p
    BY <2>2, <2>4 DEF RunsInPlace, ScoresStayWithPlayer
  <2> QED BY <2>1, <2>3, <2>5 DEF RunsInPlace, ScoresStayWithPlayer
<1>5. ASSUME NEW p \in Player, Delete(p) PROVE RunsInPlace'
  <2>1. \A r \in runs' : player'[r] = active'
    <3>1. CASE p = active
      <4>1. active' \in Player \cup {None}
        BY <1>5, <3>1 DEF Delete, TypeOK
      <4>2. PICK F : LoadActiveData(active', token, F) /\ UNCHANGED player
        BY <1>5, <3>1 DEF Delete
      <4>3. runs' \subseteq ItemsOf(active') \ {Token}
        BY <4>1, <4>2, Loading DEF TypeOK
      <4> QED BY <4>1, <4>2, <4>3, ReadTypes DEF RunsInPlace, ScoresStayWithPlayer
    <3>2. CASE p # active
      BY <1>5, <3>2 DEF Delete, RunsInPlace, ScoresStayWithPlayer
    <3> QED BY <3>1, <3>2
  <2>2. PICK F : player' = player /\ Forget(p, F)
    BY <1>5 DEF Delete
  <2>3. \A q \in Player : durable'[q] \in {durable[q], Absent}
    BY <2>2 DEF Forget, Survives, Keeps, TypeOK, Path
  <2> QED BY <2>1, <2>2, <2>3, Forgotten DEF RunsInPlace, ScoresStayWithPlayer
<1>6. ASSUME NEW p \in Player, SelectProfile(p) PROVE RunsInPlace'
  BY <1>1, <1>2, <1>6 DEF SelectProfile, SetActive
<1>7. CASE Continue
  <2>1. Head(todo)[2] \in Player
    BY <1>7 DEF Continue, TypeOK
  <2>2. \A r \in runs' : player'[r] = active'
    BY <1>1, <1>7, <2>1 DEF Continue, SetActive, RunsInPlace, ScoresStayWithPlayer
  <2> QED BY <1>2, <1>7, <2>2 DEF Continue
<1>8. ASSUME NEW q \in Run, RecordRun(q) PROVE RunsInPlace'
  <2>1. player[q] = None /\ player' = [player EXCEPT ![q] = active] /\ active' = active
        /\ runs' = runs \cup {q} /\ UNCHANGED <<disk, durable>> /\ active \in Player
    BY <1>8 DEF RecordRun, TypeOK
  <2>2. \A r \in Run : player[r] \in Player => player'[r] = player[r]
    BY <2>1, Apart DEF TypeOK
  <2>3. player'[q] = active /\ runs \subseteq Run
    BY <2>1 DEF TypeOK
  <2>4. \A r \in runs' : player'[r] = active'
    BY <2>1, <2>2, <2>3 DEF RunsInPlace, ScoresStayWithPlayer
  <2>5. \A p \in Player : \A r \in ItemsOf(p)' \ {Token} : player'[r] = p
    <3>1. \A p \in Player : ItemsOf(p)' = ItemsOf(p)
      BY <2>1 DEF ItemsOf, Whole
    <3> QED BY <3>1, <2>2, ReadTypes DEF RunsInPlace, ScoresStayWithPlayer
  <2>6. \A p \in Player : durable[p] \notin {Absent, Torn} => durable[p] \ {Token} \subseteq Run
    BY Apart DEF TypeOK, Path, IsVersion, Item
  <2>7. \A p \in Player : durable'[p] \notin {Absent, Torn} => \A r \in durable'[p] \ {Token} : player'[r] = p
    BY <2>1, <2>2, <2>6 DEF RunsInPlace
  <2> QED BY <2>4, <2>5, <2>7 DEF RunsInPlace, ScoresStayWithPlayer
<1>9. CASE Crash
  BY <1>2, <1>9 DEF Crash, ProcessEnds
<1>10. CASE PowerLoss
  BY <1>10 DEF PowerLoss, ProcessEnds, RunsInPlace, ScoresStayWithPlayer, ItemsOf, Whole
<1>11. CASE Stage \/ SaveFails \/ RegisterLocalProfile \/ Granted \/ Refused \/ Deregister \/ Update
  <2>1. UNCHANGED <<runs, active, player, disk, durable>>
    BY <1>11 DEF Stage, SaveFails, RegisterLocalProfile, Granted, Refused, Deregister, Update
  <2> QED BY <1>2, <2>1 DEF RunsInPlace, ScoresStayWithPlayer
<1>12. ASSUME NEW p \in Player, StartRegistration(p) PROVE RunsInPlace'
  BY <1>2, <1>12 DEF StartRegistration, FreshBoard
<1> QED BY <1>3, <1>4, <1>5, <1>6, <1>7, <1>8, <1>9, <1>10, <1>11, <1>12 DEF Next

\* What was saved is loaded before it is saved again.
LEMMA SavedStep ==
    ASSUME TypeOK, HandlersInv, SavedInv, Next
    PROVE  SavedInv'
<1> USE DEF history, fileVars, memVars, faultVars, Order
<1>1. ASSUME ~powerLost, NEW F, NEW p \in Player, active' = p, NEW k \in SUBSET kept[p],
             LoadActiveData(p, {}, F) \/ LoadActiveData(p, token, F),
             p \in F => k \subseteq {Listed}
      PROVE  k \ {Listed} \subseteq ActiveItems'
  <2>1. CASE p \in F
    BY <1>1, <2>1
  <2>2. CASE p \notin F
    <3>0. {} \in SUBSET Player /\ token \in SUBSET Player /\ p \in Player \cup {None}
      BY DEF TypeOK
    <3>1. runs' = ItemsOf(p) \ {Token} /\ (Token \in ItemsOf(p) => p \in token')
      <4>1. CASE LoadActiveData(p, {}, F)
        BY <3>0, <4>1, <2>2, Loading
      <4>2. CASE LoadActiveData(p, token, F)
        BY <3>0, <4>2, <2>2, Loading
      <4> QED BY <1>1, <4>1, <4>2
    <3>2. kept[p] \ {Listed} \subseteq ItemsOf(p)
      BY <1>1 DEF SavedInv
    <3> QED BY <1>1, <3>1, <3>2 DEF ActiveItems
  <2> QED BY <2>1, <2>2
<1>2. ASSUME UNCHANGED <<disk, powerLost>>, \A p \in Player : kept'[p] \subseteq kept[p],
             up' => profiles \subseteq profiles' /\ up, drawn \subseteq drawn',
             \A p \in Player : ~powerLost /\ p = active' => kept'[p] \ {Listed} \subseteq ActiveItems'
      PROVE  SavedInv'
  <2>1. ListOnDisk' = ListOnDisk /\ \A p \in Player : ItemsOf(p)' = ItemsOf(p)
    BY <1>2 DEF ItemsOf, ListOnDisk, Whole
  <2> QED BY <1>2, <2>1 DEF SavedInv
<1>3. ASSUME UNCHANGED <<active, runs, kept>>, token \subseteq token'
      PROVE  \A p \in Player : ~powerLost /\ p = active' => kept'[p] \ {Listed} \subseteq ActiveItems'
  BY <1>3 DEF SavedInv, ActiveItems
<1>16. ASSUME NEW p \in Player, SetActive(p)
       PROVE  /\ \A q \in Player : kept'[q] \subseteq kept[q]
              /\ \A q \in Player : ~powerLost /\ q = active' => kept'[q] \ {Listed} \subseteq ActiveItems'
  <2>1. PICK F \in SUBSET {p} : /\ active' = p /\ LoadActiveData(p, token, F)
                               /\ Fail(F, {p}) /\ kept' = Promised(F)
    BY <1>16 DEF SetActive
  <2>2. /\ \A q \in Player : kept'[q] \subseteq kept[q]
        /\ p \in F => kept'[p] \subseteq {Listed}
    BY <2>1, Promises
  <2> QED BY <1>1, <2>1, <2>2
<1>4. CASE Start
  <2>1. ListOnDisk' = ListOnDisk /\ \A p \in Player : ItemsOf(p)' = ItemsOf(p)
    BY <1>4 DEF Start, ItemsOf, ListOnDisk, Whole
  <2>2. PICK F \in SUBSET Path :
           /\ profiles' = IF Index \in F THEN {} ELSE ListOnDisk
           /\ LoadActiveData(active', {}, F)
           /\ Fail(F, {Index, active'}) /\ kept' = Promised(F)
    BY <1>4 DEF Start
  <2>3. \A p \in Player : /\ kept'[p] \subseteq kept[p]
                          /\ (p \in F => kept'[p] \subseteq {Listed})
                          /\ (Index \in F => Listed \notin kept'[p])
    BY <2>2, Promises
  <2>4. \A p \in Player : ~powerLost /\ p = active' => kept'[p] \ {Listed} \subseteq ActiveItems'
    BY <1>1, <2>2, <2>3
  <2>5. UNCHANGED <<powerLost, drawn>>
    BY <1>4 DEF Start
  <2> QED BY <2>1, <2>2, <2>3, <2>4, <2>5 DEF SavedInv
<1>5. CASE Publish
  <2>1. up /\ up' /\ UNCHANGED <<active, runs, token, profiles, powerLost, drawn>>
    BY <1>5 DEF Publish, HandlersInv
  <2>2. ActiveItems' = ActiveItems /\ ActiveItems \subseteq Item
    BY <1>5, <2>1, Writing DEF Publish, ActiveItems
  <2>3. \/ kept' = kept
        \/ /\ save.file = "slot" \/ active = None
           /\ kept' = [p \in Player |->
                          IF p \notin profiles THEN kept[p]
                          ELSE kept[p] \cup {Listed} \cup (IF p = active THEN ActiveItems ELSE {})]
    BY <1>5 DEF Publish, TypeOK
  <2>4. ASSUME ~powerLost, NEW p \in Player
        PROVE  /\ Listed \in kept'[p] => p \in ListOnDisk' /\ (up' => p \in profiles')
               /\ kept'[p] \ {Listed} \subseteq ItemsOf(p)'
               /\ p = active' => kept'[p] \ {Listed} \subseteq ActiveItems'
               /\ p \notin drawn' => kept'[p] = {}
    <3>1. kept[p] \ {Listed} \subseteq ItemsOf(p) /\ (p = active => kept[p] \ {Listed} \subseteq ActiveItems)
          /\ (Listed \in kept[p] => p \in profiles) /\ (p \notin drawn => kept[p] = {})
      BY <2>1, <2>4 DEF SavedInv
    <3>2. \/ kept'[p] = kept[p]
          \/ p \in profiles /\ kept'[p] = kept[p] \cup {Listed} /\ p # active
          \/ /\ p \in profiles /\ p = active /\ save.file = "slot"
             /\ kept'[p] = kept[p] \cup {Listed} \cup ActiveItems
      BY <2>3, Apart
    <3>3. ListOnDisk' = profiles /\ profiles \subseteq drawn
      BY <1>5, Published DEF HandlersInv
    <3>4. IF save.file = "slot" /\ p = active THEN ItemsOf(p)' = ActiveItems ELSE ItemsOf(p)' = ItemsOf(p)
      BY <1>5, Published
    <3> QED BY <2>1, <2>2, <3>1, <3>2, <3>3, <3>4, Apart
  <2> QED BY <2>1, <2>4 DEF SavedInv
<1>6. ASSUME NEW p \in Player, Delete(p) PROVE SavedInv'
  <2>1. PICK F \in SUBSET Player :
           /\ IF p # active
              THEN UNCHANGED <<active, runs, token>> /\ Fail(F, {p})
              ELSE LoadActiveData(active', token, F) /\ Fail(F, {p, active'})
           /\ Forget(p, F) /\ kept' = [Promised(F) EXCEPT ![p] = {}]
    BY <1>6 DEF Delete
  <2>2. profiles' = profiles \ {p} /\ UNCHANGED <<up, powerLost, drawn>>
    BY <1>6 DEF Delete
  <2>3. /\ kept'[p] = {}
        /\ \A q \in Player \ {p} : kept'[q] \subseteq kept[q] /\ (q \in F => kept'[q] \subseteq {Listed})
    BY <2>1 DEF Promised, TypeOK
  <2>4. ASSUME ~powerLost, NEW q \in Player, q = active', q # p
        PROVE  kept'[q] \ {Listed} \subseteq ActiveItems'
    <3>1. CASE p = active
      BY <1>1, <2>1, <2>3, <2>4, <3>1
    <3>2. CASE p # active
      BY <2>1, <2>3, <2>4, <3>2 DEF SavedInv, ActiveItems
    <3> QED BY <3>1, <3>2
  <2>5. /\ ListOnDisk' = ListOnDisk
        /\ \A q \in Player \ {p} : ItemsOf(q)' = ItemsOf(q)
    BY <2>1, Forgotten
  <2> QED BY <2>2, <2>3, <2>4, <2>5 DEF SavedInv
<1>7. ASSUME NEW p \in Player, SelectProfile(p) PROVE SavedInv'
  BY <1>2, <1>7, <1>16 DEF SelectProfile, Idle
<1>8. CASE Continue
  <2>1. Head(todo)[2] \in Player
    BY <1>8 DEF Continue, TypeOK
  <2>2. /\ \A p \in Player : kept'[p] \subseteq kept[p]
        /\ \A p \in Player : ~powerLost /\ p = active' => kept'[p] \ {Listed} \subseteq ActiveItems'
    <3>1. CASE SetActive(Head(todo)[2])
      BY <1>16, <2>1, <3>1
    <3>2. CASE UNCHANGED <<memVars, faultVars>>
      BY <1>3, <3>2
    <3> QED BY <1>8, <3>1, <3>2 DEF Continue
  <2> QED BY <1>2, <1>8, <2>2 DEF Continue
<1>9. CASE Deregister
  <2>1. /\ kept' = [kept EXCEPT ![active] = @ \ {Token}] /\ active \in Player
        /\ UNCHANGED <<up, profiles, active, runs, disk, powerLost, drawn>>
    BY <1>9 DEF Deregister, TypeOK
  <2>2. /\ kept'[active] = kept[active] \ {Token}
        /\ \A p \in Player \ {active} : kept'[p] = kept[p]
    BY <2>1 DEF TypeOK
  <2>3. ListOnDisk' = ListOnDisk /\ \A p \in Player : ItemsOf(p)' = ItemsOf(p)
    BY <2>1 DEF ItemsOf, ListOnDisk, Whole
  <2>4. ActiveItems \ {Token} \subseteq ActiveItems'
    BY <2>1 DEF ActiveItems
  <2> QED BY <2>1, <2>2, <2>3, <2>4 DEF SavedInv
<1>10. CASE Crash
  <2>1. \A p \in Player : p # active'
    BY <1>10, Apart DEF Crash, ProcessEnds
  <2> QED BY <1>2, <1>10, <2>1 DEF Crash, ProcessEnds
<1>11. CASE PowerLoss
  BY <1>11 DEF PowerLoss, SavedInv
<1>12. CASE Stage \/ SaveFails \/ RegisterLocalProfile \/ Granted \/ Refused \/ Update
  <2>1. UNCHANGED <<up, profiles, active, runs, disk, powerLost, kept, drawn>> /\ token \subseteq token'
    BY <1>12 DEF Stage, SaveFails, RegisterLocalProfile, Granted, Refused, Update
  <2> QED BY <1>2, <1>3, <2>1
<1>13. ASSUME NEW p \in Player, StartRegistration(p) PROVE SavedInv'
  <2>1. ~powerLost => kept[p] = {}
    BY <1>13 DEF StartRegistration, SavedInv
  <2> QED BY <1>2, <1>13, <2>1 DEF StartRegistration
<1>14. ASSUME NEW r \in Run, RecordRun(r) PROVE SavedInv'
  <2>1. \A p \in Player : ~powerLost /\ p = active' => kept[p] \ {Listed} \subseteq ActiveItems'
    BY <1>14 DEF RecordRun, SavedInv, ActiveItems
  <2> QED BY <1>2, <1>14, <2>1 DEF RecordRun
<1> QED
  BY <1>4, <1>5, <1>6, <1>7, <1>8, <1>9, <1>10, <1>11, <1>12, <1>13, <1>14 DEF Next

-----------------------------------------------------------------------------
(* The theorems *)

\* The invariant holds at first.
LEMMA InitInv == Init => IInv
<1> SUFFICES ASSUME Init PROVE IInv
  OBVIOUS
<1>1. TypeOK
  <2>1. <<>> \in Seq(Ops \X Player) /\ 0 \in 0 .. MaxFaults
    BY Apart
  <2> QED BY <2>1 DEF Init, TypeOK, NoSave, Contents, IsVersion
<1>2. NothingTorn /\ HandlersInv
  BY Apart DEF Init, NothingTorn, HandlersInv, NoSave, Path
<1>3. SlotsListed /\ RunsInPlace /\ SavedInv
  BY Apart DEF Init, SlotsListed, RunsInPlace, ScoresStayWithPlayer, SavedInv, Path, ItemsOf, Whole
<1> QED BY <1>1, <1>2, <1>3 DEF IInv

\* Every step keeps it.
LEMMA StepInv == IInv /\ [Next]_vars => IInv'
<1> SUFFICES ASSUME IInv, [Next]_vars PROVE IInv'
  OBVIOUS
<1>1. CASE Next
  BY <1>1, TypeStep, TornStep, HandlersStep, SlotsStep, RunsStep, SavedStep DEF IInv
<1>2. CASE UNCHANGED vars
  BY <1>2 DEF vars, IInv, TypeOK, NothingTorn, HandlersInv, SlotsListed, RunsInPlace,
              ScoresStayWithPlayer, SavedInv, ItemsOf, ListOnDisk, Whole, ActiveItems
<1> QED BY <1>1, <1>2

\* The invariant holds always.
LEMMA Invariance == Spec => []IInv
  BY InitInv, StepInv, PTL DEF Spec

\* The settings and the save slots are whole at every moment, after a power loss too.
THEOREM NeverTorn == Spec => []FilesWhole
<1>1. IInv => FilesWhole
  BY DEF IInv, NothingTorn, FilesWhole
<1> QED BY <1>1, Invariance, PTL

\* Through failed writes and crashes every save slot belongs to a listed profile,
\* but for slots that could not be removed and indexes that could not be read.
THEOREM SlotsBelongToProfiles == Spec => []NoOrphanSlot
<1>1. IInv => NoOrphanSlot
  BY DEF IInv, SlotsListed, NoOrphanSlot
<1> QED BY <1>1, Invariance, PTL

\* No profile's board ever holds another's run, in memory or on the disk.
THEOREM RunsStayInPlace == Spec => []ScoresStayWithPlayer
<1>1. IInv => ScoresStayWithPlayer
  BY DEF IInv, RunsInPlace
<1> QED BY <1>1, Invariance, PTL

\* Through failed writes and crashes, what a successful Save wrote stays written
\* while the reads of its slot and of the index succeed.
THEOREM SavesAreKept == Spec => []SavedIsKept
<1>1. IInv => SavedIsKept
  BY DEF IInv, SavedInv, SavedIsKept
<1> QED BY <1>1, Invariance, PTL
=============================================================================
