---------------------------- MODULE ProfileStore ----------------------------
(***************************************************************************)
(* The local players of examples/infinite_runner: account/ProfileStore.cpp *)
(* and the handlers of Game.cpp that change it, over the atomic writes of  *)
(* engine/shared/Storage.cppm, with failed reads, writes and removals,     *)
(* crashes of the process and power losses at any step.                    *)
(*                                                                         *)
(* The index (settings.json) lists the profiles; one save slot per profile *)
(* holds its token, its boards and its pending submissions.  Save writes   *)
(* the index, then the slot of the active profile, each by staging, flush  *)
(* and rename.  Everything runs on the game's thread: only the end of the  *)
(* process or of the power comes between two steps.                        *)
(***************************************************************************)
EXTENDS Naturals, Sequences, FiniteSets

CONSTANTS
    Player,      \* ids NewProfileId may draw, each once
    Run,         \* run ids, for the boards and pending_ alike
    MaxFaults,   \* bound on the steps that fail, crashes and power losses among them
    None, Index, Token, Listed, Absent, Torn

ASSUME StoreConstants ==
    /\ MaxFaults \in Nat
    /\ None \notin Player /\ Index \notin Player
    /\ Token \notin Run /\ Listed \notin Run \cup {Token}
    /\ Absent # Torn
    /\ \A c \in SUBSET (Player \cup Run \cup {Token}) : c # Absent /\ c # Torn

VARIABLES
    up,          \* the game runs
    profiles,    \* profiles_
    active,      \* active_id_
    token,       \* profiles whose token is not empty
    runs,        \* scores_ and pending_, of the active profile
    waiting,     \* pending_profile_id_ while pending_future_ is a registration
    todo,        \* what the handler does once Save has returned
    save,        \* where Save is
    flushed,     \* SyncToDisk was called on the staged file
    disk,        \* path -> contents
    durable,     \* path -> contents it will have after a power loss
    drawn,       \* ids NewProfileId has drawn
    faults, powerLost,
    stranded,    \* profiles of an index that was not read, or whose slot was not removed
    player,      \* run -> the profile that was active when it was recorded
    kept         \* profile -> what a Save that succeeded wrote of it

fileVars == <<disk, durable>>
memVars == <<profiles, active, token, runs>>
history == <<drawn, powerLost, player>>
faultVars == <<faults, stranded, kept>>
vars == <<up, profiles, active, token, runs, waiting, todo, save, flushed, disk, durable,
          drawn, faults, powerLost, stranded, player, kept>>

Path == Player \cup {Index}
Item == Run \cup {Token}
Contents == {Absent, Torn} \cup SUBSET (Player \cup Item)
IsVersion(f, c) == c \in {Absent, Torn} \/ c \subseteq IF f = Index THEN Player ELSE Item
Ops == {"register", "update", "activate"}
NoSave == [at |-> "no", file |-> "index"]

TypeOK ==
    /\ up \in BOOLEAN
    /\ profiles \subseteq Player /\ active \in Player \cup {None} /\ token \subseteq Player
    /\ runs \subseteq Run
    /\ waiting \in Player \cup {None}
    /\ todo \in Seq(Ops \X Player)
    /\ save \in [at : {"no", "stage", "publish"}, file : {"index", "slot"}] /\ flushed \in BOOLEAN
    /\ disk \in [Path -> Contents] /\ durable \in [Path -> Contents]
    /\ \A f \in Path : IsVersion(f, disk[f]) /\ IsVersion(f, durable[f])
    /\ drawn \subseteq Player /\ faults \in 0 .. MaxFaults /\ powerLost \in BOOLEAN
    /\ stranded \subseteq Player
    /\ player \in [Run -> Player \cup {None}]
    /\ kept \in [Player -> SUBSET (Item \cup {Listed})]

Init ==
    /\ up = TRUE /\ profiles = {} /\ active = None /\ token = {} /\ runs = {}
    /\ waiting = None /\ todo = <<>> /\ save = NoSave /\ flushed = FALSE
    /\ disk = [f \in Path |-> Absent] /\ durable = disk
    /\ drawn = {} /\ faults = 0 /\ powerLost = FALSE /\ stranded = {}
    /\ player = [r \in Run |-> None] /\ kept = [p \in Player |-> {}]

Idle == up /\ todo = <<>> /\ save.at = "no"

-----------------------------------------------------------------------------
(* Reading                                                                 *)

Whole(f) == disk[f] \notin {Absent, Torn}
ItemsOf(p) == IF p # None /\ Whole(p) THEN disk[p] ELSE {}
ListOnDisk == IF Whole(Index) THEN disk[Index] ELSE {}

\* The calls on the files F, of those a handler tries, fail.  Nothing more is
\* promised of a slot that could not be read, and no place in an index that
\* could not: what was not loaded is overwritten by the next Save.
Fail(F, tried) ==
    /\ F \subseteq {f \in tried \cap Path : disk[f] # Absent}
    /\ IF F = {} THEN UNCHANGED faults ELSE faults < MaxFaults /\ faults' = faults + 1
Promised(F) == [p \in Player |-> kept[p] \ ((IF p \in F THEN Item ELSE {}) \cup
                                            (IF Index \in F THEN {Listed} ELSE {}))]

\* LoadActiveData for profile p, with tokens `known` in memory: a slot that
\* cannot be read, or whose read is one of the calls F that fail, leaves the
\* token as it is and the boards empty.
MutLoadActiveData(p, known, F) ==   \* mutation: the slot is not read
    runs' = {} /\ token' = known
LoadActiveData(p, known, F) ==
    IF p = None \/ ~Whole(p) \/ p \in F
    THEN runs' = {} /\ token' = known
    ELSE /\ runs' = disk[p] \ {Token}
         /\ token' = IF Token \in disk[p] THEN known \cup {p} ELSE known \ {p}

\* Create.  Which profile of the index becomes active is left open: it is the
\* one that was active when the index was written, if it is still there.  An
\* index that cannot be read means that there are no profiles.
Start ==
    /\ ~up /\ up' = TRUE
    /\ \E F \in SUBSET Path :
          /\ profiles' = IF Index \in F THEN {} ELSE ListOnDisk
          /\ active' \in IF profiles' = {} THEN {None} ELSE profiles'
          /\ LoadActiveData(active', {}, F)
          /\ Fail(F, {Index, active'}) /\ kept' = Promised(F)
          /\ stranded' = IF Index \in F THEN stranded \cup ListOnDisk ELSE stranded
    /\ UNCHANGED <<waiting, todo, save, flushed, fileVars, history>>

-----------------------------------------------------------------------------
(* Save                                                                    *)

MutOrder == <<"slot", "index">>   \* mutation: the slot is written first
Order == <<"index", "slot">>
BeginSave == save' = [at |-> "stage", file |-> Order[1]]

\* The copy of the index to its backup, which the game never reads, is left out.
MutSyncToDisk == UNCHANGED flushed   \* mutation: not flushed before the rename
SyncToDisk == flushed' = TRUE

\* WriteStagedContents, under a name nobody else uses, and SyncToDisk.
Stage ==
    /\ save.at = "stage" /\ save' = [save EXCEPT !.at = "publish"]
    /\ SyncToDisk
    /\ UNCHANGED <<up, memVars, waiting, todo, fileVars, history, faultVars>>

\* ProfileDataToJson and the index that Save builds.
ActiveItems == runs \cup IF active \in token THEN {Token} ELSE {}
Written == IF save.file = "index" THEN profiles ELSE ActiveItems
Target == IF save.file = "index" THEN Index ELSE active

\* A name's change is visible at once, but no directory is flushed: after a
\* power loss it may have taken place or not.
Keeps(f, c) == durable' = [durable EXCEPT ![f] = c]
Survives(f, c) == UNCHANGED durable \/ Keeps(f, c)

\* The rename publishes the staged file, whose contents a power loss spares
\* only if they were flushed.
Publish ==
    /\ save.at = "publish" /\ flushed' = FALSE
    /\ disk' = [disk EXCEPT ![Target] = Written]
    /\ \/ Survives(Target, Written)
       \/ ~flushed /\ Keeps(Target, Torn)
    /\ IF save.file = Order[1] /\ active # None
       THEN save' = [at |-> "stage", file |-> Order[2]] /\ UNCHANGED kept
       ELSE /\ save' = NoSave
            /\ kept' = [p \in Player |->
                          IF p \notin profiles THEN kept[p]
                          ELSE kept[p] \cup {Listed} \cup (IF p = active THEN ActiveItems ELSE {})]
    /\ UNCHANGED <<up, memVars, waiting, todo, history, faults, stranded>>

\* The write, the flush or each of the five renames fails: the staged file is
\* removed, and Save returns what its callers ignore.
SaveFails ==
    /\ save.at # "no" /\ faults < MaxFaults
    /\ save' = NoSave /\ flushed' = FALSE /\ faults' = faults + 1
    /\ UNCHANGED <<up, memVars, waiting, todo, fileVars, history, stranded, kept>>

-----------------------------------------------------------------------------
(* The game's handlers                                                     *)

MutFreshBoard == runs   \* mutation: the boards are not cleared
FreshBoard == {}

\* "Create": AddProfile and, once it has saved, the request.
StartRegistration(p) ==
    /\ Idle /\ p \notin drawn /\ drawn' = drawn \cup {p}
    /\ profiles' = profiles \cup {p} /\ active' = p
    /\ runs' = FreshBoard /\ token' = token \ {p}
    /\ BeginSave /\ todo' = << <<"register", p>> >>
    /\ UNCHANGED <<up, waiting, flushed, fileVars, powerLost, player, faultVars>>

RegisterLocalProfile ==
    /\ Idle /\ active \in profiles \ token /\ waiting = None
    /\ waiting' = active
    /\ UNCHANGED <<up, memVars, todo, save, flushed, fileVars, history, faultVars>>

\* PollPendingAccount with a token, up to the Save of SetToken.
Granted ==
    /\ Idle /\ waiting # None /\ waiting' = None
    /\ IF waiting \in profiles
       THEN /\ token' = token \cup {waiting}
            /\ BeginSave /\ todo' = << <<"update", waiting>>, <<"activate", waiting>> >>
       ELSE UNCHANGED <<token, save, todo>>
    /\ UNCHANGED <<up, profiles, active, runs, flushed, fileVars, history, faultVars>>

Refused ==
    /\ Idle /\ waiting # None /\ waiting' = None
    /\ UNCHANGED <<up, memVars, todo, save, flushed, fileVars, history, faultVars>>

\* SetActive reloads the profile's data and writes nothing.
SetActive(p) ==
    \E F \in SUBSET {p} :
       /\ active' = p /\ LoadActiveData(p, token, F)
       /\ Fail(F, {p}) /\ kept' = Promised(F)

SelectProfile(p) ==
    /\ Idle /\ p \in profiles
    /\ SetActive(p)
    /\ UNCHANGED <<up, profiles, waiting, todo, save, flushed, fileVars, history, stranded>>

\* "Deregister locally": SetToken with an empty token.
Deregister ==
    /\ Idle /\ active \in profiles \cap token
    /\ token' = token \ {active} /\ BeginSave
    /\ kept' = [kept EXCEPT ![active] = @ \ {Token}]
    /\ UNCHANGED <<up, profiles, active, runs, waiting, todo, flushed, fileVars,
                   history, faults, stranded>>

\* The removal of the slot, whose error the code drops.
Forget(p, F) ==
    IF p \in F THEN UNCHANGED fileVars
    ELSE /\ disk' = [disk EXCEPT ![p] = Absent]
         /\ Survives(p, Absent)

\* "Delete": RemoveProfile, then SelectProfile of the one that is active now.
\* Of the calls F that fail, the one on p is the removal, the other a load.
Delete(p) ==
    /\ Idle /\ p \in profiles
    /\ profiles' = profiles \ {p}
    /\ \E F \in SUBSET Player :
          /\ IF p # active
             THEN UNCHANGED <<active, runs, token>> /\ Fail(F, {p})
             ELSE /\ active' \in IF profiles = {p} THEN {None} ELSE profiles \ {p}
                  /\ LoadActiveData(active', token, F) /\ Fail(F, {p, active'})
          /\ Forget(p, F) /\ stranded' = stranded \cup (F \cap {p})
          /\ kept' = [Promised(F) EXCEPT ![p] = {}]
    /\ BeginSave
    /\ todo' = IF active' = None THEN <<>> ELSE << <<"activate", active'>> >>
    /\ UNCHANGED <<up, waiting, flushed, history>>

\* SubmitRun and RecordRun.
RecordRun(r) ==
    /\ Idle /\ active \in profiles /\ player[r] = None
    /\ runs' = runs \cup {r} /\ player' = [player EXCEPT ![r] = active]
    /\ BeginSave
    /\ UNCHANGED <<up, profiles, active, token, waiting, todo, flushed, fileVars,
                   drawn, powerLost, faultVars>>

\* UpdateLocal and UpdateDisplayName change nothing that the model tells apart.
Update ==
    /\ Idle /\ active \in profiles
    /\ BeginSave
    /\ UNCHANGED <<up, memVars, waiting, todo, flushed, fileVars, history, faultVars>>

\* Save has returned to the handler.
Continue ==
    /\ up /\ save.at = "no" /\ todo # <<>> /\ todo' = Tail(todo)
    /\ LET op == Head(todo)[1]
           p == Head(todo)[2]
       IN \/ /\ op = "register" /\ waiting' = p
             /\ UNCHANGED <<memVars, save, faultVars>>
          \/ /\ op = "update" /\ BeginSave
             /\ UNCHANGED <<memVars, waiting, faultVars>>
          \/ /\ op = "activate" /\ SetActive(p)
             /\ UNCHANGED <<profiles, waiting, save, stranded>>
    /\ UNCHANGED <<up, flushed, fileVars, history>>

-----------------------------------------------------------------------------
(* The end of the process                                                  *)

ProcessEnds ==
    /\ up /\ up' = FALSE
    /\ profiles' = {} /\ active' = None /\ token' = {} /\ runs' = {}
    /\ waiting' = None /\ todo' = <<>> /\ save' = NoSave /\ flushed' = FALSE
    /\ faults < MaxFaults /\ faults' = faults + 1
    /\ UNCHANGED <<drawn, player, stranded, kept>>

Crash ==
    /\ ProcessEnds
    /\ UNCHANGED <<disk, durable, powerLost>>

PowerLoss ==
    /\ ProcessEnds /\ powerLost' = TRUE
    /\ disk' = durable /\ UNCHANGED durable

Next ==
    \/ Start
    \/ Stage
    \/ Publish
    \/ SaveFails
    \/ RegisterLocalProfile
    \/ Granted
    \/ Refused
    \/ Deregister
    \/ Update
    \/ Continue
    \/ Crash
    \/ PowerLoss
    \/ \E p \in Player : StartRegistration(p) \/ SelectProfile(p) \/ Delete(p)
    \/ \E r \in Run : RecordRun(r)

Spec == Init /\ [][Next]_vars

-----------------------------------------------------------------------------
(* Safety                                                                  *)

\* Whenever the process or the power ends, the settings and every save slot
\* are absent or a version that some Save wrote, never part of one: contents
\* are flushed before the rename that publishes them.
FilesWhole == \A f \in Path : disk[f] # Torn

\* Every save slot belongs to a profile of the index, through failed writes and
\* crashes between the two files: Save writes the index before the slot, and
\* RemoveProfile removes the slot before the index.  Excepted are the profiles
\* stranded by a fault that the code ignores: their slot could not be removed,
\* or the index that listed them could not be read.
NoOrphanSlot == ~powerLost => \A p \in Player : disk[p] # Absent => p \in ListOnDisk \cup stranded

\* No token is left behind by a profile that is gone.  (RemoveProfile says so of
\* a removed profile; a removal that fails breaks it, and so does an index that
\* is not read and then written.)
NoTokenLeft == ~powerLost => \A p \in Player : Token \in ItemsOf(p) => p \in ListOnDisk

\* A slot and the boards in memory hold only runs that were recorded while
\* their profile was the active one, however profiles are switched, removed
\* and added between saves that fail.
ScoresStayWithPlayer ==
    /\ \A r \in runs : player[r] = active
    /\ \A p \in Player : \A r \in ItemsOf(p) \ {Token} : player[r] = p

\* What a Save that succeeded wrote of a profile stays on the disk until the
\* profile is deregistered or removed, or a read of it fails: failed writes and
\* crashes cost nothing that was saved.  A slot or an index whose read fails is
\* overwritten by the next Save; from then on the promise holds for what that
\* Save wrote.
SavedIsKept ==
    ~powerLost => \A p \in Player :
                     /\ Listed \in kept[p] => p \in ListOnDisk
                     /\ kept[p] \ {Listed} \subseteq ItemsOf(p)

\* A token leaves the memory only when its profile is deregistered or removed,
\* or when the process ends.  (The code does not keep this promise.)
TokenStays ==
    [][\A p \in token \ token' :
          p \notin profiles' \/ ~up' \/ kept'[p] # kept[p] \/ faults > 0]_vars
=============================================================================
