---------------------------- MODULE EngineShutdown ----------------------------
(***************************************************************************)
(* GameEngine::Shutdown (engine/core/GameEngine.cpp): the modules stop in  *)
(* the reverse of their start order, the shader watcher, then the physics  *)
(* world, then the device, whose graph of destruction tasks is the one of  *)
(* EngineBootstrap::Shutdown (engine/core/bootstrap/EngineBootstrap.cpp),  *)
(* executed by Teardown.  A reload of a shader that the watcher asked for  *)
(* is a job of the same pool.                                              *)
(*                                                                         *)
(* A subsystem is the engineshutdown task of its name.  The model follows  *)
(* up to MaxTasks of those in Followed; a task left out leaves its edges   *)
(* out and so orders the others less.                                      *)
(***************************************************************************)
EXTENDS Teardown

CONSTANTS
    Followed,   \* the subsystems followed
    Main        \* the thread that shuts the engine down

\* The order in which Shutdown adds its tasks.
Order == <<"wait_idle", "shader_watcher", "pipeline_factory", "renderer",
           "imgui_system", "imgui_backend", "scene_renderer", "physical_camera",
           "texture_uploader", "texture_watcher", "texture_reloader",
           "texture_residency", "font_watcher", "font_reloader", "text_system",
           "shader_manager", "mesh_registry", "mesh_manager", "dynamic_heaps",
           "staging_manager", "static_heaps", "bindless_manager", "image_heap",
           "material_manager", "technique_manager", "sampler_cache">>

Subsystem == {Order[k] : k \in DOMAIN Order}
Rank(s) == CHOOSE k \in DOMAIN Order : Order[k] = s

ASSUME ShutdownConstants == Followed \subseteq Subsystem /\ Main \in Caller

VARIABLES
    client,     \* who uses the scheduler: "engine", or "other" with any graph
    names,      \* the subsystem each task is for, by id
    phase,      \* how far ShutdownAll has come
    physics,    \* does this engine have the physics module?
    debounce,   \* the shader watcher's debounce thread
    reload      \* the shader-reload job, one at a time

engineVars == <<client, names, phase, physics, debounce, reload>>
allVars == <<vars, engineVars>>

Added(s) == \E i \in DOMAIN names : names[i] = s
TaskOf(s) == CHOOSE i \in DOMAIN names : names[i] = s

-----------------------------------------------------------------------------
(* What each task is added after, of the tasks that exist *)

\* Tasks that do not wait for the device.
Unordered == {"wait_idle", "shader_watcher", "pipeline_factory", "texture_watcher",
              "font_watcher"}

\* The systems of a frame, after those that use them or feed them.
AfterUsers(s) ==
    CASE s = "imgui_backend" -> {"imgui_system"}
      [] s = "texture_uploader" -> {"scene_renderer", "physical_camera"}
      [] s = "texture_residency" -> {"texture_uploader", "texture_reloader"}
      [] s = "text_system" -> {"font_reloader", "renderer"}
      [] OTHER -> {}

\* The meshes and the buffers, after those that own ranges in them.
AfterRangeOwners(s) ==
    CASE s = "mesh_registry" -> {"scene_renderer"}
      [] s = "mesh_manager" -> {"mesh_registry"}
      [] s \in {"dynamic_heaps", "static_heaps"} ->
             {"scene_renderer", "physical_camera", "mesh_registry"}
      [] s = "staging_manager" ->
             {"scene_renderer", "physical_camera", "texture_uploader", "mesh_manager",
              "text_system"}
      [] OTHER -> {}

\* The materials, after those that write or read them, and their techniques.
AfterMaterialUsers(s) ==
    CASE s = "material_manager" ->
             {"scene_renderer", "texture_uploader", "texture_reloader",
              "texture_residency", "physical_camera"}
      [] s = "technique_manager" -> {"material_manager"}
      [] OTHER -> {}

\* What a watcher's listener feeds, after the watcher.
AfterWatcher(s) ==
    CASE s = "texture_reloader" -> {"texture_watcher"}
      [] s = "font_reloader" -> {"font_watcher"}
      [] s = "shader_manager" -> {"shader_watcher"}
      [] OTHER -> {}

\* The owners of textures, whose slots, images and samplers these three hold.
TextureOwners(s) ==
    CASE s = "bindless_manager" -> {"scene_renderer", "physical_camera", "text_system"}
      [] s \in {"image_heap", "sampler_cache"} ->
             {"bindless_manager", "texture_uploader", "scene_renderer", "text_system",
              "physical_camera"}
      [] OTHER -> {}

\* Mutation: the image heap waits for the bindless manager, which waits for the
\* others.
MutNeeds(s) ==
    IF s = "image_heap" THEN {"wait_idle", "bindless_manager"}
    ELSE AfterUsers(s) \cup AfterWatcher(s) \cup TextureOwners(s)

\* All of them, and the device's idleness but for what a watcher precedes.
Needs(s) ==
    AfterUsers(s) \cup AfterRangeOwners(s) \cup AfterMaterialUsers(s)
    \cup AfterWatcher(s) \cup TextureOwners(s)
    \cup (IF s \in Unordered \/ AfterWatcher(s) # {} THEN {} ELSE {"wait_idle"})

\* The other subsystems that the task itself reaches into: a release of a texture
\* slot writes the bindless manager's tables and frees the image, a texture's
\* destructor frees its image, ImGuiSystem::Shutdown calls the backend.
Uses(s) ==
    CASE s \in {"physical_camera", "text_system"} -> {"bindless_manager", "image_heap"}
      [] s \in {"texture_uploader", "bindless_manager"} -> {"image_heap"}
      [] s = "imgui_system" -> {"imgui_backend"}
      [] OTHER -> {}

\* The list Add is called with: the ids of the tasks needed that exist.  The order
\* of a list makes no difference to what Add does.
ListOf(S) == CHOOSE f \in [1..Cardinality(S) -> S] :
                 \A x \in S : \E k \in DOMAIN f : f[k] = x
Dependencies(s) == ListOf({TaskOf(n) : n \in {m \in Needs(s) : Added(m)}})

-----------------------------------------------------------------------------
EngineInit ==
    /\ Init /\ client \in {"engine", "other"} /\ names = <<>>
    /\ phase = "running" /\ physics \in IF client = "engine" THEN BOOLEAN ELSE {FALSE}
    /\ debounce = "waiting" /\ reload = "none"

\* The debounce time of a changed file is over, and it is not told to stop.
FileDue ==
    /\ client = "engine" /\ phase = "running" /\ debounce = "waiting"
    /\ debounce' = "due"
    /\ UNCHANGED <<vars, client, names, phase, physics, reload>>

\* ShaderWatcher::ReloadPath, outside the mutex: it returns early for a file renamed
\* away or compiled already, or the job is submitted and its future dropped.  One
\* job at a time is a bound.
ReloadPath ==
    /\ debounce = "due" /\ debounce' = "waiting"
    /\ reload' = reload \/ (reload = "none" /\ reload' = "queued")
    /\ UNCHANGED <<vars, client, names, phase, physics>>

ReloadStarts ==
    /\ reload = "queued" /\ reload' = "running"
    /\ UNCHANGED <<vars, client, names, phase, physics, debounce>>

ReloadEnds ==
    /\ reload = "running" /\ reload' = "none"
    /\ UNCHANGED <<vars, client, names, phase, physics, debounce>>

\* Quiesce: stop_ is set under the mutex, then the thread is joined.
StopWatch ==
    /\ client = "engine" /\ phase = "running" /\ phase' = "joining"
    /\ UNCHANGED <<vars, client, names, physics, debounce, reload>>

WatchJoined ==
    /\ phase = "joining" /\ debounce = "waiting"
    /\ debounce' = "stopped" /\ phase' = "watchStopped"
    /\ UNCHANGED <<vars, client, names, physics, reload>>

\* World::Shutdown destroys the job bridge, which waits until the pool is idle.
\* Mutation: the bridge does not wait.
MutPoolDrained == TRUE
PoolDrained == reload = "none"

PhysicsStops ==
    /\ phase = "watchStopped" /\ (physics => PoolDrained)
    /\ phase' = "device"
    /\ UNCHANGED <<vars, client, names, physics, debounce, reload>>

\* EngineBootstrap::Shutdown adds the task of a subsystem that exists; the shader
\* watcher was moved out of the context when its module stopped.
Register(s) ==
    /\ phase = "device" /\ s # "shader_watcher"
    /\ \A n \in DOMAIN names : Rank(names[n]) < Rank(s)
    /\ Add(Dependencies(s))
    /\ names' = Append(names, s)
    /\ UNCHANGED <<client, phase, physics, debounce, reload>>

\* The scheduler with the engine's graph, and with any client's.
EngineRuns ==
    /\ phase = "device" /\ UNCHANGED engineVars
    /\ RunStarts(Main) \/ RunStep(Main) \/ \E i \in Id : TaskStep(i)

OtherClient == client = "other" /\ Next /\ UNCHANGED engineVars

EngineNext ==
    \/ FileDue \/ ReloadPath \/ ReloadStarts \/ ReloadEnds
    \/ StopWatch \/ WatchJoined \/ PhysicsStops
    \/ \E s \in Followed : Register(s)
    \/ EngineRuns
    \/ OtherClient

EngineSpec == EngineInit /\ [][EngineNext]_allVars

\* As Teardown's FairSpec.
EngineFairSpec ==
    /\ EngineSpec
    /\ \A c \in Caller : WF_allVars(RunStep(c) /\ UNCHANGED engineVars)
    /\ \A i \in Id : WF_allVars(TaskStep(i) /\ UNCHANGED engineVars)

-----------------------------------------------------------------------------
(* Properties *)

EngineTypeOK ==
    /\ client \in {"engine", "other"} /\ names \in Seq(Subsystem)
    /\ phase \in {"running", "joining", "watchStopped", "device"}
    /\ physics \in BOOLEAN /\ debounce \in {"waiting", "due", "stopped"}
    /\ reload \in {"none", "queued", "running"}
    /\ names # <<>> => Len(names) = Len(deps)

\* "no subsystem outlives what it uses": a subsystem's destruction starts only
\* when those that reach into it have ended, whichever subsystems the engine has
\* and in whatever order the jobs are taken.
OwnersOutlive ==
    \A i, j \in DOMAIN names :
        names[j] \in Uses(names[i]) /\ Started(j) => Completed(i)

\* The shader manager is not destroyed while a reload job, which holds its address,
\* is queued or runs; in an engine with physics.  Without, it may be.
ReloadsAlive ==
    physics => \A i \in DOMAIN names :
                   names[i] = "shader_manager" /\ Started(i) => reload = "none"
=============================================================================
