------------------------------ MODULE PluginLoader ------------------------------
(*****************************************************************************)
(* src/src/plugin_loader.c: the plugins of one directory are opened in the   *)
(* order of their names, each stage they export is entered in a registry of  *)
(* bounded size with the handle it came from, and at the end every handle is *)
(* closed.  A plugin is one file; its position in the directory stands for   *)
(* its handle.                                                               *)
(*****************************************************************************)
EXTENDS Integers, Sequences, FiniteSets

CONSTANTS
  StageName,   \* the names that stages declare
  Invalid,     \* a descriptor that is NULL, or has no name or no process()
  Directory,   \* the plugins directories the program may find
  RegistryMax  \* PLUGIN_REGISTRY_MAX

\* What a file turns out to be: dlopen() refuses it; it is opened, but has no ABI
\* version, another one, or no entry; or it exports one stage, or several.
Fate == {"unopened", "rejected", "single", "loomlet"}
Plugin == [fate : Fate, stages : Seq(StageName \cup {Invalid})]

ASSUME PluginAssumption ==
  /\ RegistryMax \in Nat
  /\ Invalid \notin StageName
  /\ Directory \subseteq Seq(Plugin)
  /\ \A d \in Directory : \A i \in DOMAIN d :
       /\ d[i].fate = "single" => Len(d[i].stages) = 1
       /\ d[i].fate \in {"unopened", "rejected"} => d[i].stages = <<>>

VARIABLES
  directory,  \* the sorted *.so files
  plugin,     \* the file being loaded
  index,      \* the stage of it that is registered next, 0 before dlopen()
  registry,   \* g_registry and g_handles up to g_count
  mapped,     \* the handles that dlopen() returned and dlclose() has not had
  loader,     \* where the loader stands
  slot,       \* the slot that plugin_loader_shutdown() looks at
  closed      \* history: the handles that dlclose() had, in that order

loaderVars == <<directory, plugin, index, registry, mapped, loader, slot, closed>>

Registered(name) == \E i \in DOMAIN registry : registry[i].name = name

-------------------------------------------------------------------------------

LoaderInit ==
  /\ directory \in Directory
  /\ plugin = 1 /\ index = 0
  /\ registry = <<>> /\ mapped = {} /\ closed = <<>>
  /\ loader = "loading" /\ slot = 0

Loading == loader = "loading" /\ plugin \in DOMAIN directory
Stages  == directory[plugin].stages

\* A file that contributes nothing: it is not open, or has been closed again.
SkipPlugin ==
  /\ Loading /\ index = 0
  /\ directory[plugin].fate \in {"unopened", "rejected"}
  /\ plugin' = plugin + 1
  /\ UNCHANGED <<directory, index, registry, mapped, loader, slot, closed>>

OpenPlugin ==
  /\ Loading /\ index = 0
  /\ directory[plugin].fate \in {"single", "loomlet"}
  /\ index' = 1
  /\ mapped' = mapped \cup {plugin}
  /\ UNCHANGED <<directory, plugin, registry, loader, slot, closed>>

Exported == Loading /\ index \in DOMAIN Stages

\* Mutant: a bad descriptor closes the whole plugin.
SkipStageCloses ==
  /\ Exported /\ Stages[index] = Invalid
  /\ index' = index + 1
  /\ mapped' = mapped \ {plugin}
  /\ UNCHANGED <<directory, plugin, registry, loader, slot, closed>>

\* register_stage() passes over a bad descriptor.
SkipStage ==
  /\ Exported /\ Stages[index] = Invalid
  /\ index' = index + 1
  /\ UNCHANGED <<directory, plugin, registry, mapped, loader, slot, closed>>

Fits(name) == ~Registered(name) /\ Len(registry) < RegistryMax

RegisterStage ==
  /\ Exported /\ Stages[index] # Invalid /\ Fits(Stages[index])
  /\ registry' = Append(registry, [name |-> Stages[index], handle |-> plugin])
  /\ index' = index + 1
  /\ UNCHANGED <<directory, plugin, mapped, loader, slot, closed>>

\* A name that is taken or a full registry: the plugin is closed, main() exits.
RefuseStage ==
  /\ Exported /\ Stages[index] # Invalid /\ ~Fits(Stages[index])
  /\ mapped' = mapped \ {plugin}
  /\ closed' = Append(closed, plugin)
  /\ loader' = "failed"
  /\ UNCHANGED <<directory, plugin, index, registry, slot>>

\* The handle of a plugin stays open, whether or not a stage came from it.
EndPlugin ==
  /\ Loading /\ index > Len(Stages)
  /\ plugin' = plugin + 1 /\ index' = 0
  /\ UNCHANGED <<directory, registry, mapped, loader, slot, closed>>

LoaderDone ==
  /\ loader = "loading" /\ plugin \notin DOMAIN directory
  /\ loader' = "loaded"
  /\ UNCHANGED <<directory, plugin, index, registry, mapped, slot, closed>>

Load ==
  \/ SkipPlugin \/ OpenPlugin
  \/ SkipStage \/ RegisterStage \/ RefuseStage
  \/ EndPlugin \/ LoaderDone

-------------------------------------------------------------------------------
\* plugin_loader_shutdown()

BeginShutdown ==
  /\ loader = "loaded"
  /\ loader' = "closing" /\ slot' = Len(registry)
  /\ UNCHANGED <<directory, plugin, index, registry, mapped, closed>>

\* Mutant: one dlclose() per stage.
CloseSlotAlways ==
  LET handle == registry[slot].handle
  IN  /\ loader = "closing" /\ slot > 0
      /\ slot' = slot - 1
      /\ mapped' = mapped \ {handle} /\ closed' = Append(closed, handle)
      /\ UNCHANGED <<directory, plugin, index, registry, loader>>

\* From the newest slot down: a handle that a later slot had is closed already.
CloseSlot ==
  LET handle == registry[slot].handle
      already == \E i \in slot + 1 .. Len(registry) : registry[i].handle = handle
  IN  /\ loader = "closing" /\ slot > 0
      /\ slot' = slot - 1
      /\ IF already THEN UNCHANGED <<mapped, closed>>
         ELSE mapped' = mapped \ {handle} /\ closed' = Append(closed, handle)
      /\ UNCHANGED <<directory, plugin, index, registry, loader>>

ShutdownDone ==
  /\ loader = "closing" /\ slot = 0
  /\ registry' = <<>>
  /\ loader' = "closed"
  /\ UNCHANGED <<directory, plugin, index, mapped, slot, closed>>

Shutdown == BeginShutdown \/ CloseSlot \/ ShutdownDone

LoaderSpec == LoaderInit /\ [][Load \/ Shutdown]_loaderVars

-------------------------------------------------------------------------------

\* The plugins from which at least one good descriptor came.
Contributing ==
  {p \in DOMAIN directory : \E i \in DOMAIN directory[p].stages :
                              directory[p].stages[i] # Invalid}

\* From the first plugin to the shutdown no stage is registered twice, and none
\* comes from a handle that has been closed, whichever of its plugin's descriptors
\* were passed over (plugin_loader.c:107-214).
RegistryBacked ==
  loader \in {"loading", "loaded"} =>
    /\ \A i, j \in DOMAIN registry : registry[i].name = registry[j].name => i = j
    /\ \A i \in DOMAIN registry : registry[i].handle \in mapped

\* A handle is closed at most once, however many stages came from it, the newest
\* first; what the shutdown leaves open are the plugins without a good descriptor
\* (plugin_loader.c:248-274).
ClosedOnce ==
  /\ \A i, j \in DOMAIN closed : i < j => closed[i] > closed[j]
  /\ loader = "closed" =>
       /\ {closed[i] : i \in DOMAIN closed} = Contributing
       /\ mapped \cap Contributing = {}
===============================================================================
