--------------------------- MODULE PluginLoaderProofs ---------------------------
(*****************************************************************************)
(* Theorems about PluginLoader: for every plugins directory, every set of    *)
(* stage names and every size of the registry.                               *)
(*****************************************************************************)
EXTENDS PluginLoader, TLAPS

Slot == [name : StageName, handle : DOMAIN directory]

LoaderTypeOK ==
  /\ directory \in Directory
  /\ plugin \in 1 .. Len(directory) + 1
  /\ index \in Nat
  /\ registry \in Seq(Slot)
  /\ mapped \subseteq DOMAIN directory
  /\ loader \in {"loading", "failed", "loaded", "closing", "closed"}
  /\ slot \in 0 .. Len(registry)
  /\ closed \in Seq(DOMAIN directory)

\* A stage of the handle p is in a slot of the registry from the n-th on.
InSlots(p, n) == \E i \in n .. Len(registry) : registry[i].handle = p
IsClosed(p)   == \E i \in 1 .. Len(closed) : closed[i] = p

\* One of the first n descriptors of plugin p is good.
Gave(p, n) == \E i \in 1 .. n : i \in DOMAIN directory[p].stages /\ directory[p].stages[i] # Invalid

\* While the loader loads, the registry has the stages of the plugins that are done
\* and of the descriptors that are done of the one in work.
WhileLoading ==
  loader = "loading" =>
    /\ closed = <<>>
    /\ index # 0 => plugin \in DOMAIN directory /\ plugin \in mapped
    /\ \A i \in 1 .. Len(registry) : registry[i].handle <= plugin
    /\ \A p \in DOMAIN directory :
         InSlots(p, 1) <=> \/ p < plugin /\ p \in Contributing
                           \/ p = plugin /\ index # 0 /\ Gave(p, index - 1)

\* The plugins were loaded in the order of their slots.
SlotsInOrder ==
  \A i, j \in 1 .. Len(registry) : i <= j => registry[i].handle <= registry[j].handle

OnceLoaded ==
  loader \in {"loaded", "closing"} => \A p \in DOMAIN directory : InSlots(p, 1) <=> p \in Contributing

\* What has been closed is what was found above the slot that the shutdown is at.
WhileClosing ==
  /\ loader = "loaded" => closed = <<>>
  /\ loader = "closing" => \A p \in DOMAIN directory : IsClosed(p) <=> InSlots(p, slot + 1)
  /\ loader \in {"closing", "closed"} => \A p \in DOMAIN directory : IsClosed(p) => p \notin mapped
  /\ loader = "closed" => \A p \in DOMAIN directory : IsClosed(p) <=> p \in Contributing

Descending == \A i, j \in 1 .. Len(closed) : i < j => closed[i] > closed[j]

LoaderInv ==
  /\ LoaderTypeOK /\ RegistryBacked /\ WhileLoading
  /\ SlotsInOrder /\ OnceLoaded /\ WhileClosing /\ Descending

-------------------------------------------------------------------------------

\* What the assumption says of the directory that is there.
LEMMA DirectoryType ==
  ASSUME LoaderTypeOK
  PROVE  /\ directory \in Seq(Plugin)
         /\ DOMAIN directory = 1 .. Len(directory)
         /\ \A p \in DOMAIN directory :
              /\ directory[p].stages \in Seq(StageName \cup {Invalid})
              /\ directory[p].fate \in {"unopened", "rejected"} => directory[p].stages = <<>>
<1>1. directory \in Seq(Plugin) /\ DOMAIN directory = 1 .. Len(directory)
  BY PluginAssumption DEF LoaderTypeOK
<1>2. ASSUME NEW p \in DOMAIN directory
      PROVE  directory[p].stages \in Seq(StageName \cup {Invalid})
  <2>1. directory[p] \in Plugin
    BY <1>1
  <2>2. QED
    BY <2>1 DEF Plugin
<1>3. \A p \in DOMAIN directory :
        directory[p].fate \in {"unopened", "rejected"} => directory[p].stages = <<>>
  BY PluginAssumption DEF LoaderTypeOK
<1>4. QED
  BY <1>1, <1>2, <1>3

\* A handle in the registry is a place in the directory.
LEMMA HandleType ==
  ASSUME LoaderTypeOK
  PROVE  /\ DOMAIN registry = 1 .. Len(registry) /\ Len(registry) \in Nat
         /\ \A i \in 1 .. Len(registry) :
              registry[i].handle \in DOMAIN directory /\ registry[i].handle \in Nat
<1>1. registry \in Seq(Slot)
  BY DEF LoaderTypeOK
<1>2. ASSUME NEW i \in 1 .. Len(registry) PROVE registry[i].handle \in DOMAIN directory
  <2>1. registry[i] \in Slot
    BY <1>1
  <2>2. QED
    BY <2>1 DEF Slot
<1>3. DOMAIN directory \subseteq Nat
  BY DirectoryType
<1>4. QED
  BY <1>1, <1>2, <1>3

\* A plugin contributes if one of its descriptors, up to the last, is good.
LEMMA ContributingGave ==
  ASSUME LoaderTypeOK, NEW p \in DOMAIN directory
  PROVE  p \in Contributing <=> Gave(p, Len(directory[p].stages))
BY DirectoryType DEF Contributing, Gave

LEMMA LoaderStarts == LoaderInit => LoaderInv
<1> SUFFICES ASSUME LoaderInit PROVE LoaderInv
  OBVIOUS
<1>1. directory \in Seq(Plugin)
  BY PluginAssumption DEF LoaderInit
<1>2. LoaderTypeOK
  BY <1>1 DEF LoaderInit, LoaderTypeOK
<1>3. WhileLoading
  <2>1. DOMAIN directory = 1 .. Len(directory) /\ Len(registry) = 0 /\ plugin = 1
    BY <1>1 DEF LoaderInit
  <2>2. QED
    BY <2>1 DEF LoaderInit, WhileLoading, InSlots, Gave
<1>4. QED
  BY <1>2, <1>3 DEF LoaderInit, LoaderInv, RegistryBacked, SlotsInOrder, OnceLoaded, WhileClosing,
                    Descending
-------------------------------------------------------------------------------

LEMMA SkipPluginKeeps == LoaderInv /\ SkipPlugin => LoaderInv'
<1> SUFFICES ASSUME LoaderInv, SkipPlugin PROVE LoaderInv'
  OBVIOUS
<1> USE DEF LoaderInv
<1>1. LoaderTypeOK'
  BY DirectoryType DEF SkipPlugin, Loading, LoaderTypeOK, Slot
<1>2. plugin \notin Contributing
  BY DirectoryType DEF SkipPlugin, Loading, Contributing
<1>3. WhileLoading'
  <2>1. plugin' = plugin + 1 /\ plugin \in Nat /\ loader = "loading" /\ index = 0 /\ index' = 0
    BY DEF SkipPlugin, Loading, LoaderTypeOK
  <2>2. \A p \in DOMAIN directory : InSlots(p, 1)' <=> InSlots(p, 1)
    BY DEF SkipPlugin, InSlots
  <2>3. \A p \in DOMAIN directory : (p \in Contributing)' <=> p \in Contributing
    BY DEF SkipPlugin, Contributing
  <2>4. \A p \in DOMAIN directory : p \in Nat
    BY DirectoryType
  <2>5. \A i \in 1 .. Len(registry) : registry[i].handle \in Nat /\ registry[i].handle <= plugin
    BY <2>1, HandleType DEF WhileLoading
  <2>6. \A p \in DOMAIN directory : InSlots(p, 1)' <=> p < plugin' /\ p \in Contributing'
    BY <1>2, <2>1, <2>2, <2>3, <2>4 DEF WhileLoading
  <2>7. UNCHANGED <<directory, registry, closed>>
    BY DEF SkipPlugin
  <2>8. QED
    BY <2>1, <2>4, <2>5, <2>6, <2>7 DEF WhileLoading
<1>4. QED
  BY <1>1, <1>3 DEF SkipPlugin, Loading, RegistryBacked, SlotsInOrder, OnceLoaded, WhileClosing,
                    Descending

LEMMA OpenPluginKeeps == LoaderInv /\ OpenPlugin => LoaderInv'
<1> SUFFICES ASSUME LoaderInv, OpenPlugin PROVE LoaderInv'
  OBVIOUS
<1> USE DEF LoaderInv
<1>1. LoaderTypeOK'
  BY DirectoryType DEF OpenPlugin, Loading, LoaderTypeOK, Slot
<1>2. WhileLoading'
  <2>1. \A p \in DOMAIN directory : InSlots(p, 1)' <=> InSlots(p, 1)
    BY DEF OpenPlugin, InSlots
  <2>2. \A p \in DOMAIN directory : (p \in Contributing)' <=> p \in Contributing
    BY DEF OpenPlugin, Contributing
  <2>3. \A p : ~Gave(p, index - 1)'
    BY DEF OpenPlugin, Gave
  <2>4. QED
    BY <2>1, <2>2, <2>3 DEF OpenPlugin, Loading, WhileLoading
<1>3. QED
  BY <1>1, <1>2 DEF OpenPlugin, Loading, RegistryBacked, SlotsInOrder, OnceLoaded, WhileClosing,
                    Descending

\* What one more descriptor adds to what a plugin gave.
LEMMA OneMoreGave ==
  ASSUME LoaderTypeOK, NEW n \in Nat \ {0}, NEW p \in DOMAIN directory
  PROVE  Gave(p, n) <=> \/ Gave(p, n - 1)
                        \/ n \in DOMAIN directory[p].stages /\ directory[p].stages[n] # Invalid
BY DEF Gave

LEMMA SkipStageKeeps == LoaderInv /\ SkipStage => LoaderInv'
<1> SUFFICES ASSUME LoaderInv, SkipStage PROVE LoaderInv'
  OBVIOUS
<1> USE DEF LoaderInv
<1>1. LoaderTypeOK'
  BY DEF SkipStage, LoaderTypeOK, Slot
<1>2. index \in Nat \ {0} /\ index' = index + 1 /\ plugin \in DOMAIN directory
  BY DirectoryType DEF SkipStage, Exported, Loading, Stages, LoaderTypeOK
<1>3. WhileLoading'
  <2>1. \A p \in DOMAIN directory : InSlots(p, 1)' <=> InSlots(p, 1)
    BY DEF SkipStage, InSlots
  <2>2. \A p \in DOMAIN directory : (p \in Contributing)' <=> p \in Contributing
    BY DEF SkipStage, Contributing
  <2>3. Gave(plugin, index - 1)' <=> Gave(plugin, index - 1)
    <3>1. Gave(plugin, index) <=> Gave(plugin, index - 1)
      BY <1>2, OneMoreGave DEF SkipStage, Stages
    <3>2. QED
      BY <1>2, <3>1 DEF SkipStage, Gave
  <2>4. QED
    BY <1>2, <2>1, <2>2, <2>3 DEF SkipStage, Exported, Loading, WhileLoading
<1>4. QED
  BY <1>1, <1>3 DEF SkipStage, Exported, Loading, RegistryBacked, SlotsInOrder, OnceLoaded,
                    WhileClosing, Descending

LEMMA RegisterStageKeeps == LoaderInv /\ RegisterStage => LoaderInv'
<1> SUFFICES ASSUME LoaderInv, RegisterStage PROVE LoaderInv'
  OBVIOUS
<1> USE DEF LoaderInv
<1> DEFINE new == [name |-> Stages[index], handle |-> plugin]
<1>1. /\ loader = "loading" /\ index \in Nat \ {0} /\ index' = index + 1
      /\ plugin \in DOMAIN directory /\ plugin \in mapped
      /\ index \in DOMAIN Stages /\ Stages[index] # Invalid /\ ~Registered(Stages[index])
      /\ registry' = Append(registry, new)
      /\ UNCHANGED <<directory, plugin, mapped, loader, slot, closed>>
  BY DirectoryType DEF RegisterStage, Exported, Loading, Fits, Stages, LoaderTypeOK, WhileLoading
<1>2. new \in Slot
  BY <1>1, DirectoryType DEF Stages, Slot
<1>3. /\ Len(registry') = Len(registry) + 1 /\ Len(registry) \in Nat
      /\ \A i \in 1 .. Len(registry) : registry'[i] = registry[i]
      /\ registry'[Len(registry) + 1] = new
      /\ DOMAIN registry' = 1 .. Len(registry) + 1 /\ DOMAIN registry = 1 .. Len(registry)
  BY <1>1, <1>2 DEF LoaderTypeOK
<1>4. LoaderTypeOK'
  BY <1>1, <1>2, <1>3 DEF LoaderTypeOK, Slot
<1>5. RegistryBacked'
  <2>1. \A i \in 1 .. Len(registry) : registry[i].name # new.name
    BY <1>1, <1>3 DEF Registered
  <2>2. QED
    BY <1>1, <1>3, <2>1 DEF RegistryBacked
<1>6. \A i \in 1 .. Len(registry) : registry[i].handle \in Nat /\ registry[i].handle <= plugin
  BY <1>1, HandleType DEF WhileLoading
<1>7. WhileLoading'
  <2>1. ASSUME NEW p \in DOMAIN directory
        PROVE  InSlots(p, 1)' <=> InSlots(p, 1) \/ p = plugin
    BY <1>1, <1>3 DEF InSlots
  <2>2. \A p \in DOMAIN directory : (p \in Contributing)' <=> p \in Contributing
    BY <1>1 DEF Contributing
  <2>3. Gave(plugin, index - 1)'
    BY <1>1 DEF Gave, Stages
  <2>4. plugin \in Nat /\ \A p \in DOMAIN directory : p \in Nat
    BY <1>1, DirectoryType
  <2>5. \A i \in 1 .. Len(registry') : registry'[i].handle <= plugin
    BY <1>3, <1>6, <2>4
  <2>6. \A p \in DOMAIN directory :
          InSlots(p, 1)' <=> \/ p < plugin /\ p \in Contributing
                             \/ p = plugin
    BY <1>1, <2>1, <2>4 DEF WhileLoading
  <2>7. QED
    BY <1>1, <2>2, <2>3, <2>5, <2>6 DEF WhileLoading
<1>8. SlotsInOrder'
  BY <1>1, <1>3, <1>6, DirectoryType DEF SlotsInOrder
<1>9. QED
  BY <1>1, <1>4, <1>5, <1>7, <1>8 DEF OnceLoaded, WhileClosing, Descending
LEMMA RefuseStageKeeps == LoaderInv /\ RefuseStage => LoaderInv'
<1> SUFFICES ASSUME LoaderInv, RefuseStage PROVE LoaderInv'
  OBVIOUS
<1> USE DEF LoaderInv
<1>1. /\ plugin \in DOMAIN directory /\ closed = <<>> /\ closed' = Append(closed, plugin)
      /\ loader' = "failed" /\ mapped' \subseteq mapped
      /\ UNCHANGED <<directory, plugin, index, registry, slot>>
  BY DEF RefuseStage, Exported, Loading, WhileLoading
<1>2. closed' = <<plugin>> /\ Len(closed') = 1
  BY <1>1
<1>3. LoaderTypeOK'
  BY <1>1, <1>2 DEF LoaderTypeOK, Slot
<1>4. SlotsInOrder' /\ Descending'
  BY <1>1, <1>2 DEF SlotsInOrder, Descending
<1>5. QED
  BY <1>1, <1>3, <1>4 DEF RegistryBacked, WhileLoading, OnceLoaded, WhileClosing

LEMMA EndPluginKeeps == LoaderInv /\ EndPlugin => LoaderInv'
<1> SUFFICES ASSUME LoaderInv, EndPlugin PROVE LoaderInv'
  OBVIOUS
<1> USE DEF LoaderInv
<1>1. /\ loader = "loading" /\ plugin \in DOMAIN directory /\ index \in Nat
      /\ index > Len(directory[plugin].stages)
      /\ plugin' = plugin + 1 /\ index' = 0
      /\ UNCHANGED <<directory, registry, mapped, loader, slot, closed>>
  BY DEF EndPlugin, Loading, Stages, LoaderTypeOK
<1>2. directory[plugin].stages \in Seq(StageName \cup {Invalid}) /\ DOMAIN directory \subseteq Nat
  BY <1>1, DirectoryType
<1>3. LoaderTypeOK'
  BY <1>1, DirectoryType DEF LoaderTypeOK, Slot
<1>4. Gave(plugin, index - 1) <=> plugin \in Contributing
  <2>1. Gave(plugin, index - 1) <=> Gave(plugin, Len(directory[plugin].stages))
    BY <1>1, <1>2 DEF Gave
  <2>2. QED
    BY <1>1, <2>1, ContributingGave
<1>5. WhileLoading'
  <2>1. \A p \in DOMAIN directory : InSlots(p, 1)' <=> InSlots(p, 1)
    BY <1>1 DEF InSlots
  <2>2. \A p \in DOMAIN directory : (p \in Contributing)' <=> p \in Contributing
    BY <1>1 DEF Contributing
  <2>3. index # 0
    BY <1>1, <1>2
  <2>4. \A p \in DOMAIN directory : InSlots(p, 1)' <=> p < plugin' /\ (p \in Contributing)'
    BY <1>1, <1>2, <1>4, <2>1, <2>2, <2>3 DEF WhileLoading
  <2>5. \A i \in 1 .. Len(registry) : registry[i].handle <= plugin'
    BY <1>1, <1>2, HandleType DEF WhileLoading
  <2>6. QED
    BY <1>1, <2>4, <2>5 DEF WhileLoading
<1>6. QED
  BY <1>1, <1>3, <1>5 DEF RegistryBacked, SlotsInOrder, OnceLoaded, WhileClosing, Descending

LEMMA LoaderDoneKeeps == LoaderInv /\ LoaderDone => LoaderInv'
<1> SUFFICES ASSUME LoaderInv, LoaderDone PROVE LoaderInv'
  OBVIOUS
<1> USE DEF LoaderInv
<1>1. /\ loader = "loading" /\ loader' = "loaded" /\ plugin \notin DOMAIN directory
      /\ UNCHANGED <<directory, plugin, index, registry, mapped, slot, closed>>
  BY DEF LoaderDone
<1>2. LoaderTypeOK'
  BY <1>1 DEF LoaderTypeOK, Slot
<1>3. OnceLoaded'
  <2>1. \A p \in DOMAIN directory : p < plugin
    BY <1>1, DirectoryType DEF LoaderTypeOK
  <2>2. \A p \in DOMAIN directory : InSlots(p, 1) <=> p \in Contributing
    BY <1>1, <2>1 DEF WhileLoading
  <2>3. \A p \in DOMAIN directory : InSlots(p, 1)' <=> (p \in Contributing)'
    BY <1>1, <2>2 DEF InSlots, Contributing
  <2>4. QED
    BY <1>1, <2>3 DEF OnceLoaded
<1>4. QED
  BY <1>1, <1>2, <1>3 DEF RegistryBacked, WhileLoading, SlotsInOrder, WhileClosing, Descending

LEMMA BeginShutdownKeeps == LoaderInv /\ BeginShutdown => LoaderInv'
<1> SUFFICES ASSUME LoaderInv, BeginShutdown PROVE LoaderInv'
  OBVIOUS
<1> USE DEF LoaderInv
<1>1. /\ loader = "loaded" /\ loader' = "closing" /\ slot' = Len(registry) /\ closed = <<>>
      /\ UNCHANGED <<directory, plugin, index, registry, mapped, closed>>
  BY DEF BeginShutdown, WhileClosing
<1>2. LoaderTypeOK'
  BY <1>1, HandleType DEF LoaderTypeOK, Slot
<1>3. OnceLoaded'
  BY <1>1 DEF OnceLoaded, InSlots, Contributing
<1>4. WhileClosing'
  <2>1. \A p : ~IsClosed(p)'
    BY <1>1 DEF IsClosed
  <2>2. \A p : ~InSlots(p, slot + 1)'
    BY <1>1, HandleType DEF InSlots
  <2>3. QED
    BY <1>1, <2>1, <2>2 DEF WhileClosing
<1>5. QED
  BY <1>1, <1>2, <1>3, <1>4 DEF RegistryBacked, WhileLoading, SlotsInOrder, Descending

LEMMA CloseSlotKeeps == LoaderInv /\ CloseSlot => LoaderInv'
<1> SUFFICES ASSUME LoaderInv, CloseSlot PROVE LoaderInv'
  OBVIOUS
<1> USE DEF LoaderInv
<1> DEFINE handle == registry[slot].handle
<1>1. /\ loader = "closing" /\ slot \in 1 .. Len(registry) /\ slot' = slot - 1
      /\ UNCHANGED <<directory, plugin, index, registry, loader>>
  BY HandleType DEF CloseSlot, LoaderTypeOK
<1>2. handle \in DOMAIN directory /\ handle \in Nat
  BY <1>1, HandleType
<1>3. \A p \in DOMAIN directory : InSlots(p, slot) <=> InSlots(p, slot + 1) \/ p = handle
  BY <1>1, HandleType DEF InSlots
<1>4. \A p \in DOMAIN directory : InSlots(p, slot + 1)' <=> InSlots(p, slot)
  BY <1>1, HandleType DEF InSlots
<1>5. ASSUME InSlots(handle, slot + 1) PROVE UNCHANGED <<mapped, closed>>
  BY <1>5 DEF CloseSlot, InSlots
<1>6. ASSUME ~InSlots(handle, slot + 1)
      PROVE  mapped' = mapped \ {handle} /\ closed' = Append(closed, handle)
  BY <1>6 DEF CloseSlot, InSlots
<1>7. closed \in Seq(DOMAIN directory) /\ Len(closed) \in Nat
  BY DEF LoaderTypeOK
<1>8. closed' \in Seq(DOMAIN directory) /\ mapped' \subseteq mapped
  BY <1>2, <1>5, <1>6, <1>7
<1>9. LoaderTypeOK'
  BY <1>1, <1>8 DEF LoaderTypeOK, Slot
<1>10. \A p \in DOMAIN directory : IsClosed(p) <=> InSlots(p, slot + 1)
  BY <1>1 DEF WhileClosing
<1>11. \A p \in DOMAIN directory : IsClosed(p)' <=> IsClosed(p) \/ p = handle
  <2>1. CASE InSlots(handle, slot + 1)
    BY <1>2, <1>5, <1>10, <2>1 DEF IsClosed
  <2>2. CASE ~InSlots(handle, slot + 1)
    BY <1>6, <1>7, <2>2 DEF IsClosed
  <2>3. QED
    BY <2>1, <2>2
<1>12. WhileClosing'
  <2>1. \A p \in DOMAIN directory : IsClosed(p)' <=> InSlots(p, slot + 1)'
    BY <1>3, <1>4, <1>10, <1>11
  <2>2. \A p \in DOMAIN directory : IsClosed(p)' => p \notin mapped'
    <3>1. \A p \in DOMAIN directory : IsClosed(p) => p \notin mapped
      BY <1>1 DEF WhileClosing
    <3>2. handle \notin mapped'
      BY <1>2, <1>5, <1>6, <1>10, <3>1
    <3>3. QED
      BY <1>8, <1>11, <3>1, <3>2
  <2>3. QED
    BY <1>1, <2>1, <2>2 DEF WhileClosing
<1>13. Descending'
  <2>1. CASE InSlots(handle, slot + 1)
    BY <1>5, <2>1 DEF Descending
  <2>2. CASE ~InSlots(handle, slot + 1)
    <3>1. ASSUME NEW i \in 1 .. Len(closed) PROVE closed[i] > handle
      <4>1. closed[i] \in DOMAIN directory /\ IsClosed(closed[i])
        BY <1>7 DEF IsClosed
      <4>2. PICK j \in slot + 1 .. Len(registry) : registry[j].handle = closed[i]
        BY <1>10, <4>1 DEF InSlots
      <4>3. closed[i] # handle
        BY <1>10, <2>2, <4>1
      <4>4. j \in 1 .. Len(registry) /\ slot <= j
        BY <1>1, HandleType
      <4>5. closed[i] >= handle /\ closed[i] \in Nat
        BY <1>1, <4>2, <4>4, HandleType DEF SlotsInOrder
      <4>6. QED
        BY <1>2, <4>3, <4>5
    <3>2. QED
      BY <1>2, <1>6, <1>7, <2>2, <3>1 DEF Descending
  <2>3. QED
    BY <2>1, <2>2
<1>14. OnceLoaded' /\ SlotsInOrder'
  BY <1>1 DEF OnceLoaded, SlotsInOrder, InSlots, Contributing
<1>15. QED
  BY <1>1, <1>9, <1>12, <1>13, <1>14 DEF RegistryBacked, WhileLoading

LEMMA ShutdownDoneKeeps == LoaderInv /\ ShutdownDone => LoaderInv'
<1> SUFFICES ASSUME LoaderInv, ShutdownDone PROVE LoaderInv'
  OBVIOUS
<1> USE DEF LoaderInv
<1>1. /\ loader = "closing" /\ loader' = "closed" /\ slot = 0 /\ registry' = <<>> /\ Len(registry') = 0
      /\ UNCHANGED <<directory, plugin, index, mapped, slot, closed>>
  BY DEF ShutdownDone
<1>2. LoaderTypeOK'
  BY <1>1 DEF LoaderTypeOK, Slot
<1>3. WhileClosing'
  <2>1. \A p \in DOMAIN directory : IsClosed(p) <=> p \in Contributing
    BY <1>1 DEF WhileClosing, OnceLoaded
  <2>2. \A p \in DOMAIN directory : (IsClosed(p)' <=> IsClosed(p))
                                 /\ ((p \in Contributing)' <=> p \in Contributing)
    BY <1>1 DEF IsClosed, Contributing
  <2>3. QED
    BY <1>1, <2>1, <2>2 DEF WhileClosing
<1>4. QED
  BY <1>1, <1>2, <1>3 DEF RegistryBacked, WhileLoading, SlotsInOrder, OnceLoaded, Descending

LEMMA LoaderSteps == LoaderInv /\ [Load \/ Shutdown]_loaderVars => LoaderInv'
<1> SUFFICES ASSUME LoaderInv, [Load \/ Shutdown]_loaderVars PROVE LoaderInv'
  OBVIOUS
<1>1. CASE Load
  BY <1>1, SkipPluginKeeps, OpenPluginKeeps, SkipStageKeeps, RegisterStageKeeps, RefuseStageKeeps,
     EndPluginKeeps, LoaderDoneKeeps DEF Load
<1>2. CASE Shutdown
  BY <1>2, BeginShutdownKeeps, CloseSlotKeeps, ShutdownDoneKeeps DEF Shutdown
<1>3. CASE UNCHANGED loaderVars
  BY <1>3 DEF loaderVars, LoaderInv, LoaderTypeOK, Slot, RegistryBacked, WhileLoading, SlotsInOrder,
              OnceLoaded, WhileClosing, Descending, InSlots, IsClosed, Gave, Contributing
<1>4. QED
  BY <1>1, <1>2, <1>3

LEMMA InvGivesClosedOnce == LoaderInv => ClosedOnce
<1> SUFFICES ASSUME LoaderInv PROVE ClosedOnce
  OBVIOUS
<1> USE DEF LoaderInv
<1>1. closed \in Seq(DOMAIN directory) /\ DOMAIN closed = 1 .. Len(closed)
  BY DEF LoaderTypeOK
<1>2. ASSUME loader = "closed"
      PROVE  {closed[i] : i \in DOMAIN closed} = Contributing /\ mapped \cap Contributing = {}
  <2>1. \A p \in DOMAIN directory : (IsClosed(p) <=> p \in Contributing)
                                 /\ (IsClosed(p) => p \notin mapped)
    BY <1>2 DEF WhileClosing
  <2>2. Contributing \subseteq DOMAIN directory
    BY DEF Contributing
  <2>3. \A p : p \in {closed[i] : i \in DOMAIN closed} <=> p \in DOMAIN directory /\ IsClosed(p)
    BY <1>1 DEF IsClosed
  <2>4. QED
    BY <2>1, <2>2, <2>3
<1>3. QED
  BY <1>1, <1>2 DEF ClosedOnce, Descending

LEMMA LoaderInvariant == LoaderSpec => []LoaderInv
<1>1. QED
  BY LoaderStarts, LoaderSteps, PTL DEF LoaderSpec

\* plugin_loader.c, for every directory and every size of the registry: until the
\* shutdown begins no name is registered twice, and no stage is one of a plugin
\* that has been closed.
THEOREM StagesStayBacked == LoaderSpec => []RegistryBacked
<1>1. LoaderInv => RegistryBacked
  BY DEF LoaderInv
<1>2. QED
  BY <1>1, LoaderInvariant, PTL

\* plugin_loader_shutdown(): no handle is closed twice, the newest goes first, and
\* in the end every plugin that gave a stage has been closed.
THEOREM HandlesCloseOnce == LoaderSpec => []ClosedOnce
BY LoaderInvariant, InvGivesClosedOnce, PTL

-------------------------------------------------------------------------------
\* Which names can be found: those that some plugin of the directory offers, so that
\* every process image that gets as far finds the same ones.

Offered(n) ==
  \E p \in DOMAIN directory : \E i \in DOMAIN directory[p].stages : directory[p].stages[i] = n

SeenIn(p, i) == p < plugin \/ (p = plugin /\ i < index)
Seen(n) ==
  \E p \in DOMAIN directory : \E i \in DOMAIN directory[p].stages :
    directory[p].stages[i] = n /\ SeenIn(p, i)

NamesFound ==
  /\ loader = "loading" => \A n \in StageName : Registered(n) <=> Seen(n)
  /\ loader = "loaded"  => \A n \in StageName : Registered(n) <=> Offered(n)

LEMMA NamesStart == LoaderInit => NamesFound
<1> SUFFICES ASSUME LoaderInit PROVE NamesFound
  OBVIOUS
<1>1. LoaderTypeOK
  BY LoaderStarts DEF LoaderInv
<1>2. \A n : ~Registered(n)
  BY DEF LoaderInit, Registered
<1>3. \A n : ~Seen(n)
  BY <1>1, DirectoryType DEF LoaderInit, Seen, SeenIn
<1>4. QED
  BY <1>2, <1>3 DEF LoaderInit, NamesFound

LEMMA NamesSteps == LoaderInv /\ NamesFound /\ [Load \/ Shutdown]_loaderVars => NamesFound'
<1> SUFFICES ASSUME LoaderInv, NamesFound, [Load \/ Shutdown]_loaderVars PROVE NamesFound'
  OBVIOUS
<1>1. LoaderTypeOK
  BY DEF LoaderInv
<1>2. /\ plugin \in Nat /\ index \in Nat /\ DOMAIN directory \subseteq Nat
      /\ \A p \in DOMAIN directory : /\ DOMAIN directory[p].stages = 1 .. Len(directory[p].stages)
                                     /\ Len(directory[p].stages) \in Nat
  BY <1>1, DirectoryType DEF LoaderTypeOK
  \* A step that registers nothing and, of the good descriptors, passes over none.
<1>3. ASSUME loader = "loading", loader' = "loading", UNCHANGED <<directory, registry>>,
             \A p \in DOMAIN directory : \A i \in DOMAIN directory[p].stages :
               directory[p].stages[i] # Invalid => (SeenIn(p, i)' <=> SeenIn(p, i))
      PROVE  NamesFound'
  <2>1. \A n \in StageName : Seen(n)' <=> Seen(n)
    BY <1>3, PluginAssumption DEF Seen
  <2>2. QED
    BY <1>3, <2>1 DEF NamesFound, Registered
<1>4. CASE SkipPlugin
  <2>1. directory[plugin].stages = <<>>
    BY <1>1, <1>4, DirectoryType DEF SkipPlugin, Loading
  <2>2. ASSUME NEW p \in DOMAIN directory, NEW i \in DOMAIN directory[p].stages
        PROVE  SeenIn(p, i)' <=> SeenIn(p, i)
    <3>1. p # plugin
      BY <2>1
    <3>2. index = 0 /\ index' = 0 /\ plugin' = plugin + 1
      BY <1>4 DEF SkipPlugin
    <3>3. QED
      BY <1>2, <3>1, <3>2 DEF SeenIn
  <2>3. QED
    BY <1>3, <1>4, <2>2 DEF SkipPlugin, Loading
<1>5. CASE OpenPlugin
  <2>1. \A p \in DOMAIN directory : \A i \in DOMAIN directory[p].stages : SeenIn(p, i)' <=> SeenIn(p, i)
    BY <1>2, <1>5 DEF OpenPlugin, SeenIn
  <2>2. QED
    BY <1>3, <1>5, <2>1 DEF OpenPlugin, Loading
<1>6. CASE SkipStage
  <2>1. \A p \in DOMAIN directory : \A i \in DOMAIN directory[p].stages :
          directory[p].stages[i] # Invalid => (SeenIn(p, i)' <=> SeenIn(p, i))
    BY <1>2, <1>6 DEF SkipStage, Stages, SeenIn
  <2>2. QED
    BY <1>3, <1>6, <2>1 DEF SkipStage, Exported, Loading
<1>7. CASE EndPlugin
  <2>1. \A p \in DOMAIN directory : \A i \in DOMAIN directory[p].stages : SeenIn(p, i)' <=> SeenIn(p, i)
    BY <1>2, <1>7 DEF EndPlugin, Stages, SeenIn
  <2>2. QED
    BY <1>3, <1>7, <2>1 DEF EndPlugin, Loading
<1>8. CASE RegisterStage
  <2>1. /\ loader = "loading" /\ loader' = "loading" /\ plugin \in DOMAIN directory
        /\ index \in DOMAIN directory[plugin].stages /\ index' = index + 1
        /\ registry' = Append(registry, [name |-> directory[plugin].stages[index], handle |-> plugin])
        /\ UNCHANGED <<directory, plugin>>
    BY <1>8 DEF RegisterStage, Exported, Loading, Stages
  <2>2. Len(registry) \in Nat /\ DOMAIN registry = 1 .. Len(registry)
    BY <1>1, HandleType
  <2>3. ASSUME NEW n \in StageName
        PROVE  Registered(n)' <=> Registered(n) \/ n = directory[plugin].stages[index]
    <3>1. /\ registry \in Seq(Slot) /\ DOMAIN registry' = 1 .. Len(registry) + 1
          /\ \A i \in 1 .. Len(registry) : registry'[i] = registry[i]
          /\ registry'[Len(registry) + 1].name = directory[plugin].stages[index]
      BY <1>1, <2>1, <2>2 DEF LoaderTypeOK
    <3>2. QED
      BY <2>2, <3>1 DEF Registered
  <2>4. ASSUME NEW n \in StageName
        PROVE  Seen(n)' <=> Seen(n) \/ n = directory[plugin].stages[index]
    <3>1. \A p \in DOMAIN directory : \A i \in DOMAIN directory[p].stages :
            SeenIn(p, i)' <=> SeenIn(p, i) \/ (p = plugin /\ i = index)
      BY <1>2, <2>1 DEF SeenIn
    <3>2. QED
      BY <2>1, <3>1 DEF Seen
  <2>5. QED
    BY <2>1, <2>3, <2>4 DEF NamesFound
<1>9. CASE LoaderDone
  <2>1. \A p \in DOMAIN directory : p < plugin
    BY <1>1, <1>9, DirectoryType DEF LoaderDone, LoaderTypeOK
  <2>2. \A n \in StageName : Seen(n) <=> Offered(n)
    BY <2>1 DEF Seen, SeenIn, Offered
  <2>3. QED
    BY <1>9, <2>2 DEF LoaderDone, NamesFound, Registered, Offered
<1>10. CASE RefuseStage \/ Shutdown
  <2>1. loader' \notin {"loading", "loaded"}
    BY <1>10 DEF RefuseStage, Shutdown, BeginShutdown, CloseSlot, ShutdownDone
  <2>2. QED
    BY <2>1 DEF NamesFound
<1>11. CASE UNCHANGED loaderVars
  BY <1>11 DEF loaderVars, NamesFound, Registered, Seen, SeenIn, Offered
<1>12. QED
  BY <1>4, <1>5, <1>6, <1>7, <1>8, <1>9, <1>10, <1>11 DEF Load
===============================================================================
