------------------------------ MODULE MCStorage -------------------------------
(***************************************************************************)
(* Instances of the data path. OriginCache: three sectors; block 0 has two *)
(* of them, so that a request can cover it in part, block 1 has one, and   *)
(* address 4 lies past the end of the device. GpuCachePolicy: three        *)
(* chunks, and readings whose targets are 0, 1, 3 and more than fits;      *)
(* total = 6 makes a fifth of the VRAM round up to 2. IsolatedOrigin: a    *)
(* data queue of two requests and one block, for a request names one block *)
(* and blocks share nothing but the queue. A behaviour is about one of the *)
(* components; its first state chooses among Focus.                        *)
(***************************************************************************)
EXTENDS OriginCache, GpuCachePolicy, IsolatedOrigin, VulkanProvider

CONSTANT Focus
VARIABLE focus

MCSectors == 1..3
MCValues == {0, 1}
MCRanges == {{}, {1, 2}, {2, 3}, {3, 4}}
MCBlocks == {0, 1}
MCChunks == {0}
MCBlockOf == [s \in MCSectors |-> IF s <= 2 THEN 0 ELSE 1]
MCChunkOf == [b \in MCBlocks |-> 0]

MCGcChunks == 0..2
Reading(b, e) == [budget |-> b, external |-> e, total |-> 6]
MCGcSamples == {Reading(6, 5), Reading(6, 3), Reading(6, 1), Reading(9, 0)}

storageVars == <<focus, vars, gcVars, isoVars, vkVars>>

StorageInit ==
  /\ focus \in Focus
  /\ Init /\ GcInit /\ IsoInit /\ VkInit
  /\ focus # "cache" => origin = [s \in Sectors |-> Zero]
  /\ focus # "isolated" => isoOrigin = [b \in IsoBlocks |-> CHOOSE v \in IsoValues : TRUE]

StorageNext ==
  /\ UNCHANGED focus
  /\ \/ focus = "cache" /\ Next /\ UNCHANGED <<gcVars, isoVars, vkVars>>
     \/ focus = "gpucache" /\ GcNext /\ UNCHANGED <<vars, isoVars, vkVars>>
     \/ focus = "isolated" /\ IsoNext /\ UNCHANGED <<vars, gcVars, vkVars>>
     \/ focus = "vulkan" /\ VkNext /\ UNCHANGED <<vars, gcVars, isoVars>>

\* The fairness of the components, each for its own behaviours.
StorageSpec ==
  /\ StorageInit /\ [][StorageNext]_storageVars
  /\ WF_gcVars(focus = "gpucache" /\ GcObserve)
  /\ WF_isoVars(focus = "isolated" /\ Proceed)

\* The reply of the cache is looked at in the step that gives it.
StorageView == <<focus, originVars, cacheVars, healthVars, dirty, gcVars, isoVars, vkVars>>
===============================================================================
