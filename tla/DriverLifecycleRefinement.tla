--------------------- MODULE DriverLifecycleRefinement ---------------------
(***************************************************************************)
(* With one writer, the driver implements LoadedLog from load to load: the *)
(* log is that of AesdCharRefinement while the cdev is there.  The ring is *)
(* not looked at before: what kmalloc returned is no log.                  *)
(***************************************************************************)
EXTENDS DriverLifecycle, AesdCharRefinement

LoadedLogOfRing == IF cdev THEN LogOfRing ELSE <<>>

LL == INSTANCE LoadedLog WITH log <- LoadedLogOfRing, pending <- PendingOfBuffer,
                              pos <- f_pos, got <- ubuf, there <- cdev

\* A device that has just been loaded holds nothing of an earlier life, not even
\* when a load failed in between or a process died in the driver, and no call has
\* any effect while it is not loaded (main.c:350-459, aesdchar_load:20-23).
ImplementsLoadedLog == LL!LoadedSpec
=============================================================================
