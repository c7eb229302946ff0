-------------------------- MODULE DriverLifecycle --------------------------
(***************************************************************************)
(* Loading and unloading the driver (aesd_init_module, aesd_setup_cdev and *)
(* aesd_cleanup_module of aesd-char-driver/main.c, with the scripts        *)
(* aesdchar_load and aesdchar_unload), around the calls of AesdChar:       *)
(*                                                                         *)
(*   out --> region --> ring --> buffer --> ready --> in --> out           *)
(*                                                                         *)
(* Every step of the load can fail, and each failure undoes in its own way *)
(* what was done before.  The module's own variables are gone with it: a   *)
(* pointer that is then still owned is lost.  What the kernel does after it *)
(* was misused is not modelled: the load goes on as the code has it.       *)
(***************************************************************************)
EXTENDS AesdChar

CONSTANTS
  Wild,      \* a pointer that memory fresh from kmalloc may happen to hold
  MaxLoads   \* BOUND: how often the module is loaded

ASSUME LifecycleAssumption ==
  /\ Wild \notin Blocks \cup {NULL, ZeroPtr}
  /\ MaxLoads \in Nat

VARIABLES
  module,   \* how far the load is
  script,   \* the step that the running script has left to do
  node,     \* what /dev/aesdchar leads to
  region,   \* whether the device number is registered
  cdev,     \* whether the cdev has been added
  owned,    \* which of the two buffers dev points to
  lost,     \* how many buffers were never given back
  misuse,   \* what was handed to the kernel that it must not be handed
  loads     \* how often the module was loaded

lifeVars == <<module, script, node, region, cdev, owned, lost, misuse, loads>>
allVars  == <<vars, lifeVars>>

procVars == <<f_pos, pc, callVars>>

LifeInit ==
  /\ Init
  /\ module = "out" /\ script = "idle" /\ node = "none"
  /\ region = FALSE /\ cdev = FALSE /\ owned = {}
  /\ lost = 0 /\ misuse = {} /\ loads = 0

-----------------------------------------------------------------------------
(* aesd_cleanup_module, called by rmmod and by two failures of the load. *)

\* Mutant of FreedSlots: the loop stops at the slot that is written next.
FreedSlots_UntilIn == {i \in Slots : i < circular_buffer.in_offs}

\* The slots the loop goes over.
FreedSlots == Slots

\* kfree must get what kmalloc returned, and each block once.
WrongFrees ==
  {i \in FreedSlots :
     LET ptr == circular_buffer.entry[i].buffptr
     IN  \/ ptr = Wild
         \/ ptr \in Blocks /\ heap[ptr] = NULL
         \/ ptr \in Blocks /\ \E j \in FreedSlots : j < i /\ circular_buffer.entry[j].buffptr = ptr}

\* The write buffer is freed only where there is a ring.
aesd_cleanup_module ==
  /\ misuse' = misuse \cup {m \in {"cdev_del", "kfree"} :
                              \/ m = "cdev_del" /\ ~cdev
                              \/ m = "kfree" /\ "ring" \in owned /\ WrongFrees # {}}
  /\ IF "ring" \in owned
     THEN heap' = [b \in Blocks |->
                     IF \E i \in FreedSlots : circular_buffer.entry[i].buffptr = b
                     THEN NULL ELSE heap[b]]
     ELSE UNCHANGED heap
  /\ lost' = lost + IF "ring" \in owned THEN 0 ELSE Cardinality(owned)
  /\ region' = FALSE /\ cdev' = FALSE

\* The module and its variables are gone.
Gone ==
  /\ module' = "out"
  /\ owned' = {}
  /\ circular_buffer' = EmptyBuffer
  /\ write_buffer_index' = 0
  /\ lock' = NULL
  /\ UNCHANGED <<write_buffer, procVars, loads>>

-----------------------------------------------------------------------------
(* aesdchar_load: insmod, which runs aesd_init_module, then mknod. *)

Stage(from, to) == module = from /\ module' = to

\* A failure of alloc_chrdev_region leaves everything as it was.
AllocRegion ==
  /\ script = "idle" /\ loads < MaxLoads
  /\ Stage("out", "region")
  /\ region' = TRUE
  /\ loads' = loads + 1
  /\ UNCHANGED <<vars, script, node, cdev, owned, lost, misuse>>

\* The ring's memory is not cleared yet: its pointers and its flag may be anything.
AllocRing ==
  /\ Stage("region", "ring")
  /\ owned' = {"ring"}
  /\ \E ptrs \in [Slots -> {NULL, Wild}], full \in BOOLEAN :
       circular_buffer' = [EmptyBuffer EXCEPT
                             !.entry = [i \in Slots |-> [buffptr |-> ptrs[i], size |-> 0]],
                             !.full = full]
  /\ UNCHANGED <<write_buffer, write_buffer_index, heap, lock, procVars,
                 script, node, region, cdev, lost, misuse, loads>>

AllocBuffer ==
  /\ Stage("ring", "buffer")
  /\ owned' = owned \cup {"write_buffer"}
  /\ write_buffer' \in [0 .. MaxWriteSize - 1 -> Garbage]
  /\ UNCHANGED <<circular_buffer, write_buffer_index, heap, lock, procVars,
                 script, node, region, cdev, lost, misuse, loads>>

\* Mutant of InitRing: the ring is used as kmalloc returned it.
InitRing_Forgotten ==
  /\ Stage("buffer", "ready")
  /\ UNCHANGED <<vars, script, node, region, cdev, owned, lost, misuse, loads>>

\* aesd_circular_buffer_init and mutex_init.
InitRing ==
  /\ Stage("buffer", "ready")
  /\ circular_buffer' = EmptyBuffer
  /\ lock' = NULL
  /\ UNCHANGED <<write_buffer, write_buffer_index, heap, procVars,
                 script, node, region, cdev, owned, lost, misuse, loads>>

\* aesd_setup_cdev: from here on the device can be opened.
AddCdev ==
  /\ Stage("ready", "in")
  /\ cdev' = TRUE
  /\ script' = "mknod"
  /\ UNCHANGED <<vars, node, region, owned, lost, misuse, loads>>

\* Mutant of AllocFails: cleanup is forgotten.
AllocFails_NoCleanup ==
  /\ module \in {"region", "ring"}
  /\ lost' = lost + Cardinality(owned)
  /\ Gone
  /\ UNCHANGED <<heap, script, node, region, cdev, misuse>>

\* kmalloc fails for the ring, or for the write buffer.
AllocFails ==
  /\ module \in {"region", "ring"}
  /\ aesd_cleanup_module
  /\ Gone
  /\ UNCHANGED <<script, node>>

\* cdev_add fails: only the device number is given back.
AddCdevFails ==
  /\ module = "ready"
  /\ region' = FALSE
  /\ lost' = lost + Cardinality(owned)
  /\ Gone
  /\ UNCHANGED <<heap, script, node, cdev, misuse>>

\* rm -f and mknod, with the device number that the module has now.
Mknod ==
  /\ script = "mknod" /\ script' = "idle"
  /\ node' = "module"
  /\ UNCHANGED <<vars, module, region, cdev, owned, lost, misuse, loads>>

-----------------------------------------------------------------------------
(* aesdchar_unload: rmmod, which fails while a file is open, then rm. *)

\* A killed process has its files closed by the kernel.
NoFileOpen == \A p \in Procs : pc[p] \in {"closed", "killed"}

\* Mutant of Rmmod: the script does not remove the node.
Rmmod_NodeStays ==
  /\ module = "in" /\ script = "idle" /\ NoFileOpen
  /\ aesd_cleanup_module
  /\ Gone
  /\ node' = "nothing" /\ UNCHANGED script

Rmmod ==
  /\ module = "in" /\ script = "idle" /\ NoFileOpen
  /\ aesd_cleanup_module
  /\ Gone
  /\ script' = "rm" /\ node' = "nothing"

RmNode ==
  /\ script = "rm" /\ script' = "idle"
  /\ node' = "none"
  /\ UNCHANGED <<vars, module, region, cdev, owned, lost, misuse, loads>>

-----------------------------------------------------------------------------
\* Calls on the device: it is opened by its node, through the cdev.
Use ==
  /\ cdev
  /\ Next
  /\ node = "module" \/ \A p \in Procs : ~aesd_open(p)
  /\ UNCHANGED lifeVars

LifeNext ==
  \/ Use
  \/ AllocRegion \/ AllocRing \/ AllocBuffer \/ InitRing \/ AddCdev
  \/ AllocFails \/ AddCdevFails \/ Mknod \/ Rmmod \/ RmNode

LifeSpec == LifeInit /\ [][LifeNext]_allVars

-----------------------------------------------------------------------------
Loading == {"region", "ring", "buffer", "ready"}

\* The types of what load and unload keep; the device number and the cdev are
\* there exactly as long as the module is.
LifeTypeOK ==
  /\ module \in Loading \cup {"out", "in"}
  /\ script \in {"idle", "mknod", "rm"}
  /\ node \in {"none", "module", "nothing"}
  /\ region = (module # "out") /\ cdev = (module = "in")
  /\ owned \subseteq {"ring", "write_buffer"}
  /\ lost \in Nat
  /\ misuse \subseteq {"cdev_del", "kfree"}
  /\ loads \in Nat

\* Whoever can reach the device finds it sound, after any number of loads: the
\* ring is cleared and the mutex initialised before cdev_add (main.c:407-411),
\* also when an earlier load failed, or an earlier user was killed in a call.
DeviceSoundWhenReachable ==
  cdev => TypeOK /\ HeapOwned /\ RingShape

\* Unloading gives back all memory, each block once, whatever the ring held and
\* wherever it had wrapped to (main.c:433-457).
UnloadIsClean ==
  [][module = "in" /\ module' = "out" =>
       /\ \A b \in Blocks : heap'[b] = NULL
       /\ ~region' /\ UNCHANGED <<lost, misuse>>]_allVars

\* A load that fails gives back the device number and harms no memory but in
\* two ways: cdev_add's failure loses both buffers (main.c:413-416), and when
\* there is none for the write buffer, kfree may get what the ring's fresh
\* memory happened to hold (main.c:403, 437-443).
FailedLoad ==
  [][module' = "out" /\ module \in Loading =>
       /\ ~region' /\ UNCHANGED heap
       /\ lost' = lost + (IF module = "ready" THEN 2 ELSE 0)
       /\ ("kfree" \in misuse' \ misuse => module = "ring")]_allVars

\* Between two scripts there is a node exactly when the module is there.
NodeLeadsToModule ==
  script = "idle" => node = IF module = "in" THEN "module" ELSE "none"

\* The kernel's books, the scripts' and the module's own agree, after any number
\* of loads and failures: device number and cdev (main.c:353-418, 425, 457), and
\* the node (aesdchar_load:21-23, aesdchar_unload:6-10).
BooksAgree == LifeTypeOK /\ NodeLeadsToModule
=============================================================================
