----------------------- MODULE DriverLifecycleProofs -----------------------
(***************************************************************************)
(* Loading and unloading, for any ring, any users and any number of loads. *)
(***************************************************************************)
EXTENDS DriverLifecycleRefinement, AesdCharRefinementProofs

USE RingAssumption, DriverAssumption

\* What stays from one load to the next: the users of the device.
UsersType ==
  /\ write_buffer \in [0 .. MaxWriteSize - 1 -> Byte]
  /\ f_pos \in [Procs -> Nat]
  /\ pc \in [Procs -> InCall \cup {"closed", "idle", "done"}]
  /\ req \in [Procs -> Request]
  /\ \A p \in Procs : pc[p] \in {"closed", "idle"} <=> req[p].op = "none"
  /\ ret \in [Procs -> Int]
  /\ ubuf \in [Procs -> Seq(Byte)]

\* The driver while nobody can reach it.
Unreachable ==
  /\ NoFileOpen /\ UsersType
  /\ heap = [b \in Blocks |-> NULL]
  /\ write_buffer_index = 0 /\ lock = NULL
  /\ module = "ready" => circular_buffer = EmptyBuffer

\* Which buffers have been allocated at each stage.
OwnedByStage ==
  /\ module \in {"out", "region"} => owned = {}
  /\ module = "ring" => owned = {"ring"}
  /\ module \in {"buffer", "ready", "in"} => owned = {"ring", "write_buffer"}

NodeInv ==
  /\ NodeLeadsToModule
  /\ script = "mknod" => module = "in"
  /\ script = "rm" => module = "out"

LifeInv ==
  /\ LifeTypeOK /\ OwnedByStage /\ NodeInv
  /\ module = "in" => Inv
  /\ module # "in" => Unreachable

-----------------------------------------------------------------------------
LEMMA LifeInitInv == LifeInit => LifeInv
<1> SUFFICES ASSUME LifeInit PROVE LifeInv
  OBVIOUS
<1>1. Inv
  BY InitInv DEF LifeInit
<1>2. Unreachable
  BY <1>1 DEF LifeInit, Init, Unreachable, UsersType, NoFileOpen, Inv, TypeOK
<1>3. LifeTypeOK /\ OwnedByStage /\ NodeInv
  BY DEF LifeInit, LifeTypeOK, OwnedByStage, NodeInv, NodeLeadsToModule
<1> QED
  BY <1>2, <1>3 DEF LifeInv, LifeInit

\* A cleared ring and empty memory are all that the driver needs to be sound.
LEMMA ClearedIsSound ==
  ASSUME Unreachable, circular_buffer = EmptyBuffer
  PROVE  Inv
<1>1. circular_buffer \in Ring /\ write_buffer_index \in Nat
  BY DEF Unreachable, Ring, Entry, EmptyBuffer, EmptyEntry, Slots
<1>2. heap \in [Blocks -> Line \cup {NULL}] /\ lock \in Procs \cup {NULL}
  BY DEF Unreachable
<1>3. TypeOK
  BY <1>1, <1>2 DEF Unreachable, UsersType, TypeOK
<1>4. \A i \in Slots : ~Live(i)
  BY DEF Live, EmptyBuffer, EmptyEntry
<1>5. \A b \in Blocks : heap[b] = NULL
  BY DEF Unreachable
<1>6. HeapOwned
  BY <1>4, <1>5 DEF HeapOwned
<1>7. RingShape
  BY DEF RingShape, EmptyBuffer, EmptyEntry, Slots
<1> QED
  BY <1>3, <1>6, <1>7 DEF Inv

\* With a sound ring, cleanup frees all blocks, and each once.
LEMMA CleanupFreesAll ==
  ASSUME Inv, "ring" \in owned, cdev, misuse \subseteq {"cdev_del", "kfree"},
         aesd_cleanup_module
  PROVE  heap' = [b \in Blocks |-> NULL] /\ UNCHANGED misuse
<1>1. WrongFrees = {}
  <2> SUFFICES ASSUME NEW i \in Slots, i \in WrongFrees PROVE FALSE
    BY DEF WrongFrees, FreedSlots
  <2>1. circular_buffer.entry[i].buffptr # Wild
    BY RingType, LifecycleAssumption DEF Inv
  <2>2. circular_buffer.entry[i].buffptr \in Blocks =>
          heap[circular_buffer.entry[i].buffptr] # NULL
    BY DEF Inv, HeapOwned, Live
  <2>3. \A j \in Slots :
          /\ circular_buffer.entry[i].buffptr \in Blocks
          /\ circular_buffer.entry[j].buffptr = circular_buffer.entry[i].buffptr
          => i = j
    BY DEF Inv, HeapOwned, Live
  <2> QED
    BY <2>1, <2>2, <2>3 DEF WrongFrees, FreedSlots, Slots
<1>2. UNCHANGED misuse
  BY <1>1 DEF aesd_cleanup_module
<1>3. \A b \in Blocks :
        heap[b] = NULL \/ \E i \in FreedSlots : circular_buffer.entry[i].buffptr = b
  BY DEF Inv, HeapOwned, FreedSlots
<1> QED
  BY <1>2, <1>3 DEF aesd_cleanup_module

\* In a ring that was never used there is no block to free.
LEMMA CleanupFreesNothing ==
  ASSUME heap = [b \in Blocks |-> NULL], aesd_cleanup_module
  PROVE  UNCHANGED heap
BY DEF aesd_cleanup_module

LEMMA GoneUsers ==
  ASSUME UsersType, NoFileOpen, Gone
  PROVE  UsersType' /\ NoFileOpen'
BY DEF UsersType, NoFileOpen, Gone, procVars, callVars

-----------------------------------------------------------------------------
LEMMA UseInv == LifeInv /\ Use => LifeInv'
<1> SUFFICES ASSUME LifeInv, Use PROVE LifeInv'
  OBVIOUS
<1>1. module = "in" /\ Inv
  BY DEF LifeInv, LifeTypeOK, Use
<1>2. Inv'
  BY <1>1, NextInv DEF Use
<1>3. LifeTypeOK' /\ OwnedByStage' /\ NodeInv' /\ module' = "in"
  BY <1>1 DEF LifeInv, Use, lifeVars, LifeTypeOK, OwnedByStage, NodeInv, NodeLeadsToModule
<1> QED
  BY <1>2, <1>3 DEF LifeInv

LEMMA LoadInv ==
  ASSUME LifeInv, AllocRegion \/ AllocRing \/ AllocBuffer \/ InitRing
  PROVE  LifeInv'
<1> USE DEF Stage, vars, devVars, callVars, procVars
<1>1. Unreachable /\ module # "in"
  BY DEF LifeInv, AllocRegion, AllocRing, AllocBuffer, InitRing
<1>2. LifeTypeOK'
  <2>1. LifeTypeOK
    BY DEF LifeInv
  <2>2. CASE AllocRegion
    <3>1. module = "out" /\ module' = "region" /\ region' = TRUE /\ loads' = loads + 1
      BY <2>2 DEF AllocRegion
    <3>2. UNCHANGED <<script, node, cdev, owned, lost, misuse>>
      BY <2>2 DEF AllocRegion
    <3>3. cdev = FALSE /\ cdev' = (module' = "in") /\ region' = (module' # "out")
      BY <2>1, <3>1, <3>2, Zenon DEF LifeTypeOK
    <3>4. /\ module' \in Loading \cup {"out", "in"} /\ loads' \in Nat
          /\ script' \in {"idle", "mknod", "rm"} /\ node' \in {"none", "module", "nothing"}
          /\ owned' \subseteq {"ring", "write_buffer"}
          /\ lost' \in Nat /\ misuse' \subseteq {"cdev_del", "kfree"}
      BY <2>1, <3>1, <3>2, SMT DEF LifeTypeOK, Loading
    <3> QED
      BY <3>3, <3>4 DEF LifeTypeOK
  <2>3. CASE AllocRing
    BY <2>1, <2>3 DEF LifeTypeOK, Loading, AllocRing
  <2>4. CASE AllocBuffer
    BY <2>1, <2>4 DEF LifeTypeOK, Loading, AllocBuffer
  <2>5. CASE InitRing
    BY <2>1, <2>5 DEF LifeTypeOK, Loading, InitRing
  <2> QED
    BY <2>2, <2>3, <2>4, <2>5
<1>3. OwnedByStage'
  BY DEF LifeInv, OwnedByStage, AllocRegion, AllocRing, AllocBuffer, InitRing
<1>4. NodeInv'
  BY DEF LifeInv, NodeInv, NodeLeadsToModule, AllocRegion, AllocRing, AllocBuffer, InitRing
<1>5. Unreachable' /\ module' # "in"
  <2>1. NoFileOpen'
    BY <1>1 DEF Unreachable, NoFileOpen, AllocRegion, AllocRing, AllocBuffer, InitRing
  <2>2. UsersType'
    <3>1. UsersType
      BY <1>1 DEF Unreachable
    <3>2. write_buffer' \in [0 .. MaxWriteSize - 1 -> Byte]
      <4>1. CASE AllocBuffer
        BY <4>1 DEF AllocBuffer
      <4>2. CASE AllocRegion \/ AllocRing \/ InitRing
        BY <3>1, <4>2 DEF UsersType, AllocRegion, AllocRing, InitRing
      <4> QED
        BY <4>1, <4>2
    <3>3. UNCHANGED <<f_pos, pc, callVars>>
      BY DEF AllocRegion, AllocRing, AllocBuffer, InitRing
    <3> QED
      BY <3>1, <3>2, <3>3 DEF UsersType
  <2> QED
    BY <1>1, <2>1, <2>2 DEF Unreachable, AllocRegion, AllocRing, AllocBuffer, InitRing
<1> QED
  BY <1>2, <1>3, <1>4, <1>5 DEF LifeInv

LEMMA AddCdevInv == LifeInv /\ AddCdev => LifeInv'
<1> SUFFICES ASSUME LifeInv, AddCdev PROVE LifeInv'
  OBVIOUS
<1> USE DEF Stage
<1>1. Inv
  BY ClearedIsSound DEF LifeInv, AddCdev, Unreachable
<1>2. Inv'
  BY <1>1, NextInv DEF AddCdev
<1>3. LifeTypeOK' /\ OwnedByStage' /\ NodeInv' /\ module' = "in"
  BY DEF LifeInv, AddCdev, LifeTypeOK, Loading, OwnedByStage, NodeInv, NodeLeadsToModule
<1> QED
  BY <1>2, <1>3 DEF LifeInv

LEMMA OwnedCount ==
  ASSUME LifeTypeOK, OwnedByStage
  PROVE  /\ Cardinality(owned) \in Nat
         /\ module = "ready" => Cardinality(owned) = 2
<1>1. IsFiniteSet({"ring", "write_buffer"}) /\ Cardinality({"ring", "write_buffer"}) = 2
  <2>1. PICK S : S = {"ring"}
    OBVIOUS
  <2>2. IsFiniteSet(S) /\ Cardinality(S) = 1
    BY <2>1, FS_Singleton
  <2>3. "write_buffer" \notin S
    BY <2>1
  <2>4. IsFiniteSet(S \cup {"write_buffer"}) /\ Cardinality(S \cup {"write_buffer"}) = 2
    <3>1. /\ IsFiniteSet(S \cup {"write_buffer"})
          /\ Cardinality(S \cup {"write_buffer"}) = Cardinality(S) + 1
      BY <2>2, <2>3, FS_AddElement, Zenon
    <3> QED
      BY <2>2, <3>1
  <2>5. S \cup {"write_buffer"} = {"ring", "write_buffer"}
    BY <2>1
  <2> QED
    BY <2>4, <2>5
<1>2. IsFiniteSet(owned)
  BY <1>1, FS_Subset DEF LifeTypeOK
<1>3. Cardinality(owned) \in Nat
  BY <1>2, FS_CardinalityType
<1>4. module = "ready" => owned = {"ring", "write_buffer"}
  BY DEF OwnedByStage
<1> QED
  BY <1>1, <1>3, <1>4

LEMMA FailInv == LifeInv /\ (AllocFails \/ AddCdevFails) => LifeInv'
<1> SUFFICES ASSUME LifeInv, AllocFails \/ AddCdevFails PROVE LifeInv'
  OBVIOUS
<1>1. Unreachable /\ module # "in" /\ module # "out"
  BY DEF LifeInv, AllocFails, AddCdevFails
<1>2. Gone
  BY DEF AllocFails, AddCdevFails
<1>3. heap' = heap
  BY <1>1, CleanupFreesNothing DEF Unreachable, AllocFails, AddCdevFails
<1>4. Unreachable' /\ module' # "in"
  BY <1>1, <1>2, <1>3, GoneUsers DEF Unreachable, Gone
<1>5. Cardinality(owned) \in Nat
  BY OwnedCount DEF LifeInv
<1>6. LifeTypeOK'
  <2>1. LifeTypeOK
    BY DEF LifeInv
  <2>2. lost' \in Nat
    BY <1>5, <2>1 DEF LifeTypeOK, AllocFails, AddCdevFails, aesd_cleanup_module
  <2>3. misuse' \subseteq {"cdev_del", "kfree"}
    BY <2>1 DEF LifeTypeOK, AllocFails, AddCdevFails, aesd_cleanup_module
  <2>4. region' = FALSE /\ cdev' = FALSE /\ UNCHANGED <<script, node, loads>>
    BY <1>1, <2>1 DEF LifeTypeOK, AllocFails, AddCdevFails, aesd_cleanup_module, Gone
  <2> QED
    BY <1>2, <2>1, <2>2, <2>3, <2>4 DEF LifeTypeOK, Gone
<1>7. OwnedByStage' /\ NodeInv'
  BY <1>1 DEF LifeInv, OwnedByStage, NodeInv, NodeLeadsToModule, AllocFails, AddCdevFails, Gone
<1> QED
  BY <1>4, <1>6, <1>7 DEF LifeInv

LEMMA UnloadInv == LifeInv /\ Rmmod => LifeInv'
<1> SUFFICES ASSUME LifeInv, Rmmod PROVE LifeInv'
  OBVIOUS
<1>1. Inv /\ NoFileOpen /\ Gone /\ cdev /\ owned = {"ring", "write_buffer"}
  BY DEF LifeInv, LifeTypeOK, OwnedByStage, Rmmod
<1>2. heap' = [b \in Blocks |-> NULL] /\ UNCHANGED misuse
  BY <1>1, CleanupFreesAll DEF Rmmod, LifeInv, LifeTypeOK
<1>3. UsersType
  BY <1>1 DEF Inv, TypeOK, UsersType
<1>4. Unreachable' /\ module' = "out"
  BY <1>1, <1>2, <1>3, GoneUsers DEF Unreachable, Gone
<1>5. LifeTypeOK'
  <2>1. LifeTypeOK
    BY DEF LifeInv
  <2>2. lost' = lost /\ region' = FALSE /\ cdev' = FALSE
    BY <1>1, <2>1 DEF Rmmod, aesd_cleanup_module, LifeTypeOK
  <2> QED
    BY <1>1, <1>2, <2>1, <2>2 DEF LifeTypeOK, Rmmod, Gone
<1>6. OwnedByStage' /\ NodeInv'
  BY DEF OwnedByStage, NodeInv, NodeLeadsToModule, Rmmod, Gone
<1> QED
  BY <1>4, <1>5, <1>6 DEF LifeInv

LEMMA ScriptInv == LifeInv /\ (Mknod \/ RmNode \/ UNCHANGED allVars) => LifeInv'
<1> SUFFICES ASSUME LifeInv, Mknod \/ RmNode \/ UNCHANGED allVars PROVE LifeInv'
  OBVIOUS
<1> USE DEF Mknod, RmNode, allVars, lifeVars
<1>1. UNCHANGED vars /\ UNCHANGED module
  OBVIOUS
<1>2. LifeTypeOK' /\ OwnedByStage' /\ NodeInv'
  BY DEF LifeInv, LifeTypeOK, OwnedByStage, NodeInv, NodeLeadsToModule
<1>3. module = "in" => Inv'
  BY <1>1, NextInv DEF LifeInv
<1>4. module # "in" => Unreachable'
  BY <1>1 DEF LifeInv, Unreachable, UsersType, NoFileOpen, vars, devVars, callVars
<1> QED
  BY <1>1, <1>2, <1>3, <1>4 DEF LifeInv

LEMMA LifeNextInv == LifeInv /\ [LifeNext]_allVars => LifeInv'
  BY UseInv, LoadInv, AddCdevInv, FailInv, UnloadInv, ScriptInv DEF LifeNext

LEMMA LifeAlwaysInv == LifeSpec => []LifeInv
  BY LifeInitInv, LifeNextInv, PTL DEF LifeSpec

-----------------------------------------------------------------------------
\* Whoever can reach the device finds it sound, after any number of loads,
\* failed loads and killed users.
THEOREM SoundWhenReachable == LifeSpec => []DeviceSoundWhenReachable
<1>1. LifeInv => DeviceSoundWhenReachable
  BY DEF LifeInv, LifeTypeOK, DeviceSoundWhenReachable, Inv
<1> QED
  BY <1>1, LifeAlwaysInv, PTL

\* Between two scripts the node is there exactly when the module is.
THEOREM NodesLead == LifeSpec => []BooksAgree
<1>1. LifeInv => BooksAgree
  BY DEF LifeInv, NodeInv, BooksAgree
<1> QED
  BY <1>1, LifeAlwaysInv, PTL

\* Unloading gives back all the memory of any ring, and hands the kernel nothing
\* that it must not get.
THEOREM UnloadsClean == LifeSpec => UnloadIsClean
<1>1. LifeInv /\ [LifeNext]_allVars =>
        [module = "in" /\ module' = "out" =>
           /\ \A b \in Blocks : heap'[b] = NULL
           /\ ~region' /\ UNCHANGED <<lost, misuse>>]_allVars
  <2> SUFFICES ASSUME LifeInv, LifeNext, module = "in", module' = "out"
               PROVE  /\ \A b \in Blocks : heap'[b] = NULL
                      /\ ~region' /\ UNCHANGED <<lost, misuse>>
    BY DEF allVars, lifeVars
  <2>1. Rmmod
    BY DEF LifeNext, Use, lifeVars, Stage, AllocRegion, AllocRing, AllocBuffer, InitRing,
           AddCdev, AllocFails, AddCdevFails, Mknod, RmNode
  <2>2. Inv /\ cdev /\ owned = {"ring", "write_buffer"}
    BY DEF LifeInv, LifeTypeOK, OwnedByStage
  <2>3. heap' = [b \in Blocks |-> NULL] /\ UNCHANGED misuse
    BY <2>1, <2>2, CleanupFreesAll DEF Rmmod, LifeInv, LifeTypeOK
  <2> QED
    BY <2>1, <2>2, <2>3 DEF Rmmod, aesd_cleanup_module, LifeInv, LifeTypeOK
<1> QED
  BY <1>1, LifeAlwaysInv, PTL DEF LifeSpec, UnloadIsClean

\* A failed load gives back the device number; it loses memory only when
\* cdev_add fails, and frees what it must not only without a write buffer.
THEOREM FailedLoads == LifeSpec => FailedLoad
<1>1. LifeInv /\ [LifeNext]_allVars =>
        [module' = "out" /\ module \in Loading =>
           /\ ~region' /\ UNCHANGED heap
           /\ lost' = lost + (IF module = "ready" THEN 2 ELSE 0)
           /\ ("kfree" \in misuse' \ misuse => module = "ring")]_allVars
  <2> SUFFICES ASSUME LifeInv, LifeNext, module' = "out", module \in Loading
               PROVE  /\ ~region' /\ UNCHANGED heap
                      /\ lost' = lost + (IF module = "ready" THEN 2 ELSE 0)
                      /\ ("kfree" \in misuse' \ misuse => module = "ring")
    BY DEF allVars, lifeVars, Loading
  <2>1. AllocFails \/ AddCdevFails
    BY DEF LifeNext, Use, lifeVars, Stage, Loading, AllocRegion, AllocRing, AllocBuffer,
           InitRing, AddCdev, Rmmod, Mknod, RmNode
  <2>2. Unreachable
    BY DEF LifeInv, Loading
  <2>3. CASE AddCdevFails
    <3>1. Cardinality(owned) = 2
      BY <2>3, OwnedCount DEF AddCdevFails, LifeInv
    <3> QED
      BY <2>3, <3>1 DEF AddCdevFails
  <2>4. CASE AllocFails
    <3>1. UNCHANGED heap
      BY <2>2, <2>4, CleanupFreesNothing DEF AllocFails, Unreachable
    <3>2. owned = IF module = "ring" THEN {"ring"} ELSE {}
      BY <2>4 DEF AllocFails, LifeInv, OwnedByStage
    <3>3. lost' = lost
      BY <2>4, <3>2, FS_EmptySet DEF AllocFails, aesd_cleanup_module, LifeInv, LifeTypeOK
    <3> QED
      BY <2>4, <3>1, <3>2, <3>3 DEF AllocFails, aesd_cleanup_module, LifeInv, LifeTypeOK
  <2> QED
    BY <2>1, <2>3, <2>4
<1> QED
  BY <1>1, LifeAlwaysInv, PTL DEF LifeSpec, FailedLoad

-----------------------------------------------------------------------------
(***************************************************************************)
(* From load to load the driver is a log that is empty whenever it comes.  *)
(* What the driver's refinement needs of its writer outlives the module:   *)
(* nobody is in a call while there is none, and a process that died in one *)
(* never goes on with it.                                                  *)
(***************************************************************************)

UserInv == WriterInv /\ AskedInv

LEMMA UserInitInv == LifeInit => UserInv
BY WriterInitInv DEF LifeInit, Init, UserInv, AskedInv, NoReq

LEMMA UserUseInv ==
  ASSUME SingleWriter, LifeInv, UserInv, Use
  PROVE  UserInv'
<1>1. Inv
  BY DEF LifeInv, LifeTypeOK, Use
<1>2. WriterInv'
  BY <1>1, WriterNextInv DEF Use, UserInv
<1>3. AskedInv'
  BY <1>1, AskedNext DEF Use, UserInv
<1> QED
  BY <1>2, <1>3 DEF UserInv

\* Whatever a load or an unload does, no line is begun and no command stored
\* afterwards, and the processes are as before.
LEMMA UserLoadInv ==
  ASSUME UserInv, Unreachable', UNCHANGED req
  PROVE  UserInv'
<1>1. /\ \A p \in Procs : pc'[p] \notin {"waiting", "locked"}
      /\ write_buffer_index' = 0 /\ heap' = [b \in Blocks |-> NULL]
  BY DEF Unreachable, NoFileOpen
<1>2. WriterInv'
  BY <1>1 DEF UserInv, WriterInv, CountIsFresh, LinesEndCommands
<1>3. AskedInv'
  BY DEF UserInv, AskedInv, Data
<1> QED
  BY <1>2, <1>3 DEF UserInv

LEMMA UserQuietInv ==
  ASSUME UserInv, UNCHANGED vars
  PROVE  UserInv'
BY DEF UserInv, WriterInv, CountIsFresh, LinesEndCommands, AskedInv, Data, Count, vars, devVars,
       callVars

\* What the steps of load and unload leave to the users as it was.
LEMMA LoadLeavesUsers ==
  ASSUME \/ AllocRegion \/ AllocRing \/ AllocBuffer \/ InitRing
         \/ AllocFails \/ AddCdevFails \/ Rmmod
  PROVE  UNCHANGED procVars
BY DEF AllocRegion, AllocRing, AllocBuffer, InitRing, AllocFails, AddCdevFails, Rmmod, Gone,
       vars, procVars

LEMMA NotInAfter ==
  ASSUME \/ AllocRegion \/ AllocRing \/ AllocBuffer \/ InitRing
         \/ AllocFails \/ AddCdevFails \/ Rmmod
  PROVE  module' # "in"
BY DEF AllocRegion, AllocRing, AllocBuffer, InitRing, AllocFails, AddCdevFails, Rmmod, Gone,
       Stage

LEMMA UserNextInv ==
  ASSUME SingleWriter
  PROVE  LifeInv /\ UserInv /\ [LifeNext]_allVars => UserInv'
<1> SUFFICES ASSUME LifeInv, UserInv, [LifeNext]_allVars PROVE UserInv'
  OBVIOUS
<1>1. CASE Use
  BY <1>1, UserUseInv
<1>2. CASE \/ AllocRegion \/ AllocRing \/ AllocBuffer \/ InitRing
           \/ AllocFails \/ AddCdevFails \/ Rmmod
  <2>1. LifeInv'
    BY LifeNextInv
  <2>2. module' # "in"
    BY <1>2, NotInAfter
  <2>3. Unreachable'
    BY <2>1, <2>2 DEF LifeInv
  <2>4. UNCHANGED req
    BY <1>2, LoadLeavesUsers DEF procVars, callVars
  <2> QED
    BY <2>3, <2>4, UserLoadInv
<1>3. CASE AddCdev \/ Mknod \/ RmNode \/ UNCHANGED allVars
  BY <1>3, UserQuietInv DEF AddCdev, Mknod, RmNode, allVars
<1> QED
  BY <1>1, <1>2, <1>3 DEF LifeNext

\* While the device is there, its log is that of AesdCharRefinement, and a step of
\* the one is a step of the other.
LEMMA SameStep ==
  ASSUME LoadedLogOfRing = LogOfRing, LoadedLogOfRing' = LogOfRing',
         CL!Next \/ UNCHANGED CL!vars
  PROVE  LL!Next \/ UNCHANGED LL!vars
<1>1. LL!Stream = CL!Stream /\ \A line : LL!Appended(line) = CL!Appended(line)
  BY DEF LL!Stream, CL!Stream, LL!FlattenSeq, CL!FlattenSeq, LL!Appended, CL!Appended
<1>2. CASE UNCHANGED CL!vars
  BY <1>2 DEF CL!vars, LL!vars
<1>3. ASSUME NEW data \in WriteData, CL!Write(data) PROVE LL!Write(data)
  BY <1>1, <1>3 DEF CL!Write, LL!Write, CL!Last, LL!Last
<1>4. CASE CL!WriteEmpty
  BY <1>1, <1>4 DEF CL!WriteEmpty, LL!WriteEmpty, LL!Next
<1>5. ASSUME NEW p \in Procs, CL!Read(p) PROVE LL!Read(p)
  BY <1>1, <1>5 DEF CL!Read, LL!Read
<1>6. ASSUME NEW p \in Procs, CL!Seek(p) \/ CL!Consume(p) PROVE LL!Seek(p) \/ LL!Consume(p)
  BY <1>6 DEF CL!Seek, LL!Seek, CL!Consume, LL!Consume
<1> QED
  BY <1>2, <1>3, <1>4, <1>5, <1>6 DEF CL!Next, LL!Next

LEMMA NothingPending ==
  ASSUME write_buffer_index = 0
  PROVE  PendingOfBuffer = <<>>
BY DEF PendingOfBuffer

LEMMA LoadedStep ==
  ASSUME LifeInv, UserInv, LifeInv', UserInv', [LifeNext]_allVars
  PROVE  LL!LoadedNext \/ UNCHANGED <<LL!vars, cdev>>
<1>0. (cdev <=> module = "in") /\ (cdev' <=> module' = "in")
  BY DEF LifeInv, LifeTypeOK
<1>1. CASE Use
  <2>1. cdev /\ cdev' = cdev /\ module = "in" /\ module' = "in"
    BY <1>0, <1>1 DEF Use, lifeVars
  <2>2. LoadedLogOfRing = LogOfRing /\ LoadedLogOfRing' = LogOfRing'
    BY <2>1 DEF LoadedLogOfRing
  <2>3. CL!Next \/ UNCHANGED CL!vars
    <3>1. Inv /\ Inv' /\ Next
      BY <1>1, <2>1 DEF LifeInv, Use
    <3> QED
      BY <3>1, StepLogged DEF UserInv
  <2>4. LL!Next \/ UNCHANGED LL!vars
    BY <2>2, <2>3, SameStep
  <2> QED
    BY <2>1, <2>4 DEF LL!LoadedNext
<1>2. CASE AllocRegion \/ AllocRing \/ AllocBuffer \/ InitRing \/ AllocFails \/ AddCdevFails
  <2>1. module # "in" /\ module' # "in"
    BY <1>2, NotInAfter DEF AllocRegion, AllocRing, AllocBuffer, InitRing, AllocFails,
                            AddCdevFails, Stage
  <2>2. write_buffer_index = 0 /\ write_buffer_index' = 0
    BY <2>1 DEF LifeInv, Unreachable
  <2>3. PendingOfBuffer = <<>> /\ PendingOfBuffer' = <<>>
    <3>1. PendingOfBuffer = <<>>
      BY <2>2, NothingPending
    <3>2. (write_buffer_index = 0 => PendingOfBuffer = <<>>)'
      BY NothingPending, PTL
    <3> QED
      BY <2>2, <3>1, <3>2
  <2>4. UNCHANGED <<f_pos, ubuf>>
    BY <1>2, LoadLeavesUsers DEF procVars, callVars
  <2>5. UNCHANGED cdev /\ LoadedLogOfRing = <<>> /\ LoadedLogOfRing' = <<>>
    BY <1>0, <2>1 DEF LoadedLogOfRing, LifeInv, LifeTypeOK
  <2> QED
    BY <2>3, <2>4, <2>5 DEF LL!vars
<1>3. CASE AddCdev
  <2>1. ~cdev /\ cdev' /\ UNCHANGED vars /\ circular_buffer' = EmptyBuffer
    BY <1>0, <1>3 DEF AddCdev, Stage, LifeInv, Unreachable, vars, devVars
  <2>2. LoadedLogOfRing = <<>>
    BY <2>1 DEF LoadedLogOfRing
  <2>3. LoadedLogOfRing' = <<>>
    BY <2>1 DEF LoadedLogOfRing, LogOfRing, Entries, IsEmpty, EmptyBuffer
  <2>4. UNCHANGED <<PendingOfBuffer, f_pos, ubuf>>
    BY <2>1 DEF vars, devVars, callVars, PendingOfBuffer
  <2> QED
    BY <2>1, <2>2, <2>3, <2>4 DEF LL!LoadedNext, LL!Load, LL!vars
<1>4. CASE Rmmod
  <2>1. cdev /\ ~cdev'
    BY <1>0, <1>4, NotInAfter DEF Rmmod
  <2>2. LoadedLogOfRing' = <<>>
    BY <2>1 DEF LoadedLogOfRing
  <2>3. write_buffer_index' = 0
    BY <1>4 DEF Rmmod, Gone
  <2>4. PendingOfBuffer' = <<>>
    <3>1. (write_buffer_index = 0 => PendingOfBuffer = <<>>)'
      BY NothingPending, PTL
    <3> QED
      BY <2>3, <3>1
  <2>5. UNCHANGED <<f_pos, ubuf>>
    BY <1>4, LoadLeavesUsers DEF procVars, callVars
  <2> QED
    BY <2>1, <2>2, <2>4, <2>5 DEF LL!LoadedNext, LL!Unload
<1>5. CASE Mknod \/ RmNode \/ UNCHANGED allVars
  <2>1. UNCHANGED vars /\ UNCHANGED cdev
    BY <1>5 DEF Mknod, RmNode, allVars, lifeVars
  <2>2. UNCHANGED <<LogOfRing, PendingOfBuffer, f_pos, ubuf>>
    BY <2>1, LogUntouched DEF vars, devVars, callVars, PendingOfBuffer
  <2> QED
    BY <2>1, <2>2 DEF LL!vars, LoadedLogOfRing
<1> QED
  BY <1>1, <1>2, <1>3, <1>4, <1>5 DEF LifeNext

\* With one writer the driver is LoadedLog through any number of loads, failed
\* loads and unloads, with processes that died in it in between: each load begins
\* with an empty log, and what is not loaded has none.
THEOREM LoadsKeepLog ==
  ASSUME SingleWriter
  PROVE  LifeSpec => ImplementsLoadedLog
<1>1. LifeInit => LL!LoadedInit
  <2> SUFFICES ASSUME LifeInit PROVE LL!LoadedInit
    OBVIOUS
  <2>1. LoadedLogOfRing = <<>> /\ ~cdev
    BY DEF LifeInit, LoadedLogOfRing
  <2>2. PendingOfBuffer = <<>>
    BY NothingPending DEF LifeInit, Init
  <2> QED
    BY <2>1, <2>2 DEF LifeInit, Init, LL!LoadedInit, LL!Init
<1>2. LifeInit => UserInv
  BY UserInitInv
<1>3. LifeInv /\ UserInv /\ [LifeNext]_allVars => UserInv'
  BY UserNextInv
<1>4. LifeInv /\ UserInv /\ LifeInv' /\ UserInv' /\ [LifeNext]_allVars
        => [LL!LoadedNext]_<<LL!vars, cdev>>
  BY LoadedStep
<1> QED
  BY <1>1, <1>2, <1>3, <1>4, LifeAlwaysInv, PTL
     DEF LifeSpec, ImplementsLoadedLog, LL!LoadedSpec
=============================================================================
