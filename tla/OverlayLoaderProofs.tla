------------------------- MODULE OverlayLoaderProofs -------------------------
(***************************************************************************)
(* Proofs about the dtboverlay loader for every Width, every set of file  *)
(* contents and every bound on the loads: the state stays well typed,    *)
(* dtbfile is closed when of_overlay_init() has returned, an applied     *)
(* overlay always belongs to the loaded module, and the module implements *)
(* the loader its README promises (LoaderAbstract).                       *)
(***************************************************************************)
EXTENDS OverlayLoader, FdtHeaderProofs, FiniteSetTheorems

(* The statements of of_overlay_init() between the open and the close.    *)
OpenPcs == {"alloc", "read", "check", "debug", "apply", "close"}

(* The inductive invariant.  A load counts itself while it runs; the file *)
(* is open only between filp_open and filp_close, or when an oops stopped *)
(* the load; no overlay exists before the apply of the running load, and *)
(* one that the apply created comes with ret = 0.                         *)
IInv ==
  /\ TypeOK
  /\ modstate = "init" => loads \in 1 .. MaxLoads /\ pc # "idle"
  /\ fileOpen => \/ modstate = "init" /\ pc \in OpenPcs
                 \/ modstate = "oops"
  /\ OverlayOwnedByModule
  /\ modstate = "init" /\ overlays # {} => pc \in {"close", "ret"} /\ ret = {0}
  /\ modstate = "oops" => overlays = {}

(* TypeOK without the Boolean fileOpen, which the SMT backend handles    *)
(* poorly: the proofs treat the two parts apart.                          *)
TypeRest ==
  /\ of_root \in {"none", "firmware", "fabricated"}
  /\ rootLoad \in 0 .. MaxLoads
  /\ modstate \in {"unloaded", "init", "live", "oops"}
  /\ loads \in 0 .. MaxLoads
  /\ pc \in {"idle", "alloc", "read", "check", "debug", "apply", "close", "ret"}
  /\ file \in {<<>>} \cup Files
  /\ buf \in {"none", "zsp", "null", "heap"}
  /\ bytes \in {<<>>} \cup [DOMAIN file -> Byte]
  /\ reads \subseteq 0 .. FDT_V17_SIZE - 1
  /\ ret \in {Garbage, {0}, {-ENOENT}, {-EINVAL}}
  /\ ovcsid \in 0 .. MaxLoads
  /\ overlays \subseteq 1 .. MaxLoads

LEMMA TypeSplit == TypeOK <=> TypeRest /\ fileOpen \in BOOLEAN
BY Zenon DEF TypeOK, TypeRest

(* A file's bytes sit at offsets 0 .. size - 1 and are byte values; so    *)
(* does the content <<>> of a file never opened.                          *)
LEMMA FileFacts ==
  ASSUME NEW f \in {<<>>} \cup Files
  PROVE  /\ DOMAIN f = 0 .. FileSize(f) - 1
         /\ \A i \in DOMAIN f : f[i] \in Byte
<1>1. CASE f = <<>>
  <2>1. DOMAIN f = {}
    BY <1>1
  <2>2. FileSize(f) = 0
    BY <2>1, FS_EmptySet DEF FileSize
  <2>. QED
    BY <2>1, <2>2
<1>2. CASE f \in Files
  BY <1>2, LoaderAssumption DEF FileSize
<1>. QED
  BY <1>1, <1>2

LEMMA ZeroByte == 0 \in Byte
BY ByteBaseAssumption DEF Byte

LEMMA InitIInv == Init => IInv
<1> SUFFICES ASSUME Init PROVE IInv
  OBVIOUS
<1>1. TypeRest
  BY LoaderAssumption DEF Init, TypeRest
<1>2. fileOpen \in BOOLEAN /\ ~fileOpen
  BY Zenon DEF Init
<1>3. TypeOK
  BY <1>1, <1>2, TypeSplit
<1>. QED
  BY <1>2, <1>3 DEF Init, IInv, OverlayOwnedByModule

(* A step of the loader seen through the refinement mapping.              *)
AbsStep == [Abs!Next]_Abs!vars

(* The parts of IInv other than the type, as one formula of the state.    *)
Owned ==
  /\ modstate = "init" => loads \in 1 .. MaxLoads /\ pc # "idle"
  /\ OverlayOwnedByModule
  /\ modstate = "init" /\ overlays # {} => pc \in {"close", "ret"} /\ ret = {0}
  /\ modstate = "oops" => overlays = {}
FileInv ==
  fileOpen => \/ modstate = "init" /\ pc \in OpenPcs
              \/ modstate = "oops"

LEMMA IInvSplit == IInv <=> TypeRest /\ fileOpen \in BOOLEAN /\ FileInv /\ Owned
BY TypeSplit DEF IInv, FileInv, Owned

(* What the state before any load, or after one, looks like.              *)
LEMMA UnloadedFacts ==
  ASSUME IInv, modstate \in {"unloaded", "live"}
  PROVE  /\ ~fileOpen
         /\ overlays \subseteq {ovcsid}
         /\ modstate = "unloaded" => overlays = {}
<1>1. fileOpen \in BOOLEAN /\ FileInv /\ Owned
  BY IInvSplit
<1>2. ~(modstate = "init") /\ ~(modstate = "oops")
  OBVIOUS
<1>3. ~fileOpen
  BY <1>1, <1>2, Zenon DEF FileInv
<1>. QED
  BY <1>1, <1>3 DEF Owned, OverlayOwnedByModule

LEMMA InsmodStep ==
  ASSUME IInv, Insmod
  PROVE  IInv' /\ AbsStep
<1>1. /\ modstate = "unloaded" /\ loads < MaxLoads /\ loads' = loads + 1
      /\ modstate' = "init" /\ ovcsid' = 0 /\ reads' = {}
      /\ buf' = "none" /\ bytes' = <<>>
      /\ UNCHANGED <<of_root, rootLoad, overlays>>
  BY DEF Insmod
<1>2. ~fileOpen /\ overlays = {} /\ TypeRest /\ fileOpen \in BOOLEAN
  BY <1>1, UnloadedFacts, IInvSplit
<1>3. \/ /\ ret' = {-ENOENT} /\ pc' = "ret" /\ UNCHANGED <<fileOpen, file>>
      \/ /\ file' \in Files /\ fileOpen' = TRUE /\ pc' = "alloc" /\ ret' = Garbage
  BY DEF Insmod
<1>4. TypeRest'
  BY <1>1, <1>2, <1>3, LoaderAssumption DEF TypeRest
<1>5. fileOpen' \in BOOLEAN /\ FileInv'
  <2>1. CASE ret' = {-ENOENT} /\ pc' = "ret" /\ UNCHANGED <<fileOpen, file>>
    BY <1>2, <2>1, Zenon DEF FileInv
  <2>2. CASE file' \in Files /\ fileOpen' = TRUE /\ pc' = "alloc" /\ ret' = Garbage
    <3>1. pc' \in OpenPcs
      BY <2>2 DEF OpenPcs
    <3>. QED
      BY <1>1, <2>2, <3>1, Zenon DEF FileInv
  <2>. QED
    BY <1>3, <2>1, <2>2
<1>6. Owned'
  BY <1>1, <1>2, <1>3, LoaderAssumption DEF Owned, OverlayOwnedByModule, TypeRest
<1>7. AbsStep
  BY <1>1, <1>2 DEF AbsStep, Abs!Next, Abs!Load, Abs!vars, AbsModule, AbsName
<1>. QED
  BY <1>4, <1>5, <1>6, <1>7, Zenon DEF IInv, TypeOK, TypeRest, FileInv, Owned

(* The four parts of the invariant, after a step, make it up again.       *)
LEMMA Assemble ==
  ASSUME TypeRest', fileOpen' \in BOOLEAN, FileInv', Owned'
  PROVE  IInv'
BY Zenon DEF IInv, TypeOK, TypeRest, FileInv, Owned

(* A step that changes nothing the abstract loader sees is a stutter.     *)
LEMMA AbsStutter ==
  ASSUME UNCHANGED <<of_root, modstate, overlays>>
  PROVE  AbsStep
BY DEF AbsStep, Abs!vars, AbsModule

(* The abstract name of each module state.                                *)
LEMMA AbsNames ==
  /\ modstate = "unloaded" => AbsModule = "out"
  /\ modstate = "init" => AbsModule = "loading"
  /\ modstate = "live" => AbsModule = "live"
  /\ modstate = "oops" => AbsModule = "crashed"
  /\ modstate' = "unloaded" => AbsModule' = "out"
  /\ modstate' = "init" => AbsModule' = "loading"
  /\ modstate' = "live" => AbsModule' = "live"
  /\ modstate' = "oops" => AbsModule' = "crashed"
BY DEF AbsModule, AbsName

LEMMA AllocStep ==
  ASSUME IInv, Alloc
  PROVE  IInv' /\ AbsStep
<1>1. /\ modstate = "init" /\ pc = "alloc"
      /\ UNCHANGED <<of_root, rootLoad, modstate, loads, fileOpen, file, reads,
                     ret, ovcsid, overlays>>
  BY DEF Alloc
<1>2. TypeRest /\ fileOpen \in BOOLEAN /\ FileInv /\ Owned
  BY IInvSplit
<1>3. /\ DOMAIN file = 0 .. FileSize(file) - 1
      /\ \A i \in DOMAIN file : file[i] \in Byte
  BY <1>2, FileFacts DEF TypeRest
<1>4. \/ buf' = "zsp" /\ bytes' = <<>> /\ pc' = "read"
      \/ buf' = "heap" /\ bytes' = [i \in 0 .. FileSize(file) - 1 |-> 0]
         /\ pc' = "read"
      \/ buf' = "null" /\ bytes' = <<>> /\ pc' = "close"
  BY DEF Alloc
<1>5. TypeRest'
  BY <1>1, <1>2, <1>3, <1>4, ZeroByte DEF TypeRest
<1>6. pc' \in OpenPcs
  BY <1>4 DEF OpenPcs
<1>7. fileOpen' \in BOOLEAN /\ FileInv'
  BY <1>1, <1>2, <1>6, Zenon DEF FileInv
<1>8. Owned'
  BY <1>1, <1>2, <1>4 DEF Owned, OverlayOwnedByModule
<1>. QED
  BY <1>1, <1>5, <1>7, <1>8, Assemble, AbsStutter

LEMMA ReadStep ==
  ASSUME IInv, Read
  PROVE  IInv' /\ AbsStep
<1>1. /\ modstate = "init" /\ pc = "read" /\ pc' = "check"
      /\ UNCHANGED <<of_root, rootLoad, modstate, loads, fileOpen, file, buf,
                     reads, ret, ovcsid, overlays>>
  BY DEF Read
<1>2. TypeRest /\ fileOpen \in BOOLEAN /\ FileInv /\ Owned
  BY IInvSplit
<1>3. /\ DOMAIN file = 0 .. FileSize(file) - 1
      /\ \A i \in DOMAIN file : file[i] \in Byte
  BY <1>2, FileFacts DEF TypeRest
<1>4. PICK n \in {FileSize(file)} \cup {r \in ShortReads : r < FileSize(file)} :
        bytes' = [i \in 0 .. FileSize(file) - 1 |-> IF i < n THEN file[i] ELSE 0]
  BY DEF Read
<1>5. TypeRest'
  BY <1>1, <1>2, <1>3, <1>4, ZeroByte DEF TypeRest
<1>6. pc' \in OpenPcs
  BY <1>1 DEF OpenPcs
<1>7. fileOpen' \in BOOLEAN /\ FileInv'
  BY <1>1, <1>2, <1>6, Zenon DEF FileInv
<1>8. Owned'
  BY <1>1, <1>2 DEF Owned, OverlayOwnedByModule
<1>. QED
  BY <1>1, <1>5, <1>7, <1>8, Assemble, AbsStutter

LEMMA CheckStep ==
  ASSUME IInv, Check
  PROVE  IInv' /\ AbsStep
<1>1. /\ modstate = "init" /\ pc = "check"
      /\ UNCHANGED <<of_root, rootLoad, loads, fileOpen, file, buf, bytes, ret,
                     ovcsid, overlays>>
  BY DEF Check
<1>2. TypeRest /\ fileOpen \in BOOLEAN /\ FileInv /\ Owned
  BY IInvSplit
<1>3. overlays = {}
  BY <1>1, <1>2 DEF Owned
<1>4. CASE buf = "zsp"
  <2>1. modstate' = "oops" /\ UNCHANGED <<pc, reads>>
    BY <1>4 DEF Check
  <2>2. TypeRest'
    BY <1>1, <1>2, <2>1 DEF TypeRest
  <2>3. fileOpen' \in BOOLEAN /\ FileInv'
    BY <1>1, <1>2, <2>1, Zenon DEF FileInv
  <2>4. Owned'
    BY <1>1, <1>3, <2>1 DEF Owned, OverlayOwnedByModule
  <2>5. AbsStep
    BY <1>1, <1>3, <2>1, AbsNames DEF AbsStep, Abs!Next, Abs!Crash
  <2>. QED
    BY <2>2, <2>3, <2>4, <2>5, Assemble
<1>5. CASE buf # "zsp"
  <2>1. /\ reads' = CheckHeaderReads(BufBlob(bytes))
        /\ pc' = "debug" /\ UNCHANGED modstate
    BY <1>5 DEF Check
  <2>2. reads' \subseteq 0 .. FDT_V17_SIZE - 1
    BY <2>1, CheckHeaderReadsType
  <2>3. TypeRest'
    BY <1>1, <1>2, <2>1, <2>2 DEF TypeRest
  <2>4. pc' \in OpenPcs
    BY <2>1 DEF OpenPcs
  <2>5. fileOpen' \in BOOLEAN /\ FileInv'
    BY <1>1, <1>2, <2>1, <2>4, Zenon DEF FileInv
  <2>6. Owned'
    BY <1>1, <1>2, <1>3, <2>1 DEF Owned, OverlayOwnedByModule
  <2>. QED
    BY <1>1, <2>1, <2>3, <2>5, <2>6, Assemble, AbsStutter
<1>. QED
  BY <1>4, <1>5

LEMMA DebugStep ==
  ASSUME IInv, Debug
  PROVE  IInv' /\ AbsStep
<1>1. /\ modstate = "init" /\ pc = "debug"
      /\ UNCHANGED <<loads, fileOpen, file, buf, bytes, reads, ret, ovcsid,
                     overlays>>
  BY DEF Debug
<1>2. TypeRest /\ fileOpen \in BOOLEAN /\ FileInv /\ Owned
  BY IInvSplit
<1>3. overlays = {} /\ loads \in 1 .. MaxLoads
  BY <1>1, <1>2 DEF Owned
<1>4. ASSUME pc' = "apply", UNCHANGED modstate,
             of_root' \in {"none", "firmware", "fabricated"},
             rootLoad' \in 0 .. MaxLoads
      PROVE  IInv'
  <2>1. TypeRest'
    BY <1>1, <1>2, <1>4 DEF TypeRest
  <2>2. pc' \in OpenPcs
    BY <1>4 DEF OpenPcs
  <2>3. fileOpen' \in BOOLEAN /\ FileInv'
    BY <1>1, <1>2, <1>4, <2>2, Zenon DEF FileInv
  <2>4. Owned'
    BY <1>1, <1>2, <1>3, <1>4 DEF Owned, OverlayOwnedByModule
  <2>. QED
    BY <2>1, <2>3, <2>4, Assemble
<1>5. CASE of_root # "none"
  <2>1. pc' = "apply" /\ UNCHANGED <<of_root, rootLoad, modstate>>
    BY <1>5 DEF Debug
  <2>. QED
    BY <1>1, <1>2, <2>1, <1>4, AbsStutter DEF TypeRest
<1>6. CASE of_root = "none" /\ of_root' = "fabricated" /\ rootLoad' = loads
           /\ pc' = "apply" /\ UNCHANGED modstate
  <2>1. rootLoad' \in 0 .. MaxLoads
    BY <1>3, <1>6, LoaderAssumption
  <2>2. AbsStep
    BY <1>1, <1>6, AbsNames DEF AbsStep, Abs!Next, Abs!CreateRoot, Abs!vars
  <2>. QED
    BY <1>6, <2>1, <2>2, <1>4
<1>7. CASE of_root = "none" /\ modstate' = "oops" /\ UNCHANGED <<of_root, rootLoad, pc>>
  <2>1. TypeRest'
    BY <1>1, <1>2, <1>7 DEF TypeRest
  <2>2. fileOpen' \in BOOLEAN /\ FileInv'
    BY <1>1, <1>2, <1>7, Zenon DEF FileInv
  <2>3. Owned'
    BY <1>1, <1>3, <1>7 DEF Owned, OverlayOwnedByModule
  <2>4. AbsStep
    BY <1>1, <1>3, <1>7, AbsNames DEF AbsStep, Abs!Next, Abs!Crash
  <2>. QED
    BY <2>1, <2>2, <2>3, <2>4, Assemble
<1>. QED
  BY <1>5, <1>6, <1>7 DEF Debug

LEMMA ApplyStep ==
  ASSUME IInv, Apply
  PROVE  IInv' /\ AbsStep
<1>1. /\ modstate = "init" /\ pc = "apply" /\ pc' = "close"
      /\ UNCHANGED <<of_root, rootLoad, modstate, loads, fileOpen, file, buf,
                     bytes, reads>>
  BY DEF Apply
<1>2. TypeRest /\ fileOpen \in BOOLEAN /\ FileInv /\ Owned
  BY IInvSplit
<1>3. overlays = {} /\ loads \in 1 .. MaxLoads
  BY <1>1, <1>2 DEF Owned
<1>4. pc' \in OpenPcs
  BY <1>1 DEF OpenPcs
<1>5. fileOpen' \in BOOLEAN /\ FileInv'
  BY <1>1, <1>2, <1>4, Zenon DEF FileInv
<1>6. CASE ApplyAccepts(bytes) /\ ovcsid' = loads /\ overlays' = overlays \cup {loads}
           /\ ret' = {0}
  <2>1. TypeRest'
    BY <1>1, <1>2, <1>3, <1>6, LoaderAssumption DEF TypeRest
  <2>2. Owned'
    BY <1>1, <1>3, <1>6 DEF Owned, OverlayOwnedByModule
  <2>3. of_root # "none"
    BY <1>6 DEF ApplyAccepts
  <2>4. AbsStep
    BY <1>1, <1>3, <1>6, <2>3, AbsNames
    DEF AbsStep, Abs!Next, Abs!ApplyOverlay, Abs!vars
  <2>. QED
    BY <1>5, <2>1, <2>2, <2>4, Assemble
<1>7. CASE ret' = {-EINVAL} /\ UNCHANGED <<ovcsid, overlays>>
  <2>1. TypeRest'
    BY <1>1, <1>2, <1>7 DEF TypeRest
  <2>2. Owned'
    BY <1>1, <1>2, <1>3, <1>7 DEF Owned, OverlayOwnedByModule
  <2>. QED
    BY <1>1, <1>5, <1>7, <2>1, <2>2, Assemble, AbsStutter
<1>. QED
  BY <1>6, <1>7 DEF Apply

LEMMA CloseStep ==
  ASSUME IInv, Close
  PROVE  IInv' /\ AbsStep
<1>1. /\ modstate = "init" /\ pc = "close" /\ fileOpen' = FALSE /\ pc' = "ret"
      /\ UNCHANGED <<of_root, rootLoad, modstate, loads, file, buf, bytes, reads,
                     ret, ovcsid, overlays>>
  BY DEF Close
<1>2. TypeRest /\ Owned
  BY IInvSplit
<1>3. TypeRest'
  BY <1>1, <1>2 DEF TypeRest
<1>4. fileOpen' \in BOOLEAN /\ FileInv'
  BY <1>1, Zenon DEF FileInv
<1>5. Owned'
  BY <1>1, <1>2 DEF Owned, OverlayOwnedByModule
<1>. QED
  BY <1>1, <1>3, <1>4, <1>5, Assemble, AbsStutter

LEMMA ReturnStep ==
  ASSUME IInv, Return
  PROVE  IInv' /\ AbsStep
<1>1. /\ modstate = "init" /\ pc = "ret" /\ pc' = "idle"
      /\ UNCHANGED <<of_root, rootLoad, loads, fileOpen, file, buf, bytes, reads,
                     ret, ovcsid, overlays>>
  BY DEF Return
<1>2. TypeRest /\ fileOpen \in BOOLEAN /\ FileInv /\ Owned
  BY IInvSplit
<1>3. PICK rv \in ret : modstate' = IF rv < 0 THEN "unloaded" ELSE "live"
  BY DEF Return
<1>4. rv \in Int /\ modstate' \in {"unloaded", "live"}
  BY <1>2, <1>3 DEF TypeRest, Garbage, ENOENT, EINVAL
<1>5. overlays # {} => modstate' = "live"
  BY <1>1, <1>2, <1>3 DEF Owned
<1>6. pc \notin OpenPcs
  BY <1>1 DEF OpenPcs
<1>7. ~fileOpen
  BY <1>1, <1>2, <1>6, Zenon DEF FileInv
<1>8. TypeRest'
  BY <1>1, <1>2, <1>4 DEF TypeRest
<1>9. fileOpen' \in BOOLEAN /\ FileInv'
  BY <1>1, <1>2, <1>7, Zenon DEF FileInv
<1>10. Owned'
  BY <1>1, <1>2, <1>4, <1>5 DEF Owned, OverlayOwnedByModule
<1>11. AbsStep
  BY <1>1, <1>4, <1>5, AbsNames DEF AbsStep, Abs!Next, Abs!Finish, Abs!vars
<1>. QED
  BY <1>8, <1>9, <1>10, <1>11, Assemble

LEMMA RmmodStep ==
  ASSUME IInv, Rmmod
  PROVE  IInv' /\ AbsStep
<1>1. /\ modstate = "live" /\ modstate' = "unloaded"
      /\ UNCHANGED <<of_root, rootLoad, loads, pc, fileOpen, file, buf, bytes,
                     reads, ret>>
  BY DEF Rmmod
<1>2. TypeRest /\ fileOpen \in BOOLEAN /\ Owned
  BY IInvSplit
<1>3. ~fileOpen /\ overlays \subseteq {ovcsid}
  BY <1>1, UnloadedFacts
<1>4. overlays' = {} /\ ovcsid' \in 0 .. MaxLoads
  <2>1. CASE ovcsid \in overlays
    BY <1>3, <2>1, LoaderAssumption DEF Rmmod
  <2>2. CASE ovcsid \notin overlays
    BY <1>2, <1>3, <2>2 DEF Rmmod, TypeRest
  <2>. QED
    BY <2>1, <2>2
<1>5. TypeRest'
  BY <1>1, <1>2, <1>4 DEF TypeRest
<1>6. fileOpen' \in BOOLEAN /\ FileInv'
  BY <1>1, <1>2, <1>3, Zenon DEF FileInv
<1>7. Owned'
  BY <1>1, <1>4 DEF Owned, OverlayOwnedByModule
<1>8. AbsStep
  BY <1>1, <1>4, AbsNames DEF AbsStep, Abs!Next, Abs!Unload, Abs!vars
<1>. QED
  BY <1>5, <1>6, <1>7, <1>8, Assemble

(* Every step keeps the invariant and is a step of the abstract loader.   *)
LEMMA StepIInv ==
  ASSUME IInv, [Next]_vars
  PROVE  IInv' /\ AbsStep
<1>1. CASE UNCHANGED vars
  <2>1. TypeRest /\ fileOpen \in BOOLEAN /\ FileInv /\ Owned
    BY IInvSplit
  <2>2. UNCHANGED <<of_root, rootLoad, modstate, loads, pc, fileOpen, file, buf,
                    bytes, reads, ret, ovcsid, overlays>>
    BY <1>1 DEF vars
  <2>3. TypeRest'
    BY <2>1, <2>2 DEF TypeRest
  <2>4. fileOpen' \in BOOLEAN /\ FileInv'
    BY <2>1, <2>2, Zenon DEF FileInv
  <2>5. Owned'
    BY <2>1, <2>2 DEF Owned, OverlayOwnedByModule
  <2>. QED
    BY <2>2, <2>3, <2>4, <2>5, Assemble, AbsStutter
<1>. QED
  BY <1>1, InsmodStep, AllocStep, ReadStep, CheckStep, DebugStep, ApplyStep,
     CloseStep, ReturnStep, RmmodStep DEF Next

(* IInv holds in every state the module and the kernel can reach.         *)
LEMMA LoaderIInv == Spec => []IInv
BY InitIInv, StepIInv, PTL DEF Spec

(* The loader's variables always have their types: in particular the     *)
(* buffer handed to fdt_check_header() and of_overlay_fdt_apply() always *)
(* has the file's size as its domain (of_overlay_init, lines 117-131).   *)
THEOREM LoaderTypeCorrect == Spec => []TypeOK
BY LoaderIInv, PTL DEF IInv

(* Whichever path of_overlay_init() takes to its return, dtbfile is       *)
(* closed once the module is live or gone (lines 120-137), for every     *)
(* set of files and every number of loads.                               *)
THEOREM FileClosedOnReturnInvariant == Spec => []FileClosedOnReturn
<1>1. IInv => FileClosedOnReturn
  <2> SUFFICES ASSUME IInv, modstate \in {"live", "unloaded"}
               PROVE  ~fileOpen
    BY DEF FileClosedOnReturn
  <2>. QED
    BY UnloadedFacts
<1>. QED
  BY <1>1, LoaderIInv, PTL

(* Every overlay changeset in the kernel is the one the module image's    *)
(* ovcsid names while it is loading or live, so of_overlay_exit() (lines *)
(* 140-142) removes it and none is left behind by a failed load.          *)
THEOREM OverlayOwnedByModuleInvariant == Spec => []OverlayOwnedByModule
BY LoaderIInv, PTL DEF IInv

(* The module implements the loader its README promises, under the       *)
(* mapping AbsModule, for every set of files and every number of loads:  *)
(* the fabricated root is made only when there is none (debug, line 41), *)
(* the overlay is applied only over a root and a load that applied one   *)
(* ends live (lines 131-137).                                             *)
THEOREM LoaderRefinement == Spec => Refinement
<1>1. Init => Abs!Init
  BY AbsNames DEF Init, Abs!Init
<1>2. IInv /\ [Next]_vars => AbsStep
  BY StepIInv
<1>. QED
  BY <1>1, <1>2, LoaderIInv, PTL DEF Spec, Refinement, Abs!Spec, AbsStep

=============================================================================
