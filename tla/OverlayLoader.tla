---------------------------- MODULE OverlayLoader ----------------------------
(***************************************************************************)
(* The dtboverlay kernel module of src/dtboverlay.c: insmod runs          *)
(* of_overlay_init() (lines 94-138), which reads the blob named by the    *)
(* dtbpath parameter into a kzalloc'd buffer, calls fdt_check_header() on *)
(* it (the validator of FdtHeader), fabricates a root node with debug()  *)
(* (lines 35-90) when the kernel has none, and hands the buffer to       *)
(* of_overlay_fdt_apply(); rmmod runs of_overlay_exit() (lines 140-142). *)
(* The module may be loaded again after it is gone, up to MaxLoads times.*)
(*                                                                         *)
(* The kernel services are collaborators outside the repository.  Each   *)
(* is modelled by the outcomes the module can see: filp_open and kzalloc *)
(* may fail, kernel_read may return short, the kprobe lookup and the     *)
(* GFP_ATOMIC allocations of debug() may fail (the code then calls or    *)
(* writes through NULL: an oops), and of_overlay_fdt_apply() validates   *)
(* the blob itself and may fail for reasons of its own.                   *)
(***************************************************************************)
EXTENDS FdtHeader, FiniteSets

CONSTANTS
  Files,      \* the contents the file at dtbpath may have: byte functions on 0..n-1
  ShortReads, \* byte counts a short kernel_read may return
  MaxLoads    \* bound on the number of insmods

ASSUME LoaderAssumption ==
  /\ \A f \in Files : /\ IsFiniteSet(DOMAIN f)
                     /\ DOMAIN f = 0 .. Cardinality(DOMAIN f) - 1
                     /\ \A i \in DOMAIN f : f[i] \in Byte
  /\ ShortReads \subseteq Nat
  /\ MaxLoads \in Nat

(* Error numbers the module returns.                                      *)
ENOENT == 2
EINVAL == 22

(* The values an int that no path assigned can hold when returned: the   *)
(* kernel treats a negative one as failure and anything else as success *)
(* (do_init_module only warns about a positive return).                  *)
Garbage == {-1, 0, 1}

VARIABLES
  of_root,   \* the kernel's of_root: "none" (NULL), "firmware" or "fabricated"
  rootLoad,  \* the load whose module image holds the fabricated root's names
  modstate,       \* the module: "unloaded", "init" (running of_overlay_init), "live", "oops"
  loads,     \* the number of insmods so far
  pc,        \* the next statement of of_overlay_init
  fileOpen,  \* whether dtbfile is open
  file,      \* the content of the opened file
  buf,       \* dtb_begin: "none", "zsp" (ZERO_SIZE_PTR), "null" or "heap"
  bytes,     \* the buffer's content, on 0 .. size - 1
  reads,     \* the header bytes fdt_check_header() loaded
  ret,       \* the values the local ret of of_overlay_init may hold
  ovcsid,    \* the static ovcsid of the module image
  overlays   \* the ids of the overlay changesets applied in the kernel

vars == <<of_root, rootLoad, modstate, loads, pc, fileOpen, file, buf, bytes,
          reads, ret, ovcsid, overlays>>

(* i_size_read() of the open file.                                        *)
FileSize(f) == Cardinality(DOMAIN f)

(* The buffer as a blob: kmalloc memory is 8-byte aligned.                *)
BufBlob(bs) == [addr |-> 0, bytes |-> bs]

(* insmod: the module image is loaded with its static ovcsid zero, and   *)
(* of_overlay_init() opens dtbpath (lines 104-111).                       *)
Insmod ==
  /\ modstate = "unloaded" /\ loads < MaxLoads
  /\ loads' = loads + 1 /\ modstate' = "init" /\ ovcsid' = 0 /\ reads' = {}
  /\ buf' = "none" /\ bytes' = <<>>
  /\ \/ /\ ret' = {-ENOENT} /\ pc' = "ret"
        /\ UNCHANGED <<fileOpen, file>>
     \/ \E f \in Files :
          /\ file' = f /\ fileOpen' = TRUE /\ pc' = "alloc"
          /\ ret' = Garbage
  /\ UNCHANGED <<of_root, rootLoad, overlays>>

(* size = i_size_read(...); dtb_begin = kzalloc(size, GFP_KERNEL); on     *)
(* NULL goto cleanup_file (lines 117-124).  kzalloc(0) returns            *)
(* ZERO_SIZE_PTR, which is not NULL.  The mutant jumps to out, past the   *)
(* filp_close.                                                            *)
MutAllocGotoOut ==
  /\ modstate = "init" /\ pc = "alloc"
  /\ IF FileSize(file) = 0
     THEN buf' = "zsp" /\ bytes' = <<>> /\ pc' = "read"
     ELSE \/ buf' = "heap" /\ bytes' = [i \in 0 .. FileSize(file) - 1 |-> 0]
             /\ pc' = "read"
          \/ buf' = "null" /\ bytes' = <<>> /\ pc' = "ret"
  /\ UNCHANGED <<of_root, rootLoad, modstate, loads, fileOpen, file, reads, ret,
                 ovcsid, overlays>>
Alloc ==
  /\ modstate = "init" /\ pc = "alloc"
  /\ IF FileSize(file) = 0
     THEN buf' = "zsp" /\ bytes' = <<>> /\ pc' = "read"
     ELSE \/ buf' = "heap" /\ bytes' = [i \in 0 .. FileSize(file) - 1 |-> 0]
             /\ pc' = "read"
          \/ buf' = "null" /\ bytes' = <<>> /\ pc' = "close"
  /\ UNCHANGED <<of_root, rootLoad, modstate, loads, fileOpen, file, reads, ret,
                 ovcsid, overlays>>

(* kernel_read(dtbfile, dtb_begin, size, &pos), its result ignored       *)
(* (line 126): the first n bytes of the file, n = size or a short count; *)
(* the rest of the buffer stays zero.  The mutant fills one byte more.   *)
MutReadPastSize ==
  /\ modstate = "init" /\ pc = "read"
  /\ \E n \in {FileSize(file)} \cup {r \in ShortReads : r < FileSize(file)} :
       bytes' = [i \in 0 .. FileSize(file) |->
                   IF i < n /\ i \in DOMAIN file THEN file[i] ELSE 0]
  /\ pc' = "check"
  /\ UNCHANGED <<of_root, rootLoad, modstate, loads, fileOpen, file, buf, reads,
                 ret, ovcsid, overlays>>
Read ==
  /\ modstate = "init" /\ pc = "read"
  /\ \E n \in {FileSize(file)} \cup {r \in ShortReads : r < FileSize(file)} :
       bytes' = [i \in 0 .. FileSize(file) - 1 |-> IF i < n THEN file[i] ELSE 0]
  /\ pc' = "check"
  /\ UNCHANGED <<of_root, rootLoad, modstate, loads, fileOpen, file, buf, reads,
                 ret, ovcsid, overlays>>

(* printk(..., fdt_check_header(dtb_begin)) (line 129): the result is    *)
(* only printed.  Through ZERO_SIZE_PTR the first load faults.            *)
Check ==
  /\ modstate = "init" /\ pc = "check"
  /\ IF buf = "zsp"
     THEN modstate' = "oops" /\ UNCHANGED <<pc, reads>>
     ELSE /\ reads' = CheckHeaderReads(BufBlob(bytes))
          /\ pc' = "debug" /\ UNCHANGED modstate
  /\ UNCHANGED <<of_root, rootLoad, loads, fileOpen, file, buf, bytes, ret,
                 ovcsid, overlays>>

(* debug() (lines 35-90): if (!of_root), kmalloc a root and a            *)
(* __symbols__ child, resolve of_node_ktype and __of_attach_node_sysfs   *)
(* through the kallsyms_lookup_name found by a kprobe, and set of_root.  *)
(* None of these calls is checked: when one fails the next line calls or *)
(* writes through NULL.  The names of both nodes are string literals of  *)
(* this module image.  The mutant forgets the if.                        *)
MutDebugNoGuard ==
  /\ modstate = "init" /\ pc = "debug"
  /\ \/ /\ of_root' = "fabricated" /\ rootLoad' = loads
        /\ pc' = "apply" /\ UNCHANGED modstate
     \/ modstate' = "oops" /\ UNCHANGED <<of_root, rootLoad, pc>>
  /\ UNCHANGED <<loads, fileOpen, file, buf, bytes, reads, ret, ovcsid, overlays>>
Debug ==
  /\ modstate = "init" /\ pc = "debug"
  /\ IF of_root # "none"
     THEN pc' = "apply" /\ UNCHANGED <<of_root, rootLoad, modstate>>
     ELSE \/ /\ of_root' = "fabricated" /\ rootLoad' = loads
             /\ pc' = "apply" /\ UNCHANGED modstate
          \/ modstate' = "oops" /\ UNCHANGED <<of_root, rootLoad, pc>>
  /\ UNCHANGED <<loads, fileOpen, file, buf, bytes, reads, ret, ovcsid, overlays>>

(* What of_overlay_fdt_apply() requires before it applies anything:      *)
(* size >= sizeof(struct fdt_header), its own fdt_check_header() passes, *)
(* the buffer holds totalsize bytes, and there is a tree to apply to.   *)
ApplyAccepts(bs) ==
  /\ FileSize(bs) >= FDT_V17_SIZE
  /\ FdtCheckHeader(BufBlob(bs)) = 0
  /\ FileSize(bs) >= Hdr(BufBlob(bs), "totalsize")
  /\ of_root # "none"

(* ret = of_overlay_fdt_apply(dtb_begin, size, &ovcsid) (line 131): on   *)
(* success the changeset gets a fresh id, stored in ovcsid.  The mutant  *)
(* does not assign the result to ret.                                     *)
MutApplyNoRet ==
  /\ modstate = "init" /\ pc = "apply"
  /\ \/ /\ ApplyAccepts(bytes)
        /\ ovcsid' = loads /\ overlays' = overlays \cup {loads}
        /\ UNCHANGED ret
     \/ ret' = {-EINVAL} /\ UNCHANGED <<ovcsid, overlays>>
  /\ pc' = "close"
  /\ UNCHANGED <<of_root, rootLoad, modstate, loads, fileOpen, file, buf, bytes, reads>>
Apply ==
  /\ modstate = "init" /\ pc = "apply"
  /\ \/ /\ ApplyAccepts(bytes)
        /\ ovcsid' = loads /\ overlays' = overlays \cup {loads}
        /\ ret' = {0}
     \/ ret' = {-EINVAL} /\ UNCHANGED <<ovcsid, overlays>>
  /\ pc' = "close"
  /\ UNCHANGED <<of_root, rootLoad, modstate, loads, fileOpen, file, buf, bytes, reads>>

(* cleanup_file: filp_close(dtbfile, 0) (line 134).                       *)
Close ==
  /\ modstate = "init" /\ pc = "close"
  /\ fileOpen' = FALSE /\ pc' = "ret"
  /\ UNCHANGED <<of_root, rootLoad, modstate, loads, file, buf, bytes, reads, ret,
                 ovcsid, overlays>>

(* out: return ret (line 137).  A negative value fails the insmod and    *)
(* the kernel frees the module; dtb_begin is never freed.                 *)
Return ==
  /\ modstate = "init" /\ pc = "ret"
  /\ \E rv \in ret :
       modstate' = IF rv < 0 THEN "unloaded" ELSE "live"
  /\ pc' = "idle"
  /\ UNCHANGED <<of_root, rootLoad, loads, fileOpen, file, buf, bytes, reads,
                 ret, ovcsid, overlays>>

(* rmmod: of_overlay_exit() calls of_overlay_remove(&ovcsid) (lines       *)
(* 140-142), which removes the changeset ovcsid names, if there is one,   *)
(* and zeroes the id; then the module image is freed.                     *)
Rmmod ==
  /\ modstate = "live"
  /\ IF ovcsid \in overlays
     THEN overlays' = overlays \ {ovcsid} /\ ovcsid' = 0
     ELSE UNCHANGED <<overlays, ovcsid>>
  /\ modstate' = "unloaded"
  /\ UNCHANGED <<of_root, rootLoad, loads, pc, fileOpen, file, buf, bytes,
                 reads, ret>>

(* Boot: the kernel has a firmware device tree or none (ACPI).            *)
Init ==
  /\ of_root \in {"none", "firmware"} /\ rootLoad = 0
  /\ modstate = "unloaded" /\ loads = 0 /\ pc = "idle"
  /\ fileOpen = FALSE /\ file = <<>> /\ buf = "none" /\ bytes = <<>>
  /\ reads = {} /\ ret = {0} /\ ovcsid = 0 /\ overlays = {}

Next ==
  \/ Insmod \/ Alloc \/ Read \/ Check \/ Debug \/ Apply \/ Close \/ Return
  \/ Rmmod

Spec == Init /\ [][Next]_vars

-----------------------------------------------------------------------------
(* The loader as the README promises it (LoaderAbstract): the module state *)
(* seen from outside, the root of the live tree and whether an overlay is *)
(* applied.                                                               *)
AbsName ==
  [unloaded |-> "out", init |-> "loading", live |-> "live", oops |-> "crashed"]
AbsModule == AbsName[modstate]

Abs == INSTANCE LoaderAbstract
         WITH root <- of_root, applied <- overlays # {}, module <- AbsModule

(* Every step of the module is a step of the promised loader or leaves   *)
(* what it promises unchanged: a root, once there, is never replaced, an *)
(* overlay is applied only while loading onto a root, a failed load      *)
(* leaves none behind and rmmod takes it away.                            *)
Refinement == Abs!Spec

(* Type invariant.                                                        *)
TypeOK ==
  /\ of_root \in {"none", "firmware", "fabricated"}
  /\ rootLoad \in 0 .. MaxLoads
  /\ modstate \in {"unloaded", "init", "live", "oops"}
  /\ loads \in 0 .. MaxLoads
  /\ pc \in {"idle", "alloc", "read", "check", "debug", "apply", "close", "ret"}
  /\ fileOpen \in BOOLEAN
  /\ file \in {<<>>} \cup Files
  /\ buf \in {"none", "zsp", "null", "heap"}
  /\ bytes \in {<<>>} \cup [DOMAIN file -> Byte]
  /\ reads \subseteq 0 .. FDT_V17_SIZE - 1
  /\ ret \in {Garbage, {0}, {-ENOENT}, {-EINVAL}}
  /\ ovcsid \in 0 .. MaxLoads
  /\ overlays \subseteq 1 .. MaxLoads

(* Whichever way of_overlay_init() ends, by a failed kzalloc, a failed   *)
(* apply or success, dtbfile is closed once the module is live or gone:  *)
(* the goto cleanup_file path is the one a test of the happy path never  *)
(* takes.                                                                 *)
FileClosedOnReturn == modstate \in {"live", "unloaded"} => ~fileOpen

(* An applied overlay always belongs to the module image that is loading *)
(* or loaded, and is the one its ovcsid names, so that of_overlay_exit() *)
(* can remove it: no load, failed or unloaded, across several insmods,   *)
(* leaves an overlay behind that nothing can remove.                     *)
OverlayOwnedByModule == \A o \in overlays : modstate \in {"init", "live"} /\ o = ovcsid

(* A load that succeeds has applied its overlay: insmod reports success   *)
(* only when of_overlay_fdt_apply() did.  The kzalloc failure path says  *)
(* "kmalloc error" and returns ret, which no statement assigned.         *)
LiveOnlyIfApplied == modstate = "live" => ovcsid \in overlays

(* fdt_check_header(dtb_begin) loads only bytes of the size bytes that   *)
(* kzalloc gave: the validator's blob is the buffer (spec section 3, a   *)
(* byte sequence of known size).  A file shorter than the 40-byte header *)
(* is read past the end of its buffer.                                    *)
CheckReadsInBuffer == reads \subseteq DOMAIN bytes

(* The fabricated root's names ("/", "/__symbols__") are string literals *)
(* of the module image that fabricated it, so of_root may name a         *)
(* fabricated node only while that image is loaded.  The README says an  *)
(* uninstall is not safe.                                                 *)
RootNamesLive ==
  of_root = "fabricated" => modstate \in {"init", "live", "oops"} /\ rootLoad = loads

=============================================================================
