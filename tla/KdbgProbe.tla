------------------------------ MODULE KdbgProbe ------------------------------
(***************************************************************************)
(* The kdbg module of src/dtboverlay.c (lines 165-199): kdbg_init()      *)
(* sets the pre-handler dump_contextidr and registers a kprobe on         *)
(* __arm64_sys_getdents64; every CPU that enters the probed function     *)
(* runs the handler, which lives in the module image; kdbg_exit()        *)
(* unregisters the probe.  unregister_kprobe() disarms the probe and     *)
(* then waits (synchronize_rcu) for the handlers already running.        *)
(***************************************************************************)
EXTENDS Integers

CONSTANTS
  CPUs,      \* the processors that may hit the probe
  MaxLoads   \* bound on the number of insmods

ASSUME KdbgAssumption == CPUs # {} /\ MaxLoads \in Nat

(* The error register_kprobe() returns when the symbol is missing.        *)
ENOENT == 2

VARIABLES
  modstate,         \* "unloaded", "live" or "exiting" (in unregister_kprobe)
  registered,  \* whether kp is armed
  running,     \* the CPUs executing dump_contextidr
  loads        \* the number of insmods so far

vars == <<modstate, registered, running, loads>>

(* kdbg_init(): ret = register_kprobe(&kp); a negative ret is printed    *)
(* and returned, which fails the insmod (lines 183-191).  The mutant      *)
(* returns 0 whatever register_kprobe() said.                             *)
MutInitIgnoreRet ==
  /\ modstate = "unloaded" /\ loads < MaxLoads
  /\ loads' = loads + 1
  /\ \E ret \in {0, -ENOENT} :
       /\ registered' = (ret = 0)
       /\ modstate' = "live"
  /\ UNCHANGED running
KdbgInit ==
  /\ modstate = "unloaded" /\ loads < MaxLoads
  /\ loads' = loads + 1
  /\ \E ret \in {0, -ENOENT} :
       /\ registered' = (ret = 0)
       /\ modstate' = IF ret < 0 THEN "unloaded" ELSE "live"
  /\ UNCHANGED running

(* A CPU enters the probed function and runs dump_contextidr (lines     *)
(* 173-181): it reads CONTEXTIDR_EL1 and prints it.                      *)
HandlerEnter(c) ==
  /\ registered /\ c \notin running
  /\ running' = running \cup {c}
  /\ UNCHANGED <<modstate, registered, loads>>

(* The handler returns 0: the probed instruction runs on.                 *)
HandlerExit(c) ==
  /\ c \in running
  /\ running' = running \ {c}
  /\ UNCHANGED <<modstate, registered, loads>>

(* kdbg_exit(): unregister_kprobe(&kp) (lines 193-195) disarms the probe *)
(* and waits until no handler runs; then the module image is freed.  The *)
(* first mutant frees the image without waiting; the second waits        *)
(* without disarming first.                                               *)
MutExitNoSync ==
  \/ /\ modstate = "live"
     /\ registered' = FALSE /\ modstate' = "unloaded"
     /\ UNCHANGED <<running, loads>>
  \/ /\ modstate = "exiting" /\ running = {}
     /\ modstate' = "unloaded"
     /\ UNCHANGED <<registered, running, loads>>
MutExitNoDisarm ==
  \/ /\ modstate = "live"
     /\ modstate' = "exiting"
     /\ UNCHANGED <<registered, running, loads>>
  \/ /\ modstate = "exiting" /\ running = {}
     /\ registered' = FALSE /\ modstate' = "unloaded"
     /\ UNCHANGED <<running, loads>>
KdbgExit ==
  \/ /\ modstate = "live"
     /\ registered' = FALSE /\ modstate' = "exiting"
     /\ UNCHANGED <<running, loads>>
  \/ /\ modstate = "exiting" /\ running = {}
     /\ modstate' = "unloaded"
     /\ UNCHANGED <<registered, running, loads>>

Init ==
  /\ modstate = "unloaded" /\ registered = FALSE /\ running = {} /\ loads = 0

Next ==
  \/ KdbgInit \/ KdbgExit
  \/ \E c \in CPUs : HandlerEnter(c) \/ HandlerExit(c)

Spec == Init /\ [][Next]_vars

(* dump_contextidr is straight-line code, so a CPU in it returns when it  *)
(* is scheduled, and rmmod's wait ends when the scheduler runs it again.  *)
FairSpec ==
  /\ Spec
  /\ \A c \in CPUs : WF_vars(HandlerExit(c))
  /\ WF_vars(KdbgExit)

-----------------------------------------------------------------------------
(* Type invariant.                                                        *)
TypeOK ==
  /\ modstate \in {"unloaded", "live", "exiting"}
  /\ registered \in BOOLEAN
  /\ running \subseteq CPUs
  /\ loads \in 0 .. MaxLoads

(* The probe is armed exactly while the module is loaded and not leaving: *)
(* an insmod that reports success has registered it (so that kdbg_exit()  *)
(* unregisters a registered probe), and a failed one has left nothing     *)
(* armed.                                                                 *)
ArmedIffLive == registered <=> modstate = "live"

(* dump_contextidr is code of the module image, so no CPU runs it once    *)
(* the image is freed, however the handlers on several CPUs interleave   *)
(* with rmmod.                                                            *)
HandlerCodeLoaded == running # {} => modstate \in {"live", "exiting"}

(* An rmmod that has begun finishes: unregister_kprobe() disarms the     *)
(* probe before it waits, so the CPUs in the handler drain and no new    *)
(* one enters while it waits.                                             *)
ExitCompletes == modstate = "exiting" ~> modstate = "unloaded"

=============================================================================
