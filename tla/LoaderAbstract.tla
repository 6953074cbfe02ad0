---------------------------- MODULE LoaderAbstract ----------------------------
(***************************************************************************)
(* What the dtboverlay module promises (its README): on a system without *)
(* a device tree it creates an empty root node, so that an overlay blob  *)
(* can be applied over it; insmod applies the overlay and rmmod removes  *)
(* it.  A load may fail, or crash the kernel.                             *)
(***************************************************************************)
VARIABLES
  root,     \* the root of the live tree: "none", "firmware" or "fabricated"
  applied,  \* whether the module's overlay is applied
  module    \* "out", "loading", "live" or "crashed"

vars == <<root, applied, module>>

Init ==
  /\ root \in {"none", "firmware"}
  /\ applied = FALSE
  /\ module = "out"

(* insmod starts the module's init.                                       *)
Load == module = "out" /\ module' = "loading" /\ UNCHANGED <<root, applied>>

(* The module creates the empty root, only when there is none.            *)
CreateRoot ==
  /\ module = "loading" /\ root = "none"
  /\ root' = "fabricated" /\ UNCHANGED <<applied, module>>

(* The overlay is applied over an existing root.                          *)
ApplyOverlay ==
  /\ module = "loading" /\ root # "none" /\ ~applied
  /\ applied' = TRUE /\ UNCHANGED <<root, module>>

(* init returns: a load that applied its overlay stays loaded; one that  *)
(* did not may report either outcome.                                     *)
Finish ==
  /\ module = "loading"
  /\ module' \in IF applied THEN {"live"} ELSE {"live", "out"}
  /\ UNCHANGED <<root, applied>>

(* The kernel oopses during the load.                                     *)
Crash == module = "loading" /\ ~applied /\ module' = "crashed" /\ UNCHANGED <<root, applied>>

(* rmmod removes the overlay.                                             *)
Unload ==
  /\ module = "live"
  /\ module' = "out" /\ applied' = FALSE /\ UNCHANGED root

Next == Load \/ CreateRoot \/ ApplyOverlay \/ Finish \/ Crash \/ Unload

Spec == Init /\ [][Next]_vars

=============================================================================
