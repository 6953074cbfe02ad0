--------------------------- MODULE KdbgProbeProofs ---------------------------
(***************************************************************************)
(* Proofs about the kdbg module for every set of CPUs and every bound on  *)
(* the loads: the probe is armed exactly while the module is live, and   *)
(* no CPU runs the handler once the module image is freed.               *)
(***************************************************************************)
EXTENDS KdbgProbe, TLAPS

(* The two safety properties hold together: a handler can start only     *)
(* while the probe is armed, which is while the module is live.          *)
IInv == TypeOK /\ ArmedIffLive /\ HandlerCodeLoaded

LEMMA InitIInv == Init => IInv
<1> SUFFICES ASSUME Init PROVE IInv
  OBVIOUS
<1>1. registered \in BOOLEAN /\ ArmedIffLive
  BY Zenon DEF Init, ArmedIffLive
<1>2. /\ modstate \in {"unloaded", "live", "exiting"}
      /\ running \subseteq CPUs /\ loads \in 0 .. MaxLoads
      /\ HandlerCodeLoaded
  BY KdbgAssumption DEF Init, HandlerCodeLoaded
<1>. QED
  BY <1>1, <1>2 DEF IInv, TypeOK

(* The part of the state that is not the probe's arming.                  *)
Rest == /\ modstate \in {"unloaded", "live", "exiting"}
        /\ running \subseteq CPUs /\ loads \in 0 .. MaxLoads

LEMMA StepIInv == IInv /\ [Next]_vars => IInv'
<1> SUFFICES ASSUME IInv, [Next]_vars PROVE IInv'
  OBVIOUS
<1>0. Rest /\ registered \in BOOLEAN /\ ArmedIffLive /\ HandlerCodeLoaded
  BY DEF IInv, TypeOK, Rest
<1>a. IInv' <=> Rest' /\ registered' \in BOOLEAN /\ ArmedIffLive' /\ HandlerCodeLoaded'
  BY DEF IInv, TypeOK, Rest
<1>1. CASE KdbgInit
  <2>1. running = {} /\ loads' = loads + 1 /\ loads < MaxLoads /\ UNCHANGED running
    BY <1>0, <1>1 DEF KdbgInit, HandlerCodeLoaded
  <2>2. PICK ret \in {0, -ENOENT} :
          /\ registered' = (ret = 0)
          /\ modstate' = IF ret < 0 THEN "unloaded" ELSE "live"
    BY <1>1 DEF KdbgInit
  <2>3. Rest' /\ HandlerCodeLoaded'
    BY <1>0, <2>1, <2>2, KdbgAssumption DEF Rest, HandlerCodeLoaded, ENOENT
  <2>4. (ret = 0) <=> (modstate' = "live")
    BY <2>2 DEF ENOENT
  <2>5. registered' \in BOOLEAN /\ ArmedIffLive'
    BY <2>2, <2>4, Zenon DEF ArmedIffLive
  <2>. QED
    BY <1>a, <2>3, <2>5
<1>2. CASE KdbgExit
  <2>1. CASE modstate = "live" /\ registered' = FALSE /\ modstate' = "exiting"
             /\ UNCHANGED <<running, loads>>
    <3>1. Rest' /\ HandlerCodeLoaded'
      BY <1>0, <2>1 DEF Rest, HandlerCodeLoaded
    <3>2. modstate' # "live"
      BY <2>1
    <3>3. registered' \in BOOLEAN /\ ArmedIffLive'
      BY <2>1, <3>2, Zenon DEF ArmedIffLive
    <3>. QED
      BY <1>a, <3>1, <3>3
  <2>2. CASE modstate = "exiting" /\ running = {} /\ modstate' = "unloaded"
             /\ UNCHANGED <<registered, running, loads>>
    <3>1. Rest' /\ HandlerCodeLoaded'
      BY <1>0, <2>2 DEF Rest, HandlerCodeLoaded
    <3>2. ~registered
      BY <1>0, <2>2, Zenon DEF ArmedIffLive
    <3>3. modstate' # "live"
      BY <2>2
    <3>5. registered' = registered
      BY <2>2
    <3>4. registered' \in BOOLEAN /\ ArmedIffLive'
      BY <1>0, <3>2, <3>3, <3>5, Zenon DEF ArmedIffLive
    <3>. QED
      BY <1>a, <3>1, <3>4
  <2>. QED
    BY <1>2, <2>1, <2>2 DEF KdbgExit
<1>3. ASSUME NEW c \in CPUs, HandlerEnter(c) PROVE IInv'
  <2>1. registered /\ UNCHANGED <<modstate, registered, loads>>
        /\ running' = running \cup {c}
    BY <1>3 DEF HandlerEnter
  <2>2. modstate = "live"
    BY <1>0, <2>1, Zenon DEF ArmedIffLive
  <2>3. Rest' /\ HandlerCodeLoaded'
    BY <1>0, <2>1, <2>2 DEF Rest, HandlerCodeLoaded
  <2>4. registered' \in BOOLEAN /\ ArmedIffLive'
    BY <1>0, <2>1, Zenon DEF ArmedIffLive
  <2>. QED
    BY <1>a, <2>3, <2>4
<1>4. ASSUME NEW c \in CPUs, HandlerExit(c) PROVE IInv'
  <2>1. UNCHANGED <<modstate, registered, loads>> /\ running' = running \ {c}
    BY <1>4 DEF HandlerExit
  <2>2. Rest' /\ HandlerCodeLoaded'
    BY <1>0, <2>1 DEF Rest, HandlerCodeLoaded
  <2>3. registered' \in BOOLEAN /\ ArmedIffLive'
    BY <1>0, <2>1, Zenon DEF ArmedIffLive
  <2>. QED
    BY <1>a, <2>2, <2>3
<1>5. CASE UNCHANGED vars
  <2>1. UNCHANGED <<modstate, registered, running, loads>>
    BY <1>5 DEF vars
  <2>2. Rest' /\ HandlerCodeLoaded'
    BY <1>0, <2>1 DEF Rest, HandlerCodeLoaded
  <2>3. registered' \in BOOLEAN /\ ArmedIffLive'
    BY <1>0, <2>1, Zenon DEF ArmedIffLive
  <2>. QED
    BY <1>a, <2>2, <2>3
<1>. QED
  BY <1>1, <1>2, <1>3, <1>4, <1>5 DEF Next

(* kdbg_init() and kdbg_exit() keep the module's state well typed.        *)
THEOREM KdbgTypeCorrect == Spec => []TypeOK
<1>1. IInv => TypeOK
  BY DEF IInv
<1>. QED
  BY InitIInv, StepIInv, <1>1, PTL DEF Spec

(* The kprobe is armed exactly while kdbg_init() has succeeded and        *)
(* kdbg_exit() has not begun.                                             *)
THEOREM ArmedIffLiveInvariant == Spec => []ArmedIffLive
<1>1. IInv => ArmedIffLive
  BY DEF IInv
<1>. QED
  BY InitIInv, StepIInv, <1>1, PTL DEF Spec

(* No CPU is in dump_contextidr after unregister_kprobe() has returned    *)
(* and the module image is gone.                                          *)
THEOREM HandlerCodeLoadedInvariant == Spec => []HandlerCodeLoaded
<1>1. IInv => HandlerCodeLoaded
  BY DEF IInv
<1>. QED
  BY InitIInv, StepIInv, <1>1, PTL DEF Spec

=============================================================================
