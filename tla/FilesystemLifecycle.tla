------------------------- MODULE FilesystemLifecycle -------------------------
(***************************************************************************)
(* What a Session promises to the Filesystem it serves (trait Filesystem,  *)
(* src/src/lib.rs): init is called at most once and by nobody else than    *)
(* the session, callbacks run only between a successful init and destroy,  *)
(* destroy is called at most once, alone, and nothing is called after it.  *)
(* A filesystem whose mount never came to be is dropped without destroy.   *)
(***************************************************************************)

CONSTANT Workers         \* the threads that may run callbacks

VARIABLES phase,         \* where the filesystem is in its life
          active         \* the threads inside a callback

lifecycleVars == <<phase, active>>

Phases == {"new", "ready", "failed", "destroying", "destroyed", "discarded"}

LTypeOK == phase \in Phases /\ active \in SUBSET Workers

LInit == phase = "new" /\ active = {}

(* Filesystem::init returned Ok, or an error. *)
InitReturns ==
  /\ phase = "new"
  /\ phase' \in {"ready", "failed"}
  /\ UNCHANGED active

BeginCallback(w) ==
  /\ phase = "ready"
  /\ w \notin active
  /\ active' = active \cup {w}
  /\ UNCHANGED phase

EndCallback(w) ==
  /\ w \in active
  /\ active' = active \ {w}
  /\ UNCHANGED phase

(* Filesystem::destroy needs the filesystem for itself. *)
BeginDestroy ==
  /\ phase \in {"new", "ready", "failed"}
  /\ active = {}
  /\ phase' = "destroying"
  /\ UNCHANGED active

EndDestroy ==
  /\ phase = "destroying"
  /\ phase' = "destroyed"
  /\ UNCHANGED active

Discard ==
  /\ phase = "new"
  /\ phase' = "discarded"
  /\ UNCHANGED active

LNext ==
  \/ InitReturns
  \/ \E w \in Workers : BeginCallback(w) \/ EndCallback(w)
  \/ BeginDestroy
  \/ EndDestroy
  \/ Discard

LSpec == LInit /\ [][LNext]_lifecycleVars
==============================================================================
