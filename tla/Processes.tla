----------------------------- MODULE Processes -----------------------------
(***************************************************************************)
(* The two ends of the service's life: the desktop shell that starts and   *)
(* stops it (SidecarLifecycle), and the supervisor and watchdog it starts  *)
(* it through (ProcessSupervision).  To each of them the other is a        *)
(* process that may end at any time, and they share no state.              *)
(***************************************************************************)
EXTENDS SidecarLifecycle

CONSTANTS ServiceWorkers,  \* processes the service may fork
          MaxCrashes, MaxScanFaults, MaxHandOffs

VARIABLES proc, executed, at, pipe, bound, captured, clean, result, left, lost

keeperVars == <<proc, executed, at, pipe, bound, captured, clean, result, left, lost>>

K == INSTANCE ProcessSupervision WITH Workers <- ServiceWorkers, budget <- left

ASSUME KeepersAssumption == K!SupervisionAssumption

\* When the supervisor returns the status of the service, no process of the
\* service is left, unless work was handed on behind a scan of a clean-up twice
\* (lifecycle.py:489-560, 1400-1428).
StatusMeansClean == K!StatusMeansClean
=============================================================================
