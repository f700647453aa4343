--------------------------- MODULE MCTimerWorker ----------------------------
(* Small instances of TimerWorker. *)
EXTENDS TimerWorker

CONSTANTS once, again   \* a one-shot and a periodic timer
=============================================================================
