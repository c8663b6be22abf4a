---------------------------- MODULE MC_Scheduler ----------------------------
(* Instances of Scheduler for TLC: which calls the programs of a run make.  *)
EXTENDS Scheduler

PollerUses == {"fd", "fdtimer", "sleep", "cancel", "unowned"}
DeadlineUses == {"fork", "fd", "timeout"}
CancelUses == {"yield", "fork", "move", "chan", "sleep", "cancel", "timeout"}
StarveUses == {"yield", "fd", "timeout"}
CaptureUses == {"yield", "capture"}
NestedUses == {"nested", "sleep", "cancel"}
=============================================================================
