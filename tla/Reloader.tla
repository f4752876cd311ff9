----------------------------- MODULE Reloader -----------------------------
(***************************************************************************)
(* internal/config/reload.go, reload_unix.go and Gateway.OnReload: hot     *)
(* reload of the configuration file.                                       *)
(*                                                                         *)
(* Reload is run by the goroutines of expired debounce timers and by the   *)
(* SIGHUP goroutine, without a lock around the whole of it.  A             *)
(* configuration is named by the number of the file edit that wrote it.    *)
(* Parts are what the observers rewrite at once, in the order they do it;  *)
(* Gateway.OnReload is one observer with several parts (the limiter, the   *)
(* fields and the window of every breaker, the route table).  An observer  *)
(* may give up at any of them.                                             *)
(***************************************************************************)
EXTENDS Integers

CONSTANTS
    Timers,         \* goroutines for debounce timers that have expired
    Hup,            \* the SIGHUP goroutine
    MaxEdits,       \* bound on the edits of the file
    NumParts,
    Invalid,        \* the edits that Load refuses
    Rejected        \* <<part, edit>>: OnReload returns an error or panics there

Parts    == 1..NumParts
Edits    == 0..MaxEdits
Runners  == Timers \cup {Hup}

ASSUME ReloaderAssumption ==
    /\ MaxEdits \in Nat
    /\ NumParts \in Nat \ {0}
    /\ Invalid \subseteq 1..MaxEdits
    /\ Rejected \subseteq Parts \X (1..MaxEdits)
    /\ Hup \notin Timers

VARIABLES
    disk,           \* the edit the file holds
    event,          \* a write event waits in watcher.Events
    timer,          \* the debounce timer is armed
    hup,            \* a signal waits in sigCh
    stopped,        \* stopCh is closed
    watching,       \* watchLoop runs
    watched,        \* the watch on the file: "notyet", "yes", "lost", "failed"
    missed,         \* the file was changed without an event since it was last loaded
    current,        \* r.current
    applied,        \* part -> the configuration it runs with
    pc,             \* runner -> "idle", "load", "swap", "observe", "rollback"
    new, old,       \* runner -> newCfg, old
    at,             \* runner -> the next part to rewrite
    lastOk,         \* what the Reload that returned last returned
    overlap         \* "now": of the Reloads since the last quiet moment one started while
                    \* another was running; "before": that was so earlier; "never"

vars == <<disk, event, timer, hup, stopped, watching, watched, missed, current, applied,
          pc, new, old, at, lastOk, overlap>>
sight   == <<watched, missed>>
runVars == <<pc, new, old, at>>
ghost   == <<lastOk, overlap>>

Goto(w, label) == pc' = [pc EXCEPT ![w] = label]

\* Reload returns; its local variables are gone.
Finish(w, ok) ==
    /\ Goto(w, "idle")
    /\ lastOk' = ok
    /\ new' = [new EXCEPT ![w] = 0]
    /\ old' = [old EXCEPT ![w] = 0]
    /\ at' = [at EXCEPT ![w] = 1]
    /\ UNCHANGED overlap

Quiet == \A w \in Runners : pc[w] = "idle"

\* A goroutine calls Reload.
Start(w) ==
    /\ Goto(w, "load")
    /\ overlap' = CASE ~Quiet -> "now"
                    [] Quiet /\ overlap = "now" -> "before"
                    [] OTHER -> overlap

\* OnReload returns an error, or panics, when it has come to part p: what it has
\* rewritten before stays rewritten.
Rejects(p, v) == <<p, v>> \in Rejected

-----------------------------------------------------------------------------
Init ==
    /\ disk = 0
    /\ event = FALSE
    /\ timer = FALSE
    /\ hup = FALSE
    /\ stopped = FALSE
    /\ watching = FALSE /\ watched = "notyet" /\ missed = FALSE
    /\ current = 0
    /\ applied = [p \in Parts |-> 0]
    /\ pc = [w \in Runners |-> "idle"]
    /\ new = [w \in Runners |-> 0]
    /\ old = [w \in Runners |-> 0]
    /\ at = [w \in Runners |-> 1]
    /\ lastOk = TRUE
    /\ overlap = "never"

\* Reloader.Start: the watch is added to the file, which main has loaded before.
StartWatch ==
    /\ watched = "notyet"
    /\ watched' = "yes" /\ watching' = TRUE
    /\ UNCHANGED <<missed, disk, event, timer, hup, stopped, current, applied, runVars, ghost>>

\* Start returns early: no watcher, or none on the file, and then no SIGHUP handler either.
StartFails ==
    /\ watched = "notyet"
    /\ watched' = "failed"
    /\ UNCHANGED <<missed, disk, event, timer, hup, stopped, watching, current, applied, runVars, ghost>>

\* Somebody writes the file.
Edit ==
    /\ disk < MaxEdits
    /\ disk' = disk + 1
    /\ event' = (event \/ (watched = "yes" /\ watching))
    /\ missed' = (missed \/ watched # "yes")
    /\ UNCHANGED <<watched, timer, hup, stopped, watching, current, applied, runVars, ghost>>

\* Somebody renames a new file over it: the watch was on the file that is gone, and what
\* the watcher reports of that is neither a write nor a create.
Replace ==
    /\ disk < MaxEdits /\ watched = "yes"
    /\ disk' = disk + 1
    /\ watched' = "lost" /\ missed' = TRUE
    /\ UNCHANGED <<event, timer, hup, stopped, watching, current, applied, runVars, ghost>>

\* SIGHUP arrives where there is a handler; sigCh holds one signal.
Signal ==
    /\ ~stopped /\ watched \in {"yes", "lost"}
    /\ hup' = TRUE
    /\ UNCHANGED <<sight, disk, event, timer, stopped, watching, current, applied, runVars, ghost>>

\* Fault: an event that finds the timer armed is dropped with it.
WatchEventDrops ==
    /\ watching /\ event
    /\ event' = FALSE
    /\ timer' = ~timer
    /\ UNCHANGED <<sight, disk, hup, stopped, watching, current, applied, runVars, ghost>>

\* watchLoop, a write event: the armed timer is stopped and a new one started.
WatchEvent ==
    /\ watching /\ event
    /\ event' = FALSE
    /\ timer' = TRUE
    /\ UNCHANGED <<sight, disk, hup, stopped, watching, current, applied, runVars, ghost>>

\* Fault: the stop branch does not return and starts one more timer.
WatchStopRearms ==
    /\ watching /\ stopped
    /\ timer' = TRUE
    /\ UNCHANGED <<sight, disk, event, hup, stopped, watching, current, applied, runVars, ghost>>

\* watchLoop, stopCh closed.
WatchStop ==
    /\ watching /\ stopped
    /\ watching' = FALSE
    /\ timer' = FALSE
    /\ event' = FALSE
    /\ UNCHANGED <<sight, disk, hup, stopped, current, applied, runVars, ghost>>

\* watchLoop finds the Events channel closed, which Stop closes after stopCh, and
\* returns without stopping the timer.
WatchClosed ==
    /\ watching /\ stopped
    /\ watching' = FALSE
    /\ event' = FALSE
    /\ UNCHANGED <<sight, disk, timer, hup, stopped, current, applied, runVars, ghost>>

\* Closes stopCh and then the watcher; waits for nobody.
Stop ==
    /\ ~stopped /\ watched # "notyet"
    /\ stopped' = TRUE
    /\ UNCHANGED <<sight, disk, event, timer, hup, watching, current, applied, runVars, ghost>>

\* The timer expires; its function runs in a goroutine of its own.
TimerFires(w) ==
    /\ w \in Timers /\ pc[w] = "idle"
    /\ timer
    /\ timer' = FALSE
    /\ Start(w)
    /\ UNCHANGED <<sight, disk, event, hup, stopped, watching, current, applied, new, old, at, lastOk>>

\* The SIGHUP goroutine; with both channels ready its select may still take the
\* signal after Stop.
TakeSignal ==
    /\ hup /\ pc[Hup] = "idle"
    /\ hup' = FALSE
    /\ Start(Hup)
    /\ UNCHANGED <<sight, disk, event, timer, stopped, watching, current, applied, new, old, at, lastOk>>

-----------------------------------------------------------------------------
\* Load, without the lock: an invalid file ends the reload.
Load(w) ==
    /\ pc[w] = "load"
    /\ missed' = FALSE
    /\ \/ /\ disk \in Invalid
          /\ Finish(w, FALSE)
       \/ /\ disk \notin Invalid
          /\ new' = [new EXCEPT ![w] = disk]
          /\ Goto(w, "swap")
          /\ UNCHANGED <<old, at, ghost>>
    /\ UNCHANGED <<watched, disk, event, timer, hup, stopped, watching, current, applied>>

\* The first critical section.
Swap(w) ==
    /\ pc[w] = "swap"
    /\ old' = [old EXCEPT ![w] = current]
    /\ current' = new[w]
    /\ Goto(w, "observe")
    /\ UNCHANGED <<sight, disk, event, timer, hup, stopped, watching, applied, new, at, ghost>>

\* One observer rewrites one of its parts.
Apply(w) ==
    /\ pc[w] = "observe" /\ at[w] <= NumParts
    /\ ~Rejects(at[w], new[w])
    /\ applied' = [applied EXCEPT ![at[w]] = new[w]]
    /\ at' = [at EXCEPT ![w] = @ + 1]
    /\ UNCHANGED <<sight, disk, event, timer, hup, stopped, watching, current, pc, new, old, ghost>>

\* Fault: the loop goes on after an observer has given up.
RejectContinues(w) ==
    /\ pc[w] = "observe" /\ at[w] <= NumParts
    /\ Rejects(at[w], new[w])
    /\ at' = [at EXCEPT ![w] = @ + 1]
    /\ UNCHANGED <<sight, disk, event, timer, hup, stopped, watching, current, applied,
                   pc, new, old, ghost>>

\* invokeObserver reports an error or a recovered panic.
Reject(w) ==
    /\ pc[w] = "observe" /\ at[w] <= NumParts
    /\ Rejects(at[w], new[w])
    /\ Goto(w, "rollback")
    /\ UNCHANGED <<sight, disk, event, timer, hup, stopped, watching, current, applied,
                   new, old, at, ghost>>

\* Fault: the pointer keeps the rejected configuration.
RollbackNot(w) ==
    /\ pc[w] = "rollback"
    /\ Finish(w, FALSE)
    /\ UNCHANGED <<sight, disk, event, timer, hup, stopped, watching, current, applied>>

\* The second critical section: the pointer is put back, nothing else is.
Rollback(w) ==
    /\ pc[w] = "rollback"
    /\ current' = old[w]
    /\ Finish(w, FALSE)
    /\ UNCHANGED <<sight, disk, event, timer, hup, stopped, watching, applied>>

Return(w) ==
    /\ pc[w] = "observe" /\ at[w] > NumParts
    /\ Finish(w, TRUE)
    /\ UNCHANGED <<sight, disk, event, timer, hup, stopped, watching, current, applied>>

-----------------------------------------------------------------------------
Run(w) == Load(w) \/ Swap(w) \/ Apply(w) \/ Reject(w) \/ Rollback(w) \/ Return(w)

Next ==
    \/ StartWatch \/ StartFails \/ Edit \/ Replace \/ Signal \/ Stop
    \/ WatchEvent \/ WatchStop \/ WatchClosed \/ TakeSignal
    \/ \E w \in Runners : TimerFires(w) \/ Run(w)

Spec == Init /\ [][Next]_vars

\* Goroutines are scheduled and timers expire; edits, signals and Stop may or
\* may not come.
FairSpec ==
    /\ Spec
    /\ WF_vars(StartWatch \/ StartFails) /\ WF_vars(WatchEvent)
    /\ WF_vars(WatchStop \/ WatchClosed) /\ WF_vars(~stopped /\ TakeSignal)
    /\ WF_vars(\E w \in Timers : TimerFires(w))
    /\ \A w \in Runners : WF_vars(Run(w))

-----------------------------------------------------------------------------
Acceptable(v) == v \notin Invalid /\ \A p \in Parts : ~Rejects(p, v)

\* Every variable has its type.
TypeOK ==
    /\ disk \in Edits /\ current \in Edits
    /\ applied \in [Parts -> Edits]
    /\ pc \in [Runners -> {"idle", "load", "swap", "observe", "rollback"}]
    /\ new \in [Runners -> Edits] /\ old \in [Runners -> Edits]
    /\ at \in [Runners -> 1..(NumParts + 1)]
    /\ watched \in {"notyet", "yes", "lost", "failed"} /\ missed \in BOOLEAN
    /\ event \in BOOLEAN /\ timer \in BOOLEAN /\ hup \in BOOLEAN
    /\ stopped \in BOOLEAN /\ watching \in BOOLEAN
    /\ lastOk \in BOOLEAN /\ overlap \in {"never", "before", "now"}

\* reload.go:148-151: "the swap is reverted", but what an observer has rewritten before
\* it gave up is not.  Reloads that came one after the other tear the gateway in one
\* way only: the parts run newer and newer configurations towards the front, and the
\* last one runs the configuration the pointer is at.
TornInOrder ==
    /\ TypeOK
    /\ overlap = "never" => /\ \A p, q \in Parts : p < q => applied[p] >= applied[q]
                            /\ Quiet => applied[NumParts] = current

\* reload.go:138, "Stop terminates the file watcher and signal handler": Stop does
\* not wait, but the timers and reloads it finds under way come to an end.
EndsAfterStop == <>[](stopped => Quiet /\ ~watching /\ ~timer)

\* gateway.go:265-268, "a rollback (which only restores the Reloader's current
\* pointer) followed by a later successful reload will always bring subsystems in
\* line with the config": when no reload is running and the last one succeeded,
\* every part runs with the current configuration.
InLineAfterSuccess == Quiet /\ lastOk => \A p \in Parts : applied[p] = current

\* A success of a Reload that ran alone brings every part in line with the current
\* configuration, whatever rollbacks and overlapping reloads have left before
\* (gateway.go:265-268); and while reloads never overlapped, the current configuration
\* is one that was loaded and every observer accepts (reload.go:148-151, "If any
\* observer returns an error or panics, the swap is reverted").
SerialReloadsSettle ==
    Quiet => /\ overlap # "now" => InLineAfterSuccess
             /\ overlap = "never" => Acceptable(current)

\* reload.go:40, "Reloader watches the config file and reloads on changes": unless
\* the last reloads overlapped or the reloader is stopped, the last edit, if it can be
\* accepted, becomes the current configuration and stays it, however edits,
\* events, debouncing and signals interleave.  A change that went unseen, because
\* the watch was not there yet, could not be had or is on a file that was renamed
\* away, waits for the next reload, which SIGHUP can start if Start has succeeded.
CatchesUp == <>[](Acceptable(disk) => stopped \/ overlap = "now" \/ missed \/ current = disk)
=============================================================================
