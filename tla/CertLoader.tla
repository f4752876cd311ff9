----------------------------- MODULE CertLoader -----------------------------
(***************************************************************************)
(* internal/tlsutil/certloader.go: the certificate of the TLS listener and *)
(* its reload when the files change.                                       *)
(*                                                                         *)
(* A file's content is a number: 2g is generation g, 2g+1 a file that is   *)
(* being overwritten with generation g+1.  A certificate and a key belong  *)
(* together when they are of one generation.  The two files are read one   *)
(* after the other without a lock, by New and by the goroutines of expired *)
(* debounce timers, which may overlap.                                     *)
(***************************************************************************)
EXTENDS Integers, FiniteSets

CONSTANTS
    Timers,         \* goroutines for debounce timers that have expired
    MaxGeneration   \* bound on the generations

ASSUME LoaderAssumption == MaxGeneration \in Nat /\ "new" \notin Timers

Files    == {"cert", "key"}
Loaders  == Timers \cup {"new"}
Contents == 0..(2 * MaxGeneration)

VARIABLES
    file,           \* file -> its content
    watched,        \* the files under watch
    event,          \* a write event waits in watcher.Events
    timer,          \* the debounce timer is armed
    stopped,        \* Stop has been called
    watching,       \* watchLoop runs
    served,         \* cl.cert: the content of the pair, or -1 before the first load
    lpc,            \* loader -> "idle", "cert", "key", "install"; New also "watch"
    read,           \* loader -> the content of the certificate it has read
    newFailed,      \* New has returned an error
    overlapped,     \* a load has started while another one was running
    heard           \* the last change of a file was made in place, under watch

loaderVars == <<file, watched, event, timer, stopped, watching, served, lpc, read,
                newFailed, overlapped, heard>>

Whole(content) == content % 2 = 0
LoaderGoto(w, label) == lpc' = [lpc EXCEPT ![w] = label]

LoaderInit ==
    /\ file = [f \in Files |-> 0]
    /\ watched = {} /\ event = FALSE /\ timer = FALSE
    /\ stopped = FALSE /\ watching = FALSE
    /\ served = -1
    /\ lpc = [w \in Loaders |-> "idle"]
    /\ read = [w \in Loaders |-> 0]
    /\ newFailed = FALSE /\ overlapped = FALSE /\ heard = TRUE

-----------------------------------------------------------------------------
\* Somebody overwrites a file, in two steps, each of which the watcher reports.
Overwrite(f) ==
    /\ file[f] < 2 * MaxGeneration
    /\ file' = [file EXCEPT ![f] = @ + 1]
    /\ event' = (event \/ (f \in watched /\ ~stopped))
    /\ heard' = (f \in watched)
    /\ UNCHANGED <<watched, timer, stopped, watching, served, lpc, read, newFailed, overlapped>>

\* Somebody renames a new file over it: the watch is on the file that is gone, and
\* what the watcher reports is neither a write nor a create.
Replace(f) ==
    /\ Whole(file[f]) /\ file[f] + 2 <= 2 * MaxGeneration
    /\ file' = [file EXCEPT ![f] = @ + 2]
    /\ watched' = watched \ {f}
    /\ heard' = FALSE
    /\ UNCHANGED <<event, timer, stopped, watching, served, lpc, read, newFailed, overlapped>>

-----------------------------------------------------------------------------
\* loadCert is called.
BeginLoad(w) ==
    /\ LoaderGoto(w, "cert")
    /\ overlapped' = (overlapped \/ \E x \in Loaders : lpc[x] # "idle")

\* tls.LoadX509KeyPair: the certificate, then the key, which must fit.
ReadCert(w) ==
    /\ lpc[w] = "cert"
    /\ read' = [read EXCEPT ![w] = file["cert"]]
    /\ LoaderGoto(w, "key")
    /\ UNCHANGED <<file, watched, event, timer, stopped, watching, served, newFailed, overlapped, heard>>

Fits(w) == Whole(read[w]) /\ file["key"] = read[w]

ReadKey(w) ==
    /\ lpc[w] = "key" /\ Fits(w)
    /\ LoaderGoto(w, "install")
    /\ UNCHANGED <<file, watched, event, timer, stopped, watching, served, read, newFailed, overlapped, heard>>

\* The load fails: New returns the error, Reload keeps the certificate it has.
LoadFails(w) ==
    /\ lpc[w] = "key" /\ ~Fits(w)
    /\ LoaderGoto(w, "idle")
    /\ read' = [read EXCEPT ![w] = 0]
    /\ newFailed' = (newFailed \/ w = "new")
    /\ UNCHANGED <<file, watched, event, timer, stopped, watching, served, overlapped, heard>>

\* cl.cert = &cert, under the lock.  New goes on to watch the files.
Install(w) ==
    /\ lpc[w] = "install"
    /\ served' = read[w]
    /\ LoaderGoto(w, IF w = "new" THEN "watch" ELSE "idle")
    /\ read' = [read EXCEPT ![w] = 0]
    /\ UNCHANGED <<file, watched, event, timer, stopped, watching, newFailed, overlapped, heard>>

\* New: watcher.Add for the certificate, then for the key; then watchLoop is started.
AddWatch ==
    /\ lpc["new"] = "watch"
    /\ \/ watched = {} /\ watched' = {"cert"} /\ UNCHANGED <<lpc, watching, newFailed>>
       \/ watched = {"cert"} /\ watched' = Files /\ watching' = TRUE
          /\ LoaderGoto("new", "idle") /\ UNCHANGED newFailed
       \/ watched' = {} /\ newFailed' = TRUE /\ LoaderGoto("new", "idle") /\ UNCHANGED watching
    /\ UNCHANGED <<file, event, timer, stopped, served, read, overlapped, heard>>

-----------------------------------------------------------------------------
\* Fault: an event that finds the timer armed is dropped with it.
WatchEventDrops ==
    /\ watching /\ event
    /\ event' = FALSE /\ timer' = ~timer
    /\ UNCHANGED <<file, watched, stopped, watching, served, lpc, read, newFailed, overlapped, heard>>

\* watchLoop, a write event: the armed timer is stopped and a new one started.
WatchEvent ==
    /\ watching /\ event
    /\ event' = FALSE /\ timer' = TRUE
    /\ UNCHANGED <<file, watched, stopped, watching, served, lpc, read, newFailed, overlapped, heard>>

\* The timer expires and its goroutine calls Reload.
TimerExpires(w) ==
    /\ timer /\ w \in Timers /\ lpc[w] = "idle"
    /\ timer' = FALSE
    /\ BeginLoad(w)
    /\ UNCHANGED <<file, watched, event, stopped, watching, served, read, newFailed, heard>>

\* Stop: stopCh and the watcher are closed.
LoaderStop ==
    /\ stopped' = TRUE /\ event' = FALSE
    /\ UNCHANGED <<file, watched, timer, watching, served, lpc, read, newFailed, overlapped, heard>>

\* watchLoop returns: it sees stopCh and stops the timer, or the closed Events or
\* Errors and leaves it armed.
WatchLoopReturns ==
    /\ watching /\ stopped
    /\ watching' = FALSE
    /\ timer' \in {timer, FALSE}
    /\ UNCHANGED <<file, watched, event, stopped, served, lpc, read, newFailed, overlapped, heard>>

Load(w)   == ReadCert(w) \/ ReadKey(w) \/ LoadFails(w) \/ Install(w)
FileWork  == \E f \in Files : Overwrite(f) \/ Replace(f)
WatchWork == WatchEvent \/ WatchLoopReturns \/ \E w \in Timers : TimerExpires(w)
=============================================================================
