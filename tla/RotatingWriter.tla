--------------------------- MODULE RotatingWriter ---------------------------
(***************************************************************************)
(* internal/logging/writer.go: the log file, its rotation by size and the  *)
(* cleanup of old backups, which runs in a goroutine of its own after each *)
(* rotation and takes no lock.  rw.mu makes a Write atomic for the other   *)
(* Writes, not for the cleanups or a crash: a rotation is two steps, up to *)
(* the rename and from the reopening on (wpc).                             *)
(*                                                                         *)
(* One tick of the clock is the resolution of the timestamp in a backup's  *)
(* name, a second, and a backup is named by the tick of its rotation.      *)
(* MaxAge is maxAgeDays on that clock.  The clock does not run backwards   *)
(* (Format writes local time).  The file system is external: each of its   *)
(* operations may fail.                                                    *)
(***************************************************************************)
EXTENDS Integers, Sequences, FiniteSets, FiniteSetsExt, SequencesExt

CONSTANTS
    Cleaners,       \* the cleanup goroutines that exist at one time
    Lengths,        \* of the records
    MaxBytes, MaxBackups, MaxAge,
    MaxWrites,      \* bound on the calls of Write
    MaxClock,       \* bound on the clock
    MaxFaults       \* bound on the failures of the file system and on restarts

ASSUME WriterAssumption ==
    /\ Lengths \subseteq Nat \ {0}
    /\ MaxBytes \in Nat \ {0} /\ MaxBackups \in Nat \ {0} /\ MaxAge \in Nat
    /\ MaxWrites \in Nat /\ MaxClock \in Nat /\ MaxFaults \in Nat

VARIABLES
    clock,
    exists, live, bytes, mtime,     \* the file at filePath: its records, its size, its age
    backups,                        \* name -> [recs, mtime]
    wpc,                            \* "ready"; "reopen": a Write is in rotate, after the rename
    pending,                        \* the length of the record that Write has to write
    isOpen, size,                   \* rw.file is open, rw.size
    cpc, excess, rest, cutoff,      \* cleanup: "off", "list" or "remove", and its local variables
    writes, faults,                 \* how many there have been
    acked,                          \* the records whose Write returned no error, in order
    rotated,                        \* the rotations there have been, [name, recs, mtime]
    neglected                       \* a cleanup has failed, or has not been started or finished

disk    == <<exists, live, bytes, mtime>>
writer  == <<wpc, pending, isOpen, size>>
cleaner == <<cpc, excess, rest, cutoff>>
vars == <<clock, disk, backups, writer, cleaner, writes, faults, acked, rotated, neglected>>

Names == DOMAIN backups

Fault == faults < MaxFaults /\ faults' = faults + 1

-----------------------------------------------------------------------------
\* NewRotatingWriter in an empty directory.
Init ==
    /\ clock = 0
    /\ exists = TRUE /\ live = <<>> /\ bytes = 0 /\ mtime = 0
    /\ backups = <<>>
    /\ wpc = "ready" /\ pending = 0 /\ isOpen = TRUE /\ size = 0
    /\ cpc = [c \in Cleaners |-> "off"]
    /\ excess = [c \in Cleaners |-> {}] /\ rest = [c \in Cleaners |-> {}]
    /\ cutoff = [c \in Cleaners |-> 0]
    /\ writes = 0 /\ faults = 0
    /\ acked = <<>> /\ rotated = <<>> /\ neglected = FALSE

\* rw.file.Write and the update of rw.size, with the file at size at: the whole
\* record and no error, or n bytes of it and an error.
Put(len, at) ==
    \/ /\ live' = Append(live, writes') /\ bytes' = bytes + len /\ mtime' = clock
       /\ size' = at + len
       /\ acked' = Append(acked, writes')
       /\ UNCHANGED faults
    \/ \E n \in 0..(len - 1) :
           /\ Fault
           /\ bytes' = bytes + n /\ mtime' = IF n > 0 \/ ~exists THEN clock ELSE mtime
           /\ size' = at + n
           /\ UNCHANGED <<live, acked>>

\* Write of a record that fits.  A file that could not be reopened, or was closed,
\* takes no bytes.
WriteFits(len) ==
    /\ wpc = "ready" /\ writes < MaxWrites /\ size + len <= MaxBytes
    /\ writes' = writes + 1
    /\ \/ isOpen /\ Put(len, size)
       \/ ~isOpen /\ UNCHANGED <<live, bytes, mtime, size, acked, faults>>
    /\ UNCHANGED <<clock, exists, backups, wpc, pending, isOpen, cleaner, rotated, neglected>>

\* os.Rename succeeds, over a backup of the same name if there is one.
Rename ==
    /\ exists
    /\ backups' = [b \in Names \cup {clock} |->
                     IF b = clock THEN [recs |-> live, mtime |-> mtime] ELSE backups[b]]
    /\ rotated' = Append(rotated, [name |-> clock, recs |-> live, mtime |-> mtime])
    /\ exists' = FALSE /\ live' = <<>> /\ bytes' = 0
    /\ UNCHANGED <<mtime, faults>>

\* It fails: the error is printed and the rotation goes on.
RenameFails ==
    /\ \/ exists /\ Fault
       \/ ~exists /\ UNCHANGED faults
    /\ UNCHANGED <<disk, backups, rotated>>

\* Write of a record that does not fit: rotate, up to the rename.
Rotate(len) ==
    /\ wpc = "ready" /\ writes < MaxWrites /\ size + len > MaxBytes
    /\ isOpen' = FALSE
    /\ Rename \/ RenameFails
    /\ wpc' = "reopen" /\ pending' = len
    /\ UNCHANGED <<clock, size, cleaner, writes, acked, neglected>>

\* Fault: the size of the file before is kept.
ReopenKeepsSize(c) ==
    /\ wpc = "reopen" /\ cpc[c] = "off"
    /\ writes' = writes + 1
    /\ exists' = TRUE /\ isOpen' = TRUE
    /\ Put(pending, size)
    /\ wpc' = "ready" /\ pending' = 0
    /\ cpc' = [cpc EXCEPT ![c] = "list"]
    /\ UNCHANGED <<clock, backups, excess, rest, cutoff, rotated, neglected>>

\* openFile succeeds, the cleanup is started, and the record is written.
Reopen(c) ==
    /\ wpc = "reopen" /\ cpc[c] = "off"
    /\ writes' = writes + 1
    /\ exists' = TRUE /\ isOpen' = TRUE
    /\ Put(pending, bytes)
    /\ wpc' = "ready" /\ pending' = 0
    /\ cpc' = [cpc EXCEPT ![c] = "list"]
    /\ UNCHANGED <<clock, backups, excess, rest, cutoff, rotated, neglected>>

\* It fails, in OpenFile or in Stat: Write returns the error.  rw.file stays closed
\* and rw.size as it was, and there is no cleanup.
ReopenFails ==
    /\ wpc = "reopen" /\ Fault
    /\ writes' = writes + 1
    /\ \/ UNCHANGED <<exists, mtime>>
       \/ ~exists /\ exists' = TRUE /\ mtime' = clock
    /\ wpc' = "ready" /\ pending' = 0
    /\ neglected' = TRUE
    /\ UNCHANGED <<clock, live, bytes, backups, isOpen, size, cleaner, acked, rotated>>

Close ==
    /\ wpc = "ready" /\ isOpen
    /\ isOpen' = FALSE
    /\ UNCHANGED <<clock, disk, backups, wpc, pending, size, cleaner, writes, faults,
                   acked, rotated, neglected>>

\* The process ends, whatever it was doing, and NewRotatingWriter of the next one
\* opens the file it finds.
Restart ==
    /\ Fault
    /\ exists' = TRUE /\ mtime' = IF exists THEN mtime ELSE clock
    /\ isOpen' = TRUE /\ size' = bytes
    /\ wpc' = "ready" /\ pending' = 0
    /\ cpc' = [c \in Cleaners |-> "off"]
    /\ excess' = [c \in Cleaners |-> {}] /\ rest' = [c \in Cleaners |-> {}]
    /\ cutoff' = [c \in Cleaners |-> 0]
    /\ neglected' = (neglected \/ wpc = "reopen" \/ \E c \in Cleaners : cpc[c] # "off")
    /\ UNCHANGED <<clock, live, bytes, backups, writes, acked, rotated>>

-----------------------------------------------------------------------------
\* Fault: the names are sorted the other way round.
Oldest(S, n) == {b \in S : Cardinality({x \in S : x < b}) < n}

\* Fault: one backup more is kept.
NewestAndOne(S, n) == {b \in S : Cardinality({x \in S : x > b}) <= n}

\* The n last of the sorted names.
Newest(S, n) == {b \in S : Cardinality({x \in S : x > b}) < n}

\* cleanup: ReadDir, the sorted names and the cutoff.
List(c) ==
    /\ cpc[c] = "list"
    /\ cpc' = [cpc EXCEPT ![c] = "remove"]
    /\ rest' = [rest EXCEPT ![c] = Newest(Names, MaxBackups)]
    /\ excess' = [excess EXCEPT ![c] = Names \ Newest(Names, MaxBackups)]
    /\ cutoff' = [cutoff EXCEPT ![c] = clock - MaxAge]
    /\ neglected' = FALSE
    /\ UNCHANGED <<clock, disk, backups, writer, writes, faults, acked, rotated>>

ListFails(c) ==
    /\ cpc[c] = "list" /\ Fault
    /\ cpc' = [cpc EXCEPT ![c] = "off"]
    /\ neglected' = TRUE
    /\ UNCHANGED <<clock, disk, backups, writer, excess, rest, cutoff, writes, acked, rotated>>

\* os.Remove, which prints its error and goes on.
RemoveFile(b) ==
    \/ /\ backups' = [x \in Names \ {b} |-> backups[x]]
       /\ UNCHANGED <<faults, neglected>>
    \/ /\ b \in Names /\ Fault
       /\ neglected' = TRUE
       /\ UNCHANGED backups

\* The names beyond maxBackups, the oldest first.
RemoveExcess(c) ==
    /\ cpc[c] = "remove" /\ excess[c] # {}
    /\ LET b == Min(excess[c])
       IN  /\ RemoveFile(b)
           /\ excess' = [excess EXCEPT ![c] = @ \ {b}]
    /\ UNCHANGED <<clock, disk, writer, cpc, rest, cutoff, writes, acked, rotated>>

\* Then those of the others whose file was last written before the cutoff.
RemoveAged(c) ==
    /\ cpc[c] = "remove" /\ excess[c] = {} /\ rest[c] # {}
    /\ LET b == Min(rest[c])
           aged == b \in Names /\ backups[b].mtime < cutoff[c]
       IN  /\ \/ aged /\ RemoveFile(b)
              \/ ~aged /\ UNCHANGED <<backups, faults, neglected>>
           /\ rest' = [rest EXCEPT ![c] = @ \ {b}]
    /\ UNCHANGED <<clock, disk, writer, cpc, excess, cutoff, writes, acked, rotated>>

CleanupDone(c) ==
    /\ cpc[c] = "remove" /\ excess[c] = {} /\ rest[c] = {}
    /\ cpc' = [cpc EXCEPT ![c] = "off"]
    /\ cutoff' = [cutoff EXCEPT ![c] = 0]
    /\ UNCHANGED <<clock, disk, backups, writer, excess, rest, writes, faults, acked, rotated, neglected>>

Tick ==
    /\ clock < MaxClock
    /\ clock' = clock + 1
    /\ UNCHANGED <<disk, backups, writer, cleaner, writes, faults, acked, rotated, neglected>>

-----------------------------------------------------------------------------
Next ==
    \/ \E len \in Lengths : WriteFits(len) \/ Rotate(len)
    \/ ReopenFails \/ Close \/ Restart \/ Tick
    \/ \E c \in Cleaners : \/ Reopen(c) \/ List(c) \/ ListFails(c)
                           \/ RemoveExcess(c) \/ RemoveAged(c) \/ CleanupDone(c)

Spec == Init /\ [][Next]_vars

-----------------------------------------------------------------------------
\* Every variable has its type.
TypeOK ==
    /\ clock \in 0..MaxClock /\ writes \in 0..MaxWrites /\ faults \in 0..MaxFaults
    /\ exists \in BOOLEAN /\ isOpen \in BOOLEAN /\ neglected \in BOOLEAN
    /\ bytes \in Nat /\ size \in Nat /\ mtime \in 0..clock
    /\ Names \subseteq 0..clock
    /\ wpc \in {"ready", "reopen"} /\ pending \in Lengths \cup {0}
    /\ cpc \in [Cleaners -> {"off", "list", "remove"}]
    /\ excess \in [Cleaners -> SUBSET (0..clock)] /\ rest \in [Cleaners -> SUBSET (0..clock)]
    /\ cutoff \in [Cleaners -> Int]

\* writer.go:70-71, "It rotates the file if writing would exceed the size limit":
\* the decision is taken on rw.size, a count of the bytes written through this
\* writer.  As long as the file is open it is the size of the file at filePath,
\* over failed renames, short writes and restarts, and that file exists.
SizeHonest == TypeOK /\ (isOpen => exists /\ size = bytes)

\* writer.go:27-30, "At most maxBackups rotated files are kept": when no cleanup is
\* under way there are no more of them, whatever cleanups ran at the same time,
\* unless since the last directory listing a removal failed, a cleanup was cut off
\* by the end of the process, or a rotation ended without starting one.
BackupsBounded ==
    (wpc = "ready" /\ ~neglected /\ \A c \in Cleaners : cpc[c] = "off")
        => Cardinality(Names) <= MaxBackups

\* What the log promises about a record once Write has returned it without an error.
\* Rotation neither loses nor reorders records: the files rotated and the current one,
\* one after the other, hold them all.  And a rotated file is still there as it was,
\* unless maxBackups later ones have been, it has reached maxAgeDays, or another
\* rotation took its name in the same second.
Retained ==
    /\ FlattenSeq([i \in DOMAIN rotated |-> rotated[i].recs]) \o live = acked
    /\ \A i \in DOMAIN rotated :
         LET f == rotated[i]
             later == {rotated[j].name : j \in (i + 1)..Len(rotated)}
         IN  \/ f.name \in Names /\ backups[f.name] = [recs |-> f.recs, mtime |-> f.mtime]
             \/ f.name \in later
             \/ Cardinality(later) >= MaxBackups
             \/ f.mtime < clock - MaxAge
=============================================================================
