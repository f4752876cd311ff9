------------------------ MODULE RotatingWriterProofs ------------------------
(***************************************************************************)
(* What the rotating log writer keeps, for any number of cleanups at a     *)
(* time, any lengths and limits, and any number of writes, failures of the *)
(* file system and restarts: rw.size is the size of the file, a finished   *)
(* cleanup leaves at most maxBackups files, and no record is lost but with *)
(* a backup that was one too many, too old or overwritten.                 *)
(*                                                                         *)
(* The three invariants build on one another.  WriterInv is the types with *)
(* what is known inside a rotation.  Bounding says who still has to remove *)
(* the backups that are too many: the cleanup that listed the directory    *)
(* last.  KeptInv says why a cleanup may remove what it has on its lists:  *)
(* maxBackups later rotations are known of every name in excess, also long *)
(* after the listing, because names grow with the rotations.               *)
(***************************************************************************)
EXTENDS RotatingWriter, FiniteSetTheorems, SequenceTheorems, TLAPS

Rotations == [name : Nat, recs : Seq(Nat), mtime : Nat]

\* The types of the records, and what is known between the rename and the reopening.
InRotation == wpc = "reopen" => pending \in Lengths /\ writes < MaxWrites /\ ~isOpen

Histories == live \in Seq(Nat) /\ acked \in Seq(Nat) /\ rotated \in Seq(Rotations)

Sized == isOpen => exists /\ size = bytes

WriterInv == TypeOK /\ InRotation /\ Histories /\ Sized

\* Unless a cleanup is about to list the directory there are no more than MaxBackups
\* files, or a cleanup under way has the others on its list.
Bounding ==
    (wpc = "ready" /\ ~neglected /\ \A c \in Cleaners : cpc[c] # "list")
        => \/ Cardinality(Names) <= MaxBackups
           \/ \E c \in Cleaners : cpc[c] = "remove" /\ Cardinality(Names \ excess[c]) <= MaxBackups

-----------------------------------------------------------------------------
\* The records of the rotated files, one after the other.
Recs(r)    == [i \in DOMAIN r |-> r[i].recs]
RotatedLog == FlattenSeq(Recs(rotated))

\* The names of the rotations from the i-th on, and of those later than name b.
NamesFrom(i)  == {rotated[j].name : j \in i..Len(rotated)}
NamesAfter(b) == {x \in NamesFrom(1) : x > b}

\* Names do not go back, and a backup is a file that was rotated.
NamesGrow ==
    /\ \A i \in 1..Len(rotated) : rotated[i].name <= clock
    /\ \A i, j \in 1..Len(rotated) : i <= j => rotated[i].name <= rotated[j].name
    /\ Names \subseteq NamesFrom(1)

\* A cleanup's lists are true: later rotations have made its excess superfluous, and the
\* cutoff has passed.
Doomed ==
    \A c \in Cleaners : cpc[c] = "remove" =>
        /\ cutoff[c] <= clock - MaxAge
        /\ \A b \in excess[c] : Cardinality(NamesAfter(b)) >= MaxBackups

\* The i-th rotated file is still there, or there is a reason why not.
Kept(i) ==
    \/ rotated[i].name \in Names /\ backups[rotated[i].name] = [recs |-> rotated[i].recs, mtime |-> rotated[i].mtime]
    \/ rotated[i].name \in NamesFrom(i + 1)
    \/ Cardinality(NamesFrom(i + 1)) >= MaxBackups
    \/ rotated[i].mtime < clock - MaxAge

KeptInv ==
    /\ RotatedLog \in Seq(Nat) /\ RotatedLog \o live = acked
    /\ NamesGrow /\ Doomed
    /\ \A i \in 1..Len(rotated) : Kept(i)

-----------------------------------------------------------------------------
\* The parts of TypeOK: the flags, and the rest.
Flags == exists \in BOOLEAN /\ isOpen \in BOOLEAN /\ neglected \in BOOLEAN

Numbers ==
    /\ clock \in 0..MaxClock /\ writes \in 0..MaxWrites /\ faults \in 0..MaxFaults
    /\ bytes \in Nat /\ size \in Nat /\ mtime \in 0..clock

Cleanups ==
    /\ Names \subseteq 0..clock
    /\ wpc \in {"ready", "reopen"} /\ pending \in Lengths \cup {0}
    /\ cpc \in [Cleaners -> {"off", "list", "remove"}]
    /\ excess \in [Cleaners -> SUBSET (0..clock)] /\ rest \in [Cleaners -> SUBSET (0..clock)]
    /\ cutoff \in [Cleaners -> Int]

\* The parts of the type invariant.
LEMMA TypeParts == TypeOK <=> Flags /\ Numbers /\ Cleanups
  BY DEF TypeOK, Flags, Numbers, Cleanups

\* The initial states: an empty file and no backup.
LEMMA WriterInit == Init => WriterInv
  <1> SUFFICES ASSUME Init PROVE WriterInv
    OBVIOUS
  <1>1. Names = {} /\ <<>> \in Seq(Nat) /\ <<>> \in Seq(Rotations)
    BY DEF Init, Names
  <1>2. Flags /\ Sized
    <2>1. exists = TRUE /\ isOpen = TRUE /\ neglected = FALSE /\ size = 0 /\ bytes = 0
      BY DEF Init
    <2> QED
      BY <2>1, Zenon DEF Flags, Sized
  <1>3. Numbers /\ Cleanups
    BY <1>1, WriterAssumption DEF Init, Numbers, Cleanups
  <1>4. InRotation /\ Histories
    BY <1>1 DEF Init, InRotation, Histories
  <1> QED
    BY <1>2, <1>3, <1>4, TypeParts DEF WriterInv

\* rw.file.Write: how many bytes of the record it took, and what they do.
LEMMA PutStep ==
    ASSUME WriterInv, NEW len \in Lengths, NEW at, at = bytes, Put(len, at),
           writes' = writes + 1, writes < MaxWrites, UNCHANGED <<clock, rotated>>
    PROVE  /\ writes' \in 0..MaxWrites /\ faults' \in 0..MaxFaults
           /\ bytes' \in Nat /\ size' = bytes' /\ mtime' \in 0..clock
           /\ Histories'
           /\ \/ live' = Append(live, writes') /\ acked' = Append(acked, writes')
              \/ live' = live /\ acked' = acked
  <1>1. Numbers /\ len \in Nat /\ len > 0 /\ Histories
    BY WriterAssumption, TypeParts DEF WriterInv
  <1>2. writes' \in Nat /\ writes' \in 0..MaxWrites
    BY <1>1, WriterAssumption DEF Numbers
  <1>3. CASE /\ live' = Append(live, writes') /\ bytes' = bytes + len /\ mtime' = clock
             /\ size' = at + len
             /\ acked' = Append(acked, writes')
             /\ UNCHANGED faults
    <2>1. Append(live, writes') \in Seq(Nat) /\ Append(acked, writes') \in Seq(Nat)
      BY <1>1, <1>2 DEF Histories
    <2>2. faults' \in 0..MaxFaults /\ bytes' \in Nat /\ size' = bytes' /\ mtime' \in 0..clock
      BY <1>1, <1>3 DEF Numbers
    <2> QED
      BY <1>1, <1>2, <1>3, <2>1, <2>2 DEF Histories
  <1>4. CASE \E n \in 0..(len - 1) :
                 /\ Fault
                 /\ bytes' = bytes + n /\ mtime' = IF n > 0 \/ ~exists THEN clock ELSE mtime
                 /\ size' = at + n
                 /\ UNCHANGED <<live, acked>>
    BY <1>1, <1>2, <1>4, WriterAssumption DEF Numbers, Histories, Fault
  <1> QED
    BY <1>3, <1>4 DEF Put

\* Every step keeps the types and the size.
LEMMA WriterStep == WriterInv /\ [Next]_vars => WriterInv'
  <1> SUFFICES ASSUME WriterInv, [Next]_vars PROVE WriterInv'
    OBVIOUS
  <1> USE DEF disk, writer, cleaner
  <1>0. Flags /\ Numbers /\ Cleanups /\ InRotation /\ Histories /\ Sized
    BY TypeParts DEF WriterInv
  <1>1. ASSUME NEW len \in Lengths, WriteFits(len) PROVE WriterInv'
    <2>1. CASE isOpen /\ Put(len, size)
      <3>1. size = bytes /\ exists
        BY <1>0, <2>1 DEF Sized
      <3>2. writes' = writes + 1 /\ writes < MaxWrites /\ UNCHANGED <<clock, rotated>>
        BY <1>1 DEF WriteFits
      <3>3. /\ writes' \in 0..MaxWrites /\ faults' \in 0..MaxFaults
            /\ bytes' \in Nat /\ size' = bytes' /\ mtime' \in 0..clock
            /\ Histories'
        BY <2>1, <3>1, <3>2, PutStep
      <3>4. Flags' /\ Sized'
        BY <1>0, <1>1, <3>1, <3>3 DEF WriteFits, Flags, Sized
      <3>5. Numbers'
        BY <1>0, <1>1, <3>3 DEF WriteFits, Numbers
      <3>6. Cleanups' /\ InRotation'
        BY <1>0, <1>1 DEF WriteFits, Cleanups, InRotation, Names
      <3> QED
        BY <3>3, <3>4, <3>5, <3>6, TypeParts, PTL DEF WriterInv
    <2>2. CASE ~isOpen /\ UNCHANGED <<live, bytes, mtime, size, acked, faults>>
      <3>1. Flags' /\ Sized' /\ Histories'
        BY <1>0, <1>1, <2>2 DEF WriteFits, Flags, Sized, Histories
      <3>2. Numbers'
        BY <1>0, <1>1, <2>2, WriterAssumption DEF WriteFits, Numbers
      <3>3. Cleanups' /\ InRotation'
        BY <1>0, <1>1 DEF WriteFits, Cleanups, InRotation, Names
      <3> QED
        BY <3>1, <3>2, <3>3, TypeParts, PTL DEF WriterInv
    <2> QED
      BY <1>1, <2>1, <2>2 DEF WriteFits
  <1>2. ASSUME NEW len \in Lengths, Rotate(len) PROVE WriterInv'
    <2>1. /\ isOpen' = FALSE /\ wpc' = "reopen" /\ pending' = len
          /\ writes < MaxWrites
          /\ UNCHANGED <<clock, size, cleaner, writes, acked, neglected>>
      BY <1>2 DEF Rotate
    <2>2. exists' \in BOOLEAN
      <3>1. exists' = FALSE \/ exists' = exists
        BY <1>2 DEF Rotate, Rename, RenameFails
      <3> QED
        BY <1>0, <3>1, Zenon DEF Flags
    <2>3. Flags' /\ Sized'
      BY <1>0, <2>1, <2>2, Zenon DEF Flags, Sized
    <2>4. Numbers'
      BY <1>0, <1>2, <2>1, WriterAssumption DEF Rotate, Rename, RenameFails, Numbers, Fault
    <2>5. Histories'
      <3>1. CASE Rename
        <4>1. clock \in Nat /\ live \in Seq(Nat) /\ mtime \in Nat
          BY <1>0, WriterAssumption DEF Numbers, Histories
        <4>2. [name |-> clock, recs |-> live, mtime |-> mtime] \in Rotations /\ <<>> \in Seq(Nat)
          BY <4>1 DEF Rotations
        <4> QED
          BY <1>0, <2>1, <3>1, <4>2 DEF Rename, Histories
      <3>2. CASE RenameFails
        BY <1>0, <2>1, <3>2 DEF RenameFails, Histories
      <3> QED
        BY <1>2, <3>1, <3>2 DEF Rotate
    <2>6. Names' \subseteq 0..clock
      <3>1. clock \in 0..clock
        BY <1>0, WriterAssumption DEF Numbers
      <3> QED
        BY <1>0, <1>2, <3>1 DEF Rotate, Rename, RenameFails, Names, Cleanups
    <2>7. Cleanups' /\ InRotation'
      BY <1>0, <2>1, <2>6, Zenon DEF Cleanups, InRotation
    <2> QED
      BY <2>3, <2>4, <2>5, <2>7, TypeParts, PTL DEF WriterInv
  <1>3. ASSUME NEW c \in Cleaners, Reopen(c) PROVE WriterInv'
    <2>1. /\ pending \in Lengths /\ writes' = writes + 1 /\ writes < MaxWrites
          /\ UNCHANGED <<clock, rotated>> /\ Put(pending, bytes)
      BY <1>0, <1>3 DEF Reopen, InRotation
    <2>2. /\ writes' \in 0..MaxWrites /\ faults' \in 0..MaxFaults
          /\ bytes' \in Nat /\ size' = bytes' /\ mtime' \in 0..clock
          /\ Histories'
      BY <2>1, PutStep
    <2>3. exists' = TRUE /\ isOpen' = TRUE /\ neglected' = neglected
      BY <1>3 DEF Reopen
    <2>4. Flags' /\ Sized'
      BY <1>0, <2>2, <2>3, Zenon DEF Flags, Sized
    <2>5. Numbers'
      BY <1>0, <2>1, <2>2 DEF Numbers
    <2>6. Cleanups' /\ InRotation'
      BY <1>0, <1>3 DEF Reopen, Cleanups, InRotation, Names
    <2> QED
      BY <2>2, <2>4, <2>5, <2>6, TypeParts, PTL DEF WriterInv
  <1>4. CASE ReopenFails
    <2>1. Flags'
      <3>1. (exists' = TRUE \/ exists' = exists) /\ neglected' = TRUE /\ isOpen' = isOpen
        BY <1>4 DEF ReopenFails
      <3> QED
        BY <1>0, <3>1, Zenon DEF Flags
    <2>2. Numbers' /\ Histories'
      BY <1>0, <1>4, WriterAssumption DEF ReopenFails, Numbers, Histories, Fault, InRotation
    <2>3. Cleanups' /\ InRotation' /\ Sized'
      BY <1>0, <1>4 DEF ReopenFails, Cleanups, InRotation, Sized, Names
    <2> QED
      BY <2>1, <2>2, <2>3, TypeParts, PTL DEF WriterInv
  <1>5. CASE Close
    <2>1. Flags' /\ Sized'
      <3>1. exists' = exists /\ isOpen' = FALSE /\ neglected' = neglected
        BY <1>5 DEF Close
      <3> QED
        BY <1>0, <3>1, Zenon DEF Flags, Sized
    <2>2. Numbers' /\ Histories' /\ Cleanups' /\ InRotation'
      BY <1>0, <1>5 DEF Close, Numbers, Histories, Cleanups, InRotation, Names
    <2> QED
      BY <2>1, <2>2, TypeParts, PTL DEF WriterInv
  <1>6. CASE Restart
    <2>1. Flags' /\ Sized'
      <3>1. /\ exists' = TRUE /\ isOpen' = TRUE /\ size' = bytes /\ bytes' = bytes
            /\ neglected' = (neglected \/ wpc = "reopen" \/ \E c \in Cleaners : cpc[c] # "off")
        BY <1>6 DEF Restart
      <3>2. neglected' \in BOOLEAN
        BY <3>1
      <3> QED
        BY <3>1, <3>2, Zenon DEF Flags, Sized
    <2>2. Numbers' /\ Histories'
      BY <1>0, <1>6, WriterAssumption DEF Restart, Numbers, Histories, Fault
    <2>3. Cleanups' /\ InRotation'
      BY <1>0, <1>6 DEF Restart, Cleanups, InRotation, Names
    <2> QED
      BY <2>1, <2>2, <2>3, TypeParts, PTL DEF WriterInv
  <1>7. CASE Tick
    <2>1. Numbers'
      BY <1>0, <1>7, WriterAssumption DEF Tick, Numbers
    <2>2. Cleanups'
      <3>1. 0..clock \subseteq 0..clock'
        BY <1>0, <1>7 DEF Tick, Numbers
      <3> QED
        BY <1>0, <1>7, <3>1 DEF Tick, Cleanups, Names
    <2>3. Flags' /\ Histories' /\ InRotation' /\ Sized'
      BY <1>0, <1>7 DEF Tick, Flags, Histories, InRotation, Sized
    <2> QED
      BY <2>1, <2>2, <2>3, TypeParts, PTL DEF WriterInv
  <1>8. ASSUME NEW c \in Cleaners, List(c) \/ ListFails(c) PROVE WriterInv'
    <2>1. Flags'
      <3>1. exists' = exists /\ isOpen' = isOpen /\ (neglected' = FALSE \/ neglected' = TRUE)
        BY <1>8 DEF List, ListFails
      <3> QED
        BY <1>0, <3>1, Zenon DEF Flags
    <2>2. Numbers' /\ Histories' /\ InRotation' /\ Sized'
      BY SMTT(30), <1>0, <1>8, WriterAssumption DEF List, ListFails, Numbers, Histories, InRotation, Sized, Fault
    <2>3. Cleanups'
      <3>0. Newest(Names, MaxBackups) \subseteq Names
        BY Zenon DEF Newest
      <3> HIDE DEF Newest
      <3>1. clock - MaxAge \in Int /\ Newest(Names, MaxBackups) \in SUBSET (0..clock)
        <4>1. clock - MaxAge \in Int
          BY <1>0, WriterAssumption DEF Numbers
        <4>2. Newest(Names, MaxBackups) \in SUBSET (0..clock)
          BY <1>0, <3>0, Zenon DEF Cleanups
        <4> QED
          BY <4>1, <4>2
      <3>2. Names \ Newest(Names, MaxBackups) \in SUBSET (0..clock)
        BY <1>0 DEF Cleanups
      <3> QED
        BY <1>0, <1>8, <3>1, <3>2 DEF List, ListFails, Cleanups, Names
    <2> QED
      BY <2>1, <2>2, <2>3, TypeParts, PTL DEF WriterInv
  <1>9. ASSUME NEW c \in Cleaners, RemoveExcess(c) \/ RemoveAged(c) \/ CleanupDone(c) PROVE WriterInv'
    <2>1. Flags'
      <3>1. exists' = exists /\ isOpen' = isOpen /\ (neglected' = neglected \/ neglected' = TRUE)
        BY <1>9 DEF RemoveExcess, RemoveAged, CleanupDone, RemoveFile
      <3> QED
        BY <1>0, <3>1, Zenon DEF Flags
    <2>2. Numbers' /\ Histories' /\ InRotation' /\ Sized'
      BY SMTT(30), <1>0, <1>9, WriterAssumption
         DEF RemoveExcess, RemoveAged, CleanupDone, RemoveFile, Numbers, Histories, InRotation, Sized, Fault
    <2>3. Names' \subseteq Names
      BY <1>9 DEF RemoveExcess, RemoveAged, CleanupDone, RemoveFile, Names
    <2>4. Cleanups'
      BY <1>0, <1>9, <2>3 DEF RemoveExcess, RemoveAged, CleanupDone, Cleanups
    <2> QED
      BY <2>1, <2>2, <2>4, TypeParts, PTL DEF WriterInv
  <1>10. CASE UNCHANGED vars
    <2>1. Flags' /\ Numbers' /\ Cleanups' /\ InRotation' /\ Histories' /\ Sized'
      BY <1>0, <1>10 DEF vars, Flags, Numbers, Cleanups, InRotation, Histories, Sized, Names
    <2> QED
      BY <2>1, TypeParts, PTL DEF WriterInv
  <1> QED
    BY <1>1, <1>2, <1>3, <1>4, <1>5, <1>6, <1>7, <1>8, <1>9, <1>10 DEF Next

-----------------------------------------------------------------------------
\* A set of natural numbers has a least element.
LEMMA Least ==
    ASSUME NEW S \in SUBSET Nat, S # {}
    PROVE  \E m \in S : \A x \in S : m <= x
  <1> DEFINE R == OpToRel(<, Nat)
  <1>1. IsWellFoundedOn(R, Nat)
    BY NatLessThanWellFounded
  <1>2. \A x, y \in Nat : <<y, x>> \in R <=> y < x
    BY DEF OpToRel
  <1> HIDE DEF R
  <1>3. PICK m \in S : \A x \in S : ~(<<x, m>> \in R)
    BY <1>1, WFMin
  <1>4. ASSUME NEW x \in S PROVE m <= x
    <2>1. m \in Nat /\ x \in Nat /\ ~(<<x, m>> \in R)
      BY <1>3
    <2>2. ~(x < m)
      BY <2>1, <1>2
    <2> QED
      BY <2>1, <2>2
  <1> QED
    BY <1>4

\* The n newest are at most n.
LEMMA NewestFew ==
    ASSUME NEW S \in SUBSET Nat, IsFiniteSet(S), NEW n \in Nat \ {0}
    PROVE  IsFiniteSet(Newest(S, n)) /\ Cardinality(Newest(S, n)) <= n
  <1> DEFINE N == Newest(S, n)
  <1>1. N \in SUBSET S /\ \A b \in N : Cardinality({x \in S : x > b}) < n
    BY DEF Newest
  <1> HIDE DEF N
  <1>2. IsFiniteSet(N) /\ Cardinality(N) \in Nat
    BY <1>1, FS_Subset, FS_CardinalityType
  <1>3. CASE N = {}
    BY <1>2, <1>3, FS_EmptySet DEF N
  <1>4. CASE N # {}
    <2>1. N \in SUBSET Nat
      BY <1>1
    <2>2. PICK b \in N : \A x \in N : b <= x
      BY <1>4, <2>1, Least
    <2> DEFINE A == {x \in S : x > b}
               L == N \ {b}
    <2>3. A \in SUBSET S /\ L \in SUBSET A
      BY <1>1, <2>1, <2>2
    <2>4. Cardinality(A) < n
      BY <1>1
    <2>5. Cardinality(L) = Cardinality(N) - 1
      BY <1>2, <2>2, FS_RemoveElement
    <2> HIDE DEF A, L
    <2>6. IsFiniteSet(A) /\ Cardinality(A) \in Nat
      BY <2>3, FS_Subset, FS_CardinalityType
    <2>7. Cardinality(L) <= Cardinality(A)
      BY <2>3, <2>6, FS_Subset
    <2> QED
      BY <1>2, <2>4, <2>5, <2>6, <2>7 DEF N
  <1> QED
    BY <1>3, <1>4

\* A part of few files is few files.
LEMMA Fewer ==
    ASSUME NEW A, NEW B, A \subseteq B, IsFiniteSet(B), NEW n \in Nat
    PROVE  Cardinality(B) <= n => Cardinality(A) <= n
  <1>1. A \in SUBSET B
    OBVIOUS
  <1>2. Cardinality(A) <= Cardinality(B) /\ IsFiniteSet(A)
    BY <1>1, FS_Subset
  <1>3. Cardinality(A) \in Nat /\ Cardinality(B) \in Nat
    BY <1>2, FS_CardinalityType
  <1> QED
    BY <1>2, <1>3

\* There are finitely many backups.
LEMMA NamesFinite == WriterInv => Names \subseteq Nat /\ IsFiniteSet(Names)
  <1> SUFFICES ASSUME WriterInv PROVE Names \subseteq Nat /\ IsFiniteSet(Names)
    OBVIOUS
  <1>1. clock \in Nat /\ Names \in SUBSET (0..clock)
    BY TypeParts, WriterAssumption DEF WriterInv, Numbers, Cleanups
  <1>2. IsFiniteSet(0..clock)
    BY <1>1, FS_Interval
  <1>3. IsFiniteSet(Names)
    BY <1>1, <1>2, FS_Subset
  <1> QED
    BY <1>1, <1>3

\* Every step leaves somebody to remove the backups that are too many.
LEMMA BoundStep == WriterInv /\ Bounding /\ [Next]_vars => Bounding'
  <1> SUFFICES ASSUME WriterInv, Bounding, [Next]_vars,
                      wpc' = "ready", ~neglected', \A c \in Cleaners : cpc'[c] # "list"
               PROVE  \/ Cardinality(Names') <= MaxBackups
                      \/ \E c \in Cleaners : cpc'[c] = "remove" /\ Cardinality(Names' \ excess'[c]) <= MaxBackups
    BY DEF Bounding
  <1> USE DEF disk, writer, cleaner
  <1>0. /\ Names \subseteq Nat /\ IsFiniteSet(Names) /\ MaxBackups \in Nat \ {0}
        /\ wpc \in {"ready", "reopen"} /\ cpc \in [Cleaners -> {"off", "list", "remove"}]
        /\ DOMAIN excess = Cleaners
    BY NamesFinite, WriterAssumption, TypeParts DEF WriterInv, Cleanups
  \* What steps that leave the cleanups alone keep.
  <1>1. ASSUME UNCHANGED <<backups, wpc, cpc, excess, neglected>>
        PROVE  \/ Cardinality(Names') <= MaxBackups
               \/ \E c \in Cleaners : cpc'[c] = "remove" /\ Cardinality(Names' \ excess'[c]) <= MaxBackups
    <2>1. Names' = Names
      BY <1>1 DEF Names
    <2> QED
      BY <1>1, <2>1 DEF Bounding
  <1>2. ASSUME NEW len \in Lengths, WriteFits(len)
        PROVE  UNCHANGED <<backups, wpc, cpc, excess, neglected>>
    BY <1>2 DEF WriteFits
  <1>3. ASSUME NEW len \in Lengths, Rotate(len) PROVE FALSE
    BY <1>3 DEF Rotate
  <1>4. ASSUME NEW c \in Cleaners, Reopen(c) PROVE FALSE
    BY <1>0, <1>4 DEF Reopen
  <1>5. CASE ReopenFails
    BY <1>5 DEF ReopenFails
  <1>6. CASE Close \/ Tick \/ UNCHANGED vars
    BY <1>1, <1>6 DEF Close, Tick, vars
  <1>7. CASE Restart
    <2>1. ~neglected /\ wpc # "reopen" /\ \A c \in Cleaners : cpc[c] = "off"
      BY <1>7 DEF Restart
    <2>2. Names' = Names
      BY <1>7 DEF Restart, Names
    <2> QED
      BY <1>0, <2>1, <2>2 DEF Bounding
  <1>8. ASSUME NEW c \in Cleaners, List(c)
        PROVE  cpc'[c] = "remove" /\ Cardinality(Names' \ excess'[c]) <= MaxBackups
    <2> DEFINE N == Newest(Names, MaxBackups)
    <2>1. N \subseteq Names
      BY Zenon DEF Newest
    <2>2. Cardinality(N) <= MaxBackups
      BY <1>0, NewestFew
    <2> HIDE DEF N
    <2>3. cpc'[c] = "remove" /\ excess'[c] = Names \ N /\ Names' = Names
      BY <1>0, <1>8 DEF List, N, Names
    <2>4. Names' \ excess'[c] = N
      BY <2>1, <2>3
    <2> QED
      BY <2>2, <2>3, <2>4
  <1>9. ASSUME NEW c \in Cleaners, ListFails(c) PROVE FALSE
    BY <1>9 DEF ListFails
  <1>10. ASSUME NEW c \in Cleaners, RemoveExcess(c) \/ RemoveAged(c)
         PROVE  \/ Cardinality(Names') <= MaxBackups
                \/ \E d \in Cleaners : cpc'[d] = "remove" /\ Cardinality(Names' \ excess'[d]) <= MaxBackups
    <2>1. ~neglected /\ wpc = "ready" /\ cpc' = cpc
      BY <1>10 DEF RemoveExcess, RemoveAged, RemoveFile
    <2>2. Names' \subseteq Names
      BY <1>10 DEF RemoveExcess, RemoveAged, RemoveFile, Names
    <2>3. ASSUME NEW d \in Cleaners PROVE Names' \ excess'[d] \subseteq Names \ excess[d]
      <3>1. CASE RemoveExcess(c)
        <4>1. PICK b : RemoveFile(b) /\ excess' = [excess EXCEPT ![c] = @ \ {b}]
          BY <3>1 DEF RemoveExcess
        <4>2. Names' = Names \ {b}
          BY <4>1 DEF RemoveFile, Names
        <4>3. excess'[d] = excess[d] \/ excess'[d] = excess[d] \ {b}
          BY <1>0, <4>1
        <4> QED
          BY <4>2, <4>3
      <3>2. CASE RemoveAged(c)
        BY <2>2, <3>2 DEF RemoveAged
      <3> QED
        BY <1>10, <3>1, <3>2
    <2>4. CASE Cardinality(Names) <= MaxBackups
      BY <1>0, <2>2, <2>4, Fewer
    <2>5. CASE \E d \in Cleaners : cpc[d] = "remove" /\ Cardinality(Names \ excess[d]) <= MaxBackups
      <3>1. PICK d \in Cleaners : cpc[d] = "remove" /\ Cardinality(Names \ excess[d]) <= MaxBackups
        BY <2>5
      <3>2. IsFiniteSet(Names \ excess[d])
        <4>1. Names \ excess[d] \in SUBSET Names
          OBVIOUS
        <4> QED
          BY <1>0, <4>1, FS_Subset
      <3>3. Cardinality(Names' \ excess'[d]) <= MaxBackups
        BY <1>0, <2>3, <3>1, <3>2, Fewer
      <3> QED
        BY <2>1, <3>1, <3>3
    <2> QED
      BY <2>1, <2>4, <2>5 DEF Bounding
  <1>11. ASSUME NEW c \in Cleaners, CleanupDone(c)
         PROVE  \/ Cardinality(Names') <= MaxBackups
                \/ \E d \in Cleaners : cpc'[d] = "remove" /\ Cardinality(Names' \ excess'[d]) <= MaxBackups
    <2>1. /\ ~neglected /\ wpc = "ready" /\ Names' = Names /\ excess' = excess /\ excess[c] = {}
          /\ cpc[c] = "remove" /\ \A d \in Cleaners : d # c => cpc'[d] = cpc[d]
      BY <1>0, <1>11 DEF CleanupDone, Names
    <2>2. \A d \in Cleaners : cpc[d] # "list"
      BY <2>1
    <2>3. CASE Cardinality(Names \ excess[c]) <= MaxBackups
      <3>1. Names \ excess[c] = Names
        BY <2>1
      <3> QED
        BY <2>1, <2>3, <3>1
    <2> QED
      BY <2>1, <2>2, <2>3 DEF Bounding
  <1> QED
    BY <1>1, <1>2, <1>3, <1>4, <1>5, <1>6, <1>7, <1>8, <1>9, <1>10, <1>11 DEF Next

-----------------------------------------------------------------------------
\* FlattenSeq concatenates by recursion on the number of sequences.  That the recursion
\* defines a function, and that a sequence more is concatenated at the end, is shown with
\* a least counterexample.
Flattens(s, n, f) == f = [i \in 1..n |-> IF i = 1 THEN s[i] ELSE f[i - 1] \o s[i]]

\* There is a function that satisfies the recursion.
LEMMA FlattenExists ==
    ASSUME NEW s, NEW n \in Nat
    PROVE  \E f : Flattens(s, n, f)
  <1> DEFINE B == {k \in Nat : ~\E f : Flattens(s, k, f)}
  <1>1. SUFFICES B = {}
    OBVIOUS
  <1>2. SUFFICES ASSUME B # {} PROVE FALSE
    OBVIOUS
  <1>3. PICK m \in B : \A x \in B : m <= x
    <2>1. B \in SUBSET Nat
      OBVIOUS
    <2> HIDE DEF B
    <2> QED
      BY <2>1, <1>2, Least
  <1>4. CASE m = 0
    <2>1. Flattens(s, m, [i \in {} |-> i])
      BY <1>4 DEF Flattens
    <2> QED
      BY <2>1
  <1>5. CASE m # 0
    <2>1. m \in Nat /\ m - 1 \in Nat /\ ~(m <= m - 1)
      BY <1>5
    <2>2. PICK f : Flattens(s, m - 1, f)
      BY <1>3, <2>1
    <2> DEFINE g == [i \in 1..m |-> IF i = 1 THEN s[i] ELSE IF i = m THEN f[i - 1] \o s[i] ELSE f[i]]
    <2>3. ASSUME NEW i \in 1..m PROVE g[i] = IF i = 1 THEN s[i] ELSE g[i - 1] \o s[i]
      <3>1. CASE i = 1
        BY <3>1
      <3>2. CASE i # 1
        <4>1. i - 1 \in 1..(m - 1) /\ i - 1 \in 1..m /\ i - 1 # m
          BY <3>2, <2>1
        <4>2. g[i - 1] = f[i - 1]
          BY <4>1, <2>2 DEF Flattens
        <4>3. g[i] = f[i - 1] \o s[i]
          <5>1. CASE i = m
            BY <5>1, <3>2
          <5>2. CASE i # m
            <6>1. i \in 1..(m - 1)
              BY <5>2, <2>1
            <6> QED
              BY <5>2, <3>2, <6>1, <2>2 DEF Flattens
          <5> QED
            BY <5>1, <5>2
        <4> QED
          BY <4>2, <4>3, <3>2
      <3> QED
        BY <3>1, <3>2
    <2>4. Flattens(s, m, g)
      <3>1. g = [i \in 1..m |-> g[i]]
        OBVIOUS
      <3> HIDE DEF g
      <3> QED
        BY <3>1, <2>3, Zenon DEF Flattens
    <2> QED
      BY <2>4
  <1> QED
    BY <1>4, <1>5

\* What FlattenSeq is, without its CHOOSE.
LEMMA FlattenRec ==
    ASSUME NEW s, Len(s) \in Nat \ {0}
    PROVE  \E f : /\ FlattenSeq(s) = f[Len(s)]
                  /\ \A i \in 1..Len(s) : f[i] = IF i = 1 THEN s[i] ELSE f[i - 1] \o s[i]
  <1> DEFINE f == CHOOSE f : Flattens(s, Len(s), f)
  <1>1. Flattens(s, Len(s), f)
    BY FlattenExists
  <1>2. FlattenSeq(s) = f[Len(s)]
    BY DEF FlattenSeq, Flattens
  <1> HIDE DEF f
  <1>3. ASSUME NEW i \in 1..Len(s) PROVE f[i] = IF i = 1 THEN s[i] ELSE f[i - 1] \o s[i]
    BY <1>1 DEF Flattens
  <1> QED
    BY <1>2, <1>3

\* A sequence more, at the end.
LEMMA FlattenAppend ==
    ASSUME NEW s, Len(s) \in Nat, NEW t, Len(t) = Len(s) + 1,
           \A i \in 1..Len(s) : t[i] = s[i]
    PROVE  /\ Len(s) # 0 => FlattenSeq(t) = FlattenSeq(s) \o t[Len(t)]
           /\ Len(s) = 0 => FlattenSeq(t) = t[Len(t)] /\ FlattenSeq(s) = s
  <1>1. PICK g : /\ FlattenSeq(t) = g[Len(t)]
                 /\ \A i \in 1..Len(t) : g[i] = IF i = 1 THEN t[i] ELSE g[i - 1] \o t[i]
    BY FlattenRec
  <1>2. CASE Len(s) = 0
    BY <1>1, <1>2 DEF FlattenSeq
  <1>3. CASE Len(s) # 0
    <2>1. PICK f : /\ FlattenSeq(s) = f[Len(s)]
                   /\ \A i \in 1..Len(s) : f[i] = IF i = 1 THEN s[i] ELSE f[i - 1] \o s[i]
      BY FlattenRec, <1>3
    <2> DEFINE B == {i \in 1..Len(s) : f[i] # g[i]}
    <2>2. B = {}
      <3>1. SUFFICES ASSUME B # {} PROVE FALSE
        OBVIOUS
      <3>2. PICK m \in B : \A x \in B : m <= x
        <4>1. B \in SUBSET Nat
          OBVIOUS
        <4> HIDE DEF B
        <4> QED
          BY <4>1, <3>1, Least
      <3>3. m \in 1..Len(s) /\ m \in 1..Len(t) /\ f[m] # g[m]
        OBVIOUS
      <3>4. m # 1
        BY <3>3, <1>1, <2>1
      <3>5. m - 1 \in 1..Len(s) /\ m - 1 \notin B
        BY <3>2, <3>3, <3>4
      <3>6. f[m - 1] = g[m - 1]
        BY <3>5
      <3>7. f[m] = f[m - 1] \o s[m] /\ g[m] = g[m - 1] \o t[m] /\ t[m] = s[m]
        BY <3>3, <3>4, <1>1, <2>1
      <3> QED
        BY <3>3, <3>6, <3>7
    <2>3. f[Len(s)] = g[Len(s)]
      BY <2>2, <1>3
    <2>4. Len(t) \in 1..Len(t) /\ Len(t) # 1 /\ Len(t) - 1 = Len(s)
      BY <1>3
    <2>5. g[Len(t)] = g[Len(t) - 1] \o t[Len(t)]
      BY <1>1, <2>4
    <2> QED
      BY <1>1, <2>1, <2>3, <2>4, <2>5, <1>3
  <1> QED
    BY <1>2, <1>3

\* The log of one rotation more.
LEMMA LogAppend ==
    ASSUME NEW r \in Seq(Rotations), NEW e \in Rotations, FlattenSeq(Recs(r)) \in Seq(Nat)
    PROVE  FlattenSeq(Recs(Append(r, e))) = FlattenSeq(Recs(r)) \o e.recs
  <1>1. Len(Recs(r)) = Len(r) /\ Len(r) \in Nat
    BY DEF Recs, Rotations
  <1>2. Len(Recs(Append(r, e))) = Len(r) + 1
    BY DEF Recs, Rotations
  <1>3. Recs(Append(r, e))[Len(r) + 1] = e.recs
    BY DEF Recs, Rotations
  <1>4. \A i \in 1..Len(r) : Recs(Append(r, e))[i] = Recs(r)[i]
    BY SMTT(30) DEF Recs, Rotations
  <1> DEFINE u == Recs(r)
             t == Recs(Append(r, e))
  <1>5. /\ Len(u) \in Nat /\ Len(t) = Len(u) + 1 /\ \A i \in 1..Len(u) : t[i] = u[i]
        /\ t[Len(t)] = e.recs /\ Len(u) = Len(r)
    BY <1>1, <1>2, <1>3, <1>4
  <1> HIDE DEF u, t
  <1>6. /\ Len(u) # 0 => FlattenSeq(t) = FlattenSeq(u) \o t[Len(t)]
        /\ Len(u) = 0 => FlattenSeq(t) = t[Len(t)] /\ FlattenSeq(u) = u
    BY <1>5, FlattenAppend
  <1>7. CASE Len(r) = 0
    <2>1. u = <<>>
      BY <1>7 DEF Recs, u
    <2>2. e.recs \in Seq(Nat)
      BY DEF Rotations
    <2>3. <<>> \o e.recs = e.recs
      BY <2>2
    <2> QED
      BY <1>5, <1>6, <1>7, <2>1, <2>3 DEF u, t
  <1>8. CASE Len(r) # 0
    BY <1>5, <1>6, <1>8 DEF u, t
  <1> QED
    BY <1>7, <1>8

-----------------------------------------------------------------------------
\* The types of the rotations, one by one.
RotationTypes ==
    /\ clock \in Nat /\ Len(rotated) \in Nat
    /\ \A i \in 1..Len(rotated) : rotated[i].name \in Nat /\ rotated[i].mtime \in Nat

\* The rotations have these types.
LEMMA RotationsTyped == WriterInv => RotationTypes
  <1> SUFFICES ASSUME WriterInv PROVE RotationTypes
    OBVIOUS
  <1>1. clock \in Nat /\ rotated \in Seq(Rotations)
    BY TypeParts, WriterAssumption DEF WriterInv, Numbers, Histories
  <1>2. ASSUME NEW i \in 1..Len(rotated) PROVE rotated[i].name \in Nat /\ rotated[i].mtime \in Nat
    <2>1. rotated[i] \in Rotations
      BY <1>1
    <2> QED
      BY <2>1 DEF Rotations
  <1> QED
    BY <1>1, <1>2 DEF RotationTypes

\* Names of rotations are finitely many.
FewNames ==
    /\ \A i \in Nat \ {0} : IsFiniteSet(NamesFrom(i))
    /\ \A b : IsFiniteSet(NamesAfter(b))

\* They are times of the clock, which is finite.
LEMMA NamesFromFinite == WriterInv /\ NamesGrow => FewNames
  <1> SUFFICES ASSUME WriterInv, NamesGrow PROVE FewNames
    OBVIOUS
  <1>1. RotationTypes
    BY RotationsTyped
  <1>2. IsFiniteSet(0..clock)
    BY <1>1, FS_Interval DEF RotationTypes
  <1>3. ASSUME NEW i \in Nat \ {0} PROVE NamesFrom(i) \in SUBSET (0..clock)
    <2>1. ASSUME NEW j \in i..Len(rotated) PROVE rotated[j].name \in 0..clock
      <3>1. j \in 1..Len(rotated)
        BY <1>1 DEF RotationTypes
      <3> QED
        BY <1>1, <3>1 DEF NamesGrow, RotationTypes
    <2> QED
      BY <2>1 DEF NamesFrom
  <1>4. ASSUME NEW b PROVE NamesAfter(b) \in SUBSET NamesFrom(1)
    BY DEF NamesAfter
  <1>5. \A i \in Nat \ {0} : IsFiniteSet(NamesFrom(i))
    BY <1>2, <1>3, FS_Subset
  <1>6. \A b : IsFiniteSet(NamesAfter(b))
    BY <1>4, <1>5, FS_Subset
  <1> QED
    BY <1>5, <1>6 DEF FewNames

\* More of them are not fewer.
LEMMA More ==
    ASSUME NEW A, NEW B, A \subseteq B, IsFiniteSet(B), NEW n \in Nat
    PROVE  Cardinality(A) >= n => Cardinality(B) >= n
  <1>1. A \in SUBSET B
    OBVIOUS
  <1>2. Cardinality(A) <= Cardinality(B) /\ IsFiniteSet(A)
    BY <1>1, FS_Subset
  <1>3. Cardinality(A) \in Nat /\ Cardinality(B) \in Nat
    BY <1>2, FS_CardinalityType
  <1> QED
    BY <1>2, <1>3

\* Time alone takes no backup away.
LEMMA StillKept ==
    ASSUME WriterInv, WriterInv', KeptInv, UNCHANGED <<rotated, backups>>, clock' >= clock
    PROVE  NamesGrow' /\ (\A i \in 1..Len(rotated)' : Kept(i)') /\ RotatedLog' = RotatedLog
           /\ \A b : NamesAfter(b)' = NamesAfter(b)
  <1>0. RotationTypes /\ RotationTypes'
    BY RotationsTyped, PTL
  <1>1. clock \in Nat /\ clock' \in Nat /\ MaxAge \in Nat
    BY <1>0, WriterAssumption DEF RotationTypes
  <1>2. \A i : NamesFrom(i)' = NamesFrom(i)
    BY DEF NamesFrom
  <1>3. Names' = Names
    BY DEF Names
  <1>4. NamesGrow'
    <2>1. ASSUME NEW i \in 1..Len(rotated) PROVE rotated[i].name <= clock'
      <3>1. rotated[i].name \in Nat /\ rotated[i].name <= clock
        BY <1>0 DEF KeptInv, NamesGrow, RotationTypes
      <3> QED
        BY <1>1, <3>1
    <2> QED
      BY <1>2, <1>3, <2>1 DEF KeptInv, NamesGrow
  <1>5. ASSUME NEW i \in 1..Len(rotated) PROVE Kept(i)'
    <2>1. rotated[i].mtime \in Nat
      BY <1>0 DEF RotationTypes
    <2>2. rotated[i].mtime < clock - MaxAge => rotated[i].mtime < clock' - MaxAge
      BY <1>1, <2>1
    <2> QED
      BY <1>2, <1>3, <2>2 DEF KeptInv, Kept
  <1>6. RotatedLog' = RotatedLog
    BY DEF RotatedLog
  <1>7. \A b : NamesAfter(b)' = NamesAfter(b)
    BY <1>2 DEF NamesAfter
  <1> QED
    BY <1>4, <1>5, <1>6, <1>7

\* Removing a backup that maxBackups later rotations have made superfluous, or that was
\* last written before a cutoff that has passed.
LEMMA RemovalKept ==
    ASSUME WriterInv, KeptInv, NEW b, NEW cut \in Int, cut <= clock - MaxAge,
           UNCHANGED <<rotated, clock>>, backups' = [x \in Names \ {b} |-> backups[x]],
           Cardinality(NamesAfter(b)) >= MaxBackups \/ backups[b].mtime < cut
    PROVE  NamesGrow' /\ \A i \in 1..Len(rotated)' : Kept(i)'
  <1>0. RotationTypes
    BY RotationsTyped
  <1>1. clock \in Nat /\ MaxAge \in Nat /\ MaxBackups \in Nat /\ Len(rotated) \in Nat
    BY <1>0, WriterAssumption DEF RotationTypes
  <1>2. \A i : NamesFrom(i)' = NamesFrom(i)
    BY DEF NamesFrom
  <1>3. Names' = Names \ {b} /\ \A x \in Names' : backups'[x] = backups[x]
    BY DEF Names
  <1>4. NamesGrow'
    BY <1>2, <1>3 DEF KeptInv, NamesGrow
  <1>5. ASSUME NEW i \in 1..Len(rotated) PROVE Kept(i)'
    <2> DEFINE f == rotated[i]
    <2>1. f.mtime \in Nat /\ f.name \in Nat /\ i + 1 \in Nat \ {0}
      BY <1>0 DEF RotationTypes
    <2>2. Kept(i)
      BY DEF KeptInv
    <2>3. CASE f.name \in Names /\ backups[f.name] = [recs |-> f.recs, mtime |-> f.mtime] /\ f.name = b
      <3>1. CASE backups[b].mtime < cut
        <4>1. f.mtime < clock - MaxAge
          BY <1>1, <2>1, <2>3, <3>1
        <4> QED
          BY <4>1 DEF Kept
      <3>2. CASE Cardinality(NamesAfter(b)) >= MaxBackups /\ b \notin NamesFrom(i + 1)
        <4>1. ASSUME NEW j \in 1..Len(rotated), rotated[j].name > b PROVE j \in (i + 1)..Len(rotated)
          <5>1. j <= i => rotated[j].name <= b
            BY <2>3 DEF KeptInv, NamesGrow
          <5>2. rotated[j].name \in Nat /\ b \in Nat
            BY <1>0, <2>1, <2>3 DEF RotationTypes
          <5> QED
            BY <1>1, <4>1, <5>1, <5>2
        <4>2. NamesAfter(b) \subseteq NamesFrom(i + 1)
          BY <4>1 DEF NamesAfter, NamesFrom
        <4>3. IsFiniteSet(NamesFrom(i + 1))
          BY <2>1, NamesFromFinite DEF KeptInv, FewNames
        <4>4. Cardinality(NamesFrom(i + 1)) >= MaxBackups
          BY <1>1, <3>2, <4>2, <4>3, More
        <4> QED
          BY <1>2, <4>4 DEF Kept
      <3>3. CASE b \in NamesFrom(i + 1)
        BY <1>2, <2>3, <3>3 DEF Kept
      <3> QED
        BY <3>1, <3>2, <3>3
    <2>4. CASE f.name \in Names /\ backups[f.name] = [recs |-> f.recs, mtime |-> f.mtime] /\ f.name # b
      BY <1>3, <2>4 DEF Kept
    <2> QED
      BY <1>2, <2>2, <2>3, <2>4 DEF Kept
  <1> QED
    BY <1>4, <1>5

\* Another rotation: its file is there, and may have taken the name of earlier ones.
LEMMA RenameKept ==
    ASSUME WriterInv, WriterInv', KeptInv, Rename, UNCHANGED <<clock, cpc, excess, cutoff, acked>>
    PROVE  KeptInv'
  <1> DEFINE e == [name |-> clock, recs |-> live, mtime |-> mtime]
             n == Len(rotated)
  <1>1. /\ clock \in Nat /\ mtime \in Nat /\ live \in Seq(Nat) /\ acked \in Seq(Nat)
        /\ rotated \in Seq(Rotations) /\ n \in Nat /\ MaxBackups \in Nat
    BY TypeParts, WriterAssumption DEF WriterInv, Numbers, Histories
  <1>2. e \in Rotations /\ e.name = clock /\ e.recs = live
    BY <1>1 DEF Rotations
  <1>3. rotated' = Append(rotated, e) /\ live' = <<>>
    BY DEF Rename
  <1>4. /\ Len(rotated') = n + 1 /\ rotated'[n + 1] = e
        /\ \A j \in 1..n : rotated'[j] = rotated[j]
    BY <1>1, <1>2, <1>3
  <1>5. Names' = Names \cup {clock} /\ \A x \in Names' : x # clock => backups'[x] = backups[x]
    BY DEF Rename, Names
  <1>6. backups'[clock] = [recs |-> live, mtime |-> mtime] /\ clock \in Names'
    BY DEF Rename, Names
  <1> HIDE DEF e
  <1>7. ASSUME NEW i \in 1..(n + 1) PROVE NamesFrom(i)' = NamesFrom(i) \cup {clock}
    <2>1. i..(n + 1) = (i..n) \cup {n + 1} /\ i..n \subseteq 1..n
      BY <1>1
    <2>2. {rotated'[j].name : j \in i..(n + 1)} = {rotated'[j].name : j \in i..n} \cup {rotated'[n + 1].name}
      BY <2>1
    <2>3. {rotated'[j].name : j \in i..n} = {rotated[j].name : j \in i..n}
      BY <1>4, <2>1
    <2> QED
      BY <1>2, <1>4, <2>2, <2>3 DEF NamesFrom
  <1>8. NamesGrow'
    <2>1. ASSUME NEW i \in 1..(n + 1) PROVE rotated'[i].name <= clock
      <3>1. i = n + 1 \/ i \in 1..n
        BY <1>1
      <3> QED
        BY <1>1, <1>2, <1>4, <3>1 DEF KeptInv, NamesGrow
    <2>2. ASSUME NEW i \in 1..(n + 1), NEW j \in 1..(n + 1), i <= j PROVE rotated'[i].name <= rotated'[j].name
      <3>1. CASE j = n + 1
        BY <1>2, <1>4, <2>1, <3>1
      <3>2. CASE j # n + 1
        <4>1. i \in 1..n /\ j \in 1..n
          BY <1>1, <2>2, <3>2
        <4> QED
          BY <1>4, <2>2, <4>1 DEF KeptInv, NamesGrow
      <3> QED
        BY <3>1, <3>2
    <2>3. Names' \subseteq NamesFrom(1)'
      <3>1. 1 \in 1..(n + 1)
        BY <1>1
      <3> QED
        BY <1>5, <1>7, <3>1 DEF KeptInv, NamesGrow
    <2> QED
      BY <1>4, <2>1, <2>2, <2>3 DEF NamesGrow
  <1>9. FewNames'
    BY <1>8, NamesFromFinite, PTL
  <1>10. ASSUME NEW i \in 1..(n + 1) PROVE Kept(i)'
    <2>1. CASE i = n + 1
      BY <1>2, <1>4, <1>6, <2>1 DEF Kept, e
    <2>2. CASE i # n + 1
      <3>1. i \in 1..n /\ i + 1 \in 1..(n + 1) /\ i + 1 \in Nat \ {0}
        BY <1>1, <2>2
      <3>2. Kept(i) /\ rotated'[i] = rotated[i]
        BY <1>4, <3>1 DEF KeptInv
      <3>3. NamesFrom(i + 1)' = NamesFrom(i + 1) \cup {clock}
        BY <1>7, <3>1
      <3>4. CASE rotated[i].name = clock
        BY <3>2, <3>3, <3>4 DEF Kept
      <3>5. CASE rotated[i].name # clock
        <4>1. Cardinality(NamesFrom(i + 1)) >= MaxBackups => Cardinality(NamesFrom(i + 1)') >= MaxBackups
          <5>1. IsFiniteSet(NamesFrom(i + 1)')
            BY <1>9, <3>1 DEF FewNames
          <5> QED
            BY <1>1, <3>3, <5>1, More
        <4> QED
          BY <1>5, <3>2, <3>3, <3>5, <4>1 DEF Kept
      <3> QED
        BY <3>4, <3>5
    <2> QED
      BY <2>1, <2>2
  <1>11. Doomed'
    <2>1. ASSUME NEW b, Cardinality(NamesAfter(b)) >= MaxBackups
          PROVE  Cardinality(NamesAfter(b)') >= MaxBackups
      <3>1. NamesAfter(b) \subseteq NamesAfter(b)'
        <4>1. 1 \in 1..(n + 1)
          BY <1>1
        <4> QED
          BY <1>7, <4>1 DEF NamesAfter
      <3>2. IsFiniteSet(NamesAfter(b)')
        BY <1>9 DEF FewNames
      <3> QED
        BY <1>1, <2>1, <3>1, <3>2, More
    <2> QED
      BY <2>1 DEF KeptInv, Doomed
  <1>12. RotatedLog' = acked /\ RotatedLog' \in Seq(Nat) /\ RotatedLog' \o live' = acked'
    <2>1. RotatedLog' = RotatedLog \o live
      BY <1>1, <1>2, <1>3, LogAppend DEF RotatedLog, KeptInv
    <2>2. acked \o <<>> = acked
      BY <1>1
    <2> QED
      BY <1>1, <1>3, <2>1, <2>2 DEF KeptInv
  <1> QED
    BY <1>4, <1>8, <1>10, <1>11, <1>12 DEF KeptInv

\* Steps that rotate and remove nothing, and put nothing on a cleanup's list.
LEMMA QuietKept ==
    ASSUME WriterInv, WriterInv', KeptInv, UNCHANGED <<rotated, backups>>, clock' >= clock,
           RotatedLog \o live' = acked',
           \A c \in Cleaners : cpc'[c] = "remove" =>
               cpc[c] = "remove" /\ excess'[c] \subseteq excess[c] /\ cutoff'[c] = cutoff[c]
    PROVE  KeptInv'
  <1>1. NamesGrow' /\ (\A i \in 1..Len(rotated)' : Kept(i)') /\ RotatedLog' = RotatedLog
        /\ \A b : NamesAfter(b)' = NamesAfter(b)
    BY StillKept
  <1>2. clock \in Nat /\ clock' \in Nat /\ MaxAge \in Nat /\ cutoff \in [Cleaners -> Int]
    <2>1. RotationTypes /\ RotationTypes'
      BY RotationsTyped, PTL
    <2> QED
      BY <2>1, WriterAssumption, TypeParts DEF RotationTypes, WriterInv, Cleanups
  <1>3. Doomed'
    <2> SUFFICES ASSUME NEW c \in Cleaners, cpc'[c] = "remove"
                 PROVE  /\ cutoff'[c] <= clock' - MaxAge
                        /\ \A b \in excess'[c] : Cardinality(NamesAfter(b)') >= MaxBackups
      BY DEF Doomed
    <2>1. cutoff[c] <= clock - MaxAge /\ \A b \in excess[c] : Cardinality(NamesAfter(b)) >= MaxBackups
      BY DEF KeptInv, Doomed
    <2>2. cutoff'[c] <= clock' - MaxAge
      BY <1>2, <2>1
    <2> QED
      BY <1>1, <2>1, <2>2
  <1> QED
    BY <1>1, <1>3 DEF KeptInv

\* The records of a Write go to the end of the log.
LEMMA PutKept ==
    ASSUME WriterInv, KeptInv, writes' \in Nat,
           \/ live' = Append(live, writes') /\ acked' = Append(acked, writes')
           \/ live' = live /\ acked' = acked
    PROVE  RotatedLog \o live' = acked'
  <1>1. live \in Seq(Nat) /\ RotatedLog \in Seq(Nat) /\ RotatedLog \o live = acked
    BY DEF WriterInv, Histories, KeptInv
  <1> DEFINE R == RotatedLog
  <1>2. R \in Seq(Nat) /\ R \o live = acked
    BY <1>1
  <1> HIDE DEF R
  <1>3. R \o Append(live, writes') = Append(R \o live, writes')
    BY <1>1, <1>2
  <1> QED
    BY <1>2, <1>3 DEF R

\* Every step keeps the log, and what the cleanups' lists and the backups are.
LEMMA KeptStep == WriterInv /\ WriterInv' /\ KeptInv /\ [Next]_vars => KeptInv'
  <1> SUFFICES ASSUME WriterInv, WriterInv', KeptInv, [Next]_vars PROVE KeptInv'
    OBVIOUS
  <1> USE DEF disk, writer, cleaner
  <1>0. /\ clock \in Nat /\ MaxAge \in Nat /\ MaxBackups \in Nat /\ writes \in Nat
        /\ Names \subseteq Nat /\ IsFiniteSet(Names)
        /\ cpc \in [Cleaners -> {"off", "list", "remove"}]
        /\ excess \in [Cleaners -> SUBSET (0..clock)] /\ cutoff \in [Cleaners -> Int]
    BY NamesFinite, WriterAssumption, TypeParts DEF WriterInv, Numbers, Cleanups
  <1>1. clock >= clock /\ RotatedLog \o live = acked
    BY <1>0 DEF KeptInv
  <1>2. ASSUME NEW len \in Lengths, WriteFits(len) PROVE KeptInv'
    <2>1. /\ UNCHANGED <<clock, rotated, backups, cpc, excess, cutoff>>
          /\ writes' = writes + 1 /\ writes < MaxWrites
      BY <1>2 DEF WriteFits
    <2>2. RotatedLog \o live' = acked'
      <3>1. CASE isOpen /\ Put(len, size)
        <4>1. size = bytes
          BY <3>1 DEF WriterInv, Sized
        <4>2. \/ live' = Append(live, writes') /\ acked' = Append(acked, writes')
              \/ live' = live /\ acked' = acked
          BY <2>1, <3>1, <4>1, PutStep
        <4> QED
          BY <1>0, <2>1, <4>2, PutKept
      <3>2. CASE UNCHANGED <<live, acked>>
        BY <1>1, <3>2
      <3> QED
        BY <1>2, <3>1, <3>2 DEF WriteFits
    <2> QED
      BY <1>1, <2>1, <2>2, QuietKept
  <1>3. ASSUME NEW len \in Lengths, Rotate(len) PROVE KeptInv'
    <2>1. UNCHANGED <<clock, cpc, excess, cutoff, acked>>
      BY <1>3 DEF Rotate
    <2>2. CASE Rename
      BY <2>1, <2>2, RenameKept
    <2>3. CASE RenameFails
      <3>1. UNCHANGED <<live, backups, rotated>>
        BY <2>3 DEF RenameFails
      <3> QED
        BY <1>1, <2>1, <3>1, QuietKept
    <2> QED
      BY <1>3, <2>2, <2>3 DEF Rotate
  <1>4. ASSUME NEW c \in Cleaners, Reopen(c) PROVE KeptInv'
    <2>1. /\ UNCHANGED <<clock, rotated, backups, excess, cutoff>>
          /\ writes' = writes + 1 /\ cpc' = [cpc EXCEPT ![c] = "list"]
      BY <1>4 DEF Reopen
    <2>2. pending \in Lengths /\ writes < MaxWrites /\ Put(pending, bytes)
      BY <1>4 DEF Reopen, WriterInv, InRotation
    <2>3. \/ live' = Append(live, writes') /\ acked' = Append(acked, writes')
          \/ live' = live /\ acked' = acked
      BY <2>1, <2>2, PutStep
    <2>4. RotatedLog \o live' = acked'
      BY <1>0, <2>1, <2>3, PutKept
    <2>5. \A d \in Cleaners : cpc'[d] = "remove" => cpc[d] = "remove"
      BY <1>0, <2>1
    <2> QED
      BY <1>1, <2>1, <2>4, <2>5, QuietKept
  <1>5. CASE ReopenFails \/ Close \/ UNCHANGED vars
    <2>1. UNCHANGED <<clock, rotated, backups, cpc, excess, cutoff, live, acked>>
      BY <1>5 DEF ReopenFails, Close, vars
    <2> QED
      BY <1>1, <2>1, QuietKept
  <1>6. CASE Tick
    <2>1. UNCHANGED <<rotated, backups, cpc, excess, cutoff, live, acked>> /\ clock' >= clock
      BY <1>0, <1>6 DEF Tick
    <2> QED
      BY <1>1, <2>1, QuietKept
  <1>7. CASE Restart
    <2>1. UNCHANGED <<clock, rotated, backups, live, acked>> /\ \A c \in Cleaners : cpc'[c] # "remove"
      BY <1>7 DEF Restart
    <2> QED
      BY <1>1, <2>1, QuietKept
  <1>8. ASSUME NEW c \in Cleaners, ListFails(c) \/ CleanupDone(c) PROVE KeptInv'
    <2>1. /\ UNCHANGED <<clock, rotated, backups, excess, live, acked>>
          /\ cpc' = [cpc EXCEPT ![c] = "off"]
          /\ cutoff' = cutoff \/ cutoff' = [cutoff EXCEPT ![c] = 0]
      BY <1>8 DEF ListFails, CleanupDone
    <2>2. \A d \in Cleaners : cpc'[d] = "remove" => cpc[d] = "remove" /\ cutoff'[d] = cutoff[d]
      BY <1>0, <2>1
    <2> QED
      BY <1>1, <2>1, <2>2, QuietKept
  <1>9. ASSUME NEW c \in Cleaners, List(c) PROVE KeptInv'
    <2>1. /\ UNCHANGED <<clock, rotated, backups, live, acked>>
          /\ excess'[c] = Names \ Newest(Names, MaxBackups) /\ cutoff'[c] = clock - MaxAge
          /\ \A d \in Cleaners \ {c} : cpc'[d] = cpc[d] /\ excess'[d] = excess[d] /\ cutoff'[d] = cutoff[d]
      BY <1>0, <1>9 DEF List
    <2>2. NamesGrow' /\ (\A i \in 1..Len(rotated)' : Kept(i)') /\ RotatedLog' = RotatedLog
          /\ \A b : NamesAfter(b)' = NamesAfter(b)
      BY <1>1, <2>1, StillKept
    <2>3. ASSUME NEW b \in excess'[c] PROVE Cardinality(NamesAfter(b)) >= MaxBackups
      <3> DEFINE A == {x \in Names : x > b}
      <3>1. ~(Cardinality(A) < MaxBackups)
        BY <2>1 DEF Newest
      <3>2. A \in SUBSET Names /\ A \subseteq NamesAfter(b)
        BY DEF NamesAfter, KeptInv, NamesGrow
      <3> HIDE DEF A
      <3>3. Cardinality(A) \in Nat
        BY <1>0, <3>2, FS_Subset, FS_CardinalityType
      <3>4. IsFiniteSet(NamesAfter(b))
        BY NamesFromFinite DEF KeptInv, FewNames
      <3>5. Cardinality(A) >= MaxBackups
        BY <1>0, <3>1, <3>3
      <3> QED
        BY <1>0, <3>2, <3>4, <3>5, More
    <2>4. Doomed'
      <3> SUFFICES ASSUME NEW d \in Cleaners, cpc'[d] = "remove"
                   PROVE  /\ cutoff'[d] <= clock' - MaxAge
                          /\ \A b \in excess'[d] : Cardinality(NamesAfter(b)') >= MaxBackups
        BY DEF Doomed
      <3>1. CASE d = c
        BY <1>0, <2>1, <2>2, <2>3, <3>1
      <3>2. CASE d # c
        BY <2>1, <2>2, <3>2 DEF KeptInv, Doomed
      <3> QED
        BY <3>1, <3>2
    <2> QED
      BY <1>1, <2>1, <2>2, <2>4 DEF KeptInv
  \* What the two loops of cleanup have in common.
  <1>10. ASSUME NEW c \in Cleaners, NEW b, cpc[c] = "remove",
                Cardinality(NamesAfter(b)) >= MaxBackups \/ backups[b].mtime < cutoff[c],
                backups' = [x \in Names \ {b} |-> backups[x]],
                UNCHANGED <<clock, rotated, live, acked, cpc, cutoff>>,
                \A d \in Cleaners : excess'[d] \subseteq excess[d]
         PROVE  KeptInv'
    <2>1. cutoff[c] \in Int /\ cutoff[c] <= clock - MaxAge
      BY <1>0, <1>10 DEF KeptInv, Doomed
    <2>2. NamesGrow' /\ \A i \in 1..Len(rotated)' : Kept(i)'
      BY <1>10, <2>1, RemovalKept
    <2>3. RotatedLog' = RotatedLog /\ \A x : NamesAfter(x)' = NamesAfter(x)
      BY <1>10 DEF RotatedLog, NamesAfter, NamesFrom
    <2>4. Doomed'
      BY <1>10, <2>3 DEF KeptInv, Doomed
    <2> QED
      BY <1>1, <1>10, <2>2, <2>3, <2>4 DEF KeptInv
  <1>11. ASSUME NEW c \in Cleaners, RemoveExcess(c) PROVE KeptInv'
    <2> DEFINE b == Min(excess[c])
    <2>1. b \in excess[c]
      <3>1. excess[c] \in SUBSET Nat /\ excess[c] # {}
        BY <1>0, <1>11 DEF RemoveExcess
      <3>2. \E m \in excess[c] : \A x \in excess[c] : m <= x
        BY <3>1, Least
      <3> QED
        BY <3>2 DEF Min
    <2>2. cpc[c] = "remove" /\ RemoveFile(b) /\ excess' = [excess EXCEPT ![c] = @ \ {b}]
          /\ UNCHANGED <<clock, rotated, live, acked, cpc, cutoff>>
      BY <1>11 DEF RemoveExcess
    <2> HIDE DEF b
    <2>3. Cardinality(NamesAfter(b)) >= MaxBackups
      BY <2>1, <2>2 DEF KeptInv, Doomed
    <2>4. \A d \in Cleaners : excess'[d] \subseteq excess[d]
      BY <1>0, <2>2
    <2>5. CASE backups' = [x \in Names \ {b} |-> backups[x]]
      BY <1>10, <2>2, <2>3, <2>4, <2>5
    <2>6. CASE backups' = backups
      BY <1>1, <2>2, <2>4, <2>6, QuietKept
    <2> QED
      BY <2>2, <2>5, <2>6 DEF RemoveFile
  <1>12. ASSUME NEW c \in Cleaners, RemoveAged(c) PROVE KeptInv'
    <2>1. cpc[c] = "remove" /\ UNCHANGED <<clock, rotated, live, acked, cpc, cutoff, excess>>
      BY <1>12 DEF RemoveAged
    <2>2. CASE backups' = backups
      BY <1>1, <2>1, <2>2, QuietKept
    <2>3. CASE backups' # backups
      <3>1. PICK b : backups[b].mtime < cutoff[c] /\ RemoveFile(b)
        BY <1>12, <2>3 DEF RemoveAged
      <3>2. backups' = [x \in Names \ {b} |-> backups[x]]
        BY <2>3, <3>1 DEF RemoveFile
      <3> QED
        BY <1>10, <2>1, <3>1, <3>2
    <2> QED
      BY <2>2, <2>3
  <1> QED
    BY <1>2, <1>3, <1>4, <1>5, <1>6, <1>7, <1>8, <1>9, <1>11, <1>12 DEF Next

-----------------------------------------------------------------------------
\* The empty directory.
LEMMA InitBoundKept == Init => Bounding /\ KeptInv
  <1> SUFFICES ASSUME Init PROVE Bounding /\ KeptInv
    OBVIOUS
  <1>1. Names = {} /\ rotated = <<>> /\ live = <<>> /\ acked = <<>> /\ \A c \in Cleaners : cpc[c] = "off"
    BY DEF Init, Names
  <1>2. Bounding
    BY <1>1, FS_EmptySet, WriterAssumption DEF Bounding
  <1>3. RotatedLog = <<>>
    <2>1. Len(Recs(rotated)) = 0 /\ Recs(rotated) = <<>>
      BY <1>1 DEF Recs
    <2> QED
      BY <2>1 DEF RotatedLog, FlattenSeq
  <1>4. NamesGrow /\ Doomed /\ \A i \in 1..Len(rotated) : Kept(i)
    BY <1>1 DEF NamesGrow, Doomed
  <1>5. <<>> \in Seq(Nat) /\ <<>> \o <<>> = <<>>
    OBVIOUS
  <1> QED
    BY <1>1, <1>2, <1>3, <1>4, <1>5 DEF KeptInv

\* The three invariants together.
LEMMA WriterSafe == Spec => [](WriterInv /\ Bounding /\ KeptInv)
  BY WriterInit, InitBoundKept, WriterStep, BoundStep, KeptStep, PTL DEF Spec

\* writer.go:70-83: rw.size, on which the decision to rotate is taken, is the size of the
\* file at filePath as long as that is open.
THEOREM WriterSizeHonest == Spec => []SizeHonest
  <1>1. WriterInv => SizeHonest
    BY DEF WriterInv, Sized, SizeHonest
  <1> QED
    BY <1>1, WriterSafe, PTL

\* writer.go:27-30: at most maxBackups rotated files are kept, whatever cleanups overlap.
THEOREM WriterBackupsBounded == Spec => []BackupsBounded
  <1>1. Bounding => BackupsBounded
    BY DEF Bounding, BackupsBounded
  <1> QED
    BY <1>1, WriterSafe, PTL

\* writer.go:96-171: rotations and cleanups lose no record that was acknowledged, but for
\* the backups that are too many, too old, or overwritten.
THEOREM WriterRetained == Spec => []Retained
  <1>1. WriterInv /\ KeptInv => Retained
    <2> SUFFICES ASSUME WriterInv, KeptInv PROVE Retained
      OBVIOUS
    <2>1. FlattenSeq([i \in DOMAIN rotated |-> rotated[i].recs]) \o live = acked
      BY DEF KeptInv, RotatedLog, Recs
    <2>2. DOMAIN rotated = 1..Len(rotated)
      BY DEF WriterInv, Histories
    <2>3. \A i \in DOMAIN rotated : Kept(i)
      BY <2>2 DEF KeptInv
    <2> QED
      BY <2>1, <2>3, Zenon DEF Kept, NamesFrom, Retained
  <1> QED
    BY <1>1, WriterSafe, PTL
=============================================================================
